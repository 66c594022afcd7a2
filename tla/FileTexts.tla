------------------------------ MODULE FileTexts ------------------------------
(***************************************************************************)
(* The texts of one file on their way through both workers: the body of    *)
(* the upload, the temporary file, what the FastDFS tools print, the       *)
(* element of FILE_INFO_LIST, the row a listing makes of it, and the query *)
(* with which a client clicks that row.  Other files do not touch these    *)
(* texts, so one is enough.                                                *)
(***************************************************************************)
EXTENDS Texts

CONSTANTS
    Given,      \* what the client and the tools give for the file
    Junk        \* what memory may hold that nobody has written to

\* A name has no end of line.  The id of a stored file begins with its group.
\* Of a file that was not stored the second tool has no server to name, and the
\* address of a server has neither white space nor a slash.
Possible(g) ==
    /\ DOMAIN g = {"name", "bytes", "cut", "printed", "pipe", "server"}
    /\ {g.name, g.bytes, g.printed, g.server} \subseteq Seq(STRING)
    /\ g.cut \in Nat
    /\ g.pipe \in BOOLEAN
    /\ \A i \in DOMAIN g.name : g.name[i] # "CR"
    /\ g.printed # << >> => g.printed[1] = "group"
    /\ g.server # << >> => g.printed # << >>
    /\ \A i \in DOMAIN g.server : g.server[i] \notin {"SP", "CR", "LF", "/"}

ASSUME GivenAssumption == \A g \in Given : Possible(g)

ASSUME JunkAssumption == Junk \subseteq Seq(STRING)

VARIABLES
    given,      \* name and bytes of the client's file, how much of the body comes,
                \* what the tools print, and whether get_url has a pipe
    pc,         \* what has been done; no_file, no_url and no_row: a worker crashed there
    name,       \* filename
    file,       \* the temporary file, as it is stored
    id, url,    \* file_id and fdfs_file_url
    row,        \* the fields of the row
    picture,    \* the two parts of picurl_m that vary: address and type
    query,      \* QUERY_STRING of the click
    junk,       \* what str_replace finds in its memory
    cmd, member \* what data_cgi makes of the query

upload == <<name, file>>
remote == <<id, url>>
shown  == <<row, picture>>
click  == <<query, junk, cmd, member>>
vars   == <<given, pc, upload, remote, shown, click>>

\* The form browsers send a file in.
Form(g) ==
    <<Dashes, "b", "CR", "LF", NameKey, "quote">> \o g.name
        \o <<"quote", "CR", "LF", "type", "CR", "LF", "CR", "LF">> \o g.bytes
        \o <<"CR", "LF", Dashes, "b", "CR", "LF">>

\* What the second tool prints: lines, and the address in one of them.
Info(g) ==
    IF g.server = << >> THEN << >>
    ELSE <<"line", "LF", Source, "SP">> \o g.server \o <<"LF", "line", "LF">>

\* The worker keeps what has come when the connection ends early.
Body == SubSeq(Form(given), 1, Min({given.cut, Len(Form(given))}))

Init ==
    /\ given \in Given
    /\ pc = "upload"
    /\ name = << >>
    /\ file = << >>
    /\ id = << >>
    /\ url = << >>
    /\ row = << >>
    /\ picture = << >>
    /\ query = << >>
    /\ junk = << >>
    /\ cmd = << >>
    /\ member = << >>
-----------------------------------------------------------------------------
(* upload.c                                                                *)

(***************************************************************************)
(* What fwrite is given.  With three ends of line p is 2 and len2 is -4,   *)
(* and with dashes in the first two bytes of the file it is negative too:  *)
(* nothing is written.  Without dashes s is -2 and len2 whatever the       *)
(* address makes it: fwrite writes nothing, or what stands in memory from  *)
(* p on, as far as it goes.                                                *)
(***************************************************************************)
Written(body) ==
    IF ~ HasHeaders(body) THEN {<< >>}
    ELSE IF Has(Rest(body), <<Dashes>>) THEN {SubSeq(Rest(body), 1, FileLength(body))}
    ELSE UNION {Prefixes(Rest(body) \o memory) : memory \in Junk}

UploadFile ==
    /\ pc = "upload"
    /\ HasName(Body)
    /\ name' = FileName(Body)
    /\ \/ name' = << >> /\ pc' = "end" /\ UNCHANGED file      \* fopen fails
       \/ name' # << >> /\ pc' = "fdfs" /\ file' \in Written(Body)
    /\ UNCHANGED <<given, remote, shown, click>>

\* No name, or fewer than three ends of line: a NULL pointer is read from.  With
\* three memstr reads from address 2, unless its length comes out negative.
UploadFileCrashes ==
    /\ pc = "upload"
    /\ ~ HasHeaders(Body)
    /\ pc' = "no_file"
    /\ UNCHANGED <<given, upload, remote, shown, click>>

FdfsClient ==
    /\ pc = "fdfs"
    /\ id' = TrimSpace(given.printed)
    /\ pc' = "url"
    /\ UNCHANGED <<given, upload, url, shown, click>>

\* Without a pipe the url stays empty, and main goes on.
GetUrl ==
    /\ pc = "url"
    /\ \/ ~ given.pipe /\ UNCHANGED url
       \/ given.pipe /\ HasAddress(Info(given)) /\ url' = UrlOf(Address(Info(given)), id)
    /\ pc' = "listed"
    /\ UNCHANGED <<given, upload, id, shown, click>>

GetUrlCrashes ==
    /\ pc = "url"
    /\ given.pipe /\ ~ HasAddress(Info(given))
    /\ pc' = "no_url"
    /\ UNCHANGED <<given, upload, remote, shown, click>>

\* What write_redis is given and adds; upload.c has overwritten the user.
Record == <<id, url, name, <<"time">>, <<"user">>, GetFileSuffix(name)>>

\* The element it pushes.
Element == Value(Record)
-----------------------------------------------------------------------------
(* read_redis_to_json, without the type, and with the picture of the type. *)

Columns == Words \ {6}

Survives == ~ Crashes(Element)

ReadRow ==
    /\ pc = "listed"
    /\ Survives
    /\ row' = [n \in Columns |-> Get(Element, n)]
    /\ picture' = <<GetIpUrl(row'[2]), GetFileSuffix(row'[3])>>
    /\ pc' = "shown"
    /\ UNCHANGED <<given, upload, remote, click>>

ReadRowCrashes ==
    /\ pc = "listed"
    /\ ~ Survives
    /\ pc' = "no_row"
    /\ UNCHANGED <<given, upload, remote, shown, click>>
-----------------------------------------------------------------------------
(* A click: the client writes each / of the id as %2F and may put the      *)
(* parameters in either order; data_cgi takes the query apart.             *)

Escaped(s) ==
    FlattenSeq([i \in DOMAIN s |-> IF s[i] = "/" THEN <<"%", "2", "F">> ELSE <<s[i]>>])

CmdPart  == <<"cmd", "=", "increase">>
FilePart == <<"fileId", "=">> \o Escaped(row[1])

Queries == {CmdPart \o <<"&">> \o FilePart, FilePart \o <<"&">> \o CmdPart}

Click ==
    /\ pc = "shown"
    /\ query' \in Queries
    /\ pc' = "clicked"
    /\ UNCHANGED <<given, upload, remote, shown, junk, cmd, member>>

\* get_cmd, get_file_id and str_replace; another command does nothing.
Increase ==
    /\ pc = "clicked"
    /\ cmd' = GetQueryString(query, "cmd")
    /\ \/ /\ cmd' = <<"increase">>
          /\ junk' \in Junk
          /\ member' = StrReplace(GetQueryString(query, "fileId"),
                                  <<"%", "2", "F">>, <<"/">>, junk')
          /\ pc' = "counted"
       \/ /\ cmd' # <<"increase">>
          /\ pc' = "ignored"
          /\ UNCHANGED <<junk, member>>
    /\ UNCHANGED <<given, upload, remote, shown, query>>

Next == \/ UploadFile \/ UploadFileCrashes \/ FdfsClient \/ GetUrl \/ GetUrlCrashes
        \/ ReadRow \/ ReadRowCrashes \/ Click \/ Increase

Spec == Init /\ [][Next]_vars
-----------------------------------------------------------------------------
\* Where the bytes of the file begin in the body, and where its boundary is.
FileBegins(g) == 6 + Len(g.name) + 8
BoundaryAt(g) == Len(Form(g)) - 3

(* What is stored is the client's file, whole, or as far as the first nine *)
(* dashes in it, less two bytes.  Only when the body ends before its       *)
(* boundary may there be less, or something else behind what came: nothing *)
(* of what came is ever stored wrong (upload_file, usefull.c 124-149).     *)
StoredIsSent ==
    pc \notin {"upload", "no_file", "end"} =>
        \/ file = given.bytes
        \/ /\ Has(given.bytes, <<Dashes>>)
           /\ file = SubSeq(given.bytes, 1, StrStr(given.bytes, <<Dashes>>, 1) - 3)
        \/ /\ given.cut < BoundaryAt(given)
           /\ \A i \in DOMAIN file \cap DOMAIN given.bytes :
                 FileBegins(given) + i <= given.cut => file[i] = given.bytes[i]

(* A worker ends over a text only when the body ends before the bytes of   *)
(* the file begin, when the tool printed no address, or over a record with *)
(* an empty field or a delimiter in a field (usefull.c 90-134, 535-537;    *)
(* data_use.c 76-88).                                                      *)
CrashHasCause ==
    /\ pc = "no_file" => given.cut < FileBegins(given)
    /\ pc = "no_url" => given.server = << >>
    /\ pc = "no_row" => ~ (Readable(Record) /\ Complete(Record))

(* A row has the fields write_redis was given, for every record whose      *)
(* fields are not empty, hold no delimiter and do not end in half of one;  *)
(* a bar may stand anywhere else (get_value_by_redis, data_use.c 11-157).  *)
ReadBack ==
    row # << >> /\ Readable(Record) /\ Complete(Record) =>
        \A n \in Columns : row[n] = Record[n]

(* The picture of a row is the one of the recorded type, on the server the *)
(* storage tool named (data_use.c 246-257, usefull.c 318-322 and 539-548). *)
PictureMatches ==
    picture # << >> /\ Readable(Record) /\ Complete(Record) =>
        picture = <<<<"http://">> \o given.server, Record[6]>>

(* A click names the file of its row, unless the memory of str_replace was *)
(* not clean; it is ignored only when the file comes before the command    *)
(* and has the letters of "cmd" in its id (usefull.c 434-475, data_use.c   *)
(* 343-406).                                                               *)
ClickNamesRow ==
    /\ pc = "counted" /\ junk = << >> => member = row[1]
    /\ pc = "ignored" => Has(row[1], <<"cmd">>) /\ query[1] = "fileId"
==============================================================================
