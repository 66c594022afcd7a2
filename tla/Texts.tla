------------------------------- MODULE Texts -------------------------------
(***************************************************************************)
(* The string functions of usefull.c and data_use.c.  A text is a sequence *)
(* of tokens: a word the code looks for ("filename=", nine dashes, the     *)
(* name of a parameter) is one token, every other character stands for     *)
(* itself.  0 is the place of what is not found: the NULL of strstr.       *)
(***************************************************************************)
EXTENDS RedisRecord, SequencesExt

CRLF    == <<"CR", "LF">>
NameKey == "filename="      \* the quote that follows it is a token of its own
Dashes  == "---------"
Source  == "source ip address:"
Null    == <<"null">>
Beyond  == <<"beyond">>     \* read behind the end of the text

Has(s, key) == Places(s, key, 1) # {}

\* The n-th place of key in s: the pointer after n calls of strstr, each one
\* behind the place before.
Nth(s, key, n) ==
    LET nth[i \in 1 .. n] == StrStr(s, key, IF i = 1 THEN 1 ELSE nth[i - 1] + 1)
    IN  nth[n]

MemStr(data, key) == IF Has(data, key) THEN StrStr(data, key, 1) ELSE 0
-----------------------------------------------------------------------------
(* upload_file: the name stands behind filename=" and ends before the      *)
(* quote that closes the second line; the file begins behind the fourth    *)
(* end of line and ends two bytes before the first nine dashes.            *)

Ends(body) == Cardinality(Places(body, CRLF, 1))

\* The loop that looks for the third end of line has something to start from.
HasName(body) == Has(body, <<NameKey>>) /\ Ends(body) >= 3

\* A slip to be caught: one more end of line is asked for.
HasHeaders_OneMore(body) == Has(body, <<NameKey>>) /\ Ends(body) >= 5

HasHeaders(body) == Has(body, <<NameKey>>) /\ Ends(body) >= 4

FileName(body) ==
    SubSeq(body, StrStr(body, <<NameKey>>, 1) + 2, Nth(body, CRLF, 2) - 2)

Rest(body) == SubSeq(body, Nth(body, CRLF, 4) + 2, Len(body))

\* A slip to be caught: the end of line before the boundary is taken along.
FileLength_KeepsEol(body) == MemStr(Rest(body), <<Dashes>>) - 1

\* len2, when the dashes are found: below zero with less than two bytes before them.
FileLength(body) == MemStr(Rest(body), <<Dashes>>) - 1 - Len(CRLF)
-----------------------------------------------------------------------------
(* trim_space, and the texts the FastDFS tools print.                      *)

\* A slip to be caught: white space is only looked for at the end.
TrimSpace_Right(s) ==
    LET ink == {i \in DOMAIN s : s[i] \notin {"SP", "CR", "LF"}}
    IN  IF ink = {} THEN << >> ELSE SubSeq(s, 1, Max(ink))

TrimSpace(s) ==
    LET ink == {i \in DOMAIN s : s[i] \notin {"SP", "CR", "LF"}}
    IN  IF ink = {} THEN << >> ELSE SubSeq(s, Min(ink), Max(ink))

HasAddress(info) ==
    Has(info, <<Source>>) /\ Places(info, <<"LF">>, StrStr(info, <<Source>>, 1)) # {}

\* get_url: the address ends its line; the url is made of it and the file_id.
Address(info) ==
    LET begin == StrStr(info, <<Source>>, 1) + 1
    IN  TrimSpace(SubSeq(info, begin, StrStr(info, <<"LF">>, begin) - 1))

UrlOf(ip, id) == <<"http://">> \o ip \o <<"/">> \o id

\* get_ip_url: the url up to the group of the file.
GetIpUrl(url) ==
    IF Has(url, <<"/", "group">>) THEN SubSeq(url, 1, StrStr(url, <<"/", "group">>, 1) - 1)
    ELSE Null

\* get_file_suffix: what follows the first dot.
GetFileSuffix(name) ==
    LET dot == MemStr(name, <<".">>)
    IN  IF dot \in {0, Len(name)} THEN Null ELSE SubSeq(name, dot + 1, Len(name))
-----------------------------------------------------------------------------
(* get_query_string: the value begins one behind the first place the key   *)
(* is found at, in whatever parameter, and ends before # or &.             *)

\* A slip to be caught: only the end of the text ends a value.
GetQueryString_ToEnd(query, key) ==
    LET value == MemStr(query, <<key>>) + 2
    IN  IF ~ Has(query, <<key>>) THEN << >>
        ELSE IF value > Len(query) + 1 THEN Beyond
        ELSE SubSeq(query, value, Len(query))

GetQueryString(query, key) ==
    LET value == MemStr(query, <<key>>) + 2
        ends  == {i \in value .. Len(query) : query[i] \in {"#", "&"}}
    IN  IF ~ Has(query, <<key>>) THEN << >>
        ELSE IF value > Len(query) + 1 THEN Beyond
        ELSE SubSeq(query, value, Min(ends \cup {Len(query) + 1}) - 1)

(***************************************************************************)
(* str_replace, for a key whose places do not overlap.  The copy is made   *)
(* in memory that held junk: it stays behind the part before the first     *)
(* key, which strncpy does not end.  Only as many characters as src had    *)
(* are copied back.                                                        *)
(***************************************************************************)
StrReplace(src, key, replace, junk) ==
    LET found    == Places(src, key, 1)
        Keeps(i) == \A k \in found : i \notin k .. k + Len(key) - 1
        first    == IF found = {} THEN 1 ELSE Min(found)
        Piece(i) == (IF i = first THEN junk ELSE << >>)
                      \o (IF i \in found THEN replace
                          ELSE IF Keeps(i) THEN <<src[i]>> ELSE << >>)
        copy     == FlattenSeq([i \in DOMAIN src |-> Piece(i)])
    IN  SubSeq(copy, 1, Min({Len(copy), Len(src)}))
==============================================================================
