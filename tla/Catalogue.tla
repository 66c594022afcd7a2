------------------------------ MODULE Catalogue ------------------------------
(***************************************************************************)
(* What the upload service promises its readers, seen from FastDFS and     *)
(* Redis only: the files FastDFS keeps, and the list FILE_INFO_LIST that    *)
(* catalogues them.                                                        *)
(*                                                                         *)
(*   - a file, once stored, is never changed or removed;                   *)
(*   - the file of one request is stored at most once;                     *)
(*   - the list only grows, one record per push, and a request is listed   *)
(*     at most once;                                                       *)
(*   - a record that names a file names the file of its own request, and   *)
(*     its url is the url of that file or absent.                          *)
(*                                                                         *)
(* UploadWorker implements this specification, whatever fails.             *)
(***************************************************************************)
EXTENDS Naturals, Sequences

CONSTANTS
    Requests,   \* the uploads that clients send
    FileIds,    \* the names FastDFS can give to a file
    NoId,       \* the empty string where a file_id or a url is expected
    NoFile      \* no file under this name

VARIABLES
    stored,     \* FastDFS: the content kept under each file_id
    list        \* FILE_INFO_LIST, oldest record first

vars == <<stored, list>>

(***************************************************************************)
(* A content is the request it came from, and whether it is all of the     *)
(* file the client sent.                                                   *)
(***************************************************************************)
Contents == Requests \X BOOLEAN

ContentOf(r) == {<<r, TRUE>>, <<r, FALSE>>}

Records == [req : Requests, id : FileIds \cup {NoId}, url : FileIds \cup {NoId}]

IsStored(r) == \E i \in FileIds : stored[i] \in ContentOf(r)

IsListed(r) == \E k \in DOMAIN list : list[k].req = r

Init ==
    /\ stored = [i \in FileIds |-> NoFile]
    /\ list = << >>

Store(r, i, whole) ==
    /\ stored[i] = NoFile
    /\ ~ IsStored(r)
    /\ stored' = [stored EXCEPT ![i] = <<r, whole>>]
    /\ UNCHANGED list

Publish(r, i, u) ==
    /\ ~ IsListed(r)
    /\ i # NoId => stored[i] \in ContentOf(r)
    /\ u \in {i, NoId}
    /\ list' = Append(list, [req |-> r, id |-> i, url |-> u])
    /\ UNCHANGED stored

Next ==
    \E r \in Requests :
        \/ \E i \in FileIds, whole \in BOOLEAN : Store(r, i, whole)
        \/ \E i, u \in FileIds \cup {NoId} : Publish(r, i, u)

Spec == Init /\ [][Next]_vars
==============================================================================
