---------------------------- MODULE MCFileService ----------------------------
(***************************************************************************)
(* Small instances of FileService for TLC.                                 *)
(***************************************************************************)
EXTENDS FileService, TLC

CONSTANTS u1, u2, u3, r1, r2, r3, r4, r5

Text(c) == <<c>>

\* A record of an upload: its url may be missing.
RecordOf(id, url) == <<Text(id), url, Text("n"), Text("t"), Text("user"), Text("k")>>

\* Two sound records.
SoundFields == (u1 :> RecordOf("a", Text("x")) @@ u2 :> RecordOf("b", Text("x")))

\* The last record has no url: upload.c goes on when get_url fails.
GapFields == SoundFields @@ (u3 :> RecordOf("c", << >>))

\* Two clicks on the first file, and two listings around them.
ClickCmd == (r1 :> "increase" @@ r2 :> "increase" @@ r3 :> "newFile" @@ r4 :> "newFile")

\* Listings of every kind, a click and a command data_cgi does not know.
MixedCmd == (r1 :> "newFile" @@ r2 :> "newFile" @@ r3 :> "increase" @@ r4 :> "newFile"
               @@ r5 :> "other")

ClickFrom == [r \in Requests |-> 0]
MixedFrom == (r1 :> 0 @@ r2 :> 1 @@ r3 :> 0 @@ r4 :> 0 @@ r5 :> 0)

\* The second listing asks for no rows, and LRANGE gives it all of them.
ClickCount == (r1 :> 0 @@ r2 :> 0 @@ r3 :> 3 @@ r4 :> 0)
PairCount == [r \in Requests |-> 2]
MixedCount == (r1 :> 2 @@ r2 :> 2 @@ r3 :> 0 @@ r4 :> 0 @@ r5 :> 0)

ClickOnFirst == [r \in Requests |-> Text("a")]

NoFaults == {}

\* What may go wrong around a request without changing its answer.
Stops == {"upload_dies", "restart"}

AllFaults == FaultKinds
==============================================================================
