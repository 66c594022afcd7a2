--------------------------- MODULE MCUploadWorker ---------------------------
(***************************************************************************)
(* Small instances of UploadWorker for TLC.                                *)
(***************************************************************************)
EXTENDS UploadWorker, TLC

CONSTANTS p1, p2, p3, r1, r2, r3, r4, n1, n2, i1, i2, i3, i4

\* Three uploads under one file name: a good one, one with the boundary's dashes
\* inside the file, and one that breaks off.
MCForm == (r1 :> "good" @@ r2 :> "dashes" @@ r3 :> "cut")
MCName == (r1 :> n1 @@ r2 :> n1 @@ r3 :> n1)

\* A request of each form but "dashes", which is served as a good one is.
MixedForm == (r1 :> "good" @@ r2 :> "malformed" @@ r3 :> "nodata" @@ r4 :> "cut")
MixedName == (r1 :> n1 @@ r2 :> n1 @@ r3 :> n2 @@ r4 :> n1)

\* Good uploads only: what their number does to the worker.
GoodForm == [r \in Requests |-> "good"]
GoodName == (r1 :> n1 @@ r2 :> n2 @@ r3 :> n1 @@ r4 :> n2)

\* Everything but a restart, which closes every request by itself.
CallFaults == FaultKinds \ {"restart"}

\* Everything but a command that Redis answers with an error.
ReplyFaults == FaultKinds \ {"redis_error"}

\* File ids are interchangeable, and so are the slots of the children.
Symmetry == Permutations(FileIds) \cup Permutations(Procs \ {Root})
==============================================================================
