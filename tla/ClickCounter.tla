----------------------------- MODULE ClickCounter -----------------------------
(***************************************************************************)
(* What FILE_HOT_ZSET promises: a file's score rises by one for its upload *)
(* and by one for each click, at most once each and never for nothing.     *)
(* Points may be forgotten: a process ends, Redis refuses a command, or a  *)
(* click's file_id is garbled on the way.                                  *)
(***************************************************************************)
EXTENDS Naturals

CONSTANT Files

VARIABLES
    score,      \* the points of each file
    owed        \* points somebody has asked for and nobody has counted yet

vars == <<score, owed>>

Init ==
    /\ score = [f \in Files |-> 0]
    /\ owed = [f \in Files |-> 0]

\* A file is listed, or a click on it is taken from a client.
Ask(f) ==
    /\ owed' = [owed EXCEPT ![f] = @ + 1]
    /\ UNCHANGED score

Tally(f) ==
    /\ owed[f] > 0
    /\ owed' = [owed EXCEPT ![f] = @ - 1]
    /\ score' = [score EXCEPT ![f] = @ + 1]

Forget(f) ==
    /\ owed[f] > 0
    /\ owed' = [owed EXCEPT ![f] = @ - 1]
    /\ UNCHANGED score

Next == \E f \in Files : Ask(f) \/ Tally(f) \/ Forget(f)

Spec == Init /\ [][Next]_vars
==============================================================================
