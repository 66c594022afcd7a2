------------------------------- MODULE MakeLog -------------------------------
(***************************************************************************)
(* The file log (make_log.c): each process makes the directories of its    *)
(* line, one system call at a time, and appends the line to a file in the  *)
(* last of them.  The mutex of the library is one per process, and each    *)
(* process has one thread: between processes nothing is locked.            *)
(***************************************************************************)
EXTENDS Integers, Sequences, FiniteSets

CONSTANTS
    Procs,      \* the processes that write to the log
    Lines,      \* bound: the lines each process writes in turn, each given by the
                \* names of its directories from ./logs down
    Faults      \* what may go wrong in a behaviour

FaultKinds == { "mkdir",    \* mkdir fails though nothing is there
                "open",     \* open or write fails
                "dies" }    \* the process ends inside a call and is started again

Depth == 4                  \* ./logs, module, year, month

ASSUME LogAssumption ==
    /\ DOMAIN Lines = Procs
    /\ \A p \in Procs : Lines[p] \in Seq(Seq(STRING))
    /\ \A p \in Procs : \A n \in DOMAIN Lines[p] : Len(Lines[p][n]) = Depth
    /\ Faults \subseteq FaultKinds

VARIABLES
    dirs,       \* the directories that exist
    pc,         \* where each process is in its call
    count,      \* how many calls it has begun
    level,      \* the directory it is at: 1 is ./logs
    cause,      \* what went wrong in its last call
    result,     \* what became of the line of that call
    races,      \* how often it found a directory made before its own mkdir
    failed      \* some call of some process failed or was cut off

calls == <<pc, count, level>>
fate  == <<cause, result, races, failed>>
vars  == <<dirs, calls, fate>>

Locations == {"idle", "access", "mkdir", "output"}

Init ==
    /\ dirs = {}
    /\ pc = [p \in Procs |-> "idle"]
    /\ count = [p \in Procs |-> 0]
    /\ level = [p \in Procs |-> 1]
    /\ cause = [p \in Procs |-> "none"]
    /\ result = [p \in Procs |-> "none"]
    /\ races = [p \in Procs |-> 0]
    /\ failed = FALSE

\* The directory process p is at, and the one of its file.
Here(p) == SubSeq(Lines[p][count[p]], 1, level[p])
Last(p) == Lines[p][count[p]]

At(p, l) == pc[p] = l

Goto(p, l) == pc' = [pc EXCEPT ![p] = l]

\* On with the next directory, or with the file after the last.
GoDeeper(p, l) ==
    IF level[p] = Depth THEN Goto(p, "output") /\ UNCHANGED level
    ELSE Goto(p, l) /\ level' = [level EXCEPT ![p] = @ + 1]

\* dumpmsg_to_file calls make_path with the time of the call.
DumpmsgToFile(p) ==
    /\ At(p, "idle")
    /\ count[p] < Len(Lines[p])
    /\ count' = [count EXCEPT ![p] = @ + 1]
    /\ level' = [level EXCEPT ![p] = 1]
    /\ Goto(p, "access")
    /\ cause' = [cause EXCEPT ![p] = "none"]
    /\ result' = [result EXCEPT ![p] = "none"]
    /\ UNCHANGED <<dirs, races, failed>>

\* A slip to be caught: the last look is for d_dir, which nothing makes.
Access_DayDir(p) ==
    /\ At(p, "access")
    /\ IF Here(p) \in dirs /\ level[p] < Depth THEN GoDeeper(p, "access")
       ELSE Goto(p, "mkdir") /\ UNCHANGED level
    /\ UNCHANGED <<dirs, count, fate>>

\* A slip to be caught: whatever is missing, only the last directory is made.
Access_Deepest(p) ==
    /\ At(p, "access")
    /\ IF Here(p) \in dirs THEN GoDeeper(p, "access")
       ELSE Goto(p, "mkdir") /\ level' = [level EXCEPT ![p] = Depth]
    /\ UNCHANGED <<dirs, count, fate>>

\* The chain of access calls looks for the first directory that is missing.
Access(p) ==
    /\ At(p, "access")
    /\ IF Here(p) \in dirs THEN GoDeeper(p, "access")
       ELSE Goto(p, "mkdir") /\ UNCHANGED level
    /\ UNCHANGED <<dirs, count, fate>>

\* A slip to be caught: one directory is made in a call.
Mkdir_One(p) ==
    /\ At(p, "mkdir")
    /\ Here(p) \notin dirs
    /\ dirs' = dirs \cup {Here(p)}
    /\ Goto(p, "output")
    /\ UNCHANGED <<count, level, fate>>

\* From there on directories are made without looking.
Mkdir(p) ==
    /\ At(p, "mkdir")
    /\ Here(p) \notin dirs
    /\ dirs' = dirs \cup {Here(p)}
    /\ GoDeeper(p, "mkdir")
    /\ UNCHANGED <<count, fate>>

\* mkdir finds the directory made: that is a failure like any other, and the
\* directories below are not made.
MkdirExists(p) ==
    /\ At(p, "mkdir")
    /\ Here(p) \in dirs
    /\ cause' = [cause EXCEPT ![p] = "race"]
    /\ races' = [races EXCEPT ![p] = @ + 1]
    /\ Goto(p, "output")
    /\ UNCHANGED <<dirs, count, level, result, failed>>

Fails(p) ==
    /\ cause' = [cause EXCEPT ![p] = "failure"]
    /\ failed' = TRUE

MkdirFails(p) ==
    /\ "mkdir" \in Faults
    /\ At(p, "mkdir")
    /\ Goto(p, "output")
    /\ Fails(p)
    /\ UNCHANGED <<dirs, count, level, result, races>>

Return(p, end) ==
    /\ Goto(p, "idle")
    /\ result' = [result EXCEPT ![p] = end]
    /\ UNCHANGED <<dirs, count, level, races>>

\* out_put_file: open creates the file but no directory, and write on the -1 of
\* a failed open fails.
OutPutFile(p) ==
    /\ At(p, "output")
    /\ Return(p, IF Last(p) \in dirs THEN "written" ELSE "lost")
    /\ UNCHANGED <<cause, failed>>

OpenFails(p) ==
    /\ "open" \in Faults
    /\ At(p, "output")
    /\ Return(p, "lost")
    /\ Fails(p)

Dies(p) ==
    /\ "dies" \in Faults
    /\ ~ At(p, "idle")
    /\ Return(p, "lost")
    /\ Fails(p)

\* Nothing is left to write.
Resting ==
    /\ \A p \in Procs : At(p, "idle") /\ count[p] = Len(Lines[p])
    /\ UNCHANGED vars

Log(p) == DumpmsgToFile(p) \/ Access(p) \/ Mkdir(p) \/ MkdirExists(p)
            \/ MkdirFails(p) \/ OutPutFile(p) \/ OpenFails(p)

Next == (\E p \in Procs : Log(p) \/ Dies(p)) \/ Resting

Spec == Init /\ [][Next]_vars

-----------------------------------------------------------------------------
(* Properties.                                                             *)

(* Every variable holds a value of its kind, and no directory is without   *)
(* the one above it, so that mkdir never fails for want of one.            *)
TypeOK ==
    /\ \A d \in dirs : Len(d) \in 1 .. Depth
    /\ \A d \in dirs : Len(d) > 1 => SubSeq(d, 1, Len(d) - 1) \in dirs
    /\ \A p \in Procs : At(p, "mkdir") /\ level[p] > 1
                            => SubSeq(Here(p), 1, level[p] - 1) \in dirs
    /\ pc \in [Procs -> Locations]
    /\ level \in [Procs -> 1 .. Depth]
    /\ count \in [Procs -> Nat]
    /\ cause \in [Procs -> {"none", "race", "failure"}]
    /\ result \in [Procs -> {"none", "written", "lost"}]

(* A line is lost only if its own call failed, or met a directory that     *)
(* another process had just made: whatever half-made directories others,   *)
(* or a crash, left behind, an undisturbed call is written                 *)
(* (make_path, make_log.c 107-170).                                        *)
LostHasCause ==
    \A p \in Procs : result[p] = "lost" => cause[p] # "none"

(* Races are few: a process loses to each directory at most once, for at   *)
(* its next call it finds that directory there, however many lines it      *)
(* writes and whoever makes directories meanwhile.                         *)
RacesBounded == \A p \in Procs : races[p] <= Cardinality(dirs)

Below(d, e) == Len(d) <= Len(e) /\ SubSeq(e, 1, Len(d)) = d

(* No directory is left empty: while no call fails, one without a complete *)
(* chain below it has a process that is making the next directory there.   *)
(* It need not be the chain of the process that stopped: the winner of     *)
(* ./logs may go on under another module, or another year.                 *)
NoDirectoryAbandoned ==
    ~ failed =>
        \A d \in dirs :
            \/ \E e \in dirs : Len(e) = Depth /\ Below(d, e)
            \/ \E p \in Procs : At(p, "mkdir") /\ Below(d, Here(p))
==============================================================================
