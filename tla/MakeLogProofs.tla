---------------------------- MODULE MakeLogProofs ----------------------------
(***************************************************************************)
(* What holds of the log directories for every number of processes and     *)
(* lines, and whatever calls fail.  Four layers, each inductive given the  *)
(* first:                                                                  *)
(*   TreeInv    values fit, and a process stands below a made directory;   *)
(*   Written    a call that met nothing has its last directory;            *)
(*   Continued  while no call failed, every directory is above a complete  *)
(*              chain or above one that some process is strictly deeper in;*)
(*   RaceInv    a process that finds the directory it is to make has one   *)
(*              race less than there are directories.                      *)
(***************************************************************************)
EXTENDS MakeLog, SequenceTheorems, FiniteSetTheorems, TLAPS

CallsFit ==
    \A p \in Procs : /\ count[p] \in 0 .. Len(Lines[p])
                     /\ ~ At(p, "idle") => count[p] > 0

PathMade ==
    \A p \in Procs : pc[p] \in {"access", "mkdir"} /\ level[p] > 1
                        => SubSeq(Here(p), 1, level[p] - 1) \in dirs

TreeInv == TypeOK /\ dirs \subseteq Seq(STRING) /\ CallsFit /\ PathMade

Written ==
    \A p \in Procs : At(p, "output") /\ cause[p] = "none" => Last(p) \in dirs

CauseInv == Written /\ LostHasCause

Complete(d) == \E e \in dirs : Len(e) = Depth /\ Below(d, e)

Deeper(d, p) == At(p, "mkdir") /\ Below(d, Here(p)) /\ Len(d) < level[p]

Continued == ~ failed => \A d \in dirs : Complete(d) \/ \E p \in Procs : Deeper(d, p)

RaceInv ==
    /\ IsFiniteSet(dirs)
    /\ races \in [Procs -> Nat]
    /\ RacesBounded
    /\ \A p \in Procs :
          At(p, "mkdir") /\ Here(p) \in dirs => races[p] < Cardinality(dirs)

-----------------------------------------------------------------------------
(* Prefixes.                                                               *)

(* A prefix of a prefix is a prefix (make_path builds each path from the   *)
(* one above it, make_log.c 112-125).                                      *)
LEMMA PrefixOfPrefix ==
    ASSUME NEW S, NEW s \in Seq(S), NEW n \in 0 .. Len(s), NEW m \in 0 .. n
    PROVE  /\ SubSeq(s, 1, n) \in Seq(S)
           /\ Len(SubSeq(s, 1, n)) = n
           /\ SubSeq(SubSeq(s, 1, n), 1, m) = SubSeq(s, 1, m)
<1> DEFINE t == SubSeq(s, 1, n)
           u == SubSeq(t, 1, m)
           v == SubSeq(s, 1, m)
<1>1. t \in Seq(S) /\ Len(t) = n /\ \A i \in 1 .. n : t[i] = s[i]
  BY DEF t
<1>2. u \in Seq(S) /\ Len(u) = m /\ \A i \in 1 .. m : u[i] = t[i]
  <2> HIDE DEF t
  <2> QED BY <1>1
<1>3. v \in Seq(S) /\ Len(v) = m /\ \A i \in 1 .. m : v[i] = s[i]
  OBVIOUS
<1>4. u = v
  <2> HIDE DEF t, u, v
  <2> QED BY <1>1, <1>2, <1>3, SeqEqual
<1> QED BY <1>1, <1>4

(* Being above is reflexive and transitive.                                *)
LEMMA BelowIsOrder ==
    ASSUME NEW d \in Seq(STRING), NEW e \in Seq(STRING), NEW f \in Seq(STRING)
    PROVE  /\ Below(d, d)
           /\ Below(d, e) /\ Below(e, f) => Below(d, f)
<1>1. Below(d, d)
  BY SubSeqFull DEF Below
<1>2. ASSUME Below(d, e), Below(e, f) PROVE Below(d, f)
  <2>1. SubSeq(SubSeq(f, 1, Len(e)), 1, Len(d)) = SubSeq(f, 1, Len(d))
    BY <1>2, PrefixOfPrefix DEF Below
  <2> QED BY <1>2, <2>1 DEF Below
<1> QED BY <1>1, <1>2

(* Where a process in a call stands on its line.                           *)
LEMMA HereOnLine ==
    ASSUME LogAssumption, NEW p \in Procs, count[p] \in 1 .. Len(Lines[p]),
           level[p] \in 1 .. Depth
    PROVE  /\ Last(p) \in Seq(STRING) /\ Len(Last(p)) = Depth
           /\ Here(p) \in Seq(STRING) /\ Len(Here(p)) = level[p]
           /\ level[p] = Depth => Here(p) = Last(p)
           /\ \A m \in 0 .. level[p] : SubSeq(Here(p), 1, m) = SubSeq(Last(p), 1, m)
<1>1. Last(p) \in Seq(STRING) /\ Len(Last(p)) = Depth
  BY DEF LogAssumption, Last
<1>2. Here(p) = SubSeq(Last(p), 1, level[p])
  BY DEF Here, Last
<1>3. level[p] \in 0 .. Len(Last(p))
  BY <1>1 DEF Depth
<1>4. Here(p) \in Seq(STRING) /\ Len(Here(p)) = level[p]
  BY <1>1, <1>2, <1>3, PrefixOfPrefix
<1>5. \A m \in 0 .. level[p] : SubSeq(Here(p), 1, m) = SubSeq(Last(p), 1, m)
  BY <1>1, <1>2, <1>3, PrefixOfPrefix
<1>6. level[p] = Depth => Here(p) = Last(p)
  BY <1>1, <1>2, SubSeqFull
<1> QED BY <1>1, <1>4, <1>5, <1>6

-----------------------------------------------------------------------------
(* Steps of one process.                                                   *)

(* A step of p leaves the other processes where they are and removes no    *)
(* directory.                                                              *)
LEMMA OthersStay ==
    ASSUME TypeOK, NEW p \in Procs, Log(p) \/ Dies(p)
    PROVE  /\ \A q \in Procs \ {p} : /\ pc'[q] = pc[q] /\ count'[q] = count[q]
                                     /\ level'[q] = level[q] /\ cause'[q] = cause[q]
                                     /\ result'[q] = result[q]
           /\ dirs \subseteq dirs'
<1> USE DEF TypeOK, Goto, Return, Fails, GoDeeper, calls, fate
<1>1. CASE DumpmsgToFile(p) BY <1>1 DEF DumpmsgToFile
<1>2. CASE Access(p) BY <1>2 DEF Access
<1>3. CASE Mkdir(p) BY <1>3 DEF Mkdir
<1>4. CASE MkdirExists(p) BY <1>4 DEF MkdirExists
<1>5. CASE MkdirFails(p) BY <1>5 DEF MkdirFails
<1>6. CASE OutPutFile(p) BY <1>6 DEF OutPutFile
<1>7. CASE OpenFails(p) BY <1>7 DEF OpenFails
<1>8. CASE Dies(p) BY <1>8 DEF Dies
<1> QED BY <1>1, <1>2, <1>3, <1>4, <1>5, <1>6, <1>7, <1>8 DEF Log

(* On a line a process goes one directory deeper, or to its file.          *)
LEMMA GoesDeeper ==
    ASSUME pc \in [Procs -> Locations], level \in [Procs -> 1 .. Depth],
           NEW p \in Procs, NEW l \in Locations, GoDeeper(p, l)
    PROVE  /\ pc' \in [Procs -> Locations] /\ level' \in [Procs -> 1 .. Depth]
           /\ level[p] = Depth => pc'[p] = "output" /\ level' = level
           /\ level[p] # Depth => pc'[p] = l /\ level'[p] = level[p] + 1
<1>1. CASE level[p] = Depth
  BY <1>1 DEF GoDeeper, Goto, Locations
<1>2. CASE level[p] # Depth
  <2>1. pc' = [pc EXCEPT ![p] = l] /\ level' = [level EXCEPT ![p] = @ + 1]
    BY <1>2 DEF GoDeeper, Goto
  <2>2. level[p] + 1 \in 1 .. Depth
    BY <1>2 DEF Depth
  <2> QED BY <1>2, <2>1, <2>2
<1> QED BY <1>1, <1>2

(* Where a step of p takes p: it begins at ./logs, stays, or goes one      *)
(* deeper once the directory it was at is there.                           *)
LEMMA OneMoves ==
    ASSUME LogAssumption, TypeOK, CallsFit, NEW p \in Procs, Log(p) \/ Dies(p)
    PROVE  /\ pc'[p] \in Locations /\ level'[p] \in 1 .. Depth
           /\ count'[p] \in 0 .. Len(Lines[p])
           /\ ~ At(p, "idle")' => count'[p] > 0
           /\ ~ At(p, "idle") => count'[p] = count[p]
           /\ \/ dirs' = dirs
              \/ At(p, "mkdir") /\ dirs' = dirs \cup {Here(p)}
           /\ pc'[p] \in {"access", "mkdir"} =>
                 \/ level'[p] = 1
                 \/ /\ pc[p] \in {"access", "mkdir"} /\ level'[p] = level[p]
                 \/ /\ pc[p] \in {"access", "mkdir"} /\ level'[p] = level[p] + 1
                    /\ Here(p) \in dirs'
<1> USE DEF Goto, Return, Fails, calls, fate, At, Locations, Depth
<1>0. /\ pc \in [Procs -> Locations] /\ level \in [Procs -> 1 .. Depth]
      /\ count \in [Procs -> Nat]
      /\ count[p] <= Len(Lines[p]) /\ (pc[p] # "idle" => count[p] > 0)
      /\ Len(Lines[p]) \in Nat
  BY DEF LogAssumption, TypeOK, CallsFit
<1>1. CASE DumpmsgToFile(p) BY <1>0, <1>1 DEF DumpmsgToFile
<1>2. CASE Access(p)
  <2>1. CASE Here(p) \in dirs
    BY <1>0, <1>2, <2>1, GoesDeeper DEF Access
  <2>2. CASE Here(p) \notin dirs
    BY <1>0, <1>2, <2>2 DEF Access
  <2> QED BY <2>1, <2>2
<1>3. CASE Mkdir(p)
  <2>1. /\ pc[p] = "mkdir" /\ dirs' = dirs \cup {Here(p)} /\ count' = count
        /\ Here(p) \in dirs'
    BY <1>3 DEF Mkdir
  <2> QED BY <1>0, <1>3, <2>1, GoesDeeper DEF Mkdir
<1>4. CASE MkdirExists(p) BY <1>0, <1>4 DEF MkdirExists
<1>5. CASE MkdirFails(p) BY <1>0, <1>5 DEF MkdirFails
<1>6. CASE OutPutFile(p) BY <1>0, <1>6 DEF OutPutFile
<1>7. CASE OpenFails(p) BY <1>0, <1>7 DEF OpenFails
<1>8. CASE Dies(p) BY <1>0, <1>8 DEF Dies
<1> QED BY <1>1, <1>2, <1>3, <1>4, <1>5, <1>6, <1>7, <1>8 DEF Log

(* Every function keeps its domain and its kinds.                          *)
LEMMA KindsKept ==
    ASSUME TypeOK, NEW p \in Procs, Log(p) \/ Dies(p)
    PROVE  /\ pc' \in [Procs -> Locations]
           /\ level' \in [Procs -> 1 .. Depth]
           /\ count' \in [Procs -> Nat]
           /\ cause' \in [Procs -> {"none", "race", "failure"}]
           /\ result' \in [Procs -> {"none", "written", "lost"}]
<1> USE DEF Goto, Return, Fails, calls, fate, At, Locations
<1>0. /\ pc \in [Procs -> Locations] /\ level \in [Procs -> 1 .. Depth]
      /\ count \in [Procs -> Nat]
      /\ cause \in [Procs -> {"none", "race", "failure"}]
      /\ result \in [Procs -> {"none", "written", "lost"}]
  BY DEF TypeOK
<1> USE <1>0
<1>1. CASE DumpmsgToFile(p) BY <1>1 DEF DumpmsgToFile, Depth
<1>2. CASE Access(p)
  <2>1. CASE Here(p) \in dirs
    BY <1>2, <2>1, GoesDeeper DEF Access
  <2>2. CASE Here(p) \notin dirs
    BY <1>2, <2>2 DEF Access
  <2> QED BY <2>1, <2>2
<1>3. CASE Mkdir(p) BY <1>3, GoesDeeper DEF Mkdir
<1>4. CASE MkdirExists(p) BY <1>4 DEF MkdirExists
<1>5. CASE MkdirFails(p) BY <1>5 DEF MkdirFails
<1>6. CASE OutPutFile(p) BY <1>6 DEF OutPutFile
<1>7. CASE OpenFails(p) BY <1>7 DEF OpenFails
<1>8. CASE Dies(p) BY <1>8 DEF Dies
<1> QED BY <1>1, <1>2, <1>3, <1>4, <1>5, <1>6, <1>7, <1>8 DEF Log
-----------------------------------------------------------------------------
(* The layers of the invariant.                                            *)

(* Directories are made from above: a step keeps the tree, and every       *)
(* process below a directory that is made (make_path, make_log.c 127-167). *)
LEMMA TreeKept ==
    ASSUME LogAssumption, TreeInv, NEW p \in Procs, Log(p) \/ Dies(p)
    PROVE  TreeInv'
<1> USE DEF TreeInv
<1>1. CallsFit'
  <2>1. \A q \in Procs \ {p} : /\ count'[q] \in 0 .. Len(Lines[q])
                               /\ ~ At(q, "idle")' => count'[q] > 0
    BY OthersStay DEF CallsFit, At
  <2>2. count'[p] \in 0 .. Len(Lines[p]) /\ (~ At(p, "idle")' => count'[p] > 0)
    BY OneMoves
  <2> QED BY <2>1, <2>2 DEF CallsFit
<1>2. ~ At(p, "idle") =>
         /\ Here(p) \in Seq(STRING) /\ Len(Here(p)) = level[p] /\ level[p] \in 1 .. Depth
         /\ SubSeq(Here(p), 1, level[p] - 1) = SubSeq(Last(p), 1, level[p] - 1)
  BY HereOnLine DEF TypeOK, CallsFit
<1>3. dirs' \subseteq Seq(STRING)
  BY <1>2, OneMoves DEF At
<1>4. /\ \A d \in dirs' : Len(d) \in 1 .. Depth
      /\ \A d \in dirs' : Len(d) > 1 => SubSeq(d, 1, Len(d) - 1) \in dirs'
  <2>1. CASE dirs' = dirs
    BY <2>1 DEF TypeOK
  <2>2. CASE At(p, "mkdir") /\ dirs' = dirs \cup {Here(p)}
    <3>1. Len(Here(p)) = level[p] /\ level[p] \in 1 .. Depth
      BY <1>2, <2>2 DEF At
    <3>2. Len(Here(p)) > 1 => SubSeq(Here(p), 1, Len(Here(p)) - 1) \in dirs
      BY <2>2, <3>1 DEF PathMade, At
    <3>3. \A d \in dirs : /\ Len(d) \in 1 .. Depth
                          /\ Len(d) > 1 => SubSeq(d, 1, Len(d) - 1) \in dirs
      BY DEF TypeOK
    <3> QED BY <2>2, <3>1, <3>2, <3>3
  <2> QED BY <2>1, <2>2, OneMoves
<1>5. PathMade'
  <2> SUFFICES ASSUME NEW q \in Procs, pc'[q] \in {"access", "mkdir"}, level'[q] > 1
               PROVE  SubSeq(Here(q)', 1, level'[q] - 1) \in dirs'
    BY DEF PathMade
  <2>1. CASE q # p
    <3>1. pc'[q] = pc[q] /\ level'[q] = level[q] /\ Here(q)' = Here(q)
      BY <2>1, OthersStay DEF Here
    <3> QED BY <3>1, OthersStay DEF PathMade
  <2>2. CASE q = p
    <3>1. pc[p] \in {"access", "mkdir"} /\ count'[p] = count[p] /\ dirs \subseteq dirs'
      BY <2>2, OneMoves, OthersStay DEF At
    <3>2. CASE level'[p] = level[p]
      <4>1. Here(p)' = Here(p)
        BY <3>1, <3>2 DEF Here
      <4> QED BY <2>2, <3>1, <3>2, <4>1 DEF PathMade
    <3>3. CASE level'[p] = level[p] + 1 /\ Here(p) \in dirs'
      <4>1. count[p] \in 1 .. Len(Lines[p]) /\ level[p] \in 1 .. Depth
        <5>1. count[p] \in 0 .. Len(Lines[p]) /\ count[p] > 0
          BY <3>1 DEF CallsFit, At
        <5>2. level \in [Procs -> 1 .. Depth]
          BY DEF TypeOK
        <5> QED BY <5>1, <5>2
      <4>2. Last(p) \in Seq(STRING) /\ Len(Last(p)) = Depth
        BY <4>1, HereOnLine
      <4>3. Here(p) = SubSeq(Last(p), 1, level[p])
        BY DEF Here, Last
      <4>4. Here(p)' = SubSeq(Last(p), 1, level[p] + 1)
        BY <3>1, <3>3 DEF Here, Last
      <4>5. level[p] + 1 \in 0 .. Depth /\ level[p] \in 0 .. level[p] + 1
        BY <3>3, <4>1, OneMoves
      <4>6. SubSeq(Here(p)', 1, level[p]) = Here(p)
        BY <4>2, <4>3, <4>4, <4>5, PrefixOfPrefix
      <4>7. level'[q] - 1 = level[p] /\ Here(q)' = Here(p)'
        BY <2>2, <3>3, <4>1 DEF Here
      <4> QED BY <3>3, <4>6, <4>7
    <3> QED BY <2>2, <3>1, <3>2, <3>3, OneMoves
  <2> QED BY <2>1, <2>2
<1>6. TypeOK'
  BY <1>4, <1>5, KindsKept DEF TypeOK, PathMade, At
<1> QED BY <1>1, <1>3, <1>5, <1>6

(* A call that meets neither a failure nor a directory made before its own *)
(* mkdir comes to out_put_file with its last directory there, and so its   *)
(* line is lost for no other reason (make_log.c 91-105).                   *)
LEMMA CauseKept ==
    ASSUME LogAssumption, TreeInv, CauseInv, NEW p \in Procs, Log(p) \/ Dies(p)
    PROVE  CauseInv'
<1> USE DEF CauseInv
<1>0. /\ pc \in [Procs -> Locations] /\ level \in [Procs -> 1 .. Depth]
      /\ cause \in [Procs -> {"none", "race", "failure"}]
      /\ result \in [Procs -> {"none", "written", "lost"}]
  BY DEF TreeInv, TypeOK
<1>1. /\ At(p, "output")' /\ cause'[p] = "none" => Last(p)' \in dirs'
      /\ result'[p] = "lost" => cause'[p] # "none"
  <2>1. \/ DumpmsgToFile(p) \/ Access(p) \/ Mkdir(p) \/ MkdirExists(p)
        \/ MkdirFails(p) \/ OutPutFile(p) \/ OpenFails(p) \/ Dies(p)
    BY DEF Log
  <2>2. ~ At(p, "idle") /\ level[p] = Depth => Here(p) = Last(p)
    BY <1>0, HereOnLine DEF TreeInv, CallsFit
  <2>3. result[p] = "lost" => cause[p] # "none"
    BY DEF LostHasCause
  <2> USE <1>0, <2>2, <2>3 DEF Goto, Return, Fails, At, calls, fate
  <2>4. CASE DumpmsgToFile(p) BY <2>4 DEF DumpmsgToFile
  <2>5. CASE Access(p)
    <3>1. CASE Here(p) \in dirs
      BY <2>5, <3>1, GoesDeeper DEF Access, Last, Locations
    <3>2. CASE Here(p) \notin dirs
      BY <2>5, <3>2 DEF Access
    <3> QED BY <3>1, <3>2
  <2>6. CASE Mkdir(p) BY <2>6, GoesDeeper DEF Mkdir, Last, Locations
  <2>7. CASE MkdirExists(p) BY <2>7 DEF MkdirExists
  <2>8. CASE MkdirFails(p) BY <2>8 DEF MkdirFails
  <2>9. CASE OutPutFile(p) BY <2>9 DEF OutPutFile, Written
  <2>10. CASE OpenFails(p) BY <2>10 DEF OpenFails
  <2>11. CASE Dies(p) BY <2>11 DEF Dies
  <2> QED BY <2>1, <2>4, <2>5, <2>6, <2>7, <2>8, <2>9, <2>10, <2>11
<1>2. \A q \in Procs \ {p} :
          /\ At(q, "output")' /\ cause'[q] = "none" => Last(q)' \in dirs'
          /\ result'[q] = "lost" => cause'[q] # "none"
  BY OthersStay DEF TreeInv, Written, LostHasCause, Last, At
<1> QED BY <1>1, <1>2 DEF Written, LostHasCause

-----------------------------------------------------------------------------
(* A process that a mkdir stops leaves the directory to another: the one   *)
(* it found is above a complete chain or above a third process, which is   *)
(* why the invariant asks for a strictly deeper one.                       *)
LEMMA ContinuedKept ==
    ASSUME LogAssumption, TreeInv, Continued, NEW p \in Procs, Log(p) \/ Dies(p)
    PROVE  Continued'
<1> USE DEF TreeInv
<1> SUFFICES ASSUME ~ failed', NEW d \in dirs'
             PROVE  Complete(d)' \/ \E q \in Procs : Deeper(d, q)'
  BY DEF Continued
<1>1. /\ DumpmsgToFile(p) \/ Access(p) \/ Mkdir(p) \/ MkdirExists(p) \/ OutPutFile(p)
      /\ failed' = failed
  BY DEF Log, Dies, OpenFails, MkdirFails, Fails, DumpmsgToFile, Access, Mkdir,
         MkdirExists, OutPutFile, fate
<1>2. \A e \in dirs : Complete(e) \/ \E q \in Procs : Deeper(e, q)
  BY <1>1 DEF Continued
<1>3. dirs \subseteq dirs' /\ (Complete(d) => Complete(d)')
  BY OthersStay DEF Complete
<1>4. \A q \in Procs \ {p} : Deeper(d, q) => Deeper(d, q)'
  BY OthersStay DEF Deeper, At, Here
<1>5. \A q \in Procs : At(q, "mkdir") =>
         Here(q) \in Seq(STRING) /\ Len(Here(q)) = level[q] /\ level[q] \in 1 .. Depth
  <2> SUFFICES ASSUME NEW q \in Procs, At(q, "mkdir")
               PROVE  /\ Here(q) \in Seq(STRING) /\ Len(Here(q)) = level[q]
                      /\ level[q] \in 1 .. Depth
    OBVIOUS
  <2>1. count[q] \in 0 .. Len(Lines[q]) /\ count[q] > 0
    BY DEF CallsFit, At
  <2>2. level[q] \in 1 .. Depth
    BY DEF TypeOK
  <2> QED BY <2>1, <2>2, HereOnLine
<1>6. CASE DumpmsgToFile(p) \/ Access(p) \/ OutPutFile(p)
  <2>1. ~ At(p, "mkdir") /\ dirs' = dirs
    BY <1>6 DEF DumpmsgToFile, Access, OutPutFile, Return, At
  <2> QED BY <1>2, <1>3, <1>4, <2>1 DEF Deeper
<1>7. CASE MkdirExists(p)
  <2>1. At(p, "mkdir") /\ Here(p) \in dirs /\ dirs' = dirs
    BY <1>7 DEF MkdirExists
  <2>2. CASE Deeper(d, p)
    <3>1. Below(d, Here(p)) /\ Len(d) < level[p] /\ d \in Seq(STRING)
      BY <2>1, <2>2 DEF Deeper
    <3>2. CASE Complete(Here(p))
      <4>1. PICK e \in dirs : Len(e) = Depth /\ Below(Here(p), e)
        BY <3>2 DEF Complete
      <4>2. Below(d, e)
        BY <1>5, <2>1, <3>1, <4>1, BelowIsOrder
      <4> QED BY <1>3, <4>1, <4>2 DEF Complete
    <3>3. ASSUME NEW q \in Procs, Deeper(Here(p), q) PROVE Deeper(d, q)'
      <4>1. At(q, "mkdir") /\ Below(Here(p), Here(q)) /\ level[p] < level[q]
        BY <1>5, <2>1, <3>3 DEF Deeper
      <4>2. Below(d, Here(q))
        BY <1>5, <2>1, <3>1, <4>1, BelowIsOrder
      <4>3. q # p /\ Len(d) < level[q]
        BY <1>5, <2>1, <3>1, <4>1
      <4> QED BY <1>4, <4>1, <4>2, <4>3 DEF Deeper
    <3> QED BY <1>2, <2>1, <3>2, <3>3
  <2> QED BY <1>2, <1>3, <1>4, <2>1, <2>2
<1>8. CASE Mkdir(p)
  <2>1. At(p, "mkdir") /\ dirs' = dirs \cup {Here(p)} /\ count' = count
    BY <1>8 DEF Mkdir
  <2>2. Here(p) \in Seq(STRING) /\ Len(Here(p)) = level[p] /\ level[p] \in 1 .. Depth
    BY <1>5, <2>1
  <2>3. CASE d = Here(p) \/ Deeper(d, p)
    <3>1. d \in Seq(STRING) /\ Below(d, Here(p)) /\ Len(d) <= level[p]
      BY <2>1, <2>2, <2>3, BelowIsOrder DEF Deeper, Below
    <3>2. CASE level[p] = Depth
      BY <2>1, <2>2, <3>1, <3>2 DEF Complete
    <3>3. CASE level[p] # Depth
      <4>1. pc'[p] = "mkdir" /\ level'[p] = level[p] + 1
        BY <1>8, <3>3, GoesDeeper DEF Mkdir, TypeOK, Locations
      <4>2. /\ Last(p) \in Seq(STRING) /\ Len(Last(p)) = Depth
            /\ Here(p) = SubSeq(Last(p), 1, level[p])
            /\ Here(p)' = SubSeq(Last(p), 1, level[p] + 1)
        <5>1. count[p] \in 0 .. Len(Lines[p]) /\ count[p] > 0
          BY <2>1 DEF CallsFit, At
        <5>2. Last(p) \in Seq(STRING) /\ Len(Last(p)) = Depth
          BY <2>2, <5>1, HereOnLine
        <5> QED BY <2>1, <4>1, <5>2 DEF Here, Last
      <4>3. level[p] + 1 \in 0 .. Depth /\ level[p] \in 0 .. level[p] + 1
        BY <2>2, <3>3 DEF Depth
      <4>4. /\ Here(p)' \in Seq(STRING) /\ Len(Here(p)') = level[p] + 1
            /\ SubSeq(Here(p)', 1, level[p]) = Here(p)
        BY <4>2, <4>3, PrefixOfPrefix
      <4>5. Below(d, Here(p)')
        BY <2>2, <3>1, <4>4, BelowIsOrder DEF Below
      <4>6. Deeper(d, p)'
        BY <2>2, <3>1, <4>1, <4>5 DEF Deeper, At, Below
      <4> QED BY <4>6
    <3> QED BY <3>2, <3>3
  <2>4. CASE d # Here(p) /\ ~ Deeper(d, p)
    BY <1>2, <1>3, <1>4, <2>1, <2>4
  <2> QED BY <2>3, <2>4
<1> QED BY <1>1, <1>6, <1>7, <1>8

-----------------------------------------------------------------------------
(* A process is sent to mkdir for a directory that is missing: for it to   *)
(* be there after all, another process must have added one since           *)
(* (make_log.c 127-167).                                                   *)
LEMMA RaceKept ==
    ASSUME LogAssumption, TreeInv, RaceInv, NEW p \in Procs, Log(p) \/ Dies(p)
    PROVE  RaceInv'
<1> USE DEF RaceInv
<1>1. /\ Cardinality(dirs) \in Nat
      /\ IsFiniteSet(dirs')
      /\ Here(p) \notin dirs /\ dirs' = dirs \cup {Here(p)} =>
            Cardinality(dirs') = Cardinality(dirs) + 1
      /\ dirs' = dirs => Cardinality(dirs') = Cardinality(dirs)
  BY OneMoves, FS_AddElement, FS_CardinalityType DEF TreeInv
<1>2. \/ DumpmsgToFile(p) \/ Access(p) \/ Mkdir(p) \/ MkdirExists(p)
      \/ MkdirFails(p) \/ OutPutFile(p) \/ OpenFails(p) \/ Dies(p)
  BY DEF Log
<1>3. CASE Mkdir(p)
  <2>1. /\ At(p, "mkdir") /\ Here(p) \notin dirs /\ dirs' = dirs \cup {Here(p)}
        /\ races' = races /\ count' = count
    BY <1>3 DEF Mkdir, fate
  <2>2. Cardinality(dirs') = Cardinality(dirs) + 1
    BY <1>1, <2>1
  <2>3. \A q \in Procs : races'[q] < Cardinality(dirs')
    BY <1>1, <2>1, <2>2 DEF RacesBounded
  <2>4. races' \in [Procs -> Nat]
    BY <2>1
  <2>5. RacesBounded'
    BY <1>1, <2>2, <2>3, <2>4 DEF RacesBounded
  <2> QED BY <1>1, <2>3, <2>4, <2>5
<1>4. CASE MkdirExists(p)
  <2>1. /\ At(p, "mkdir") /\ Here(p) \in dirs /\ dirs' = dirs
        /\ races' = [races EXCEPT ![p] = @ + 1] /\ ~ At(p, "mkdir")'
    BY <1>4 DEF MkdirExists, Goto, At, TreeInv, TypeOK
  <2>2. races[p] + 1 <= Cardinality(dirs)
    BY <1>1, <2>1
  <2>3. \A q \in Procs \ {p} : races'[q] = races[q] /\ (At(q, "mkdir")' => At(q, "mkdir"))
                               /\ Here(q)' = Here(q)
    BY <2>1, OthersStay DEF TreeInv, At, Here
  <2>4. races' \in [Procs -> Nat] /\ races'[p] = races[p] + 1
    BY <2>1
  <2>5. RacesBounded'
    BY <1>1, <2>1, <2>2, <2>3, <2>4 DEF RacesBounded
  <2>6. \A q \in Procs : At(q, "mkdir")' /\ Here(q)' \in dirs' => races'[q] < Cardinality(dirs')
    BY <1>1, <2>1, <2>3
  <2> QED BY <1>1, <2>4, <2>5, <2>6
<1>5. CASE ~ Mkdir(p) /\ ~ MkdirExists(p)
  <2>1. dirs' = dirs /\ races' = races
    BY <1>2, <1>5 DEF DumpmsgToFile, Access, MkdirFails, OutPutFile, OpenFails, Dies,
         Return, Fails, fate
  <2>2. At(p, "mkdir")' => Here(p)' \notin dirs
    BY <1>2, <1>5, GoesDeeper DEF DumpmsgToFile, Access, MkdirFails, OutPutFile,
         OpenFails, Dies, Return, Goto, At, Here, TreeInv, TypeOK, Locations
  <2>3. \A q \in Procs \ {p} : (At(q, "mkdir")' => At(q, "mkdir")) /\ Here(q)' = Here(q)
    BY OthersStay DEF TreeInv, At, Here
  <2> QED BY <1>1, <2>1, <2>2, <2>3 DEF RacesBounded
<1> QED BY <1>3, <1>4, <1>5

-----------------------------------------------------------------------------
LogInv == TreeInv /\ CauseInv /\ Continued /\ RaceInv

LEMMA LogStarts == ASSUME LogAssumption, Init PROVE LogInv
BY FS_EmptySet DEF LogAssumption, Init, LogInv, TreeInv, TypeOK, CallsFit, PathMade,
       CauseInv, Written, LostHasCause, Continued, RaceInv, RacesBounded, At, Locations, Depth

LEMMA LogKept == ASSUME LogAssumption, LogInv, [Next]_vars PROVE LogInv'
<1>1. CASE \E p \in Procs : Log(p) \/ Dies(p)
  BY <1>1, TreeKept, CauseKept, ContinuedKept, RaceKept DEF LogInv
<1>2. CASE UNCHANGED vars
  BY <1>2 DEF LogInv, TreeInv, TypeOK, CallsFit, PathMade, CauseInv, Written,
       LostHasCause, Continued, RaceInv, RacesBounded, Complete, Deeper, Below, Here, Last, At, vars, calls, fate
<1> QED BY <1>1, <1>2 DEF Next, Resting

(* The invariant holds of every behaviour of the log.                      *)
THEOREM LogInvariant == Spec => []LogInv
<1>1. Init => LogInv
  BY LogStarts, LogAssumption
<1>2. LogInv /\ [Next]_vars => LogInv'
  BY LogKept, LogAssumption
<1> QED BY <1>1, <1>2, PTL DEF Spec

(* The tree of log directories never has a gap, and every process stands   *)
(* below a directory that is there (make_path, make_log.c 127-167).        *)
THEOREM TypeCorrect == Spec => []TypeOK
BY LogInvariant, PTL DEF LogInv, TreeInv

(* A line is lost only to a failure of its own call or to a directory that *)
(* another process had just made (make_log.c 127-167 and 91-105).          *)
THEOREM LinesAreWritten == Spec => []LostHasCause
BY LogInvariant, PTL DEF LogInv, CauseInv

(* While no call fails, no directory is given up: it is above a complete   *)
(* chain or above the place where a process is making one.                 *)
THEOREM DirectoriesAreFinished == Spec => []NoDirectoryAbandoned
<1>1. LogInv => NoDirectoryAbandoned
  BY DEF LogInv, Continued, NoDirectoryAbandoned, Complete, Deeper
<1> QED BY <1>1, LogInvariant, PTL

(* A process loses to each directory at most once, however many lines it   *)
(* writes and however often it is started again.                           *)
THEOREM RacesAreFew == Spec => []RacesBounded
BY LogInvariant, PTL DEF LogInv, RaceInv
==============================================================================
