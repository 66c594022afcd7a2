------------------------- MODULE UploadWorkerProofs -------------------------
(***************************************************************************)
(* What holds of the upload service for every number of processes,         *)
(* requests, files and descriptors, and whatever set of calls may fail.    *)
(*                                                                         *)
(* The argument has four layers, each inductive given the ones before it:  *)
(*   TypeInv     values, descriptors and requests fit the location;        *)
(*   TreeInv     at most one process of the tree is active, and a waiting  *)
(*               process and its child agree on what they are doing;       *)
(*   ContentInv  temporary file, file_id, url and pipe of a process belong *)
(*               to the request it serves;                                 *)
(*   OnceInv     a request still on its way is neither stored nor listed.  *)
(* RecordContent and TempGone follow from the third, the refinement of     *)
(* Catalogue from the fourth.                                              *)
(***************************************************************************)
EXTENDS UploadWorker, TLAPS

-----------------------------------------------------------------------------
(* The layers of the inductive invariant.                                  *)

Idle == {"free", "zombie", "accept"}

\* Descriptors a process holds for sure at location l.
Held(l) ==
    IF l \in Idle THEN 0 ELSE IF l \in {"fdfs_fork", "url_fork"} THEN 3 ELSE 1

FdsHeld == \A p \in Procs : Held(pc[p]) <= used[p]

Serves == \A p \in Procs :
    pc[p] \in Idle <=> req[p] = NoReq

TypeInv == TypeOK /\ FdsHeld /\ Serves

OnlyWaitersHaveChildren == \A p \in Procs :
    child[p] # NoProc => pc[p] \in Waiting /\ pc[child[p]] # "free"

NoSharedChild == \A p, q \in Procs :
    child[p] # NoProc /\ child[p] = child[q] => p = q

\* A child that is to become a tool, or is one, works for its parent's request.
StagesAgree == \A p \in Procs : child[p] # NoProc =>
    /\ pc[child[p]] \in {"fdfs_exec", "fdfs_tool"} =>
          pc[p] = "fdfs_wait" /\ req[child[p]] = req[p]
    /\ pc[child[p]] \in {"url_exec", "url_tool"} =>
          pc[p] = "url_wait" /\ req[child[p]] = req[p]

OnlyTheDeadPrint == \A p \in Procs : out[p] # NoId => pc[p] = "zombie"

TreeInv ==
    /\ OneRunning
    /\ OnlyWaitersHaveChildren
    /\ NoSharedChild
    /\ StagesAgree
    /\ OnlyTheDeadPrint

Saved(c, r) ==
    /\ r \in Requests
    /\ \/ c = <<r, TRUE>>
       \/ MayBeCut(r) /\ c = <<r, FALSE>>

TempIsOwn == \A p \in Procs :
    pc[p] \in {"fdfs_pipe", "fdfs_fork", "fdfs_exec", "fdfs_tool"} =>
        Saved(tmp[Name[req[p]]], req[p])

FileIsOwn == \A p \in Procs :
    fid[p] # NoId => Saved(stored[fid[p]], req[p])

PipeIsOwn == \A p \in Procs :
    pc[p] = "fdfs_wait" /\ Printed(p) # NoId => Saved(stored[Printed(p)], req[p])

UrlIsOwn == \A p \in Procs :
    url[p] # NoId => url[p] = fid[p] /\ pc[p] \in {"connect", "lpush", "zincr", "end"}

ListIsOwn == \A k \in DOMAIN list :
    /\ list[k].id # NoId => Saved(stored[list[k].id], list[k].req)
    /\ list[k].url \in {list[k].id, NoId}

ContentInv == TempIsOwn /\ FileIsOwn /\ PipeIsOwn /\ UrlIsOwn /\ ListIsOwn

\* The requests FastDFS keeps a file of, and those in the list.
Stored == {r \in Requests : C!IsStored(r)}
Listed == {r \in Requests : C!IsListed(r)}

\* Where a child may be that still has the request of a parent at location a.
WaitsFor(a, b) ==
    \/ a = "fdfs_wait" /\ b \in {"fdfs_exec", "fdfs_tool", "end"}
    \/ a = "url_wait" /\ b \in {"url_exec", "url_tool", "connect", "lpush", "zincr", "end"}

MayPublish ==
    { "read", "fopen", "fwrite", "fdfs_pipe", "fdfs_fork", "fdfs_wait", "unlink",
      "url_pipe", "url_fork", "url_exec", "url_tool", "connect", "lpush" }

\* Two processes have one request only while one waits for a child that was
\* forked for it.
SharedRequest == \A p, q \in Procs :
    p # q /\ req[p] = req[q] /\ req[p] # NoReq =>
        \/ WaitsFor(pc[p], pc[q])
        \/ WaitsFor(pc[q], pc[p])

FreshRequest == \A r \in Requests : outcome[r] = "queued" =>
    /\ \A p \in Procs : req[p] # r
    /\ r \notin Stored
    /\ r \notin Listed

NotYetStored == \A p \in Procs :
    pc[p] \in {"read", "fopen", "fwrite", "fdfs_pipe", "fdfs_fork", "fdfs_exec", "fdfs_tool"} =>
        req[p] \notin Stored

NotYetListed == \A p \in Procs :
    /\ pc[p] \in MayPublish => req[p] \notin Listed
    /\ pc[p] = "url_wait" /\ Printed(p) # NoId => req[p] \notin Listed

TempNamed == \A r \in Requests, n \in Names :
    tmp[n] \in C!ContentOf(r) => n = Name[r]

\* Between the unlink and the push.
Fetching ==
    { "url_pipe", "url_fork", "url_wait", "url_exec", "url_tool", "connect", "lpush" }

Unlinked == \A p \in Procs : pc[p] \in Fetching =>
        tmp[Name[req[p]]] \notin C!ContentOf(req[p])

ListedGone == \A r \in Listed, n \in Names : tmp[n] \notin C!ContentOf(r)

OnceInv ==
    /\ SharedRequest
    /\ FreshRequest
    /\ NotYetStored
    /\ NotYetListed
    /\ TempNamed
    /\ Unlinked
    /\ ListedGone

-----------------------------------------------------------------------------
(* First layer: values, descriptors, requests.                             *)

\* Initially.
LEMMA TypeInit == Init => TypeInv
BY UploadAssumption
   DEF Init, TypeInv, TypeOK, FdsHeld, Held, Serves, Idle, Ids, Locations,
       Running, Waiting, C!Contents, C!Records

\* No step takes a variable out of its kind or a process below what it holds.
LEMMA TypeStep == TypeInv /\ [Next]_vars => TypeInv'
<1> SUFFICES ASSUME TypeInv, [Next]_vars
             PROVE  TypeInv'
  OBVIOUS
<1> USE UploadAssumption
    DEF TypeInv, TypeOK, FdsHeld, Held, Serves, Idle, Ids, Locations, Running,
        Waiting, C!Contents
<1>1. ASSUME NEW p \in Procs, Accept(p)
      PROVE  TypeInv'
  BY <1>1 DEF Accept, At, Goto, CanOpen, tree, services
<1>2. ASSUME NEW p \in Procs, ReadBody(p)
      PROVE  TypeInv'
  <2>1. PICK l \in {"end", "fopen"} : Goto(p, l)
    BY <1>2 DEF ReadBody
  <2> QED
    BY <1>2, <2>1 DEF ReadBody, At, Goto, memory, tree, services
<1>3. ASSUME NEW p \in Procs, GetBufFails(p)
      PROVE  TypeInv'
  BY <1>3 DEF GetBufFails, At, Goto, Fault, AbandonRequest, Die, tree, services
<1>4. ASSUME NEW p \in Procs, ParseCrashes(p)
      PROVE  TypeInv'
  BY <1>4 DEF ParseCrashes, At, Goto, AbandonRequest, Die, tree, services
<1>5. ASSUME NEW p \in Procs, OpenTemp(p)
      PROVE  TypeInv'
  BY <1>5 DEF OpenTemp, At, Goto, CanOpen, memory, tree, services
<1>6. ASSUME NEW p \in Procs, OpenTempFails(p)
      PROVE  TypeInv'
  BY <1>6 DEF OpenTempFails, At, Goto, Fault, CanOpen, memory, tree, services
<1>7. ASSUME NEW p \in Procs, WriteTemp(p)
      PROVE  TypeInv'
  <2>1. pc[p] = "fwrite" /\ Name[req[p]] \in Names /\ req[p] \in Requests
    BY <1>7 DEF WriteTemp, At
  <2>2. PICK whole \in BOOLEAN :
          tmp' = [tmp EXCEPT ![Name[req[p]]] = <<req[p], whole>>]
    BY <1>7 DEF WriteTemp
  <2>3. tmp' \in [Names -> C!Contents \cup {NoFile}]
    BY <2>1, <2>2
  <2>4. Goto(p, "fdfs_pipe") /\ UNCHANGED <<memory, tree, used, services, outcome>>
    BY <1>7 DEF WriteTemp
  <2> QED
    BY <2>1, <2>3, <2>4 DEF Goto, memory, tree, services
<1>8. ASSUME NEW p \in Procs, AcceptFails(p)
      PROVE  TypeInv'
  BY <1>8 DEF AcceptFails, At, Goto, Die, tree, services
<1>9. ASSUME NEW p \in Procs, FdfsPipe(p)
      PROVE  TypeInv'
  BY <1>9 DEF FdfsPipe, At, Goto, CanOpen, Pipe, memory, tree, services
<1>10. ASSUME NEW p \in Procs, FdfsPipeFails(p)
      PROVE  TypeInv'
  BY <1>10 DEF FdfsPipeFails, At, Goto, CanOpen, AbandonRequest, Die, tree,
    services
<1>11. ASSUME NEW p \in Procs, FdfsFork(p)
      PROVE  TypeInv'
  <2>1. PICK q \in Procs :
          /\ pc[q] = "free"
          /\ pc' = [pc EXCEPT ![p] = "fdfs_wait", ![q] = "fdfs_exec"]
          /\ child' = [child EXCEPT ![p] = q]
          /\ req' = [req EXCEPT ![q] = req[p]]
          /\ fid' = [fid EXCEPT ![q] = fid[p]]
          /\ url' = [url EXCEPT ![q] = url[p]]
          /\ used' = [used EXCEPT ![p] = @ - 1, ![q] = used[p] - 1]
          /\ UNCHANGED <<out, tmp, services, outcome>>
    BY <1>11 DEF FdfsFork, Fork
  <2>2. pc[p] = "fdfs_fork"
    BY <1>11 DEF FdfsFork, At
  <2>3. p # q /\ Held(pc[p]) = 3
    BY <2>1, <2>2
  <2>4. 3 <= used[p]
    BY <2>3
  <2>5. used[p] - 1 \in 2 .. FdLimit
    BY <2>4
  <2>6. used' \in [Procs -> 0 .. FdLimit]
    <3>1. used \in [Procs -> 0 .. FdLimit] /\ FdLimit \in Nat
      OBVIOUS
    <3> HIDE DEF TypeInv
    <3> QED
      BY <2>1, <2>3, <2>5, <3>1
  <2>7. TypeOK'
    BY <2>1, <2>6 DEF services
  <2>8. FdsHeld'
    BY <2>1, <2>3, <2>5
  <2>9. Serves'
    BY <2>1, <2>2
  <2> QED
    BY <2>7, <2>8, <2>9
<1>12. ASSUME NEW p \in Procs, FdfsForkFails(p)
      PROVE  TypeInv'
  BY <1>12 DEF FdfsForkFails, At, Goto, Fault, ForkMayFail, memory, tree,
    services
<1>13. ASSUME NEW p \in Procs, FdfsExec(p)
      PROVE  TypeInv'
  <2>1. PICK l \in {"fdfs_tool", "end"} : Goto(p, l)
    BY <1>13 DEF FdfsExec
  <2> QED
    BY <1>13, <2>1 DEF FdfsExec, At, Goto, memory, tree, services
<1>14. ASSUME NEW p \in Procs, FdfsToolStores(p)
      PROVE  TypeInv'
  <2>1. tmp[Name[req[p]]] \in C!Contents \cup {NoFile}
    BY <1>14 DEF FdfsToolStores, At
  <2>2. /\ stored \in [FileIds -> C!Contents \cup {NoFile}]
        /\ out \in [Procs -> Ids]
    OBVIOUS
  <2>3. PICK i \in FileIds :
          /\ stored' = [stored EXCEPT ![i] = tmp[Name[req[p]]]]
          /\ out' = [out EXCEPT ![p] = i] \/ UNCHANGED out
    BY <1>14 DEF FdfsToolStores
  <2>4. /\ stored' \in [FileIds -> C!Contents \cup {NoFile}]
        /\ out' \in [Procs -> Ids]
    <3> HIDE DEF TypeInv, C!Contents
    <3> QED
      BY <2>1, <2>2, <2>3
  <2>5. /\ pc[p] = "fdfs_tool"
        /\ Die(p)
        /\ UNCHANGED <<child, tmp, list, hot, outcome>>
    BY <1>14 DEF FdfsToolStores, At
  <2> QED
    BY <2>4, <2>5 DEF Goto, Die
<1>15. ASSUME NEW p \in Procs, FdfsToolFails(p)
      PROVE  TypeInv'
  BY <1>15 DEF FdfsToolFails, At, Goto, Fault, CanOpen, Die, tree, services
<1>16. ASSUME NEW p \in Procs, FdfsWait(p)
      PROVE  TypeInv'
  BY <1>16 DEF FdfsWait, At, WaitReturns, Printed, Reap, services
<1>17. ASSUME NEW p \in Procs, UnlinkTemp(p)
      PROVE  TypeInv'
  BY <1>17 DEF UnlinkTemp, At, Goto, memory, tree, services
<1>18. ASSUME NEW p \in Procs, UrlPipe(p)
      PROVE  TypeInv'
  BY <1>18 DEF UrlPipe, At, Goto, CanOpen, Pipe, memory, tree, services
<1>19. ASSUME NEW p \in Procs, UrlPipeFails(p)
      PROVE  TypeInv'
  BY <1>19 DEF UrlPipeFails, At, Goto, CanOpen, memory, tree, services
<1>20. ASSUME NEW p \in Procs, UrlFork(p)
      PROVE  TypeInv'
  <2>1. PICK q \in Procs :
          /\ pc[q] = "free"
          /\ pc' = [pc EXCEPT ![p] = "url_wait", ![q] = "url_exec"]
          /\ child' = [child EXCEPT ![p] = q]
          /\ req' = [req EXCEPT ![q] = req[p]]
          /\ fid' = [fid EXCEPT ![q] = fid[p]]
          /\ url' = [url EXCEPT ![q] = url[p]]
          /\ used' = [used EXCEPT ![p] = @ - 1, ![q] = used[p] - 1]
          /\ UNCHANGED <<out, tmp, services, outcome>>
    BY <1>20 DEF UrlFork, Fork
  <2>2. pc[p] = "url_fork"
    BY <1>20 DEF UrlFork, At
  <2>3. p # q /\ Held(pc[p]) = 3
    BY <2>1, <2>2
  <2>4. 3 <= used[p]
    BY <2>3
  <2>5. used[p] - 1 \in 2 .. FdLimit
    BY <2>4
  <2>6. used' \in [Procs -> 0 .. FdLimit]
    <3>1. used \in [Procs -> 0 .. FdLimit] /\ FdLimit \in Nat
      OBVIOUS
    <3> HIDE DEF TypeInv
    <3> QED
      BY <2>1, <2>3, <2>5, <3>1
  <2>7. TypeOK'
    BY <2>1, <2>6 DEF services
  <2>8. FdsHeld'
    BY <2>1, <2>3, <2>5
  <2>9. Serves'
    BY <2>1, <2>2
  <2> QED
    BY <2>7, <2>8, <2>9
<1>21. ASSUME NEW p \in Procs, UrlForkFails(p)
      PROVE  TypeInv'
  BY <1>21 DEF UrlForkFails, At, Goto, Fault, ForkMayFail, memory, tree,
    services
<1>22. ASSUME NEW p \in Procs, UrlExec(p)
      PROVE  TypeInv'
  <2>1. PICK l \in {"url_tool", "connect"} : Goto(p, l)
    BY <1>22 DEF UrlExec
  <2> QED
    BY <1>22, <2>1 DEF UrlExec, At, Goto, memory, tree, services
<1>23. ASSUME NEW p \in Procs, UrlToolPrints(p)
      PROVE  TypeInv'
  BY <1>23 DEF UrlToolPrints, At, Goto, CanOpen, Die, KnownFile, services
<1>24. ASSUME NEW p \in Procs, UrlToolFails(p)
      PROVE  TypeInv'
  BY <1>24 DEF UrlToolFails, At, Goto, Fault, CanOpen, Die, KnownFile, tree,
    services
<1>25. ASSUME NEW p \in Procs, UrlWait(p)
      PROVE  TypeInv'
  BY <1>25 DEF UrlWait, At, WaitReturns, Printed, Reap, services
<1>26. ASSUME NEW p \in Procs, UrlWaitCrashes(p)
      PROVE  TypeInv'
  BY <1>26 DEF UrlWaitCrashes, At, AbandonRequest, WaitReturns, Printed, Reap,
    services
<1>27. ASSUME NEW p \in Procs, Connect(p)
      PROVE  TypeInv'
  <2>1. PICK l \in {"lpush", "end"} : Goto(p, l)
    BY <1>27 DEF Connect
  <2> QED
    BY <1>27, <2>1 DEF Connect, At, Goto, memory, tree, services
<1>28. ASSUME NEW p \in Procs, ConnectFails(p)
      PROVE  TypeInv'
  BY <1>28 DEF ConnectFails, At, Goto, Fault, CanOpen, AbandonRequest, Die, tree,
    services
<1>29. ASSUME NEW p \in Procs, LPush(p)
      PROVE  TypeInv'
  <2>1. Record(p) \in C!Records
    BY <1>29 DEF LPush, At, Record, C!Records
  <2>2. list' \in Seq(C!Records)
    <3>1. list \in Seq(C!Records)
      OBVIOUS
    <3> HIDE DEF TypeInv
    <3> QED
      BY <1>29, <2>1, <3>1 DEF LPush
  <2> QED
    BY <1>29, <2>2 DEF LPush, At, Goto, memory, tree
<1>30. ASSUME NEW p \in Procs, LPushLost(p)
      PROVE  TypeInv'
  <2>1. Record(p) \in C!Records
    BY <1>30 DEF LPushLost, At, Record, C!Records
  <2>2. list' \in Seq(C!Records)
    <3>1. list \in Seq(C!Records)
      OBVIOUS
    <3> HIDE DEF TypeInv
    <3> QED
      BY <1>30, <2>1, <3>1 DEF LPushLost
  <2> QED
    BY <1>30, <2>2 DEF LPushLost, At, Die, Goto, AbandonRequest, tree
<1>31. ASSUME NEW p \in Procs, ZIncr(p)
      PROVE  TypeInv'
  <2>1. fid[p] \in Ids /\ hot \in [Ids -> Nat]
    OBVIOUS
  <2>2. hot' \in [Ids -> Nat]
    <3> HIDE DEF TypeInv, Ids
    <3> QED
      BY <1>31, <2>1 DEF ZIncr
  <2> QED
    BY <1>31, <2>2 DEF ZIncr, At, Goto, memory, tree
<1>32. ASSUME NEW p \in Procs, ZIncrLost(p)
      PROVE  TypeInv'
  <2>1. fid[p] \in Ids /\ hot \in [Ids -> Nat]
    OBVIOUS
  <2>2. hot' \in [Ids -> Nat]
    <3> HIDE DEF TypeInv, Ids
    <3> QED
      BY <1>32, <2>1 DEF ZIncrLost
  <2> QED
    BY <1>32, <2>2 DEF ZIncrLost, At, Die, Goto, AbandonRequest, tree
<1>33. ASSUME NEW p \in Procs, End(p)
      PROVE  TypeInv'
  <2>1. pc[p] = "end" /\ Held(pc[p]) = 1
    BY <1>33 DEF End, At
  <2>2. 1 <= used[p]
    BY <2>1
  <2>3. used[p] - 1 \in 0 .. FdLimit
    BY <2>2
  <2>4. /\ used' \in [Procs -> 0 .. FdLimit]
        /\ outcome' \in [Requests -> {"queued", "serving", "closed"}]
    BY <1>33, <2>3 DEF End, CloseRequest
  <2> QED
    BY <1>33, <2>1, <2>3, <2>4 DEF End, Goto, tree, services
<1>34. CASE Restart
  BY <1>34 DEF Restart, Fault, services
<1>35. CASE UNCHANGED vars
  BY <1>35 DEF vars, memory, tree, services
<1>36. QED
  BY <1>1, <1>2, <1>3, <1>4, <1>5, <1>6, <1>7, <1>8, <1>9, <1>10, <1>11, <1>12,
    <1>13, <1>14, <1>15, <1>16, <1>17, <1>18, <1>19, <1>20, <1>21, <1>22,
    <1>23, <1>24, <1>25, <1>26, <1>27, <1>28, <1>29, <1>30, <1>31, <1>32,
    <1>33, <1>34, <1>35
    DEF Next, Step, Resting

-----------------------------------------------------------------------------
(* Second layer: the tree of processes.                                    *)

\* Initially only the first process runs, and nobody has a child.
LEMMA TreeInit == Init => TreeInv
BY UploadAssumption
   DEF Init, TreeInv, OneRunning, Active, OnlyWaitersHaveChildren, NoSharedChild,
       StagesAgree, OnlyTheDeadPrint, Running, Waiting

\* A step hands activity on: from parent to child by fork, back by wait.
LEMMA TreeStep == TypeInv /\ TreeInv /\ [Next]_vars => TreeInv'
<1> SUFFICES ASSUME TypeInv, TreeInv, [Next]_vars
             PROVE  TreeInv'
  OBVIOUS
<1> /\ pc \in [Procs -> Locations]
    /\ req \in [Procs -> Requests \cup {NoReq}]
    /\ child \in [Procs -> Procs \cup {NoProc}]
    /\ out \in [Procs -> Ids]
    /\ Root \in Procs /\ NoProc \notin Procs
  BY UploadAssumption DEF TypeInv, TypeOK
<1> USE DEF TreeInv, OneRunning, Active, OnlyWaitersHaveChildren, NoSharedChild,
            StagesAgree, OnlyTheDeadPrint, Running, Waiting
<1>1. ASSUME NEW p \in Procs, Accept(p)
      PROVE  TreeInv'
  BY <1>1 DEF Accept, At, Goto, tree
<1>2. ASSUME NEW p \in Procs, ReadBody(p)
      PROVE  TreeInv'
  BY <1>2 DEF ReadBody, At, Goto, memory, tree
<1>3. ASSUME NEW p \in Procs, GetBufFails(p)
      PROVE  TreeInv'
  BY <1>3 DEF GetBufFails, At, Goto, Fault, Die, tree
<1>4. ASSUME NEW p \in Procs, ParseCrashes(p)
      PROVE  TreeInv'
  BY <1>4 DEF ParseCrashes, At, Goto, Die, tree
<1>5. ASSUME NEW p \in Procs, OpenTemp(p)
      PROVE  TreeInv'
  BY <1>5 DEF OpenTemp, At, Goto, memory, tree
<1>6. ASSUME NEW p \in Procs, OpenTempFails(p)
      PROVE  TreeInv'
  BY <1>6 DEF OpenTempFails, At, Goto, Fault, memory, tree
<1>7. ASSUME NEW p \in Procs, WriteTemp(p)
      PROVE  TreeInv'
  BY <1>7 DEF WriteTemp, At, Goto, memory, tree
<1>8. ASSUME NEW p \in Procs, AcceptFails(p)
      PROVE  TreeInv'
  BY <1>8 DEF AcceptFails, At, Goto, Die, tree
<1>9. ASSUME NEW p \in Procs, FdfsPipe(p)
      PROVE  TreeInv'
  BY <1>9 DEF FdfsPipe, At, Goto, Pipe, memory, tree
<1>10. ASSUME NEW p \in Procs, FdfsPipeFails(p)
      PROVE  TreeInv'
  BY <1>10 DEF FdfsPipeFails, At, Goto, Die, tree
<1>11. ASSUME NEW p \in Procs, FdfsFork(p)
      PROVE  TreeInv'
  BY <1>11 DEF FdfsFork, At, Fork
<1>12. ASSUME NEW p \in Procs, FdfsForkFails(p)
      PROVE  TreeInv'
  BY <1>12 DEF FdfsForkFails, At, Goto, Fault, memory, tree
<1>13. ASSUME NEW p \in Procs, FdfsExec(p)
      PROVE  TreeInv'
  BY <1>13 DEF FdfsExec, At, Goto, Fault, memory, tree
<1>14. ASSUME NEW p \in Procs, FdfsToolStores(p)
      PROVE  TreeInv'
  BY <1>14 DEF FdfsToolStores, At, Goto, Fault, Die
<1>15. ASSUME NEW p \in Procs, FdfsToolFails(p)
      PROVE  TreeInv'
  BY <1>15 DEF FdfsToolFails, At, Goto, Fault, Die, tree
<1>16. ASSUME NEW p \in Procs, FdfsWait(p)
      PROVE  TreeInv'
  BY <1>16 DEF FdfsWait, At, WaitReturns, Printed, Reap
<1>17. ASSUME NEW p \in Procs, UnlinkTemp(p)
      PROVE  TreeInv'
  BY <1>17 DEF UnlinkTemp, At, Goto, memory, tree
<1>18. ASSUME NEW p \in Procs, UrlPipe(p)
      PROVE  TreeInv'
  BY <1>18 DEF UrlPipe, At, Goto, Pipe, memory, tree
<1>19. ASSUME NEW p \in Procs, UrlPipeFails(p)
      PROVE  TreeInv'
  BY <1>19 DEF UrlPipeFails, At, Goto, memory, tree
<1>20. ASSUME NEW p \in Procs, UrlFork(p)
      PROVE  TreeInv'
  BY <1>20 DEF UrlFork, At, Fork
<1>21. ASSUME NEW p \in Procs, UrlForkFails(p)
      PROVE  TreeInv'
  BY <1>21 DEF UrlForkFails, At, Goto, Fault, memory, tree
<1>22. ASSUME NEW p \in Procs, UrlExec(p)
      PROVE  TreeInv'
  BY <1>22 DEF UrlExec, At, Goto, Fault, memory, tree
<1>23. ASSUME NEW p \in Procs, UrlToolPrints(p)
      PROVE  TreeInv'
  BY <1>23 DEF UrlToolPrints, At, Goto, Die
<1>24. ASSUME NEW p \in Procs, UrlToolFails(p)
      PROVE  TreeInv'
  BY <1>24 DEF UrlToolFails, At, Goto, Fault, Die, tree
<1>25. ASSUME NEW p \in Procs, UrlWait(p)
      PROVE  TreeInv'
  BY <1>25 DEF UrlWait, At, WaitReturns, Printed, Reap
<1>26. ASSUME NEW p \in Procs, UrlWaitCrashes(p)
      PROVE  TreeInv'
  BY <1>26 DEF UrlWaitCrashes, At, WaitReturns, Printed, Reap
<1>27. ASSUME NEW p \in Procs, Connect(p)
      PROVE  TreeInv'
  BY <1>27 DEF Connect, At, Goto, Fault, memory, tree
<1>28. ASSUME NEW p \in Procs, ConnectFails(p)
      PROVE  TreeInv'
  BY <1>28 DEF ConnectFails, At, Goto, Fault, Die, tree
<1>29. ASSUME NEW p \in Procs, LPush(p)
      PROVE  TreeInv'
  BY <1>29 DEF LPush, At, Goto, Fault, memory, tree
<1>30. ASSUME NEW p \in Procs, LPushLost(p)
      PROVE  TreeInv'
  BY <1>30 DEF LPushLost, At, Goto, Fault, Die, tree
<1>31. ASSUME NEW p \in Procs, ZIncr(p)
      PROVE  TreeInv'
  BY <1>31 DEF ZIncr, At, Goto, Fault, memory, tree
<1>32. ASSUME NEW p \in Procs, ZIncrLost(p)
      PROVE  TreeInv'
  BY <1>32 DEF ZIncrLost, At, Goto, Fault, Die, tree
<1>33. ASSUME NEW p \in Procs, End(p)
      PROVE  TreeInv'
  BY <1>33 DEF End, At, Goto, tree
<1>34. CASE Restart
  BY <1>34 DEF Restart, Fault
<1>35. CASE UNCHANGED vars
  BY <1>35 DEF vars, memory, tree, services
<1>36. QED
  BY <1>1, <1>2, <1>3, <1>4, <1>5, <1>6, <1>7, <1>8, <1>9, <1>10, <1>11, <1>12,
    <1>13, <1>14, <1>15, <1>16, <1>17, <1>18, <1>19, <1>20, <1>21, <1>22,
    <1>23, <1>24, <1>25, <1>26, <1>27, <1>28, <1>29, <1>30, <1>31, <1>32,
    <1>33, <1>34, <1>35
    DEF Next, Step, Resting

-----------------------------------------------------------------------------
(* Third layer: whose content is where.                                    *)

\* Initially there is no file, no id and no record.
LEMMA ContentInit == Init => ContentInv
BY UploadAssumption
   DEF Init, ContentInv, TempIsOwn, FileIsOwn, PipeIsOwn, UrlIsOwn, ListIsOwn,
       Printed

\* What is saved of a request is not the absence of a file.
LEMMA SavedIsFile == \A c, r : Saved(c, r) => c # NoFile
<1> SUFFICES ASSUME NEW c, NEW r, Saved(c, r)
             PROVE  c # NoFile
  OBVIOUS
<1>1. r \in Requests /\ c \in {<<r, TRUE>>, <<r, FALSE>>}
  BY DEF Saved
<1>2. <<r, TRUE>> \in Requests \X BOOLEAN /\ <<r, FALSE>> \in Requests \X BOOLEAN
  BY <1>1
<1> QED
  BY <1>1, <1>2, UploadAssumption

\* Only the one active process writes a file, and it serves its own request.
LEMMA ContentStep == TypeInv /\ TreeInv /\ ContentInv /\ [Next]_vars => ContentInv'
<1> SUFFICES ASSUME TypeInv, TreeInv, ContentInv, [Next]_vars
             PROVE  ContentInv'
  OBVIOUS
<1> /\ pc \in [Procs -> Locations]
    /\ req \in [Procs -> Requests \cup {NoReq}]
    /\ fid \in [Procs -> Ids]
    /\ url \in [Procs -> Ids]
    /\ child \in [Procs -> Procs \cup {NoProc}]
    /\ out \in [Procs -> Ids]
    /\ tmp \in [Names -> C!Contents \cup {NoFile}]
    /\ stored \in [FileIds -> C!Contents \cup {NoFile}]
    /\ list \in Seq(C!Records)
    /\ Root \in Procs /\ NoProc \notin Procs /\ NoId \notin FileIds
    /\ Name \in [Requests -> Names]
  BY UploadAssumption DEF TypeInv, TypeOK
<1> Serves
  BY DEF TypeInv
<1> /\ OneRunning /\ OnlyWaitersHaveChildren /\ StagesAgree
    /\ OnlyTheDeadPrint
  BY DEF TreeInv
<1> USE DEF ContentInv, TempIsOwn, FileIsOwn, PipeIsOwn, UrlIsOwn, ListIsOwn,
            Printed, Serves, Idle, OneRunning, Active, OnlyWaitersHaveChildren,
            StagesAgree, OnlyTheDeadPrint, Running, Waiting, Ids
<1>1. ASSUME NEW p \in Procs, Accept(p)
      PROVE  ContentInv'
  <2>1. pc[p] = "accept" /\ req[p] = NoReq
    BY <1>1 DEF Accept, At
  <2>2. fid[p] = NoId
    BY <2>1, UploadAssumption DEF Saved
  <2>3. PICK r \in Requests : req' = [req EXCEPT ![p] = r]
    BY <1>1 DEF Accept
  <2> QED
    BY <1>1, <2>1, <2>2, <2>3 DEF Accept, Goto, tree, services
<1>2. ASSUME NEW p \in Procs, ReadBody(p)
      PROVE  ContentInv'
  <2>1. PICK l \in {"end", "fopen"} : Goto(p, l)
    BY <1>2 DEF ReadBody
  <2> QED
    BY <1>2, <2>1 DEF ReadBody, At, Goto, memory, tree, services
<1>3. ASSUME NEW p \in Procs, GetBufFails(p)
      PROVE  ContentInv'
  BY <1>3 DEF GetBufFails, At, Goto, Fault, Die, tree, services
<1>4. ASSUME NEW p \in Procs, ParseCrashes(p)
      PROVE  ContentInv'
  BY <1>4 DEF ParseCrashes, At, Goto, Die, tree, services
<1>5. ASSUME NEW p \in Procs, OpenTemp(p)
      PROVE  ContentInv'
  BY <1>5 DEF OpenTemp, At, Goto, memory, tree, services
<1>6. ASSUME NEW p \in Procs, OpenTempFails(p)
      PROVE  ContentInv'
  BY <1>6 DEF OpenTempFails, At, Goto, Fault, memory, tree, services
<1>7. ASSUME NEW p \in Procs, WriteTemp(p)
      PROVE  ContentInv'
  <2>1. pc[p] = "fwrite" /\ req[p] \in Requests
    BY <1>7 DEF WriteTemp, At
  <2>2. PICK whole \in BOOLEAN :
          /\ whole \/ MayBeCut(req[p])
          /\ tmp' = [tmp EXCEPT ![Name[req[p]]] = <<req[p], whole>>]
    BY <1>7 DEF WriteTemp
  <2>3. Saved(<<req[p], whole>>, req[p])
    BY <2>1, <2>2 DEF Saved
  <2>4. Goto(p, "fdfs_pipe") /\ UNCHANGED <<memory, tree, services>>
    BY <1>7 DEF WriteTemp
  <2>5. TempIsOwn'
    BY <2>1, <2>2, <2>3, <2>4 DEF Goto, memory
  <2> QED
    BY <2>1, <2>4, <2>5 DEF Goto, memory, tree, services
<1>8. ASSUME NEW p \in Procs, AcceptFails(p)
      PROVE  ContentInv'
  BY <1>8 DEF AcceptFails, At, Goto, Die, tree, services
<1>9. ASSUME NEW p \in Procs, FdfsPipe(p)
      PROVE  ContentInv'
  BY <1>9 DEF FdfsPipe, At, Goto, Pipe, memory, tree, services
<1>10. ASSUME NEW p \in Procs, FdfsPipeFails(p)
      PROVE  ContentInv'
  BY <1>10 DEF FdfsPipeFails, At, Goto, Die, tree, services
<1>11. ASSUME NEW p \in Procs, FdfsFork(p)
      PROVE  ContentInv'
  BY <1>11 DEF FdfsFork, At, Fork, services
<1>12. ASSUME NEW p \in Procs, FdfsForkFails(p)
      PROVE  ContentInv'
  BY <1>12 DEF FdfsForkFails, At, Goto, Fault, memory, tree, services
<1>13. ASSUME NEW p \in Procs, FdfsExec(p)
      PROVE  ContentInv'
  <2>1. PICK l \in {"fdfs_tool", "end"} : Goto(p, l)
    BY <1>13 DEF FdfsExec
  <2> QED
    BY <1>13, <2>1 DEF FdfsExec, At, Goto, memory, tree, services
<1>14. ASSUME NEW p \in Procs, FdfsToolStores(p)
      PROVE  ContentInv'
  BY <1>14, SavedIsFile DEF FdfsToolStores, At, Goto, Fault, Die
<1>15. ASSUME NEW p \in Procs, FdfsToolFails(p)
      PROVE  ContentInv'
  BY <1>15 DEF FdfsToolFails, At, Goto, Fault, Die, tree, services
<1>16. ASSUME NEW p \in Procs, FdfsWait(p)
      PROVE  ContentInv'
  BY <1>16 DEF FdfsWait, At, WaitReturns, Printed, Reap, services
<1>17. ASSUME NEW p \in Procs, UnlinkTemp(p)
      PROVE  ContentInv'
  BY <1>17 DEF UnlinkTemp, At, Goto, memory, tree, services
<1>18. ASSUME NEW p \in Procs, UrlPipe(p)
      PROVE  ContentInv'
  BY <1>18 DEF UrlPipe, At, Goto, Pipe, memory, tree, services
<1>19. ASSUME NEW p \in Procs, UrlPipeFails(p)
      PROVE  ContentInv'
  BY <1>19 DEF UrlPipeFails, At, Goto, memory, tree, services
<1>20. ASSUME NEW p \in Procs, UrlFork(p)
      PROVE  ContentInv'
  <2>1. pc[p] = "url_fork" /\ url[p] = NoId
    BY <1>20 DEF UrlFork, At
  <2>2. PICK q \in Procs :
          /\ pc[q] = "free"
          /\ pc' = [pc EXCEPT ![p] = "url_wait", ![q] = "url_exec"]
          /\ child' = [child EXCEPT ![p] = q]
          /\ req' = [req EXCEPT ![q] = req[p]]
          /\ fid' = [fid EXCEPT ![q] = fid[p]]
          /\ url' = [url EXCEPT ![q] = url[p]]
          /\ UNCHANGED <<out, tmp, services>>
    BY <1>20 DEF UrlFork, Fork
  <2> QED
    BY <2>1, <2>2 DEF services
<1>21. ASSUME NEW p \in Procs, UrlForkFails(p)
      PROVE  ContentInv'
  BY <1>21 DEF UrlForkFails, At, Goto, Fault, memory, tree, services
<1>22. ASSUME NEW p \in Procs, UrlExec(p)
      PROVE  ContentInv'
  BY <1>22 DEF UrlExec, At, Goto, Fault, memory, tree, services
<1>23. ASSUME NEW p \in Procs, UrlToolPrints(p)
      PROVE  ContentInv'
  BY <1>23 DEF UrlToolPrints, At, Goto, Die, services
<1>24. ASSUME NEW p \in Procs, UrlToolFails(p)
      PROVE  ContentInv'
  BY <1>24 DEF UrlToolFails, At, Goto, Fault, Die, tree, services
<1>25. ASSUME NEW p \in Procs, UrlWait(p)
      PROVE  ContentInv'
  BY <1>25 DEF UrlWait, At, WaitReturns, Printed, Reap, services
<1>26. ASSUME NEW p \in Procs, UrlWaitCrashes(p)
      PROVE  ContentInv'
  BY <1>26 DEF UrlWaitCrashes, At, WaitReturns, Printed, Reap, services
<1>27. ASSUME NEW p \in Procs, Connect(p)
      PROVE  ContentInv'
  BY <1>27 DEF Connect, At, Goto, Fault, memory, tree, services
<1>28. ASSUME NEW p \in Procs, ConnectFails(p)
      PROVE  ContentInv'
  BY <1>28 DEF ConnectFails, At, Goto, Fault, Die, tree, services
<1>29. ASSUME NEW p \in Procs, LPush(p)
      PROVE  ContentInv'
  <2>1. UrlIsOwn' /\ TempIsOwn' /\ FileIsOwn' /\ PipeIsOwn'
    BY <1>29 DEF LPush, At, Goto, Die, memory, tree
  <2>2. CASE list' = list
    BY <1>29, <2>1, <2>2 DEF LPush
  <2>3. CASE list' = Append(list, Record(p))
    <3>1. /\ Record(p).id # NoId => Saved(stored[Record(p).id], Record(p).req)
          /\ Record(p).url \in {Record(p).id, NoId}
      BY DEF Record
    <3>2. ListIsOwn'
      BY <1>29, <2>3, <3>1 DEF LPush
    <3> QED
      BY <2>1, <3>2
  <2> QED
    BY <1>29, <2>2, <2>3 DEF LPush
<1>30. ASSUME NEW p \in Procs, LPushLost(p)
      PROVE  ContentInv'
  <2>1. UrlIsOwn' /\ TempIsOwn' /\ FileIsOwn' /\ PipeIsOwn'
    BY <1>30 DEF LPushLost, At, Goto, Die, memory, tree
  <2>2. CASE list' = list
    BY <1>30, <2>1, <2>2 DEF LPushLost
  <2>3. CASE list' = Append(list, Record(p))
    <3>1. /\ Record(p).id # NoId => Saved(stored[Record(p).id], Record(p).req)
          /\ Record(p).url \in {Record(p).id, NoId}
      BY DEF Record
    <3>2. ListIsOwn'
      BY <1>30, <2>3, <3>1 DEF LPushLost
    <3> QED
      BY <2>1, <3>2
  <2> QED
    BY <1>30, <2>2, <2>3 DEF LPushLost
<1>31. ASSUME NEW p \in Procs, ZIncr(p)
      PROVE  ContentInv'
  BY <1>31 DEF ZIncr, At, Goto, Fault, memory, tree
<1>32. ASSUME NEW p \in Procs, ZIncrLost(p)
      PROVE  ContentInv'
  BY <1>32 DEF ZIncrLost, At, Goto, Fault, Die, tree
<1>33. ASSUME NEW p \in Procs, End(p)
      PROVE  ContentInv'
  BY <1>33 DEF End, At, Goto, tree, services
<1>34. CASE Restart
  BY <1>34 DEF Restart, Fault, services
<1>35. CASE UNCHANGED vars
  BY <1>35 DEF vars, memory, tree, services
<1>36. QED
  BY <1>1, <1>2, <1>3, <1>4, <1>5, <1>6, <1>7, <1>8, <1>9, <1>10, <1>11, <1>12,
    <1>13, <1>14, <1>15, <1>16, <1>17, <1>18, <1>19, <1>20, <1>21, <1>22,
    <1>23, <1>24, <1>25, <1>26, <1>27, <1>28, <1>29, <1>30, <1>31, <1>32,
    <1>33, <1>34, <1>35
    DEF Next, Step, Resting

-----------------------------------------------------------------------------
(* Fourth layer: a request is stored once and listed once.                 *)

\* No content of a request is the absence of a file.
LEMMA NoFileIsNoContent == \A r \in Requests : NoFile \notin C!ContentOf(r)
<1> SUFFICES ASSUME NEW r \in Requests
             PROVE  NoFile \notin C!ContentOf(r)
  OBVIOUS
<1>1. <<r, TRUE>> \in Requests \X BOOLEAN /\ <<r, FALSE>> \in Requests \X BOOLEAN
  OBVIOUS
<1> QED
  BY <1>1, UploadAssumption DEF C!ContentOf

\* A content belongs to the request it was made from.
LEMMA ContentOwner ==
    ASSUME NEW r, NEW s, NEW whole \in BOOLEAN
    PROVE  <<s, whole>> \in C!ContentOf(r) <=> s = r
BY DEF C!ContentOf

\* Initially no request has been taken.
LEMMA OnceInit == Init => OnceInv
<1> SUFFICES ASSUME Init
             PROVE  OnceInv
  OBVIOUS
<1>1. Stored = {}
  <2> SUFFICES ASSUME NEW r \in Requests
               PROVE  ~ C!IsStored(r)
    BY DEF Stored
  <2> QED
    BY NoFileIsNoContent DEF Init, C!IsStored
<1>2. Listed = {}
  BY DEF Init, Listed, C!IsListed
<1>3. TempNamed /\ Unlinked /\ ListedGone
  BY <1>2, NoFileIsNoContent DEF Init, TempNamed, Unlinked, Fetching, ListedGone
<1> QED
  BY <1>1, <1>2, <1>3, UploadAssumption
  DEF Init, OnceInv, SharedRequest, FreshRequest, NotYetStored, NotYetListed,
      Printed, MayPublish

\* Whoever may still publish a request is alone to do so.
LEMMA OnceStep == TypeInv /\ TreeInv /\ ContentInv /\ OnceInv /\ [Next]_vars => OnceInv'
<1> SUFFICES ASSUME TypeInv, TreeInv, ContentInv, OnceInv, [Next]_vars
             PROVE  OnceInv'
  OBVIOUS
<1> /\ pc \in [Procs -> Locations]
    /\ req \in [Procs -> Requests \cup {NoReq}]
    /\ fid \in [Procs -> Ids]
    /\ child \in [Procs -> Procs \cup {NoProc}]
    /\ out \in [Procs -> Ids]
    /\ tmp \in [Names -> C!Contents \cup {NoFile}]
    /\ stored \in [FileIds -> C!Contents \cup {NoFile}]
    /\ list \in Seq(C!Records)
    /\ outcome \in [Requests -> {"queued", "serving", "closed"}]
    /\ Root \in Procs /\ NoProc \notin Procs /\ NoReq \notin Requests
    /\ Name \in [Requests -> Names]
  BY UploadAssumption DEF TypeInv, TypeOK
<1> Serves
  BY DEF TypeInv
<1> /\ OneRunning /\ OnlyWaitersHaveChildren /\ StagesAgree
    /\ OnlyTheDeadPrint
  BY DEF TreeInv
<1> USE DEF OnceInv, SharedRequest, WaitsFor, FreshRequest, NotYetStored,
            NotYetListed, MayPublish, TempNamed, Unlinked, Fetching, ListedGone,
            Printed, Serves, Idle, OneRunning, Active, OnlyWaitersHaveChildren,
            StagesAgree, OnlyTheDeadPrint, Running, Waiting
<1>s. UNCHANGED stored => Stored' = Stored
  BY DEF Stored, C!IsStored
<1>l. UNCHANGED list => Listed' = Listed
  BY DEF Listed, C!IsListed
<1>1. ASSUME NEW p \in Procs, Accept(p)
      PROVE  OnceInv'
  BY <1>1, <1>s, <1>l DEF Accept, At, Goto, tree, services
<1>2. ASSUME NEW p \in Procs, ReadBody(p)
      PROVE  OnceInv'
  BY <1>2, <1>s, <1>l DEF ReadBody, At, Goto, memory, tree, services
<1>3. ASSUME NEW p \in Procs, GetBufFails(p)
      PROVE  OnceInv'
  BY <1>3, <1>s, <1>l DEF GetBufFails, At, Goto, Fault, AbandonRequest, Die,
    tree, services
<1>4. ASSUME NEW p \in Procs, ParseCrashes(p)
      PROVE  OnceInv'
  BY <1>4, <1>s, <1>l DEF ParseCrashes, At, Goto, AbandonRequest, Die, tree,
    services
<1>5. ASSUME NEW p \in Procs, OpenTemp(p)
      PROVE  OnceInv'
  <2>1. pc[p] = "fopen" /\ req[p] \in Requests
    BY <1>5 DEF OpenTemp, At
  <2>2. PICK whole \in BOOLEAN :
          tmp' = [tmp EXCEPT ![Name[req[p]]] = <<req[p], whole>>]
    BY <1>5 DEF OpenTemp
  <2>3. \A r \in Requests : <<req[p], whole>> \in C!ContentOf(r) <=> r = req[p]
    BY ContentOwner
  <2>4. Goto(p, "fwrite") /\ UNCHANGED <<memory, tree, services, outcome>>
    BY <1>5 DEF OpenTemp
  <2>5. Stored' = Stored /\ Listed' = Listed
    BY <1>s, <1>l, <2>4 DEF services
  <2>6. TempNamed'
    BY <2>1, <2>2, <2>3
  <2>7. ListedGone'
    <3> SUFFICES ASSUME NEW r \in Listed, NEW n \in Names
                 PROVE  tmp'[n] \notin C!ContentOf(r)
      BY <2>5
    <3>1. r \in Requests /\ r # req[p]
      BY <2>1 DEF Listed
    <3>2. tmp'[n] \in {tmp[n], <<req[p], whole>>}
      BY <2>2
    <3>3. <<req[p], whole>> \notin C!ContentOf(r)
      BY <2>3, <3>1
    <3>4. tmp[n] \notin C!ContentOf(r)
      OBVIOUS
    <3> QED
      BY <3>2, <3>3, <3>4
  <2>8. Unlinked'
    <3> SUFFICES ASSUME NEW q \in Procs, pc'[q] \in Fetching
                 PROVE  tmp'[Name[req[q]]] \notin C!ContentOf(req[q])
      BY <2>4 DEF memory
    <3>1. pc[q] \in Fetching /\ q # p
      BY <2>1, <2>4 DEF Goto
    <3>2. req[q] \in Requests /\ req[q] # req[p]
      BY <2>1, <3>1
    <3>3. tmp'[Name[req[q]]] \in {tmp[Name[req[q]]], <<req[p], whole>>}
      BY <2>2, <3>2
    <3>4. <<req[p], whole>> \notin C!ContentOf(req[q])
      BY <2>3, <3>2
    <3>5. tmp[Name[req[q]]] \notin C!ContentOf(req[q])
      BY <3>1
    <3> QED
      BY <3>3, <3>4, <3>5
  <2>9. SharedRequest' /\ FreshRequest' /\ NotYetStored' /\ NotYetListed'
    BY <2>1, <2>4, <2>5 DEF Goto, memory, tree
  <2> QED
    BY <2>6, <2>7, <2>8, <2>9
<1>6. ASSUME NEW p \in Procs, OpenTempFails(p)
      PROVE  OnceInv'
  BY <1>6, <1>s, <1>l DEF OpenTempFails, At, Goto, Fault, memory, tree,
    services
<1>7. ASSUME NEW p \in Procs, WriteTemp(p)
      PROVE  OnceInv'
  <2>1. pc[p] = "fwrite" /\ req[p] \in Requests
    BY <1>7 DEF WriteTemp, At
  <2>2. PICK whole \in BOOLEAN :
          tmp' = [tmp EXCEPT ![Name[req[p]]] = <<req[p], whole>>]
    BY <1>7 DEF WriteTemp
  <2>3. \A r \in Requests : <<req[p], whole>> \in C!ContentOf(r) <=> r = req[p]
    BY ContentOwner
  <2>4. Goto(p, "fdfs_pipe") /\ UNCHANGED <<memory, tree, services, outcome>>
    BY <1>7 DEF WriteTemp
  <2>5. Stored' = Stored /\ Listed' = Listed
    BY <1>s, <1>l, <2>4 DEF services
  <2>6. TempNamed'
    BY <2>1, <2>2, <2>3
  <2>7. ListedGone'
    <3> SUFFICES ASSUME NEW r \in Listed, NEW n \in Names
                 PROVE  tmp'[n] \notin C!ContentOf(r)
      BY <2>5
    <3>1. r \in Requests /\ r # req[p]
      BY <2>1 DEF Listed
    <3>2. tmp'[n] \in {tmp[n], <<req[p], whole>>}
      BY <2>2
    <3>3. <<req[p], whole>> \notin C!ContentOf(r)
      BY <2>3, <3>1
    <3>4. tmp[n] \notin C!ContentOf(r)
      OBVIOUS
    <3> QED
      BY <3>2, <3>3, <3>4
  <2>8. Unlinked'
    <3> SUFFICES ASSUME NEW q \in Procs, pc'[q] \in Fetching
                 PROVE  tmp'[Name[req[q]]] \notin C!ContentOf(req[q])
      BY <2>4 DEF memory
    <3>1. pc[q] \in Fetching /\ q # p
      BY <2>1, <2>4 DEF Goto
    <3>2. req[q] \in Requests /\ req[q] # req[p]
      BY <2>1, <3>1
    <3>3. tmp'[Name[req[q]]] \in {tmp[Name[req[q]]], <<req[p], whole>>}
      BY <2>2, <3>2
    <3>4. <<req[p], whole>> \notin C!ContentOf(req[q])
      BY <2>3, <3>2
    <3>5. tmp[Name[req[q]]] \notin C!ContentOf(req[q])
      BY <3>1
    <3> QED
      BY <3>3, <3>4, <3>5
  <2>9. SharedRequest' /\ FreshRequest' /\ NotYetStored' /\ NotYetListed'
    BY <2>1, <2>4, <2>5 DEF Goto, memory, tree
  <2> QED
    BY <2>6, <2>7, <2>8, <2>9
<1>8. ASSUME NEW p \in Procs, AcceptFails(p)
      PROVE  OnceInv'
  BY <1>8, <1>s, <1>l DEF AcceptFails, At, Goto, Die, tree,
    services
<1>9. ASSUME NEW p \in Procs, FdfsPipe(p)
      PROVE  OnceInv'
  BY <1>9, <1>s, <1>l DEF FdfsPipe, At, Goto, Pipe, memory, tree, services
<1>10. ASSUME NEW p \in Procs, FdfsPipeFails(p)
      PROVE  OnceInv'
  BY <1>10, <1>s, <1>l DEF FdfsPipeFails, At, Goto, AbandonRequest, Die, tree,
    services
<1>11. ASSUME NEW p \in Procs, FdfsFork(p)
      PROVE  OnceInv'
  BY <1>11, <1>s, <1>l DEF FdfsFork, At, Fork, services
<1>12. ASSUME NEW p \in Procs, FdfsForkFails(p)
      PROVE  OnceInv'
  BY <1>12, <1>s, <1>l DEF FdfsForkFails, At, Goto, Fault, memory, tree,
    services
<1>13. ASSUME NEW p \in Procs, FdfsExec(p)
      PROVE  OnceInv'
  BY <1>13, <1>s, <1>l DEF FdfsExec, At, Goto, Fault, memory, tree, services
<1>14. ASSUME NEW p \in Procs, FdfsToolStores(p)
      PROVE  OnceInv'
  <2>1. pc[p] = "fdfs_tool" /\ req[p] \in Requests
    BY <1>14 DEF FdfsToolStores, At
  <2>2. PICK i \in FileIds :
          /\ stored[i] = NoFile
          /\ stored' = [stored EXCEPT ![i] = tmp[Name[req[p]]]]
          /\ out' = [out EXCEPT ![p] = i] \/ UNCHANGED out
    BY <1>14 DEF FdfsToolStores
  <2>3. tmp[Name[req[p]]] \in C!ContentOf(req[p])
    BY <2>1 DEF ContentInv, TempIsOwn, Saved, C!ContentOf
  <2>4. Stored' \subseteq Stored \cup {req[p]}
    <3>1. PICK whole \in BOOLEAN : tmp[Name[req[p]]] = <<req[p], whole>>
      BY <2>3 DEF C!ContentOf
    <3>2. \A r \in Requests : tmp[Name[req[p]]] \in C!ContentOf(r) => r = req[p]
      BY <3>1, ContentOwner
    <3> QED
      BY <2>2, <3>2 DEF Stored, C!IsStored
  <2>5. Die(p) /\ UNCHANGED <<child, tmp, list, outcome>>
    BY <1>14 DEF FdfsToolStores
  <2>6. Listed' = Listed
    BY <1>l, <2>5
  <2>7. FreshRequest' /\ NotYetStored'
    BY <2>1, <2>4, <2>5, <2>6 DEF Die, Goto
  <2>8. SharedRequest' /\ TempNamed' /\ Unlinked' /\ ListedGone'
    BY <2>1, <2>5, <2>6 DEF Die, Goto
  <2>9. NotYetListed'
    BY <2>1, <2>2, <2>5, <2>6 DEF Die, Goto
  <2> QED
    BY <2>7, <2>8, <2>9
<1>15. ASSUME NEW p \in Procs, FdfsToolFails(p)
      PROVE  OnceInv'
  BY <1>15, <1>s, <1>l DEF FdfsToolFails, At, Goto, Fault, Die, tree, services
<1>16. ASSUME NEW p \in Procs, FdfsWait(p)
      PROVE  OnceInv'
  BY <1>16, <1>s, <1>l DEF FdfsWait, At, WaitReturns, Printed, Reap, services
<1>17. ASSUME NEW p \in Procs, UnlinkTemp(p)
      PROVE  OnceInv'
  <2>1. pc[p] = "unlink" /\ req[p] \in Requests
    BY <1>17 DEF UnlinkTemp, At
  <2>2. tmp' = [tmp EXCEPT ![Name[req[p]]] = NoFile]
    BY <1>17 DEF UnlinkTemp
  <2>3. Goto(p, "url_pipe") /\ UNCHANGED <<memory, tree, services, outcome>>
    BY <1>17 DEF UnlinkTemp
  <2>4. Stored' = Stored /\ Listed' = Listed
    BY <1>s, <1>l, <2>3 DEF services
  <2>5. TempNamed' /\ ListedGone'
    BY <2>1, <2>2, <2>4, NoFileIsNoContent DEF Listed
  <2>6. Unlinked'
    BY <2>1, <2>2, <2>3, NoFileIsNoContent DEF Goto, memory
  <2>7. SharedRequest' /\ FreshRequest' /\ NotYetStored' /\ NotYetListed'
    BY <2>1, <2>3, <2>4 DEF Goto, memory, tree
  <2> QED
    BY <2>5, <2>6, <2>7
<1>18. ASSUME NEW p \in Procs, UrlPipe(p)
      PROVE  OnceInv'
  BY <1>18, <1>s, <1>l DEF UrlPipe, At, Goto, Pipe, memory, tree, services
<1>19. ASSUME NEW p \in Procs, UrlPipeFails(p)
      PROVE  OnceInv'
  BY <1>19, <1>s, <1>l DEF UrlPipeFails, At, Goto, memory, tree, services
<1>20. ASSUME NEW p \in Procs, UrlFork(p)
      PROVE  OnceInv'
  BY <1>20, <1>s, <1>l DEF UrlFork, At, Fork, services
<1>21. ASSUME NEW p \in Procs, UrlForkFails(p)
      PROVE  OnceInv'
  BY <1>21, <1>s, <1>l DEF UrlForkFails, At, Goto, Fault, memory, tree,
    services
<1>22. ASSUME NEW p \in Procs, UrlExec(p)
      PROVE  OnceInv'
  <2>1. PICK l \in {"url_tool", "connect"} : Goto(p, l)
    BY <1>22 DEF UrlExec
  <2> QED
    BY <1>22, <1>s, <1>l, <2>1 DEF UrlExec, At, Goto, memory, tree, services
<1>23. ASSUME NEW p \in Procs, UrlToolPrints(p)
      PROVE  OnceInv'
  BY <1>23, <1>s, <1>l DEF UrlToolPrints, At, Goto, Die, services
<1>24. ASSUME NEW p \in Procs, UrlToolFails(p)
      PROVE  OnceInv'
  BY <1>24, <1>s, <1>l DEF UrlToolFails, At, Goto, Fault, Die, tree, services
<1>25. ASSUME NEW p \in Procs, UrlWait(p)
      PROVE  OnceInv'
  BY <1>25, <1>s, <1>l DEF UrlWait, At, WaitReturns, Printed, Reap, services
<1>26. ASSUME NEW p \in Procs, UrlWaitCrashes(p)
      PROVE  OnceInv'
  BY <1>26, <1>s, <1>l DEF UrlWaitCrashes, At, AbandonRequest, WaitReturns,
    Printed, Reap, services
<1>27. ASSUME NEW p \in Procs, Connect(p)
      PROVE  OnceInv'
  BY <1>27, <1>s, <1>l DEF Connect, At, Goto, Fault, memory, tree, services
<1>28. ASSUME NEW p \in Procs, ConnectFails(p)
      PROVE  OnceInv'
  BY <1>28, <1>s, <1>l DEF ConnectFails, At, Goto, Fault, AbandonRequest, Die,
    tree, services
<1>29. ASSUME NEW p \in Procs, LPush(p)
      PROVE  OnceInv'
  <2>1. pc[p] = "lpush" /\ req[p] \in Requests
    BY <1>29 DEF LPush, At
  <2>2. Listed' \subseteq Listed \cup {req[p]}
    <3>1. CASE list' = list
      BY <1>l, <3>1
    <3>2. CASE list' = Append(list, Record(p))
      BY <3>2 DEF Listed, C!IsListed, Record
    <3> QED
      BY <1>29, <3>1, <3>2 DEF LPush
  <2>3. Stored' = Stored
    BY <1>29, <1>s DEF LPush
  <2>4. Goto(p, "zincr") /\ UNCHANGED <<req, child, out, tmp, outcome>>
    BY <1>29 DEF LPush, tree, memory
  <2>5. FreshRequest' /\ NotYetStored' /\ SharedRequest'
    BY <2>1, <2>2, <2>3, <2>4 DEF Goto
  <2>6. NotYetListed'
    BY <2>1, <2>2, <2>4 DEF Goto
  <2>7. TempNamed' /\ Unlinked' /\ ListedGone'
    BY <2>1, <2>2, <2>4 DEF Goto
  <2> QED
    BY <2>5, <2>6, <2>7
<1>30. ASSUME NEW p \in Procs, LPushLost(p)
      PROVE  OnceInv'
  <2>1. pc[p] = "lpush" /\ req[p] \in Requests
    BY <1>30 DEF LPushLost, At
  <2>2. Listed' \subseteq Listed \cup {req[p]}
    <3>1. CASE list' = list
      BY <1>l, <3>1
    <3>2. CASE list' = Append(list, Record(p))
      BY <3>2 DEF Listed, C!IsListed, Record
    <3> QED
      BY <1>30, <3>1, <3>2 DEF LPushLost
  <2>3. Stored' = Stored
    BY <1>30, <1>s DEF LPushLost
  <2>4. Die(p) /\ AbandonRequest(p) /\ UNCHANGED <<child, out, tmp>>
    BY <1>30 DEF LPushLost, tree, memory
  <2>5. FreshRequest' /\ NotYetStored' /\ SharedRequest'
    BY <2>1, <2>2, <2>3, <2>4 DEF Die, Goto, AbandonRequest
  <2>6. NotYetListed'
    BY <2>1, <2>2, <2>4 DEF Die, Goto, AbandonRequest
  <2>7. TempNamed' /\ Unlinked' /\ ListedGone'
    BY <2>1, <2>2, <2>4 DEF Die, Goto, AbandonRequest
  <2> QED
    BY <2>5, <2>6, <2>7
<1>31. ASSUME NEW p \in Procs, ZIncr(p)
      PROVE  OnceInv'
  BY <1>31, <1>s, <1>l DEF ZIncr, At, Goto, Fault, memory, tree
<1>32. ASSUME NEW p \in Procs, ZIncrLost(p)
      PROVE  OnceInv'
  BY <1>32, <1>s, <1>l DEF ZIncrLost, At, Goto, Fault, AbandonRequest, Die, tree
<1>33. ASSUME NEW p \in Procs, End(p)
      PROVE  OnceInv'
  BY <1>33, <1>s, <1>l DEF End, At, Goto, CloseRequest, tree, services
<1>34. CASE Restart
  BY <1>34, <1>s, <1>l DEF Restart, services
<1>35. CASE UNCHANGED vars
  BY <1>35, <1>s, <1>l DEF vars, memory, tree, services
<1>36. QED
  BY <1>1, <1>2, <1>3, <1>4, <1>5, <1>6, <1>7, <1>8, <1>9, <1>10, <1>11, <1>12,
    <1>13, <1>14, <1>15, <1>16, <1>17, <1>18, <1>19, <1>20, <1>21, <1>22,
    <1>23, <1>24, <1>25, <1>26, <1>27, <1>28, <1>29, <1>30, <1>31, <1>32,
    <1>33, <1>34, <1>35
    DEF Next, Step, Resting

-----------------------------------------------------------------------------
(* The invariant, and what follows from it.                                *)

Inv == TypeInv /\ TreeInv /\ ContentInv /\ OnceInv

\* Each layer is preserved given the ones before it.
LEMMA InvStep == Inv /\ [Next]_vars => Inv'
BY TypeStep, TreeStep, ContentStep, OnceStep DEF Inv

(* All four layers hold in every state the service reaches.                *)
THEOREM Invariance == Spec => []Inv
<1>1. Init => Inv
  BY TypeInit, TreeInit, ContentInit, OnceInit DEF Inv
<1> QED
  BY <1>1, InvStep, PTL DEF Spec

(* Every variable keeps to its kind and no process exceeds its descriptor  *)
(* limit, for every limit and every set of faults.                         *)
THEOREM TypeCorrect == Spec => []TypeOK
<1>1. Inv => TypeOK
  BY DEF Inv, TypeInv
<1> QED
  BY <1>1, Invariance, PTL

(* At most one process of the tree that upload.c forks is ever active.     *)
THEOREM OneProcessRuns == Spec => []OneRunning
<1>1. Inv => OneRunning
  BY DEF Inv, TreeInv
<1> QED
  BY <1>1, Invariance, PTL

(* No record ever names the file or the url of another request.            *)
THEOREM RecordsAreOwn == Spec => []RecordContent
<1>1. ASSUME Inv
      PROVE  RecordContent
  <2> SUFFICES ASSUME NEW k \in DOMAIN list
               PROVE  /\ list[k].id # NoId =>
                            \/ stored[list[k].id] = <<list[k].req, TRUE>>
                            \/ /\ MayBeCut(list[k].req)
                               /\ stored[list[k].id] = <<list[k].req, FALSE>>
                      /\ list[k].url \in {list[k].id, NoId}
    BY DEF RecordContent
  <2> QED
    BY <1>1 DEF Inv, ContentInv, ListIsOwn, Saved
<1> QED
  BY <1>1, Invariance, PTL

(* No temporary file holds what has been listed.                           *)
THEOREM TempFilesGo == Spec => []TempGone
<1>1. ASSUME Inv
      PROVE  TempGone
  <2> SUFFICES ASSUME NEW k \in DOMAIN list, NEW n \in Names
               PROVE  tmp[n] \notin C!ContentOf(list[k].req)
    BY DEF TempGone
  <2>1. list[k].req \in Requests
    <3>1. list \in Seq(C!Records)
      BY <1>1 DEF Inv, TypeInv, TypeOK
    <3>2. list[k] \in C!Records
      BY <3>1
    <3> QED
      BY <3>2 DEF C!Records
  <2>2. list[k].req \in Listed
    BY <2>1 DEF Listed, C!IsListed
  <2> QED
    BY <1>1, <2>2 DEF Inv, OnceInv, ListedGone
<1> QED
  BY <1>1, Invariance, PTL

\* Every step is a step of Catalogue or leaves its variables alone.
LEMMA CatalogueStep == Inv /\ [Next]_vars => [C!Next]_(C!vars)
<1> SUFFICES ASSUME Inv, [Next]_vars
             PROVE  [C!Next]_(C!vars)
  OBVIOUS
<1> USE DEF C!vars
<1>1. ASSUME NEW p \in Procs, Accept(p)
      PROVE  [C!Next]_(C!vars)
  BY <1>1 DEF Accept, services
<1>2. ASSUME NEW p \in Procs, ReadBody(p)
      PROVE  [C!Next]_(C!vars)
  BY <1>2 DEF ReadBody, services
<1>3. ASSUME NEW p \in Procs, GetBufFails(p)
      PROVE  [C!Next]_(C!vars)
  BY <1>3 DEF GetBufFails, services
<1>4. ASSUME NEW p \in Procs, ParseCrashes(p)
      PROVE  [C!Next]_(C!vars)
  BY <1>4 DEF ParseCrashes, services
<1>5. ASSUME NEW p \in Procs, OpenTemp(p)
      PROVE  [C!Next]_(C!vars)
  BY <1>5 DEF OpenTemp, services
<1>6. ASSUME NEW p \in Procs, OpenTempFails(p)
      PROVE  [C!Next]_(C!vars)
  BY <1>6 DEF OpenTempFails, services
<1>7. ASSUME NEW p \in Procs, WriteTemp(p)
      PROVE  [C!Next]_(C!vars)
  BY <1>7 DEF WriteTemp, services
<1>8. ASSUME NEW p \in Procs, AcceptFails(p)
      PROVE  [C!Next]_(C!vars)
  BY <1>8 DEF AcceptFails, services
<1>9. ASSUME NEW p \in Procs, FdfsPipe(p)
      PROVE  [C!Next]_(C!vars)
  BY <1>9 DEF FdfsPipe, Pipe, services
<1>10. ASSUME NEW p \in Procs, FdfsPipeFails(p)
      PROVE  [C!Next]_(C!vars)
  BY <1>10 DEF FdfsPipeFails, services
<1>11. ASSUME NEW p \in Procs, FdfsFork(p)
      PROVE  [C!Next]_(C!vars)
  BY <1>11 DEF FdfsFork, Fork, services
<1>12. ASSUME NEW p \in Procs, FdfsForkFails(p)
      PROVE  [C!Next]_(C!vars)
  BY <1>12 DEF FdfsForkFails, services
<1>13. ASSUME NEW p \in Procs, FdfsExec(p)
      PROVE  [C!Next]_(C!vars)
  BY <1>13 DEF FdfsExec, services
<1>14. ASSUME NEW p \in Procs, FdfsToolStores(p)
      PROVE  [C!Next]_(C!vars)
  <2>1. pc[p] = "fdfs_tool" /\ req[p] \in Requests
    BY <1>14 DEF FdfsToolStores, At, Inv, TypeInv, TypeOK, Serves, Idle
  <2>2. PICK i \in FileIds :
          /\ stored[i] = NoFile
          /\ stored' = [stored EXCEPT ![i] = tmp[Name[req[p]]]]
    BY <1>14 DEF FdfsToolStores
  <2>3. PICK whole \in BOOLEAN : tmp[Name[req[p]]] = <<req[p], whole>>
    BY <2>1 DEF Inv, ContentInv, TempIsOwn, Saved
  <2>4. ~ C!IsStored(req[p])
    BY <2>1 DEF Inv, OnceInv, NotYetStored, Stored
  <2>5. UNCHANGED list
    BY <1>14 DEF FdfsToolStores
  <2>6. C!Store(req[p], i, whole)
    BY <2>2, <2>3, <2>4, <2>5 DEF C!Store
  <2> QED
    BY <2>1, <2>6 DEF C!Next
<1>15. ASSUME NEW p \in Procs, FdfsToolFails(p)
      PROVE  [C!Next]_(C!vars)
  BY <1>15 DEF FdfsToolFails, services
<1>16. ASSUME NEW p \in Procs, FdfsWait(p)
      PROVE  [C!Next]_(C!vars)
  BY <1>16 DEF FdfsWait, services
<1>17. ASSUME NEW p \in Procs, UnlinkTemp(p)
      PROVE  [C!Next]_(C!vars)
  BY <1>17 DEF UnlinkTemp, services
<1>18. ASSUME NEW p \in Procs, UrlPipe(p)
      PROVE  [C!Next]_(C!vars)
  BY <1>18 DEF UrlPipe, Pipe, services
<1>19. ASSUME NEW p \in Procs, UrlPipeFails(p)
      PROVE  [C!Next]_(C!vars)
  BY <1>19 DEF UrlPipeFails, services
<1>20. ASSUME NEW p \in Procs, UrlFork(p)
      PROVE  [C!Next]_(C!vars)
  BY <1>20 DEF UrlFork, Fork, services
<1>21. ASSUME NEW p \in Procs, UrlForkFails(p)
      PROVE  [C!Next]_(C!vars)
  BY <1>21 DEF UrlForkFails, services
<1>22. ASSUME NEW p \in Procs, UrlExec(p)
      PROVE  [C!Next]_(C!vars)
  BY <1>22 DEF UrlExec, services
<1>23. ASSUME NEW p \in Procs, UrlToolPrints(p)
      PROVE  [C!Next]_(C!vars)
  BY <1>23 DEF UrlToolPrints, services
<1>24. ASSUME NEW p \in Procs, UrlToolFails(p)
      PROVE  [C!Next]_(C!vars)
  BY <1>24 DEF UrlToolFails, services
<1>25. ASSUME NEW p \in Procs, UrlWait(p)
      PROVE  [C!Next]_(C!vars)
  BY <1>25 DEF UrlWait, services
<1>26. ASSUME NEW p \in Procs, UrlWaitCrashes(p)
      PROVE  [C!Next]_(C!vars)
  BY <1>26 DEF UrlWaitCrashes, services
<1>27. ASSUME NEW p \in Procs, Connect(p)
      PROVE  [C!Next]_(C!vars)
  BY <1>27 DEF Connect, services
<1>28. ASSUME NEW p \in Procs, ConnectFails(p)
      PROVE  [C!Next]_(C!vars)
  BY <1>28 DEF ConnectFails, services
<1>29. ASSUME NEW p \in Procs, LPush(p)
      PROVE  [C!Next]_(C!vars)
  <2>1. pc[p] = "lpush" /\ req[p] \in Requests /\ fid[p] \in Ids /\ url[p] \in Ids
    BY <1>29 DEF LPush, At, Inv, TypeInv, TypeOK, Serves, Idle
  <2>2. UNCHANGED stored
    BY <1>29 DEF LPush
  <2>3. CASE list' = list
    BY <2>2, <2>3
  <2>4. CASE list' = Append(list, Record(p))
    <3>1. ~ C!IsListed(req[p])
      BY <2>1 DEF Inv, OnceInv, NotYetListed, MayPublish, Listed
    <3>2. fid[p] # NoId => stored[fid[p]] \in C!ContentOf(req[p])
      BY DEF Inv, ContentInv, FileIsOwn, Saved, C!ContentOf
    <3>3. url[p] \in {fid[p], NoId}
      BY DEF Inv, ContentInv, UrlIsOwn
    <3>4. C!Publish(req[p], fid[p], url[p])
      BY <2>2, <2>4, <3>1, <3>2, <3>3 DEF C!Publish, Record
    <3> QED
      BY <2>1, <3>4 DEF C!Next, Ids
  <2> QED
    BY <1>29, <2>3, <2>4 DEF LPush
<1>30. ASSUME NEW p \in Procs, LPushLost(p)
      PROVE  [C!Next]_(C!vars)
  <2>1. pc[p] = "lpush" /\ req[p] \in Requests /\ fid[p] \in Ids /\ url[p] \in Ids
    BY <1>30 DEF LPushLost, At, Inv, TypeInv, TypeOK, Serves, Idle
  <2>2. UNCHANGED stored
    BY <1>30 DEF LPushLost
  <2>3. CASE list' = list
    BY <2>2, <2>3
  <2>4. CASE list' = Append(list, Record(p))
    <3>1. ~ C!IsListed(req[p])
      BY <2>1 DEF Inv, OnceInv, NotYetListed, MayPublish, Listed
    <3>2. fid[p] # NoId => stored[fid[p]] \in C!ContentOf(req[p])
      BY DEF Inv, ContentInv, FileIsOwn, Saved, C!ContentOf
    <3>3. url[p] \in {fid[p], NoId}
      BY DEF Inv, ContentInv, UrlIsOwn
    <3>4. C!Publish(req[p], fid[p], url[p])
      BY <2>2, <2>4, <3>1, <3>2, <3>3 DEF C!Publish, Record
    <3> QED
      BY <2>1, <3>4 DEF C!Next, Ids
  <2> QED
    BY <1>30, <2>3, <2>4 DEF LPushLost
<1>31. ASSUME NEW p \in Procs, ZIncr(p)
      PROVE  [C!Next]_(C!vars)
  BY <1>31 DEF ZIncr
<1>32. ASSUME NEW p \in Procs, ZIncrLost(p)
      PROVE  [C!Next]_(C!vars)
  BY <1>32 DEF ZIncrLost
<1>33. ASSUME NEW p \in Procs, End(p)
      PROVE  [C!Next]_(C!vars)
  BY <1>33 DEF End, services
<1>34. CASE Restart
  BY <1>34 DEF Restart, services
<1>35. CASE UNCHANGED vars
  BY <1>35 DEF vars, services
<1>36. QED
  BY <1>1, <1>2, <1>3, <1>4, <1>5, <1>6, <1>7, <1>8, <1>9, <1>10, <1>11, <1>12,
    <1>13, <1>14, <1>15, <1>16, <1>17, <1>18, <1>19, <1>20, <1>21, <1>22,
    <1>23, <1>24, <1>25, <1>26, <1>27, <1>28, <1>29, <1>30, <1>31, <1>32,
    <1>33, <1>34, <1>35
    DEF Next, Step, Resting

(* FastDFS and FILE_INFO_LIST change only as Catalogue allows: a request   *)
(* is stored at most once, listed at most once, and only with its own      *)
(* file, whatever calls fail and however many workers that leaves.         *)
THEOREM CatalogueImplemented == Spec => ImplementsCatalogue
<1>1. Init => C!Init
  BY DEF Init, C!Init
<1> QED
  BY <1>1, CatalogueStep, Invariance, PTL DEF Spec, C!Spec, ImplementsCatalogue
==============================================================================
