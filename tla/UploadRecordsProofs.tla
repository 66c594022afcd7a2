------------------------- MODULE UploadRecordsProofs -------------------------
(***************************************************************************)
(* What upload.c records, for every number of processes, requests, files   *)
(* and descriptors: nothing is scored that is not listed, and a worker     *)
(* that meets no fault records every upload its descriptors last for.      *)
(*                                                                         *)
(* The second result rests on QuietInv: without faults every other process *)
(* is the child the first one waits for, a worker that has ended n         *)
(* requests holds no more than 2n descriptors and what its location costs, *)
(* and as long as those fit no call fails on the way to the list.          *)
(***************************************************************************)
EXTENDS UploadWorkerProofs, FiniteSetTheorems

-----------------------------------------------------------------------------
(* The push comes before the point.                                        *)

InList(l, i) == \E k \in DOMAIN l : l[k].id = i

PushedFirst ==
    ~ Fault("redis_error") =>
        /\ \A i \in Ids : hot[i] > 0 => InList(list, i)
        /\ \A p \in Procs : pc[p] = "zincr" => InList(list, fid[p])

\* One record more at the end of a list.
LEMMA OneMore ==
    ASSUME NEW S, NEW l \in Seq(S), NEW rec
    PROVE  InList(Append(l, rec), rec.id) /\ \A i : InList(l, i) => InList(Append(l, rec), i)
<1>1. /\ Len(l) + 1 \in DOMAIN Append(l, rec) /\ Append(l, rec)[Len(l) + 1] = rec
      /\ \A k \in DOMAIN l : k \in DOMAIN Append(l, rec) /\ Append(l, rec)[k] = l[k]
  OBVIOUS
<1> QED BY <1>1 DEF InList

\* A process comes to the point from the push, and keeps its file_id.
LEMMA PointAfterPush ==
    ASSUME TypeInv, [Next]_vars, NEW p \in Procs, pc'[p] = "zincr"
    PROVE  LPush(p) \/ (pc[p] = "zincr" /\ fid'[p] = fid[p])
<1> USE DEF TypeInv, TypeOK, memory, Goto, Die, At
<1>1. CASE UNCHANGED vars
  BY <1>1 DEF vars
<1>2. CASE Restart
  BY <1>2 DEF Restart
<1>3. ASSUME NEW q \in Procs, Step(q)
      PROVE  LPush(p) \/ (pc[p] = "zincr" /\ fid'[p] = fid[p])
  <2>1. CASE Accept(q) \/ AcceptFails(q) \/ ReadBody(q) \/ GetBufFails(q) \/ ParseCrashes(q)
             \/ OpenTemp(q) \/ OpenTempFails(q) \/ WriteTemp(q)
    BY <2>1 DEF Accept, AcceptFails, ReadBody, GetBufFails, ParseCrashes, OpenTemp,
       OpenTempFails, WriteTemp
  <2>2. CASE FdfsPipe(q) \/ FdfsPipeFails(q) \/ FdfsForkFails(q) \/ FdfsExec(q)
             \/ FdfsToolStores(q) \/ FdfsToolFails(q) \/ UnlinkTemp(q)
    BY <2>2 DEF FdfsPipe, Pipe, FdfsPipeFails, FdfsForkFails, FdfsExec, FdfsToolStores,
       FdfsToolFails, UnlinkTemp
  <2>3. CASE FdfsFork(q) \/ UrlFork(q)
    BY <2>3 DEF FdfsFork, UrlFork, Fork
  <2>4. CASE FdfsWait(q) \/ UrlWait(q) \/ UrlWaitCrashes(q)
    BY <2>4 DEF FdfsWait, UrlWait, UrlWaitCrashes, Reap
  <2>5. CASE UrlPipe(q) \/ UrlPipeFails(q) \/ UrlForkFails(q) \/ UrlExec(q)
             \/ UrlToolPrints(q) \/ UrlToolFails(q)
    BY <2>5 DEF UrlPipe, Pipe, UrlPipeFails, UrlForkFails, UrlExec, UrlToolPrints,
       UrlToolFails
  <2>6. CASE Connect(q) \/ ConnectFails(q) \/ LPush(q) \/ LPushLost(q) \/ ZIncr(q)
             \/ ZIncrLost(q) \/ End(q)
    BY <2>6 DEF Connect, ConnectFails, LPush, LPushLost, ZIncr, ZIncrLost, End
  <2> QED BY <1>3, <2>1, <2>2, <2>3, <2>4, <2>5, <2>6 DEF Step
<1> QED BY <1>1, <1>2, <1>3 DEF Next, Resting

\* What a step may do to the list and to the scores.
LEMMA RecordsChange ==
    ASSUME TypeInv, [Next]_vars
    PROVE  /\ list' = list \/ \E rec : list' = Append(list, rec)
           /\ \/ hot' = hot
              \/ \E p \in Procs : pc[p] = "zincr" /\ hot' = [hot EXCEPT ![fid[p]] = @ + 1]
<1> USE DEF services, At
<1>1. CASE UNCHANGED vars \/ Restart
  BY <1>1 DEF vars, Restart
<1>2. ASSUME NEW q \in Procs, Step(q)
      PROVE  /\ list' = list \/ \E rec : list' = Append(list, rec)
             /\ \/ hot' = hot
                \/ \E p \in Procs : pc[p] = "zincr" /\ hot' = [hot EXCEPT ![fid[p]] = @ + 1]
  <2>1. CASE LPush(q) \/ LPushLost(q)
    BY <2>1 DEF LPush, LPushLost
  <2>2. CASE ZIncr(q) \/ ZIncrLost(q)
    BY <2>2 DEF ZIncr, ZIncrLost
  <2>3. CASE ~ (LPush(q) \/ LPushLost(q) \/ ZIncr(q) \/ ZIncrLost(q))
    <3>1. list' = list /\ hot' = hot
      BY <1>2, <2>3 DEF Step, Accept, AcceptFails, ReadBody, GetBufFails, ParseCrashes, OpenTemp,
         OpenTempFails, WriteTemp, FdfsPipe, Pipe, FdfsPipeFails, FdfsFork,
         Fork, FdfsForkFails, FdfsExec, FdfsToolStores, FdfsToolFails, FdfsWait,
         UnlinkTemp, UrlPipe, UrlPipeFails, UrlFork, UrlForkFails, UrlExec, UrlToolPrints,
         UrlToolFails, UrlWait, UrlWaitCrashes, Connect, ConnectFails, End
    <3> QED BY <3>1
  <2> QED BY <2>1, <2>2, <2>3
<1> QED BY <1>1, <1>2 DEF Next, Resting

LEMMA PushedFirstStep == ASSUME TypeInv, PushedFirst, [Next]_vars PROVE PushedFirst'
<1> SUFFICES ASSUME ~ Fault("redis_error")
             PROVE  /\ \A i \in Ids : hot'[i] > 0 => InList(list', i)
                    /\ \A p \in Procs : pc'[p] = "zincr" => InList(list', fid'[p])
  BY DEF PushedFirst, Fault
<1>1. list \in Seq(C!Records) /\ hot \in [Ids -> Nat]
  BY DEF TypeInv, TypeOK
<1>2. /\ \A i \in Ids : hot[i] > 0 => InList(list, i)
      /\ \A p \in Procs : pc[p] = "zincr" => InList(list, fid[p])
  BY DEF PushedFirst
<1>3. \A i : InList(list, i) => InList(list', i)
  <2>1. ASSUME NEW rec, list' = Append(list, rec), NEW i, InList(list, i)
        PROVE  InList(list', i)
    BY <1>1, <2>1, OneMore
  <2> QED BY <2>1, RecordsChange
<1>4. \A i \in Ids : hot'[i] > 0 => InList(list', i)
  <2>1. CASE hot' = hot
    BY <1>2, <1>3, <2>1
  <2>2. ASSUME NEW p \in Procs, pc[p] = "zincr", hot' = [hot EXCEPT ![fid[p]] = @ + 1]
        PROVE  \A i \in Ids : hot'[i] > 0 => InList(list', i)
    BY <1>1, <1>2, <1>3, <2>2
  <2> QED BY <2>1, <2>2, RecordsChange
<1>5. ASSUME NEW p \in Procs, pc'[p] = "zincr" PROVE InList(list', fid'[p])
  <2>1. CASE LPush(p)
    <3>1. list' = Append(list, Record(p)) /\ fid' = fid
      BY <2>1 DEF LPush, memory
    <3>2. Record(p).id = fid[p]
      BY DEF Record
    <3>3. PICK rec, i : rec = Record(p) /\ i = fid[p] /\ rec.id = i
      BY <3>2
    <3> QED BY <1>1, <3>1, <3>3, OneMore
  <2>2. CASE pc[p] = "zincr" /\ fid'[p] = fid[p]
    BY <1>2, <1>3, <2>2
  <2> QED BY <1>5, <2>1, <2>2, PointAfterPush
<1> QED BY <1>4, <1>5

(* Unless Redis refuses commands a member with a score is in the list,     *)
(* for every number of uploads and whatever else fails (write_redis,       *)
(* usefull.c 325-328).                                                     *)
THEOREM ScoredAreListed == Spec => []ScoredIsListed
<1>1. Init => PushedFirst
  BY DEF Init, PushedFirst
<1>2. TypeInv /\ PushedFirst /\ [Next]_vars => PushedFirst'
  BY PushedFirstStep
<1>3. PushedFirst => ScoredIsListed
  BY DEF PushedFirst, ScoredIsListed, InList
<1>4. Spec => []TypeInv
  BY Invariance, PTL DEF Inv
<1> QED BY <1>1, <1>2, <1>3, <1>4, PTL DEF Spec

-----------------------------------------------------------------------------
(* A worker that meets no fault.                                           *)

AtTool == {"fdfs_exec", "fdfs_tool", "url_exec", "url_tool"}

\* The other processes are the one child the first waits for, or none.
LoneWorker ==
    /\ pc[Root] \notin AtTool \cup {"free"}
    /\ child[Root] # Root
    /\ \A p \in Procs \ {Root} :
          /\ child[p] = NoProc
          /\ pc[p] \in AtTool \cup {"free", "zombie"}
          /\ pc[p] # "free" => child[Root] = p

\* What a location costs on top of what the uploads before it have.
Cost(l) ==
    IF l \in {"accept", "free", "zombie"} THEN 0
    ELSE IF l \in {"read", "fopen", "fwrite", "fdfs_pipe"} THEN 1
    ELSE IF l \in {"fdfs_wait", "unlink", "url_pipe"} THEN 2
    ELSE IF l = "url_fork" THEN 4
    ELSE 3

Spent == 2 * Cardinality(Closed)

FdsSpent ==
    /\ IsFiniteSet(Closed)
    /\ pc[Root] \notin Idle => outcome[req[Root]] = "serving"
    /\ \A p \in Procs :
          pc[p] \notin {"free", "zombie"} => used[p] <= Spent + Cost(pc[Root])

\* The request that is served can still be served in full.
Fits == Spent + FdsPerUpload <= FdLimit

\* Where the file has been stored and the record has not been pushed.
HasFile == {"unlink", "url_pipe", "url_fork", "url_wait", "connect", "lpush"}

NothingFailed ==
    /\ pc[Root] \in HasFile => KnownFile(fid[Root])
    /\ pc[Root] \in Waiting => child[Root] # NoProc
    /\ pc[Root] = "fdfs_wait" /\ pc[child[Root]] = "zombie" => KnownFile(out[child[Root]])
    /\ pc[Root] = "url_wait" /\ pc[child[Root]] = "zombie" => out[child[Root]] # NoId
    /\ \A p \in Procs : pc[p] \in {"url_exec", "url_tool"} => fid[p] = fid[Root]
    /\ pc[Root] \in {"connect", "lpush"} => url[Root] = fid[Root]
    /\ pc[Root] \in {"zincr", "end"} /\ Form[req[Root]] = "good" => FullyRecorded(req[Root])

ClosedRecorded ==
    Cardinality(Closed) <= SafeUploads =>
        \A r \in Closed : Form[r] = "good" => FullyRecorded(r)

QuietInv == LoneWorker /\ FdsSpent /\ (Fits => NothingFailed) /\ ClosedRecorded

\* No call fails, and there is a slot for a child.
Quiet == Faults = {} /\ Procs # {Root}

LEMMA NoFault == ASSUME Quiet, NEW k PROVE ~ Fault(k)
BY DEF Quiet, Fault

\* A process has a child only while it waits, and the child is another one.
LEMMA ChildOfRoot ==
    ASSUME TypeInv, TreeInv, LoneWorker
    PROVE  /\ pc[Root] \notin Waiting => \A p \in Procs \ {Root} : pc[p] = "free"
           /\ child[Root] # NoProc => child[Root] \in Procs \ {Root}
           /\ \A p \in Procs : pc[p] \in AtTool => p = child[Root] /\ p # Root
                                                  /\ pc[Root] \in Waiting
<1> USE UploadAssumption DEF TypeInv, TypeOK, TreeInv, LoneWorker, OnlyWaitersHaveChildren, AtTool,
        Waiting
<1>1. pc[Root] \notin Waiting => child[Root] = NoProc
  OBVIOUS
<1> QED BY <1>1

\* The steps of the worker itself and those of its child, when nothing fails.
RootStep ==
    \/ Accept(Root) \/ AcceptFails(Root) \/ ReadBody(Root) \/ ParseCrashes(Root)
    \/ OpenTemp(Root) \/ OpenTempFails(Root) \/ WriteTemp(Root) \/ FdfsPipe(Root)
    \/ FdfsPipeFails(Root) \/ FdfsFork(Root) \/ FdfsWait(Root) \/ UnlinkTemp(Root)
    \/ UrlPipe(Root) \/ UrlPipeFails(Root) \/ UrlFork(Root) \/ UrlWait(Root)
    \/ UrlWaitCrashes(Root) \/ Connect(Root) \/ ConnectFails(Root) \/ LPush(Root)
    \/ ZIncr(Root) \/ End(Root)

ToolStep(p) ==
    \/ FdfsExec(p) \/ FdfsToolStores(p) \/ FdfsToolFails(p)
    \/ UrlExec(p) \/ UrlToolPrints(p) \/ UrlToolFails(p)

LEMMA QuietSteps ==
    ASSUME Quiet, TypeInv, TreeInv, LoneWorker, [Next]_vars
    PROVE  \/ UNCHANGED vars
           \/ RootStep
           \/ \E p \in Procs \ {Root} : p = child[Root] /\ pc[Root] \in Waiting /\ ToolStep(p)
<1>1. ~ Restart /\ (Resting => UNCHANGED vars)
  BY NoFault DEF Restart, Resting
<1>2. ASSUME NEW p \in Procs, Step(p)
      PROVE  RootStep \/ (p # Root /\ p = child[Root] /\ pc[Root] \in Waiting /\ ToolStep(p))
  <2>1. ~ GetBufFails(p) /\ ~ LPushLost(p) /\ ~ ZIncrLost(p)
    BY NoFault DEF GetBufFails, LPushLost, ZIncrLost
  <2>2. ~ FdfsForkFails(p) /\ ~ UrlForkFails(p)
    <3>1. ~ Fault("fork")
      BY NoFault
    <3>2. ASSUME pc[p] \in {"fdfs_fork", "url_fork"} PROVE \E q \in Procs : pc[q] = "free"
      <4>1. p = Root
        BY <3>2 DEF LoneWorker, AtTool
      <4>2. PICK q \in Procs : q # Root
        BY UploadAssumption DEF Quiet, UploadAssumption
      <4> QED BY <3>2, <4>1, <4>2, ChildOfRoot DEF Waiting
    <3> QED BY <3>1, <3>2 DEF FdfsForkFails, UrlForkFails, ForkMayFail, At
  <2>3. CASE ToolStep(p)
    <3>1. pc[p] \in AtTool
      BY <2>3 DEF ToolStep, FdfsExec, FdfsToolStores, FdfsToolFails, UrlExec, UrlToolPrints,
         UrlToolFails, At, AtTool
    <3> QED BY <2>3, <3>1, ChildOfRoot
  <2>4. CASE ~ ToolStep(p)
    <3>1. pc[p] \notin AtTool \cup {"free", "zombie"}
      BY <1>2, <2>1, <2>4 DEF ToolStep, Step, Accept, AcceptFails, ReadBody, ParseCrashes, OpenTemp,
         OpenTempFails, WriteTemp, FdfsPipe, FdfsPipeFails, FdfsFork,
         FdfsForkFails, FdfsWait, UnlinkTemp, UrlPipe, UrlPipeFails, UrlFork,
         UrlForkFails, UrlWait, UrlWaitCrashes, Connect, ConnectFails, LPush, ZIncr, End,
         At, AtTool
    <3>2. p = Root
      BY <3>1 DEF LoneWorker
    <3> QED BY <1>2, <2>1, <2>2, <2>4, <3>2 DEF Step, ToolStep, RootStep
  <2> QED BY <2>3, <2>4
<1> QED BY <1>1, <1>2 DEF Next

\* Without faults exec succeeds.
LEMMA ExecSucceeds ==
    ASSUME Quiet, NEW p
    PROVE  /\ FdfsExec(p) => Goto(p, "fdfs_tool")
           /\ UrlExec(p) => Goto(p, "url_tool")
BY NoFault DEF FdfsExec, UrlExec

LEMMA LoneStep ==
    ASSUME Quiet, TypeInv, TreeInv, LoneWorker, [Next]_vars
    PROVE  LoneWorker'
<1> USE UploadAssumption DEF LoneWorker, AtTool, TypeInv, TypeOK, tree, Goto, Die, At, Waiting
<1>1. CASE UNCHANGED vars
  BY <1>1 DEF vars
<1>2. CASE RootStep
  <2>1. ASSUME pc[Root] \notin Waiting, tree' = tree, NEW l, l \notin AtTool \cup {"free"},
               pc' = [pc EXCEPT ![Root] = l]
        PROVE  LoneWorker'
    BY <2>1, ChildOfRoot
  <2>2. CASE ~ (FdfsFork(Root) \/ UrlFork(Root) \/ FdfsWait(Root) \/ UrlWait(Root)
                \/ UrlWaitCrashes(Root))
    <3>1. pc[Root] \notin Waiting /\ tree' = tree
      BY <1>2, <2>2 DEF RootStep, Accept, AcceptFails, ReadBody, ParseCrashes, OpenTemp,
         OpenTempFails, WriteTemp, FdfsPipe, Pipe, FdfsPipeFails, UnlinkTemp, UrlPipe,
         UrlPipeFails, Connect, ConnectFails, LPush, ZIncr, End
    <3>2. \E l \in {"read", "end", "fopen", "fwrite", "fdfs_pipe", "fdfs_fork", "url_pipe",
                    "url_fork", "connect", "lpush", "zincr", "accept", "zombie"} :
             pc' = [pc EXCEPT ![Root] = l]
      BY <1>2, <2>2 DEF RootStep, Accept, AcceptFails, ReadBody, ParseCrashes, OpenTemp,
         OpenTempFails, WriteTemp, FdfsPipe, Pipe, FdfsPipeFails, UnlinkTemp, UrlPipe,
         UrlPipeFails, Connect, ConnectFails, LPush, ZIncr, End
    <3>3. PICK l : l \notin AtTool \cup {"free"} /\ pc' = [pc EXCEPT ![Root] = l]
      BY <3>2
    <3> QED BY <2>1, <3>1, <3>3
  <2>3. CASE FdfsFork(Root) \/ UrlFork(Root)
    <3>1. pc[Root] \in {"fdfs_fork", "url_fork"}
      BY <2>3 DEF FdfsFork, UrlFork
    <3>2. PICK q \in Procs, l \in Waiting, x \in AtTool :
             pc[q] = "free" /\ pc' = [pc EXCEPT ![Root] = l, ![q] = x]
             /\ child' = [child EXCEPT ![Root] = q]
      BY <2>3 DEF FdfsFork, UrlFork, Fork
    <3>3. q # Root /\ \A p \in Procs \ {Root} : pc[p] = "free"
      BY <3>1, <3>2, ChildOfRoot
    <3>4. /\ pc'[Root] = l /\ pc'[q] = x /\ child'[Root] = q
          /\ \A p \in Procs \ {Root} :
                child'[p] = child[p] /\ (p # q => pc'[p] = "free")
      BY <3>2, <3>3
    <3> QED BY <3>2, <3>3, <3>4
  <2>4. CASE FdfsWait(Root) \/ UrlWait(Root) \/ UrlWaitCrashes(Root)
    BY <2>4 DEF FdfsWait, UrlWait, UrlWaitCrashes, Reap
  <2> QED BY <1>2, <2>1, <2>2, <2>3, <2>4 DEF RootStep
<1>3. ASSUME NEW p \in Procs \ {Root}, p = child[Root], pc[Root] \in Waiting, ToolStep(p)
      PROVE  LoneWorker'
  <2>1. CASE FdfsExec(p) \/ UrlExec(p)
    <3>1. child' = child /\ (pc' = [pc EXCEPT ![p] = "fdfs_tool"]
                             \/ pc' = [pc EXCEPT ![p] = "url_tool"])
      BY <2>1, ExecSucceeds DEF FdfsExec, UrlExec
    <3> QED BY <1>3, <3>1
  <2>2. CASE FdfsToolStores(p) \/ FdfsToolFails(p) \/ UrlToolPrints(p) \/ UrlToolFails(p)
    BY <1>3, <2>2 DEF FdfsToolStores, FdfsToolFails, UrlToolPrints, UrlToolFails
  <2> QED BY <1>3, <2>1, <2>2 DEF ToolStep
<1> QED BY <1>1, <1>2, <1>3, QuietSteps

(* A request that is closed is one more; nothing else changes their number.*)
LEMMA ClosesOne ==
    ASSUME TypeInv, FdsSpent, pc[Root] \notin Idle, CloseRequest(Root)
    PROVE  /\ req[Root] \in Requests /\ Closed' = Closed \cup {req[Root]}
           /\ IsFiniteSet(Closed') /\ Cardinality(Closed) \in Nat
           /\ Cardinality(Closed') = Cardinality(Closed) + 1
           /\ Spent \in Nat /\ Spent' = Spent + 2
<1>1. req[Root] \in Requests /\ outcome[req[Root]] = "serving"
  BY UploadAssumption DEF TypeInv, TypeOK, Serves, FdsSpent
<1>2. Closed' = Closed \cup {req[Root]} /\ req[Root] \notin Closed
  BY <1>1 DEF CloseRequest, Closed, TypeInv, TypeOK
<1>3. IsFiniteSet(Closed)
  BY DEF FdsSpent
<1>4. /\ IsFiniteSet(Closed \cup {req[Root]}) /\ Cardinality(Closed) \in Nat
      /\ Cardinality(Closed \cup {req[Root]}) = Cardinality(Closed) + 1
  BY <1>2, <1>3, FS_AddElement, FS_CardinalityType
<1> QED BY <1>1, <1>2, <1>4 DEF Spent

LEMMA ClosesNone ==
    ASSUME TypeInv, FdsSpent,
           outcome' = outcome \/ \E r \in Requests :
                                    /\ outcome[r] = "queued"
                                    /\ outcome' = [outcome EXCEPT ![r] = "serving"]
    PROVE  Closed' = Closed /\ Spent' = Spent /\ Spent \in Nat
<1>1. Closed' = Closed
  BY DEF Closed, TypeInv, TypeOK
<1>2. Cardinality(Closed) \in Nat
  BY FS_CardinalityType DEF FdsSpent
<1> QED BY <1>1, <1>2 DEF Spent

\* With no child, what the worker itself has is all there is to show.
LEMMA RootSpends ==
    ASSUME TypeInv', TreeInv', LoneWorker', pc'[Root] \notin Waiting, IsFiniteSet(Closed'),
           pc'[Root] \notin Idle => outcome'[req'[Root]] = "serving",
           pc'[Root] # "zombie" => used'[Root] <= Spent' + Cost(pc'[Root])
    PROVE  FdsSpent'
<1>1. child'[Root] = NoProc
  BY UploadAssumption DEF TreeInv, OnlyWaitersHaveChildren
<1>2. \A p \in Procs \ {Root} : pc'[p] = "free"
  BY <1>1, UploadAssumption DEF LoneWorker
<1> QED BY <1>2 DEF FdsSpent

\* Steps that leave the descriptors and the open requests alone.
LEMMA SpendsNothing ==
    ASSUME TypeInv, FdsSpent, used' = used, outcome' = outcome,
           pc[Root] \notin Idle, req'[Root] = req[Root],
           Cost(pc'[Root]) >= Cost(pc[Root]),
           \A p \in Procs : pc'[p] \notin {"free", "zombie"} => pc[p] \notin {"free", "zombie"}
    PROVE  FdsSpent'
<1>1. Closed' = Closed /\ Spent' = Spent /\ Spent \in Nat
  BY ClosesNone
<1>2. Cost(pc[Root]) \in Nat /\ Cost(pc'[Root]) \in Nat
  BY DEF Cost
<1>3. ASSUME NEW p \in Procs, pc'[p] \notin {"free", "zombie"}
      PROVE  used'[p] <= Spent' + Cost(pc'[Root])
  <2>1. used[p] \in Nat /\ used[p] <= Spent + Cost(pc[Root])
    BY <1>3 DEF FdsSpent, TypeInv, TypeOK
  <2> QED BY <1>1, <1>2, <2>1
<1> QED BY <1>1, <1>3 DEF FdsSpent

\* The worker ends in mid-request.  Its child, if it had one, is gone by then, so
\* nobody else has the request.
Crash ==
    ParseCrashes(Root) \/ FdfsPipeFails(Root) \/ UrlWaitCrashes(Root) \/ ConnectFails(Root)

LEMMA CrashCloses ==
    ASSUME TypeInv, TreeInv, LoneWorker, Crash
    PROVE  pc[Root] \notin Idle /\ CloseRequest(Root)
<1>1. pc[Root] \in {"fopen", "fdfs_pipe", "url_wait", "connect"} /\ AbandonRequest(Root)
  BY DEF Crash, ParseCrashes, FdfsPipeFails, UrlWaitCrashes, ConnectFails, At
<1>2. \A q \in Procs \ {Root} : pc[q] \in {"free", "zombie"}
  <2>1. CASE pc[Root] \notin Waiting
    BY <2>1, ChildOfRoot
  <2>2. CASE pc[Root] \in Waiting
    <3>1. WaitReturns(Root)
      BY <1>1, <2>2 DEF Crash, ParseCrashes, FdfsPipeFails, UrlWaitCrashes, ConnectFails, At,
         Waiting, Reap
    <3> QED BY <3>1 DEF WaitReturns, LoneWorker
  <2> QED BY <2>1, <2>2
<1>3. req[Root] # NoReq /\ \A q \in Procs \ {Root} : req[q] # req[Root]
  BY <1>1, <1>2, UploadAssumption DEF TypeInv, Serves, Idle
<1> QED BY <1>1, <1>3 DEF AbandonRequest, CloseRequest, Idle

LEMMA FdsStep ==
    ASSUME Quiet, TypeInv, TreeInv, LoneWorker, FdsSpent, [Next]_vars,
           TypeInv', TreeInv', LoneWorker'
    PROVE  FdsSpent'
<1> USE DEF At, Goto, memory
<1>0. /\ pc \in [Procs -> Locations] /\ Root \in Procs
      /\ req \in [Procs -> Requests \cup {NoReq}]
      /\ outcome \in [Requests -> {"queued", "serving", "closed"}]
  BY UploadAssumption DEF TypeInv, TypeOK
<1>00. used \in [Procs -> Nat]
  BY UploadAssumption DEF TypeInv, TypeOK
<1>000. /\ IsFiniteSet(Closed)
        /\ pc[Root] \notin Idle => outcome[req[Root]] = "serving"
        /\ pc[Root] \notin {"free", "zombie"} => used[Root] <= Spent + Cost(pc[Root])
  BY <1>0 DEF FdsSpent
<1>1. CASE UNCHANGED vars
  <2>1. Closed' = Closed /\ Spent' = Spent
    BY <1>1, ClosesNone DEF vars
  <2> QED BY <1>1, <2>1 DEF vars, FdsSpent
<1>2. CASE RootStep
  <2>1. CASE ReadBody(Root) \/ OpenTemp(Root) \/ OpenTempFails(Root) \/ WriteTemp(Root)
             \/ UnlinkTemp(Root) \/ UrlPipeFails(Root) \/ Connect(Root) \/ LPush(Root)
             \/ ZIncr(Root)
    <3>1. used' = used /\ outcome' = outcome /\ req' = req
      BY <2>1 DEF ReadBody, OpenTemp, OpenTempFails, WriteTemp, UnlinkTemp, UrlPipeFails,
         Connect, LPush, ZIncr
    <3>2. PICK k, l : /\ pc[Root] = k /\ pc' = [pc EXCEPT ![Root] = l]
                      /\ k \notin Idle /\ l \notin Idle
                      /\ \/ k \in {"read", "fopen", "fwrite"}
                         \/ k \in {"unlink"} /\ l = "url_pipe"
                         \/ k = "url_pipe" /\ l = "connect"
                         \/ k \in {"connect", "lpush", "zincr"} /\ l \in {"lpush", "zincr", "end"}
      BY <2>1 DEF ReadBody, OpenTemp, OpenTempFails, WriteTemp, UnlinkTemp, UrlPipeFails,
         Connect, LPush, ZIncr, Idle
    <3>3. Cost(l) >= Cost(k)
      BY <3>2 DEF Cost, Idle
    <3>4. \A p \in Procs : pc'[p] \notin {"free", "zombie"} => pc[p] \notin {"free", "zombie"}
      BY <1>0, <3>2 DEF Idle
    <3>5. pc'[Root] = l
      BY <1>0, <3>2
    <3> QED BY <3>1, <3>2, <3>3, <3>4, <3>5, SpendsNothing
  <2>2. CASE FdfsWait(Root) \/ UrlWait(Root)
    <3>1. used' = used /\ outcome' = outcome /\ req' = req /\ pc[Root] \in Waiting
      BY <2>2 DEF FdfsWait, UrlWait, Waiting
    <3>2. Cost(pc'[Root]) >= Cost(pc[Root])
      BY <1>0, <2>2 DEF FdfsWait, UrlWait, Reap, Cost
    <3>3. \A p \in Procs : pc'[p] \notin {"free", "zombie"} => pc[p] \notin {"free", "zombie"}
      BY <1>0, <2>2 DEF FdfsWait, UrlWait, Reap
    <3> QED BY <3>1, <3>2, <3>3, SpendsNothing DEF Waiting, Idle
  <2>3. CASE Accept(Root)
    <3>1. Closed' = Closed /\ Spent' = Spent /\ Spent \in Nat
      BY <2>3, ClosesNone DEF Accept
    <3>2. PICK r \in Requests : outcome' = [outcome EXCEPT ![r] = "serving"]
                                /\ req' = [req EXCEPT ![Root] = r]
      BY <2>3 DEF Accept
    <3>3. outcome'[req'[Root]] = "serving" /\ IsFiniteSet(Closed')
      BY <1>0, <1>000, <3>1, <3>2
    <3>4. used'[Root] = used[Root] + 1 /\ used[Root] \in Nat
      BY <1>0, <1>00, <2>3 DEF Accept
    <3>6. used[Root] <= Spent + 0
      BY <1>000, <2>3 DEF Accept, Cost
    <3>5. pc'[Root] = "read"
      BY <1>0, <2>3 DEF Accept
    <3>7. used'[Root] <= Spent' + 1
      BY <3>1, <3>4, <3>6
    <3> QED BY <3>3, <3>5, <3>7, RootSpends DEF Cost, Waiting
  <2>4. CASE FdfsPipe(Root) \/ UrlPipe(Root)
    <3>1. Closed' = Closed /\ Spent' = Spent /\ Spent \in Nat
      BY <2>4, ClosesNone DEF FdfsPipe, UrlPipe, Pipe
    <3>2. used'[Root] = used[Root] + 2 /\ used[Root] \in Nat
      BY <1>0, <1>00, <2>4 DEF FdfsPipe, UrlPipe, Pipe
    <3>5. \/ pc[Root] = "fdfs_pipe" /\ pc'[Root] = "fdfs_fork"
          \/ pc[Root] = "url_pipe" /\ pc'[Root] = "url_fork"
      BY <1>0, <2>4 DEF FdfsPipe, UrlPipe, Pipe
    <3>6. outcome' = outcome /\ req' = req
      BY <2>4 DEF FdfsPipe, UrlPipe, Pipe
    <3>3. used[Root] <= Spent + Cost(pc[Root]) /\ outcome'[req'[Root]] = "serving"
      BY <1>000, <3>5, <3>6 DEF Idle
    <3>4. used'[Root] <= Spent + Cost(pc'[Root])
      BY <3>1, <3>2, <3>3, <3>5 DEF Cost
    <3> QED BY <1>000, <3>1, <3>3, <3>4, <3>5, RootSpends DEF Waiting
  <2>5. CASE FdfsFork(Root) \/ UrlFork(Root)
    <3>1. Closed' = Closed /\ Spent' = Spent /\ Spent \in Nat
      BY <2>5, ClosesNone DEF FdfsFork, UrlFork, Fork
    <3>2. PICK q, k, l, x :
             /\ q \in Procs /\ pc[q] = "free" /\ req' = [req EXCEPT ![q] = req[Root]]
             /\ used' = [used EXCEPT ![Root] = @ - 1, ![q] = used[Root] - 1]
             /\ pc' = [pc EXCEPT ![Root] = l, ![q] = x]
             /\ pc[Root] = k /\ x \in AtTool
             /\ (k = "fdfs_fork" /\ l = "fdfs_wait") \/ (k = "url_fork" /\ l = "url_wait")
      BY <2>5 DEF FdfsFork, UrlFork, Fork, AtTool
    <3>3. q # Root /\ pc'[Root] = l /\ pc'[q] = x
      BY <1>0, <3>2 DEF AtTool
    <3>10. outcome' = outcome
      BY <2>5 DEF FdfsFork, UrlFork, Fork
    <3>4. outcome' = outcome /\ req'[Root] = req[Root]
      BY <1>0, <3>2, <3>3, <3>10
    <3>5. used[Root] \in Nat /\ used[Root] <= Spent + Cost(pc[Root])
      BY <1>0, <1>00, <1>000, <3>2
    <3>6. used'[Root] = used[Root] - 1 /\ used'[q] = used[Root] - 1
      BY <1>0, <1>00, <3>2, <3>3
    <3>7. \A p \in Procs \ {Root, q} : pc'[p] = "free"
      <4>1. \A p \in Procs \ {Root} : pc[p] = "free"
        BY <3>2, ChildOfRoot DEF Waiting
      <4> QED BY <1>0, <3>2, <4>1
    <3>8. used[Root] - 1 <= Spent + Cost(pc'[Root])
      BY <3>1, <3>2, <3>3, <3>5 DEF Cost
    <3>9. \A p \in Procs : pc'[p] \notin {"free", "zombie"} => used'[p] <= Spent' + Cost(pc'[Root])
      BY <3>1, <3>6, <3>7, <3>8
    <3>11. outcome[req[Root]] = "serving"
      BY <1>000, <3>2 DEF Idle
    <3> QED BY <1>000, <3>1, <3>4, <3>9, <3>11 DEF FdsSpent
  <2>6. CASE End(Root)
    <3>1. pc[Root] = "end" /\ CloseRequest(Root) /\ pc'[Root] = "accept"
      BY <1>0, <2>6 DEF End
    <3>2. IsFiniteSet(Closed') /\ Spent \in Nat /\ Spent' = Spent + 2
      BY <3>1, ClosesOne DEF Idle
    <3>5. used[Root] \in Nat /\ used'[Root] = used[Root] - 1
      BY <1>0, <1>00, <2>6 DEF End
    <3>3. used[Root] \in Nat /\ used'[Root] = used[Root] - 1 /\ used[Root] <= Spent + 3
      BY <1>000, <3>1, <3>5 DEF Cost
    <3>4. used'[Root] <= Spent' + 0
      BY <3>2, <3>3
    <3> QED BY <3>1, <3>2, <3>4, RootSpends DEF Idle, Waiting, Cost
  <2>7. CASE Crash
    <3>1. pc[Root] \notin Idle /\ CloseRequest(Root) /\ pc'[Root] = "zombie"
      BY <1>0, <2>7, CrashCloses DEF Crash, ParseCrashes, FdfsPipeFails, UrlWaitCrashes,
         ConnectFails, Die, Reap
    <3>2. IsFiniteSet(Closed')
      BY <3>1, ClosesOne
    <3> QED BY <3>1, <3>2, RootSpends DEF Idle, Waiting
  <2>8. CASE AcceptFails(Root)
    <3>1. Closed' = Closed /\ pc'[Root] = "zombie"
      BY <1>0, <2>8, ClosesNone DEF AcceptFails, Die
    <3> QED BY <1>000, <3>1, RootSpends DEF Idle, Waiting
  <2> QED BY <1>2, <2>1, <2>2, <2>3, <2>4, <2>5, <2>6, <2>7, <2>8 DEF RootStep, Crash
<1>3. ASSUME NEW p \in Procs \ {Root}, p = child[Root], pc[Root] \in Waiting, ToolStep(p)
      PROVE  FdsSpent'
  <2>1. /\ outcome' = outcome /\ req'[Root] = req[Root] /\ pc'[Root] = pc[Root]
        /\ \A q \in Procs : pc'[q] \notin {"free", "zombie"} =>
              pc[q] \notin {"free", "zombie"} /\ used'[q] = used[q]
    <3>1. CASE FdfsExec(p) \/ UrlExec(p)
      BY <1>0, <1>3, <3>1 DEF FdfsExec, UrlExec
    <3>2. CASE FdfsToolStores(p) \/ FdfsToolFails(p) \/ UrlToolPrints(p) \/ UrlToolFails(p)
      BY <1>0, <1>00, <1>3, <3>2 DEF FdfsToolStores, FdfsToolFails, UrlToolPrints,
         UrlToolFails, Die
    <3> QED BY <1>3, <3>1, <3>2 DEF ToolStep
  <2>2. Closed' = Closed /\ Spent' = Spent
    BY <2>1, ClosesNone
  <2> QED BY <2>1, <2>2 DEF FdsSpent
<1> QED BY <1>1, <1>2, <1>3, QuietSteps

\* What closes a request, and that nothing opens one again.
LEMMA ClosedChange ==
    ASSUME Quiet, TypeInv, TreeInv, LoneWorker, FdsSpent, [Next]_vars
    PROVE  \/ Closed' = Closed
           \/ /\ pc[Root] \notin Idle /\ CloseRequest(Root)
              /\ End(Root) \/ Crash
<1>1. CASE UNCHANGED vars
  BY <1>1, ClosesNone DEF vars
<1>2. CASE RootStep
  <2>1. CASE End(Root) \/ Crash
    BY <2>1, CrashCloses DEF End, At, Idle
  <2>2. CASE Accept(Root)
    BY <2>2, ClosesNone DEF Accept
  <2>3. CASE ~ (End(Root) \/ Crash \/ Accept(Root))
    <3>1. outcome' = outcome
      BY <1>2, <2>3 DEF RootStep, Crash, AcceptFails, ReadBody, OpenTemp, OpenTempFails, WriteTemp, FdfsPipe, Pipe,
         FdfsFork, Fork, FdfsWait, UnlinkTemp, UrlPipe, UrlPipeFails, UrlFork, UrlWait,
         Connect, LPush, ZIncr
    <3> QED BY <3>1, ClosesNone
  <2> QED BY <2>1, <2>2, <2>3
<1>3. ASSUME NEW p \in Procs, ToolStep(p) PROVE Closed' = Closed
  <2>1. outcome' = outcome
    BY <1>3 DEF ToolStep, FdfsExec, FdfsToolStores, FdfsToolFails, UrlExec,
       UrlToolPrints, UrlToolFails
  <2> QED BY <2>1, ClosesNone
<1> QED BY <1>1, <1>2, <1>3, QuietSteps

LEMMA FitsBefore ==
    ASSUME Quiet, TypeInv, TreeInv, LoneWorker, FdsSpent, [Next]_vars, Fits' PROVE Fits
<1>1. FdsPerUpload \in Nat /\ FdLimit \in Nat
  BY UploadAssumption DEF FdsPerUpload
<1>2. CASE Closed' = Closed
  BY <1>2 DEF Fits, Spent
<1>3. CASE pc[Root] \notin Idle /\ CloseRequest(Root)
  <2>1. Spent \in Nat /\ Spent' = Spent + 2
    BY <1>3, ClosesOne
  <2>2. Spent' + FdsPerUpload <= FdLimit
    BY DEF Fits, FdsPerUpload
  <2> QED BY <1>1, <2>1, <2>2 DEF Fits
<1> QED BY <1>2, <1>3, ClosedChange

(* As long as the descriptors last no call fails.                          *)
LEMMA CallsSucceed ==
    ASSUME Quiet, TypeInv, TreeInv, LoneWorker, FdsSpent, Fits, NothingFailed
    PROVE  /\ ~ OpenTempFails(Root) /\ ~ FdfsPipeFails(Root) /\ ~ UrlPipeFails(Root)
           /\ ~ ConnectFails(Root) /\ ~ UrlWaitCrashes(Root)
           /\ \A p \in Procs : ~ FdfsToolFails(p) /\ ~ UrlToolFails(p)
<1> USE DEF At
<1>1. FdsPerUpload \in Nat /\ FdLimit \in Nat /\ ToolFds \in Nat
      /\ 4 <= FdsPerUpload /\ 3 + ToolFds <= FdsPerUpload
  BY UploadAssumption DEF FdsPerUpload
<1>2. Spent \in Nat /\ Spent + FdsPerUpload <= FdLimit
  BY FS_CardinalityType DEF Spent, Fits, FdsSpent
<1>3. ASSUME NEW p \in Procs, pc[p] \notin {"free", "zombie"}
      PROVE  used[p] \in Nat /\ used[p] <= Spent + Cost(pc[Root])
  BY <1>3 DEF FdsSpent, TypeInv, TypeOK
<1>4. Root \in Procs
  BY UploadAssumption
<1>5. pc[Root] = "fopen" => CanOpen(Root, 1)
  <2> SUFFICES ASSUME pc[Root] = "fopen" PROVE used[Root] + 1 <= FdLimit
    BY DEF CanOpen
  <2>1. used[Root] \in Nat /\ used[Root] <= Spent + 1
    BY <1>3, <1>4 DEF Cost
  <2> QED BY <1>1, <1>2, <2>1
<1>6. pc[Root] = "fdfs_pipe" => CanOpen(Root, 2)
  <2> SUFFICES ASSUME pc[Root] = "fdfs_pipe" PROVE used[Root] + 2 <= FdLimit
    BY DEF CanOpen
  <2>1. used[Root] \in Nat /\ used[Root] <= Spent + 1
    BY <1>3, <1>4 DEF Cost
  <2> QED BY <1>1, <1>2, <2>1
<1>7. pc[Root] = "url_pipe" => CanOpen(Root, 2)
  <2> SUFFICES ASSUME pc[Root] = "url_pipe" PROVE used[Root] + 2 <= FdLimit
    BY DEF CanOpen
  <2>1. used[Root] \in Nat /\ used[Root] <= Spent + 2
    BY <1>3, <1>4 DEF Cost
  <2> QED BY <1>1, <1>2, <2>1
<1>8. pc[Root] = "connect" => CanOpen(Root, 1)
  <2> SUFFICES ASSUME pc[Root] = "connect" PROVE used[Root] + 1 <= FdLimit
    BY DEF CanOpen
  <2>1. used[Root] \in Nat /\ used[Root] <= Spent + 3
    BY <1>3, <1>4 DEF Cost
  <2> QED BY <1>1, <1>2, <2>1
<1>9. ~ OpenTempFails(Root) /\ ~ FdfsPipeFails(Root) /\ ~ UrlPipeFails(Root) /\ ~ ConnectFails(Root)
  BY <1>5, <1>6, <1>7, <1>8, NoFault DEF OpenTempFails, FdfsPipeFails, UrlPipeFails, ConnectFails
<1>10. ~ UrlWaitCrashes(Root)
  <2> SUFFICES ASSUME pc[Root] = "url_wait", WaitReturns(Root), Printed(Root) = NoId
               PROVE  FALSE
    BY DEF UrlWaitCrashes, Reap
  <2>1. child[Root] # NoProc /\ child[Root] \in Procs
    BY <1>4 DEF NothingFailed, Waiting, TypeInv, TypeOK
  <2>2. pc[child[Root]] = "zombie"
    BY <2>1 DEF WaitReturns
  <2> QED BY <2>1, <2>2 DEF Printed, NothingFailed
<1>11. ASSUME NEW p \in Procs, pc[p] \in {"fdfs_tool", "url_tool"}
       PROVE  CanOpen(p, ToolFds) /\ (pc[p] = "url_tool" => KnownFile(fid[p]))
  <2>1. /\ p = child[Root] /\ pc[Root] \in Waiting
        /\ pc[p] = "url_tool" => pc[Root] = "url_wait"
    BY <1>4, <1>11, ChildOfRoot, UploadAssumption DEF AtTool, TreeInv, StagesAgree
  <2>2. CanOpen(p, ToolFds)
    <3>1. used[p] \in Nat /\ used[p] <= Spent + 3
      <4>1. Cost(pc[Root]) \in {2, 3}
        BY <2>1 DEF Cost, Waiting
      <4> QED BY <1>2, <1>3, <1>11, <4>1
    <3>2. used[p] + ToolFds <= FdLimit
      BY <1>1, <1>2, <3>1
    <3> QED BY <3>2 DEF CanOpen
  <2> QED BY <1>11, <2>1, <2>2 DEF NothingFailed, HasFile
<1>12. \A p \in Procs : ~ FdfsToolFails(p) /\ ~ UrlToolFails(p)
  BY <1>11, NoFault DEF FdfsToolFails, UrlToolFails
<1> QED BY <1>9, <1>10, <1>12

\* Away from the places NothingFailed speaks of there is nothing to show.
Untold == HasFile \cup Waiting \cup {"zincr", "end"}

LEMMA NothingToShow ==
    ASSUME TreeInv', LoneWorker', pc'[Root] \notin Untold PROVE NothingFailed'
<1>1. child'[Root] = NoProc
  BY UploadAssumption DEF TreeInv, OnlyWaitersHaveChildren, Untold
<1>2. \A p \in Procs \ {Root} : pc'[p] = "free"
  BY <1>1, UploadAssumption DEF LoneWorker
<1>3. \A p \in Procs : pc'[p] \notin {"url_exec", "url_tool"}
  BY <1>2 DEF LoneWorker, AtTool
<1> QED BY <1>3 DEF NothingFailed, Untold, HasFile, Waiting

LEMMA NothingStep ==
    ASSUME Quiet, Inv, LoneWorker, FdsSpent, Fits, NothingFailed, [Next]_vars,
           TreeInv', LoneWorker'
    PROVE  NothingFailed'
<1> USE DEF At, Goto, memory, services, tree
<1>0. /\ pc \in [Procs -> Locations] /\ Root \in Procs
      /\ req \in [Procs -> Requests \cup {NoReq}]
      /\ fid \in [Procs -> Ids] /\ url \in [Procs -> Ids]
      /\ child \in [Procs -> Procs \cup {NoProc}] /\ out \in [Procs -> Ids]
      /\ NoProc \notin Procs /\ NoId \notin FileIds
  BY UploadAssumption DEF Inv, TypeInv, TypeOK
<1>1. CASE UNCHANGED vars
  BY <1>1 DEF vars, NothingFailed, KnownFile, FullyRecorded
<1>2. TypeInv /\ TreeInv
  BY DEF Inv
<1>3. CASE pc'[Root] \notin Untold
  BY <1>3, NothingToShow
<1>4. CASE ReadBody(Root)
  <2>1. CASE Form[req[Root]] # "nodata"
    <3>1. pc'[Root] = "fopen"
      BY <1>0, <1>4, <2>1 DEF ReadBody
    <3> QED BY <3>1, NothingToShow DEF Untold, HasFile, Waiting
  <2>2. CASE Form[req[Root]] = "nodata"
    <3>1. pc'[Root] = "end" /\ req' = req /\ \A p \in Procs \ {Root} : pc'[p] = "free"
      BY <1>0, <1>2, <1>4, <2>2, ChildOfRoot DEF ReadBody, Waiting
    <3> QED BY <2>2, <3>1 DEF NothingFailed, HasFile, Waiting
  <2> QED BY <2>1, <2>2
<1>5. CASE FdfsFork(Root)
  <2>1. PICK q \in Procs :
           /\ pc[q] = "free" /\ pc' = [pc EXCEPT ![Root] = "fdfs_wait", ![q] = "fdfs_exec"]
           /\ child' = [child EXCEPT ![Root] = q]
    BY <1>5 DEF FdfsFork, Fork
  <2>2. pc[Root] = "fdfs_fork" /\ \A p \in Procs \ {Root} : pc[p] = "free"
    BY <1>2, <1>5, ChildOfRoot DEF FdfsFork, Waiting
  <2>3. q # Root /\ pc'[Root] = "fdfs_wait" /\ pc'[q] = "fdfs_exec" /\ child'[Root] = q
    BY <1>0, <2>1, <2>2
  <2>4. \A p \in Procs : pc'[p] \notin {"url_exec", "url_tool"}
    BY <1>0, <2>1, <2>2
  <2> QED BY <1>0, <2>3, <2>4 DEF NothingFailed, HasFile
<1>6. CASE FdfsWait(Root)
  <2>1. pc[Root] = "fdfs_wait" /\ child[Root] \in Procs \ {Root} /\ pc[child[Root]] = "zombie"
    BY <1>0, <1>2, <1>6, ChildOfRoot DEF FdfsWait, Reap, WaitReturns, NothingFailed, Waiting
  <2>2. Printed(Root) = out[child[Root]] /\ KnownFile(out[child[Root]])
    BY <1>0, <2>1 DEF Printed, NothingFailed
  <2>3. fid'[Root] = out[child[Root]] /\ stored' = stored
    BY <1>0, <1>6, <2>2 DEF FdfsWait, KnownFile
  <2>4. pc'[Root] = "unlink"
    BY <1>0, <1>6 DEF FdfsWait, Reap
  <2>5. \A p \in Procs : pc'[p] \notin {"url_exec", "url_tool"}
    <3>1. \A p \in Procs \ {Root} : pc[p] # "free" => p = child[Root]
      BY DEF LoneWorker
    <3> QED BY <1>0, <1>6, <2>4, <3>1 DEF FdfsWait, Reap
  <2> QED BY <2>2, <2>3, <2>4, <2>5 DEF NothingFailed, KnownFile, Waiting
<1>7. CASE UnlinkTemp(Root) \/ UrlPipe(Root) \/ Connect(Root)
  <2>1. /\ fid' = fid /\ url' = url /\ stored' = stored
        /\ pc[Root] \in {"unlink", "url_pipe", "connect"}
    BY <1>7 DEF UnlinkTemp, UrlPipe, Pipe, Connect
  <2>2. \/ pc[Root] \in {"unlink", "url_pipe"} /\ pc'[Root] \in {"url_pipe", "url_fork"}
        \/ pc[Root] = "connect" /\ pc'[Root] = "lpush"
    BY <1>0, <1>7, NoFault DEF UnlinkTemp, UrlPipe, Pipe, Connect
  <2>3. \A p \in Procs \ {Root} : pc'[p] = "free"
    <3>1. child'[Root] = NoProc
      BY <2>2, UploadAssumption DEF TreeInv, OnlyWaitersHaveChildren, Waiting
    <3> QED BY <1>0, <3>1 DEF LoneWorker
  <2> QED BY <2>1, <2>2, <2>3 DEF NothingFailed, KnownFile, HasFile, Waiting
<1>8. CASE UrlFork(Root)
  <2>1. PICK q \in Procs :
           /\ pc[q] = "free" /\ pc' = [pc EXCEPT ![Root] = "url_wait", ![q] = "url_exec"]
           /\ child' = [child EXCEPT ![Root] = q] /\ fid' = [fid EXCEPT ![q] = fid[Root]]
           /\ stored' = stored
    BY <1>8 DEF UrlFork, Fork
  <2>2. pc[Root] = "url_fork" /\ \A p \in Procs \ {Root} : pc[p] = "free"
    BY <1>2, <1>8, ChildOfRoot DEF UrlFork, Waiting
  <2>3. q # Root /\ pc'[Root] = "url_wait" /\ pc'[q] = "url_exec" /\ child'[Root] = q
        /\ fid'[Root] = fid[Root] /\ fid'[q] = fid[Root]
    BY <1>0, <2>1, <2>2
  <2>4. \A p \in Procs \ {q} : pc'[p] \notin {"url_exec", "url_tool"}
    BY <1>0, <2>1, <2>2
  <2>5. KnownFile(fid[Root]) /\ KnownFile(fid[Root])'
    BY <2>1, <2>2, <2>3 DEF NothingFailed, HasFile, KnownFile
  <2> QED BY <1>0, <2>3, <2>4, <2>5 DEF NothingFailed
<1>9. CASE UrlWait(Root)
  <2>1. pc[Root] = "url_wait" /\ pc'[Root] = "connect" /\ fid' = fid /\ stored' = stored
        /\ url'[Root] = fid[Root]
    BY <1>0, <1>9 DEF UrlWait, Reap
  <2>2. \A p \in Procs \ {Root} : pc'[p] = "free"
    <3>1. child'[Root] = NoProc
      BY <1>0, <1>9 DEF UrlWait, Reap
    <3> QED BY <1>0, <3>1 DEF LoneWorker
  <2> QED BY <2>1, <2>2 DEF NothingFailed, KnownFile, HasFile, Waiting
<1>10. CASE LPush(Root)
  <2>1. pc[Root] = "lpush" /\ pc'[Root] = "zincr" /\ req' = req
        /\ list' = Append(list, Record(Root)) /\ list \in Seq(C!Records)
    BY <1>0, <1>2, <1>10, NoFault DEF LPush, TypeInv, TypeOK
  <2>2. Record(Root).req = req[Root] /\ Record(Root).id = fid[Root]
        /\ Record(Root).url = fid[Root] /\ fid[Root] # NoId
    BY <1>0, <2>1 DEF Record, NothingFailed, KnownFile, HasFile
  <2>3. Len(list) + 1 \in DOMAIN list' /\ list'[Len(list) + 1] = Record(Root)
    BY <2>1
  <2>4. FullyRecorded(req[Root])'
    BY <2>1, <2>2, <2>3 DEF FullyRecorded
  <2>5. \A p \in Procs \ {Root} : pc'[p] = "free"
    <3>1. child'[Root] = NoProc
      BY <2>1, UploadAssumption DEF TreeInv, OnlyWaitersHaveChildren, Waiting
    <3> QED BY <1>0, <3>1 DEF LoneWorker
  <2> QED BY <2>1, <2>4, <2>5 DEF NothingFailed, HasFile, Waiting
<1>11. CASE ZIncr(Root)
  <2>1. pc[Root] = "zincr" /\ pc'[Root] = "end" /\ req' = req /\ list' = list
    BY <1>0, <1>11 DEF ZIncr
  <2>2. \A p \in Procs \ {Root} : pc'[p] = "free"
    <3>1. child'[Root] = NoProc
      BY <2>1, UploadAssumption DEF TreeInv, OnlyWaitersHaveChildren, Waiting
    <3> QED BY <1>0, <3>1 DEF LoneWorker
  <2> QED BY <2>1, <2>2 DEF NothingFailed, FullyRecorded, HasFile, Waiting
<1>12. ASSUME NEW p \in Procs \ {Root}, p = child[Root], pc[Root] \in Waiting, ToolStep(p)
       PROVE  NothingFailed'
  <2>0. pc'[Root] = pc[Root] /\ fid'[Root] = fid[Root] /\ child' = child
        /\ \A q \in Procs \ {Root, p} : pc'[q] = "free"
    <3>1. pc'[Root] = pc[Root] /\ fid'[Root] = fid[Root] /\ child' = child
      BY <1>0, <1>12 DEF ToolStep, FdfsExec, FdfsToolStores, FdfsToolFails, UrlExec,
         UrlToolPrints, UrlToolFails, Die
    <3>2. \A q \in Procs \ {Root, p} : pc'[q] = "free"
      BY <1>12, <3>1 DEF LoneWorker
    <3> QED BY <3>1, <3>2
  <2>1. CASE FdfsExec(p)
    <3>1. pc'[p] = "fdfs_tool" /\ stored' = stored
      BY <1>0, <2>1, ExecSucceeds DEF FdfsExec
    <3>2. pc[Root] = "fdfs_wait"
      BY <1>0, <1>2, <1>12, <2>1 DEF FdfsExec, TreeInv, StagesAgree
    <3> QED BY <1>12, <2>0, <3>1, <3>2 DEF NothingFailed, HasFile
  <2>2. CASE FdfsToolStores(p)
    <3>1. pc[p] = "fdfs_tool" /\ pc[Root] = "fdfs_wait"
      BY <1>0, <1>2, <1>12, <2>2 DEF FdfsToolStores, TreeInv, StagesAgree
    <3>2. PICK i \in FileIds : stored' = [stored EXCEPT ![i] = tmp[Name[req[p]]]]
                               /\ out' = [out EXCEPT ![p] = i]
      BY <2>2, NoFault DEF FdfsToolStores
    <3>3. tmp[Name[req[p]]] # NoFile
      BY <3>1, SavedIsFile DEF Inv, ContentInv, TempIsOwn
    <3>4. stored \in [FileIds -> C!Contents \cup {NoFile}]
      BY <1>2 DEF TypeInv, TypeOK
    <3>5. out'[p] = i /\ stored'[i] # NoFile /\ pc'[p] = "zombie"
      BY <1>0, <2>2, <3>2, <3>3, <3>4 DEF FdfsToolStores, Die
    <3> QED BY <1>12, <2>0, <3>1, <3>2, <3>5 DEF NothingFailed, HasFile, KnownFile
  <2>3. CASE UrlExec(p)
    <3>1. pc'[p] = "url_tool" /\ stored' = stored /\ fid' = fid
      BY <1>0, <2>3, ExecSucceeds DEF UrlExec
    <3>2. pc[Root] = "url_wait" /\ pc[p] = "url_exec"
      BY <1>0, <1>2, <1>12, <2>3 DEF UrlExec, TreeInv, StagesAgree
    <3> QED BY <1>12, <2>0, <3>1, <3>2 DEF NothingFailed, HasFile, KnownFile
  <2>4. CASE UrlToolPrints(p)
    <3>1. pc'[p] = "zombie" /\ stored' = stored /\ out'[p] = fid[p] /\ KnownFile(fid[p])
      BY <1>0, <2>4 DEF UrlToolPrints, Die
    <3>2. pc[Root] = "url_wait"
      BY <1>0, <1>2, <1>12, <2>4 DEF UrlToolPrints, TreeInv, StagesAgree
    <3>3. KnownFile(fid[Root]) /\ KnownFile(fid[Root])'
      BY <2>0, <3>1, <3>2 DEF NothingFailed, HasFile, KnownFile
    <3> QED BY <1>0, <1>12, <2>0, <3>1, <3>2, <3>3 DEF NothingFailed, KnownFile
  <2>5. ~ FdfsToolFails(p) /\ ~ UrlToolFails(p)
    BY <1>2, CallsSucceed
  <2> QED BY <1>12, <2>1, <2>2, <2>3, <2>4, <2>5 DEF ToolStep
<1>13. ASSUME RootStep, pc'[Root] \in Untold
       PROVE  \/ ReadBody(Root) \/ FdfsFork(Root) \/ FdfsWait(Root) \/ UnlinkTemp(Root)
              \/ UrlPipe(Root) \/ Connect(Root) \/ UrlFork(Root) \/ UrlWait(Root)
              \/ LPush(Root) \/ ZIncr(Root)
  <2>1. ~ OpenTempFails(Root) /\ ~ FdfsPipeFails(Root) /\ ~ UrlPipeFails(Root)
        /\ ~ ConnectFails(Root) /\ ~ UrlWaitCrashes(Root)
    BY <1>2, CallsSucceed
  <2>2. ~ (Accept(Root) \/ AcceptFails(Root) \/ ParseCrashes(Root) \/ OpenTemp(Root)
           \/ WriteTemp(Root) \/ FdfsPipe(Root) \/ End(Root))
    BY <1>0, <1>13 DEF Accept, AcceptFails, ParseCrashes, OpenTemp, WriteTemp, FdfsPipe, Pipe,
       End, Die, Untold, HasFile, Waiting
  <2> QED BY <1>13, <2>1, <2>2 DEF RootStep
<1> QED BY <1>1, <1>2, <1>3, <1>4, <1>5, <1>6, <1>7, <1>8, <1>9, <1>10, <1>11, <1>12, <1>13,
           QuietSteps

\* What is recorded stays recorded.
LEMMA RecordedStays ==
    ASSUME TypeInv, [Next]_vars, NEW r, FullyRecorded(r) PROVE FullyRecorded(r)'
<1>1. PICK k \in DOMAIN list : list[k].req = r /\ list[k].id # NoId /\ list[k].url = list[k].id
  BY DEF FullyRecorded
<1>2. k \in DOMAIN list' /\ list'[k] = list[k]
  <2>1. list \in Seq(C!Records)
    BY DEF TypeInv, TypeOK
  <2> QED BY <1>1, <2>1, RecordsChange
<1> QED BY <1>1, <1>2 DEF FullyRecorded

\* The uploads before the last safe one leave room for it.
LEMMA RoomForOneMore ==
    ASSUME NEW c \in Nat, c + 1 <= SafeUploads
    PROVE  c <= SafeUploads /\ 2 * c + FdsPerUpload <= FdLimit
<1>1. PICK a \in Nat, b \in Nat : a = FdLimit /\ b = FdsPerUpload
  BY UploadAssumption DEF FdsPerUpload
<1>2. SafeUploads = IF a < b THEN 0 ELSE (a - b) \div 2 + 1
  BY <1>1 DEF SafeUploads
<1>3. ~ (a < b) /\ SafeUploads = (a - b) \div 2 + 1
  BY <1>2
<1>4. PICK d \in Nat : d = a - b
  BY <1>3
<1>5. d \div 2 \in Nat /\ 2 * (d \div 2) <= d
  BY <1>4
<1>6. c <= d \div 2
  BY <1>3, <1>4, <1>5
<1>7. c <= d \div 2 + 1 /\ 2 * c <= d
  BY <1>5, <1>6
<1> QED BY <1>1, <1>3, <1>4, <1>7

LEMMA ClosedRecordedStep ==
    ASSUME Quiet, Inv, QuietInv, [Next]_vars PROVE ClosedRecorded'
<1>1. TypeInv /\ TreeInv /\ LoneWorker /\ FdsSpent /\ (Fits => NothingFailed) /\ ClosedRecorded
  BY DEF Inv, QuietInv
<1>2. CASE Closed' = Closed
  BY <1>1, <1>2, RecordedStays DEF ClosedRecorded, SafeUploads, FdsPerUpload
<1>3. ASSUME pc[Root] \notin Idle, CloseRequest(Root), End(Root) \/ Crash
      PROVE  ClosedRecorded'
  <2> SUFFICES ASSUME Cardinality(Closed') <= SafeUploads
               PROVE  \A r \in Closed' : Form[r] = "good" => FullyRecorded(r)'
    BY DEF ClosedRecorded, SafeUploads, FdsPerUpload
  <2>1. PICK r : /\ r = req[Root]
                 /\ Closed' = Closed \cup {r} /\ Cardinality(Closed) \in Nat
                 /\ Cardinality(Closed') = Cardinality(Closed) + 1
    BY <1>1, <1>3, ClosesOne
  <2>2. Cardinality(Closed) <= SafeUploads /\ Fits
    BY <2>1, RoomForOneMore DEF Fits, Spent
  <2>3. ASSUME Form[r] = "good" PROVE FullyRecorded(r)'
    <3>1. ~ FdfsPipeFails(Root) /\ ~ ConnectFails(Root) /\ ~ UrlWaitCrashes(Root)
      BY <1>1, <2>2, CallsSucceed
    <3>2. ~ ParseCrashes(Root)
      BY <2>1, <2>3 DEF ParseCrashes
    <3>3. pc[Root] = "end"
      BY <1>3, <3>1, <3>2 DEF Crash, End, At
    <3>4. FullyRecorded(r)
      BY <1>1, <2>1, <2>2, <2>3, <3>3 DEF NothingFailed
    <3> QED BY <1>1, <3>4, RecordedStays
  <2>4. ASSUME NEW s \in Closed, Form[s] = "good" PROVE FullyRecorded(s)'
    <3>1. FullyRecorded(s)
      BY <1>1, <2>2, <2>4 DEF ClosedRecorded
    <3> QED BY <1>1, <3>1, RecordedStays
  <2> QED BY <2>1, <2>3, <2>4
<1> QED BY <1>1, <1>2, <1>3, ClosedChange

LEMMA QuietInit == Quiet /\ Init => QuietInv
<1> SUFFICES ASSUME Quiet, Init PROVE QuietInv
  OBVIOUS
<1>1. Closed = {} /\ IsFiniteSet(Closed)
  BY FS_EmptySet DEF Init, Closed
<1>2. Spent = 0
  BY <1>1, FS_EmptySet DEF Spent
<1>3. /\ pc[Root] = "accept" /\ child[Root] = NoProc
      /\ \A p \in Procs : used[p] = 0 /\ child[p] = NoProc /\ (p # Root => pc[p] = "free")
  BY UploadAssumption DEF Init
<1>4. LoneWorker
  BY <1>3, UploadAssumption DEF LoneWorker, AtTool
<1>5. FdsSpent
  <2>1. \A p \in Procs : used[p] <= Spent + Cost(pc[Root])
    BY <1>2, <1>3 DEF Cost
  <2> QED BY <1>1, <1>3, <2>1 DEF FdsSpent, Idle
<1>6. NothingFailed
  BY <1>3 DEF NothingFailed, HasFile, Waiting
<1> QED BY <1>1, <1>4, <1>5, <1>6 DEF QuietInv, ClosedRecorded

LEMMA QuietStep ==
    ASSUME Quiet, Inv, Inv', QuietInv, [Next]_vars PROVE QuietInv'
<1>1. TypeInv /\ TreeInv /\ LoneWorker /\ FdsSpent /\ (Fits => NothingFailed) /\ ClosedRecorded
  BY DEF Inv, QuietInv
<1>2. TypeInv' /\ TreeInv'
  BY DEF Inv
<1>3. LoneWorker'
  BY <1>1, LoneStep
<1>4. FdsSpent'
  BY <1>1, <1>2, <1>3, FdsStep
<1>5. Fits' => NothingFailed'
  BY <1>1, <1>2, <1>3, FitsBefore, NothingStep
<1>6. ClosedRecorded'
  BY ClosedRecordedStep
<1> QED BY <1>3, <1>4, <1>5, <1>6 DEF QuietInv

(* When nothing fails the first SafeUploads uploads end with a record that *)
(* has both its file and its url, for every limit of descriptors and every *)
(* number a FastDFS tool needs, as long as there is a slot for a child     *)
(* (pfd[0] in fdfs_client and get_url of usefull.c is lost each time).     *)
THEOREM FirstUploadsKept == ASSUME Procs # {Root} PROVE Spec => []FirstUploadsRecorded
<1>1. Init => (Faults = {} => QuietInv)
  BY QuietInit DEF Quiet
<1>2. Inv /\ Inv' /\ (Faults = {} => QuietInv) /\ [Next]_vars => (Faults = {} => QuietInv)'
  <2> SUFFICES ASSUME Inv, Inv', Faults = {}, QuietInv, [Next]_vars PROVE QuietInv'
    OBVIOUS
  <2> QED BY QuietStep DEF Quiet
<1>3. (Faults = {} => QuietInv) => FirstUploadsRecorded
  BY DEF QuietInv, ClosedRecorded, FirstUploadsRecorded
<1> QED BY <1>1, <1>2, <1>3, Invariance, PTL DEF Spec
==============================================================================
