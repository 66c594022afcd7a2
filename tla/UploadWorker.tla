---------------------------- MODULE UploadWorker ----------------------------
(***************************************************************************)
(* The upload service: the FastCGI worker of upload.c with the processes   *)
(* it forks (fdfs_client and get_url of usefull.c), its temporary files,   *)
(* FastDFS, and the two Redis keys that write_redis updates.               *)
(*                                                                         *)
(* One process is started (start-up.sh); the others are its descendants.   *)
(* A child is meant to become a FastDFS tool at once, but when exec fails  *)
(* it returns into the accept loop and serves requests itself while its    *)
(* parent sits in wait().  Process slots are numbered by Procs and reused. *)
(*                                                                         *)
(* Every descriptor a process holds beyond those it was started with is    *)
(* counted in "used": neither fdfs_client nor get_url closes the read end  *)
(* of its pipe, so each upload costs the worker two descriptors for good.  *)
(***************************************************************************)
EXTENDS Naturals, Sequences, FiniteSets

CONSTANTS
    Procs,      \* process slots
    Root,       \* the slot of the process spawn-fcgi starts
    NoProc,     \* no child: fork failed, or none was made
    Requests,   \* the uploads clients send
    NoReq,      \* the worker serves no request
    Form,       \* the shape of each request's body
    Names,      \* the file names clients give
    Name,       \* the file name in each request
    FileIds,    \* the names FastDFS can give to a file
    NoId,       \* the empty string where a file_id or a url is expected
    NoFile,     \* no file under this name
    FdLimit,    \* descriptors a process may open (RLIMIT_NOFILE, less the first)
    ToolFds,    \* descriptors a FastDFS tool needs to do its work
    Faults      \* what may go wrong in a behaviour

FaultKinds ==
    { "accept",         \* FCGI_Accept returns an error
      "malloc",         \* malloc returns NULL
      "fopen",          \* the temporary file cannot be created
      "disk",           \* fwrite writes less than it was given
      "fork",           \* fork returns -1
      "exec",           \* execlp returns -1 in the child
      "fdfs",           \* fdfs_upload_file stores nothing and prints nothing
      "fdfs_lost",      \* fdfs_upload_file stores the file and prints nothing
      "info",           \* fdfs_file_info does not print the address
      "redis_down",     \* redisConnect fails
      "redis_error",    \* Redis answers a command with an error
      "redis_lost",     \* the reply to a command is lost: redisCommand is NULL
      "restart" }       \* everything is stopped and started again

ASSUME UploadAssumption ==
    /\ Root \in Procs
    /\ NoProc \notin Procs
    /\ NoReq \notin Requests
    /\ NoId \notin FileIds
    /\ NoFile \notin Requests \X BOOLEAN
    /\ Form \in [Requests -> {"good", "dashes", "cut", "malformed", "nodata"}]
    /\ Name \in [Requests -> Names]
    /\ FdLimit \in Nat
    /\ ToolFds \in Nat
    /\ Faults \subseteq FaultKinds

VARIABLES
    pc,         \* where each process is
    req,        \* the request a process serves
    fid,        \* its file_id buffer
    url,        \* its fdfs_file_url buffer: the id the url is made from
    child,      \* the child it waits for
    out,        \* what a dead child left in the pipe to its parent
    used,       \* its open descriptors
    tmp,        \* the temporary file of each name, in the working directory
    stored,     \* FastDFS: the content kept under each file_id
    list,       \* FILE_INFO_LIST, oldest record first (LPUSH adds the newest)
    hot,        \* FILE_HOT_ZSET: the score of each member, 0 when absent
    outcome     \* what the web server knows of each request

memory   == <<req, fid, url>>
tree     == <<child, out>>
services == <<stored, list, hot>>
vars     == <<pc, memory, tree, used, tmp, services, outcome>>

C == INSTANCE Catalogue WITH stored <- stored, list <- list

Ids == FileIds \cup {NoId}

(***************************************************************************)
(* Program locations.  "free" is an unused slot, "zombie" a process that   *)
(* has ended.  The two waits are wait(NULL) in fdfs_client and get_url.    *)
(***************************************************************************)
Waiting == {"fdfs_wait", "url_wait"}

Running == { "accept", "read", "fopen", "fwrite", "fdfs_pipe", "fdfs_fork",
             "fdfs_exec", "fdfs_tool", "unlink", "url_pipe", "url_fork",
             "url_exec", "url_tool", "connect", "lpush", "zincr", "end" }

Locations == {"free", "zombie"} \cup Waiting \cup Running

Init ==
    /\ pc = [p \in Procs |-> IF p = Root THEN "accept" ELSE "free"]
    /\ req = [p \in Procs |-> NoReq]
    /\ fid = [p \in Procs |-> NoId]
    /\ url = [p \in Procs |-> NoId]
    /\ child = [p \in Procs |-> NoProc]
    /\ out = [p \in Procs |-> NoId]
    /\ used = [p \in Procs |-> 0]
    /\ tmp = [n \in Names |-> NoFile]
    /\ stored = [i \in FileIds |-> NoFile]
    /\ list = << >>
    /\ hot = [i \in Ids |-> 0]
    /\ outcome = [r \in Requests |-> "queued"]

-----------------------------------------------------------------------------
(* Steps that several handlers share.                                      *)

At(p, l) == pc[p] = l

Goto(p, l) == pc' = [pc EXCEPT ![p] = l]

Fault(k) == k \in Faults

CanOpen(p, n) == used[p] + n <= FdLimit

(***************************************************************************)
(* FCGI_Finish ends the request for the client, whoever has copies of the  *)
(* connection; when a process is gone the client hears no more of it only  *)
(* if no other process has a copy.                                         *)
(***************************************************************************)
CloseRequest(p) ==
    outcome' = [r \in Requests |-> IF r = req[p] THEN "closed" ELSE outcome[r]]

AbandonRequest(p) ==
    outcome' = [r \in Requests |->
                   IF r = req[p] /\ \A q \in Procs \ {p} : req[q] # r
                   THEN "closed" ELSE outcome[r]]

(***************************************************************************)
(* The process ends: exit, return from main, or a crash.  The kernel takes *)
(* back its memory and descriptors; its pipe and its files stay.           *)
(***************************************************************************)
Die(p) ==
    /\ Goto(p, "zombie")
    /\ req' = [req EXCEPT ![p] = NoReq]
    /\ fid' = [fid EXCEPT ![p] = NoId]
    /\ url' = [url EXCEPT ![p] = NoId]
    /\ used' = [used EXCEPT ![p] = 0]

(***************************************************************************)
(* pipe(): two descriptors.                                                *)
(***************************************************************************)
Pipe(p, next) ==
    /\ CanOpen(p, 2)
    /\ used' = [used EXCEPT ![p] = @ + 2]
    /\ Goto(p, next)
    /\ UNCHANGED <<memory, tree, tmp, services, outcome>>

\* A slip to be caught: the parent keeps the write end of the pipe open.
Fork_KeepsWriteEnd(p, wait, exec) ==
    \E q \in Procs :
        /\ pc[q] = "free"
        /\ pc' = [pc EXCEPT ![p] = wait, ![q] = exec]
        /\ child' = [child EXCEPT ![p] = q]
        /\ req' = [req EXCEPT ![q] = req[p]]
        /\ fid' = [fid EXCEPT ![q] = fid[p]]
        /\ url' = [url EXCEPT ![q] = url[p]]
        /\ used' = [used EXCEPT ![q] = used[p] - 1]
        /\ UNCHANGED <<out, tmp, services, outcome>>

(***************************************************************************)
(* fork() succeeds: the child is a copy of its parent, the parent closes   *)
(* the write end of the pipe and the child the read end.                   *)
(***************************************************************************)
Fork(p, wait, exec) ==
    \E q \in Procs :
        /\ pc[q] = "free"
        /\ pc' = [pc EXCEPT ![p] = wait, ![q] = exec]
        /\ child' = [child EXCEPT ![p] = q]
        /\ req' = [req EXCEPT ![q] = req[p]]
        /\ fid' = [fid EXCEPT ![q] = fid[p]]
        /\ url' = [url EXCEPT ![q] = url[p]]
        /\ used' = [used EXCEPT ![p] = @ - 1, ![q] = used[p] - 1]
        /\ UNCHANGED <<out, tmp, services, outcome>>

ForkMayFail == Fault("fork") \/ \A q \in Procs : pc[q] # "free"

(***************************************************************************)
(* wait(NULL) returns: at once without a child, else when it has ended.    *)
(***************************************************************************)
WaitReturns(p) == \A q \in Procs : q = child[p] => pc[q] = "zombie"

Printed(p) == IF child[p] = NoProc THEN NoId ELSE out[child[p]]

Reap(p, next) ==
    /\ WaitReturns(p)
    /\ pc' = [q \in Procs |-> IF q = p THEN next
                              ELSE IF q = child[p] THEN "free" ELSE pc[q]]
    /\ out' = [q \in Procs |-> IF q = child[p] THEN NoId ELSE out[q]]
    /\ child' = [child EXCEPT ![p] = NoProc]
-----------------------------------------------------------------------------
(* FCGI_Accept and the reading of the body (upload.c).                     *)

\* accept() finds at least the descriptor that the last connection gave back.
Accept(p) ==
    /\ At(p, "accept")
    /\ CanOpen(p, 1)
    /\ \E r \in Requests :
          /\ outcome[r] = "queued"
          /\ outcome' = [outcome EXCEPT ![r] = "serving"]
          /\ req' = [req EXCEPT ![p] = r]
    /\ used' = [used EXCEPT ![p] = @ + 1]
    /\ Goto(p, "read")
    /\ UNCHANGED <<fid, url, tree, tmp, services>>

\* The loop of main ends, and the process with it.
AcceptFails(p) ==
    /\ At(p, "accept")
    /\ Fault("accept") \/ ~ CanOpen(p, 1)
    /\ Die(p)
    /\ UNCHANGED <<tree, tmp, services, outcome>>

\* A connection that ends early is no error: what has come is the body.
ReadBody(p) ==
    /\ At(p, "read")
    /\ IF Form[req[p]] = "nodata" THEN Goto(p, "end") ELSE Goto(p, "fopen")
    /\ UNCHANGED <<memory, tree, used, tmp, services, outcome>>

GetBufFails(p) ==
    /\ At(p, "read")
    /\ Form[req[p]] # "nodata"
    /\ Fault("malloc")
    /\ Die(p)
    /\ AbandonRequest(p)
    /\ UNCHANGED <<tree, tmp, services>>

-----------------------------------------------------------------------------
(* upload_file: the body goes to a file with the name the client gave.     *)

\* A body without a name, or cut before its third end of line: strstr is NULL and
\* what is done with it crashes.  Cut before the fourth, memstr is given an address
\* behind NULL and a length that may be negative: it crashes or finds nothing.
ParseCrashes(p) ==
    /\ At(p, "fopen")
    /\ Form[req[p]] \in {"malformed", "cut"}
    /\ Die(p)
    /\ AbandonRequest(p)
    /\ UNCHANGED <<tree, tmp, services>>

\* fopen(filename, "wb+") makes the file or empties the one that is there.
OpenTemp(p) ==
    /\ At(p, "fopen")
    /\ Form[req[p]] # "malformed"
    /\ CanOpen(p, 1)
    /\ tmp' = [tmp EXCEPT ![Name[req[p]]] = <<req[p], FALSE>>]
    /\ Goto(p, "fwrite")
    /\ UNCHANGED <<memory, tree, used, services, outcome>>

OpenTempFails(p) ==
    /\ At(p, "fopen")
    /\ Form[req[p]] # "malformed"
    /\ Fault("fopen") \/ ~ CanOpen(p, 1)
    /\ Goto(p, "end")
    /\ UNCHANGED <<memory, tree, used, tmp, services, outcome>>

\* The file ends where memstr finds nine dashes, be it inside the file.  Without
\* a boundary memstr is NULL and the length is what the address makes it: fwrite
\* writes nothing when it is negative, else what stands in memory, as far as it is
\* mapped.  What fwrite returns is not looked at.
MayBeCut(r) == Form[r] \in {"dashes", "cut"} \/ Fault("disk")

WriteTemp(p) ==
    /\ At(p, "fwrite")
    /\ \E whole \in BOOLEAN :
          /\ IF whole THEN Form[req[p]] # "dashes" ELSE MayBeCut(req[p])
          /\ tmp' = [tmp EXCEPT ![Name[req[p]]] = <<req[p], whole>>]
    /\ Goto(p, "fdfs_pipe")
    /\ UNCHANGED <<memory, tree, used, services, outcome>>

-----------------------------------------------------------------------------
(* fdfs_client: fdfs_upload_file stores the temporary file.                *)

FdfsPipe(p) == At(p, "fdfs_pipe") /\ Pipe(p, "fdfs_fork")

FdfsPipeFails(p) ==
    /\ At(p, "fdfs_pipe")
    /\ ~ CanOpen(p, 2)
    /\ Die(p)
    /\ AbandonRequest(p)
    /\ UNCHANGED <<tree, tmp, services>>

\* A slip to be caught: the parent goes on without waiting.
FdfsFork_NoWait(p) == At(p, "fdfs_fork") /\ Fork(p, "unlink", "fdfs_exec")

FdfsFork(p) == At(p, "fdfs_fork") /\ Fork(p, "fdfs_wait", "fdfs_exec")

\* The error is logged and the parent's branch is taken.
FdfsForkFails(p) ==
    /\ At(p, "fdfs_fork")
    /\ ForkMayFail
    /\ Goto(p, "fdfs_wait")
    /\ used' = [used EXCEPT ![p] = @ - 1]
    /\ UNCHANGED <<memory, tree, tmp, services, outcome>>

\* When exec fails the child returns -1 to main, which goes to END.
FdfsExec(p) ==
    /\ At(p, "fdfs_exec")
    /\ \/ Goto(p, "fdfs_tool")
       \/ Fault("exec") /\ Goto(p, "end")
    /\ UNCHANGED <<memory, tree, used, tmp, services, outcome>>

\* The tool stores the file under a name of FastDFS's choice and prints it.
FdfsToolStores(p) ==
    /\ At(p, "fdfs_tool")
    /\ CanOpen(p, ToolFds)
    /\ \E i \in FileIds :
          /\ stored[i] = NoFile
          /\ stored' = [stored EXCEPT ![i] = tmp[Name[req[p]]]]
          /\ \/ out' = [out EXCEPT ![p] = i]
             \/ Fault("fdfs_lost") /\ UNCHANGED out
    /\ Die(p)
    /\ UNCHANGED <<child, tmp, list, hot, outcome>>

FdfsToolFails(p) ==
    /\ At(p, "fdfs_tool")
    /\ Fault("fdfs") \/ ~ CanOpen(p, ToolFds)
    /\ Die(p)
    /\ UNCHANGED <<tree, tmp, services, outcome>>

\* read() leaves the buffer alone when the pipe is empty; the result is 0.
FdfsWait(p) ==
    /\ At(p, "fdfs_wait")
    /\ Reap(p, "unlink")
    /\ fid' = [fid EXCEPT ![p] = IF Printed(p) = NoId THEN @ ELSE Printed(p)]
    /\ UNCHANGED <<req, url, used, tmp, services, outcome>>

\* A slip to be caught: the temporary file is forgotten.
UnlinkTemp_Skipped(p) ==
    /\ At(p, "unlink")
    /\ Goto(p, "url_pipe")
    /\ UNCHANGED <<memory, tree, used, tmp, services, outcome>>

UnlinkTemp(p) ==
    /\ At(p, "unlink")
    /\ tmp' = [tmp EXCEPT ![Name[req[p]]] = NoFile]
    /\ Goto(p, "url_pipe")
    /\ UNCHANGED <<memory, tree, used, services, outcome>>

-----------------------------------------------------------------------------
(* get_url: fdfs_file_info tells the address of the storage server.        *)

UrlPipe(p) == At(p, "url_pipe") /\ Pipe(p, "url_fork")

\* main logs the failure and goes on with an empty url.
UrlPipeFails(p) ==
    /\ At(p, "url_pipe")
    /\ ~ CanOpen(p, 2)
    /\ Goto(p, "connect")
    /\ UNCHANGED <<memory, tree, used, tmp, services, outcome>>

UrlFork(p) == At(p, "url_fork") /\ Fork(p, "url_wait", "url_exec")

UrlForkFails(p) ==
    /\ At(p, "url_fork")
    /\ ForkMayFail
    /\ Goto(p, "connect")
    /\ UNCHANGED <<memory, tree, used, tmp, services, outcome>>

\* When exec fails the child, not the parent, goes on with an empty url.
UrlExec(p) ==
    /\ At(p, "url_exec")
    /\ \/ Goto(p, "url_tool")
       \/ Fault("exec") /\ Goto(p, "connect")
    /\ UNCHANGED <<memory, tree, used, tmp, services, outcome>>

KnownFile(i) == i \in FileIds /\ stored[i] # NoFile

UrlToolPrints(p) ==
    /\ At(p, "url_tool")
    /\ CanOpen(p, ToolFds)
    /\ KnownFile(fid[p])
    /\ out' = [out EXCEPT ![p] = fid[p]]
    /\ Die(p)
    /\ UNCHANGED <<child, tmp, services, outcome>>

UrlToolFails(p) ==
    /\ At(p, "url_tool")
    /\ Fault("info") \/ ~ CanOpen(p, ToolFds) \/ ~ KnownFile(fid[p])
    /\ Die(p)
    /\ UNCHANGED <<tree, tmp, services, outcome>>

UrlWait(p) ==
    /\ At(p, "url_wait")
    /\ Printed(p) # NoId
    /\ Reap(p, "connect")
    /\ url' = [url EXCEPT ![p] = fid[p]]
    /\ UNCHANGED <<req, fid, used, tmp, services, outcome>>

\* A slip to be caught: the missing address is tested for and passed over.
UrlWaitCrashes_GoesOn(p) ==
    /\ At(p, "url_wait")
    /\ Printed(p) = NoId
    /\ Reap(p, "connect")
    /\ UNCHANGED <<memory, used, tmp, services, outcome>>

\* Nothing to read: strstr is NULL and the parent crashes on it.
UrlWaitCrashes(p) ==
    /\ At(p, "url_wait")
    /\ Printed(p) = NoId
    /\ Reap(p, "zombie")
    /\ req' = [req EXCEPT ![p] = NoReq]
    /\ fid' = [fid EXCEPT ![p] = NoId]
    /\ url' = [url EXCEPT ![p] = NoId]
    /\ used' = [used EXCEPT ![p] = 0]
    /\ AbandonRequest(p)
    /\ UNCHANGED <<tmp, services>>

-----------------------------------------------------------------------------
(* write_redis: one record in the list, one point in the sorted set.       *)

Connect(p) ==
    /\ At(p, "connect")
    /\ CanOpen(p, 1)
    /\ \/ Goto(p, "lpush")
       \/ Fault("malloc") /\ Goto(p, "end")
    /\ UNCHANGED <<memory, tree, used, tmp, services, outcome>>

ConnectFails(p) ==
    /\ At(p, "connect")
    /\ Fault("redis_down") \/ ~ CanOpen(p, 1)
    /\ Die(p)
    /\ AbandonRequest(p)
    /\ UNCHANGED <<tree, tmp, services>>

\* A slip to be caught: one field is not appended.
Record_NoUrl(p) == [req |-> req[p], id |-> fid[p]]

Record(p) == [req |-> req[p], id |-> fid[p], url |-> url[p]]

\* write_redis ignores what rop_list_push returns.
LPush(p) ==
    /\ At(p, "lpush")
    /\ \/ list' = Append(list, Record(p))
       \/ Fault("redis_error") /\ UNCHANGED list
    /\ Goto(p, "zincr")
    /\ UNCHANGED <<memory, tree, used, tmp, stored, hot, outcome>>

\* A slip to be caught: a missing reply is tested for and passed over.
LPushLost_GoesOn(p) ==
    /\ At(p, "lpush")
    /\ Fault("redis_lost")
    /\ \/ list' = Append(list, Record(p))
       \/ UNCHANGED list
    /\ Goto(p, "zincr")
    /\ UNCHANGED <<memory, tree, used, tmp, stored, hot, outcome>>

\* No reply, whether Redis ran the command or not: reply->type crashes.
LPushLost(p) ==
    /\ At(p, "lpush")
    /\ Fault("redis_lost")
    /\ \/ list' = Append(list, Record(p))
       \/ UNCHANGED list
    /\ Die(p)
    /\ AbandonRequest(p)
    /\ UNCHANGED <<tree, tmp, stored, hot>>

ZIncr(p) ==
    /\ At(p, "zincr")
    /\ \/ hot' = [hot EXCEPT ![fid[p]] = @ + 1]
       \/ Fault("redis_error") /\ UNCHANGED hot
    /\ Goto(p, "end")
    /\ UNCHANGED <<memory, tree, used, tmp, stored, list, outcome>>

ZIncrLost(p) ==
    /\ At(p, "zincr")
    /\ Fault("redis_lost")
    /\ \/ hot' = [hot EXCEPT ![fid[p]] = @ + 1]
       \/ UNCHANGED hot
    /\ Die(p)
    /\ AbandonRequest(p)
    /\ UNCHANGED <<tree, tmp, stored, list>>

\* Slips to be caught: file_id is not cleared; the request is not finished;
\* the connection is not closed.
End_KeepsFileId(p) ==
    /\ At(p, "end")
    /\ Goto(p, "accept")
    /\ CloseRequest(p)
    /\ req' = [req EXCEPT ![p] = NoReq]
    /\ url' = [url EXCEPT ![p] = NoId]
    /\ used' = [used EXCEPT ![p] = @ - 1]
    /\ UNCHANGED <<fid, tree, tmp, services>>

End_Unfinished(p) ==
    /\ At(p, "end")
    /\ Goto(p, "accept")
    /\ req' = [req EXCEPT ![p] = NoReq]
    /\ fid' = [fid EXCEPT ![p] = NoId]
    /\ url' = [url EXCEPT ![p] = NoId]
    /\ used' = [used EXCEPT ![p] = @ - 1]
    /\ UNCHANGED <<tree, tmp, services, outcome>>

End_KeepsConnection(p) ==
    /\ At(p, "end")
    /\ Goto(p, "accept")
    /\ CloseRequest(p)
    /\ req' = [req EXCEPT ![p] = NoReq]
    /\ fid' = [fid EXCEPT ![p] = NoId]
    /\ url' = [url EXCEPT ![p] = NoId]
    /\ UNCHANGED <<used, tree, tmp, services>>

\* END clears the buffers; the next FCGI_Accept ends the request.
End(p) ==
    /\ At(p, "end")
    /\ Goto(p, "accept")
    /\ CloseRequest(p)
    /\ req' = [req EXCEPT ![p] = NoReq]
    /\ fid' = [fid EXCEPT ![p] = NoId]
    /\ url' = [url EXCEPT ![p] = NoId]
    /\ used' = [used EXCEPT ![p] = @ - 1]
    /\ UNCHANGED <<tree, tmp, services>>

-----------------------------------------------------------------------------
(***************************************************************************)
(* Everything stops and start-up.sh runs again.  What was written to the   *)
(* disk, FastDFS and Redis stays; requests in progress are lost.           *)
(***************************************************************************)
Restart ==
    /\ Fault("restart")
    /\ pc' = [p \in Procs |-> IF p = Root THEN "accept" ELSE "free"]
    /\ req' = [p \in Procs |-> NoReq]
    /\ fid' = [p \in Procs |-> NoId]
    /\ url' = [p \in Procs |-> NoId]
    /\ child' = [p \in Procs |-> NoProc]
    /\ out' = [p \in Procs |-> NoId]
    /\ used' = [p \in Procs |-> 0]
    /\ outcome' = [r \in Requests |->
                      IF outcome[r] = "serving" THEN "closed" ELSE outcome[r]]
    /\ UNCHANGED <<tmp, services>>

(***************************************************************************)
(* The service rests: its first process has ended, or one of its processes *)
(* is accepting and no request waits.  Any other state without a step      *)
(* would be processes waiting for each other: TLC reports it as deadlock.  *)
(***************************************************************************)
Resting ==
    /\ \/ At(Root, "zombie")
       \/ /\ \E p \in Procs : At(p, "accept")
          /\ \A r \in Requests : outcome[r] # "queued"
    /\ UNCHANGED vars

Step(p) ==
    \/ Accept(p) \/ AcceptFails(p) \/ ReadBody(p) \/ GetBufFails(p)
    \/ ParseCrashes(p) \/ OpenTemp(p) \/ OpenTempFails(p) \/ WriteTemp(p)
    \/ FdfsPipe(p) \/ FdfsPipeFails(p) \/ FdfsFork(p) \/ FdfsForkFails(p)
    \/ FdfsExec(p) \/ FdfsToolStores(p) \/ FdfsToolFails(p)
    \/ FdfsWait(p) \/ UnlinkTemp(p)
    \/ UrlPipe(p) \/ UrlPipeFails(p) \/ UrlFork(p) \/ UrlForkFails(p)
    \/ UrlExec(p) \/ UrlToolPrints(p) \/ UrlToolFails(p)
    \/ UrlWait(p) \/ UrlWaitCrashes(p)
    \/ Connect(p) \/ ConnectFails(p)
    \/ LPush(p) \/ LPushLost(p) \/ ZIncr(p) \/ ZIncrLost(p)
    \/ End(p)

Next == (\E p \in Procs : Step(p)) \/ Restart \/ Resting

Spec == Init /\ [][Next]_vars

(***************************************************************************)
(* The kernel schedules every process, the tools end, and FastDFS and      *)
(* Redis answer or fail: no step of a process is put off for ever.         *)
(***************************************************************************)
FairSpec == Spec /\ \A p \in Procs : WF_vars(Step(p))
-----------------------------------------------------------------------------
(* Properties.                                                             *)

(* Every variable holds a value of its kind; no process has more           *)
(* descriptors than the limit.                                             *)
TypeOK ==
    /\ pc \in [Procs -> Locations]
    /\ req \in [Procs -> Requests \cup {NoReq}]
    /\ fid \in [Procs -> Ids]
    /\ url \in [Procs -> Ids]
    /\ child \in [Procs -> Procs \cup {NoProc}]
    /\ out \in [Procs -> Ids]
    /\ used \in [Procs -> 0 .. FdLimit]
    /\ tmp \in [Names -> C!Contents \cup {NoFile}]
    /\ stored \in [FileIds -> C!Contents \cup {NoFile}]
    /\ list \in Seq(C!Records)
    /\ hot \in [Ids -> Nat]
    /\ outcome \in [Requests -> {"queued", "serving", "closed"}]

(***************************************************************************)
(* A process that has a step to make, or has ended and lets its parent     *)
(* make one: it runs, or it waits and has no child to wait for.            *)
(***************************************************************************)
Active(p) ==
    \/ pc[p] \in Running \cup {"zombie"}
    \/ pc[p] \in Waiting /\ child[p] = NoProc

(* However many processes a failing exec leaves behind, at most one of     *)
(* them runs: the others wait, each for a child.  This is what keeps two   *)
(* workers from writing the same temporary file (wait(NULL) in fdfs_client *)
(* and get_url, usefull.c).                                                *)
OneRunning == \A p, q \in Procs : Active(p) /\ Active(q) => p = q

(* A record that names a file names one that FastDFS keeps, made from the  *)
(* body of the record's own request, whole unless the disk was full, the   *)
(* file has nine dashes in it or its upload broke off; its url is that     *)
(* file's or empty (upload.c 107-135: one buffer carries the id through    *)
(* four calls and is reused by the next request).                          *)
RecordContent ==
    \A k \in DOMAIN list :
        LET rec == list[k] IN
        /\ rec.id # NoId =>
              \/ stored[rec.id] = <<rec.req, TRUE>>
              \/ MayBeCut(rec.req) /\ stored[rec.id] = <<rec.req, FALSE>>
        /\ rec.url \in {rec.id, NoId}

(* Once a request is in the list no temporary file holds its content, even *)
(* when several requests share a file name (unlink, upload.c 123).         *)
TempGone ==
    \A k \in DOMAIN list, n \in Names :
        tmp[n] \notin C!ContentOf(list[k].req)

(* Readers of FastDFS and Redis see no more than Catalogue allows: files   *)
(* are stored once and never change, requests are listed at most once.     *)
ImplementsCatalogue == C!Spec

(* Unless Redis refuses commands, a member with a score is in the list,    *)
(* though any reply may be lost and any process end between the push and   *)
(* the point (write_redis, usefull.c 325-328; redis_op.c 800-806).         *)
ScoredIsListed ==
    Fault("redis_error") \/
    \A i \in Ids : hot[i] > 0 => \E k \in DOMAIN list : list[k].id = i

FullyRecorded(r) ==
    \E k \in DOMAIN list :
        list[k].req = r /\ list[k].id # NoId /\ list[k].url = list[k].id

Closed == {r \in Requests : outcome[r] = "closed"}

(***************************************************************************)
(* How many uploads a worker can serve in full: upload i, from 0, starts   *)
(* with 2i descriptors lost, and needs at the same time its connection and *)
(* either the pipe of get_url or what fdfs_file_info opens.                *)
(***************************************************************************)
FdsPerUpload == IF ToolFds > 1 THEN 3 + ToolFds ELSE 4

SafeUploads ==
    IF FdLimit < FdsPerUpload THEN 0 ELSE (FdLimit - FdsPerUpload) \div 2 + 1

(* When nothing fails, the first SafeUploads uploads end with a record     *)
(* that has both its file and its url: a worker loses exactly two          *)
(* descriptors per upload (pfd[0] in fdfs_client and get_url).             *)
FirstUploadsRecorded ==
    Faults = {} /\ Cardinality(Closed) <= SafeUploads =>
        \A r \in Closed : Form[r] = "good" => FullyRecorded(r)

(* A request the worker took is ended or its process is gone: no wait()    *)
(* lasts for ever with a request open, whichever calls fail.               *)
RequestsClose ==
    \A r \in Requests : outcome[r] = "serving" ~> outcome[r] = "closed"

(* When nothing fails every upload reaches the list with its file and its  *)
(* url, for as long as the worker's descriptors last.                      *)
UploadsRecorded ==
    \A r \in Requests :
        outcome[r] = "queued" /\ Form[r] = "good" ~>
            FullyRecorded(r) \/ Cardinality(Closed) > SafeUploads

(* A temporary file is removed only when FastDFS has its content: main     *)
(* goes to END, before the unlink, when fdfs_client reports an error       *)
(* (upload.c 115-123).                                                     *)
UnlinkAfterStore ==
    [][\A n \in Names : tmp[n] # NoFile /\ tmp'[n] = NoFile =>
          \E i \in FileIds : stored[i] = tmp[n]]_vars

(* redis_keys.h says what a value of FILE_INFO_LIST is: file_id, url, ...  *)
(* (redis_keys.h:19).  Every record names its file and its url.            *)
RecordHasFields ==
    \A k \in DOMAIN list : list[k].id # NoId /\ list[k].url # NoId
==============================================================================
