------------------------------ MODULE RedisOps ------------------------------
(***************************************************************************)
(* The Redis wrapper (redis_op.c): clients call its functions, each on a   *)
(* connection of its own, and one Redis serves them all.  A command is     *)
(* queued in order, executed as a whole, and answered in order.  Of a      *)
(* reply the wrapper looks at the type and at one value.                   *)
(***************************************************************************)
EXTENDS Integers, Sequences

CONSTANTS
    Clients,    \* the processes that use the wrapper
    Keys,       \* the keys of a data base
    Dbs,        \* the numbers SELECT accepts
    Password,   \* what Redis requires of a client
    Calls,      \* the calls each client may make: records [op, key, arg]
    MaxCalls,   \* bound: how many calls each client makes in a behaviour
    NoCall,     \* the client is in no call
    Crash,      \* in place of a value: the process did not survive the reply
    Faults      \* what may go wrong in a behaviour

FaultKinds == { "lost",       \* a connection breaks
                "connect",    \* redisConnect fails
                "append",     \* a command cannot be formatted or buffered
               "malloc" }    \* there is no memory for a command of many fields

Batches == {"rop_redis_append", "rop_hash_set_append",
            "rop_list_push_append", "rop_zset_increment_append"}

\* Those that only connect, and all that do.
Unprotected == {"rop_connectdb_nopwd", "rop_connectdb_timeout"}

Connects == Unprotected \cup {"rop_connectdb", "rop_connectdb_unix"}

Singles == {"rop_selectdatabase", "rop_flush_database", "rop_redis_command",
            "rop_hincrement_one_field", "rop_is_key_exist", "rop_del_key",
            "rop_set_key_lifecycle", "rop_show_keys", "rop_list_push",
            "rop_get_list_cnt", "rop_trim_list", "rop_range_list",
            "rop_zset_get_score", "rop_get_string", "rop_create_or_replace_hash_table",
            "rop_zset_increment", "rop_set_string"}

ASSUME RedisAssumption ==
    /\ \A c \in Clients : NoCall \notin Calls[c]
    /\ 0 \in Dbs
    /\ Crash \notin Int
    /\ MaxCalls \in [Clients -> Nat]
    /\ Faults \subseteq FaultKinds
    /\ \A c \in Clients : \A f \in Calls[c] : DOMAIN f = {"op", "key", "arg"}

VARIABLES
    db,         \* the data bases: the kind and the value of each key
    number,     \* Redis: the data base each connection selected
    known,      \* Redis: the connections that gave the password
    link,       \* each client's handle: "none", "open" or "broken"
    out,        \* commands sent on it that Redis has not executed
    in,         \* replies that the client has not read
    call,       \* the call it is in
    got,        \* the replies that call has read
    good,       \* how many commands of that call Redis did not refuse
    ret,        \* what the last call returned
    made        \* how many calls it has made

redis  == <<db, number, known>>
wire   == <<link, out, in>>
client == <<call, got, good, ret, made>>
vars   == <<redis, wire, client>>

Absent == [kind |-> "none", val |-> << >>]

Init ==
    /\ db = [n \in Dbs |-> [k \in Keys |-> Absent]]
    /\ number = [c \in Clients |-> 0]
    /\ known = {}
    /\ link = [c \in Clients |-> "none"]
    /\ out = [c \in Clients |-> << >>]
    /\ in = [c \in Clients |-> << >>]
    /\ call = [c \in Clients |-> NoCall]
    /\ got = [c \in Clients |-> 0]
    /\ good = [c \in Clients |-> 0]
    /\ ret = [c \in Clients |-> 0]
    /\ made = [c \in Clients |-> 0]

-----------------------------------------------------------------------------
(* Redis, as far as the wrapper tells its answers apart.                   *)

KindOf(cmd) ==
    CASE cmd.op \in {"LPUSH", "LLEN", "LTRIM", "LRANGE"} -> "list"
      [] cmd.op \in {"ZINCRBY", "ZSCORE"} -> "zset"
      [] cmd.op \in {"HSET", "HMSET", "HINCRBY"} -> "hash"
      [] cmd.op = "GET" -> "string"
      [] OTHER -> "any"

\* What the key of a command of client c holds.
At(c, cmd) == db[number[c]][cmd.key]

\* Redis answers with an error and does nothing.
Refused(c, cmd) ==
    \/ cmd.op = "AUTH" /\ cmd.arg # Password
    \/ cmd.op # "AUTH" /\ c \notin known
    \/ cmd.op = "SELECT" /\ cmd.arg[1] \notin Dbs
    \/ KindOf(cmd) # "any" /\ At(c, cmd).kind \notin {"none", KindOf(cmd)}

Entry(kind, val) == IF val = << >> THEN Absent ELSE [kind |-> kind, val |-> val]

Plus(f, m, n) == [x \in DOMAIN f \cup {m} |-> (IF x \in DOMAIN f THEN f[x] ELSE 0)
                                                + (IF x = m THEN n ELSE 0)]

\* A hash after fields were set: pairs of a field and its value, none twice.
Set(f, pairs) ==
    LET Fields == {pairs[i][1] : i \in DOMAIN pairs}
        New(x) == pairs[CHOOSE i \in DOMAIN pairs : pairs[i][1] = x][2]
    IN  [x \in DOMAIN f \cup Fields |-> IF x \in Fields THEN New(x) ELSE f[x]]

\* The elements from one position to another; negative ones count from the end.
Cut(s, from, to) ==
    LET Place(n) == IF n < 0 THEN Len(s) + n + 1 ELSE n + 1
    IN  SubSeq(s, IF Place(from) < 1 THEN 1 ELSE Place(from),
                  IF Place(to) > Len(s) THEN Len(s) ELSE Place(to))

\* The key after the command.  The time given to EXPIREAT has passed.
After(cmd, e) ==
    CASE cmd.op = "LPUSH"   -> Entry("list", <<cmd.arg>> \o e.val)
      [] cmd.op = "LTRIM"   -> Entry("list", Cut(e.val, cmd.arg[1], cmd.arg[2]))
      [] cmd.op = "ZINCRBY" -> Entry("zset", Plus(e.val, cmd.arg, 1))
      [] cmd.op = "HINCRBY" -> Entry("hash", Plus(e.val, cmd.arg[1], cmd.arg[2]))
      [] cmd.op \in {"HSET", "HMSET"} -> Entry("hash", Set(e.val, cmd.arg))
      [] cmd.op = "SET"     -> [kind |-> "string", val |-> cmd.arg]
      [] cmd.op \in {"DEL", "EXPIREAT"} -> Absent
      [] OTHER              -> e

Reply(type, val) == [type |-> type, val |-> val]

\* redisCommand returned NULL, redisGetReply an error.
NoReply == Reply("none", 0)

\* What a command that is not refused is answered with, e being its key before.
Answer(cmd, e) ==
    CASE cmd.op \in {"AUTH", "SELECT", "FLUSHDB", "HMSET", "SET", "LTRIM"} ->
             Reply("status", "OK")
      [] cmd.op \in {"EXISTS", "DEL", "EXPIREAT"} ->
             Reply("integer", IF e.kind = "none" THEN 0 ELSE 1)
      [] cmd.op = "LPUSH"   -> Reply("integer", Len(e.val) + 1)
      [] cmd.op = "LLEN"    -> Reply("integer", Len(e.val))
      [] cmd.op \in {"HSET", "HINCRBY"} -> Reply("integer", 1)
      [] cmd.op = "ZINCRBY" -> Reply("string", After(cmd, e).val[cmd.arg])
      [] cmd.op = "KEYS"    -> Reply("array", << >>)
      [] cmd.op = "LRANGE"  -> Reply("array", Cut(e.val, cmd.arg[1], cmd.arg[2]))
      [] cmd.op = "ZSCORE"  -> IF cmd.arg \in DOMAIN e.val
                               THEN Reply("string", e.val[cmd.arg]) ELSE Reply("nil", 0)
      [] cmd.op = "GET"     -> IF e.kind = "none" THEN Reply("nil", 0)
                               ELSE Reply("string", e.val)

-----------------------------------------------------------------------------
(***************************************************************************)
(* The functions of redis_op.c: what each sends, and what it makes of the  *)
(* reply.  Most of them look into the reply without asking whether there   *)
(* is one.                                                                 *)
(***************************************************************************)

Command(op, key, arg) == [op |-> op, key |-> key, arg |-> arg]

One(op, f) == <<Command(op, f.key, f.arg)>>

Each(op, f) == [i \in DOMAIN f.arg |-> Command(op, f.key, f.arg[i])]

Function(cmds, value) == [send |-> cmds, value |-> value]

\* NULL is a failure and whatever else comes is a success.
Answered(cmds, r) == Function(cmds, IF r.type = "none" THEN -1 ELSE 0)

\* The reply must be of a type; then it is worth value.
Typed(cmds, r, type, value) ==
    Function(cmds, IF r.type = "none" THEN Crash ELSE IF r.type # type THEN -1 ELSE value)

\* reply->str, which some replies do not have, is compared with "OK".
SaysOK(cmds, r, value) ==
    Function(cmds, IF r.type = "none" \/ r.type \in {"integer", "nil", "array"} THEN Crash
                   ELSE IF r.type = "status" THEN value ELSE -1)

RopSelectDatabase(f, r)     == Answered(One("SELECT", f), r)
RopFlushDatabase(f, r)      == Answered(One("FLUSHDB", f), r)
RopRedisCommand(f, r)       == Answered(<<f.arg>>, r)
RopHincrementOneField(f, r) == Answered(One("HINCRBY", f), r)

\* Commands go out together and the replies are counted, not looked at.
RopRedisAppend(f, r)         == Answered(f.arg, r)
RopHashSetAppend(f, r)       == Answered(Each("HSET", f), r)
RopListPushAppend(f, r)      == Answered(Each("LPUSH", f), r)
RopZsetIncrementAppend(f, r) == Answered(Each("ZINCRBY", f), r)

\* A connection with a password: the answer to AUTH is freed unread.
RopConnectdb(f, r)     == Answered(One("AUTH", f), r)
RopConnectdbUnix(f, r) == Answered(One("AUTH", f), r)

RopIsKeyExist(f, r) ==
    Typed(One("EXISTS", f), r, "integer", IF r.val = 1 THEN 1 ELSE 0)
RopDelKey(f, r) ==
    Typed(One("DEL", f), r, "integer", IF r.val > 0 THEN 0 ELSE -1)
RopSetKeyLifecycle(f, r) ==
    Typed(One("EXPIREAT", f), r, "integer", IF r.val = 1 THEN 0 ELSE -1)
\* It returns nothing, and prints the keys or that there is no array.
RopShowKeys(f, r) ==
    Function(One("KEYS", f), IF r.type = "none" THEN Crash ELSE 0)

\* A slip to be caught: the type of the reply is not looked at.
RopListPush_AnyReply(f, r) == Answered(One("LPUSH", f), r)

RopListPush(f, r)     == Typed(One("LPUSH", f), r, "integer", 0)
RopGetListCnt(f, r)   == Typed(One("LLEN", f), r, "integer", r.val)
RopTrimList(f, r)     == Typed(One("LTRIM", f), r, "status", 0)
RopRangeList(f, r)    == Typed(One("LRANGE", f), r, "array", 0)
RopZsetGetScore(f, r) == Typed(One("ZSCORE", f), r, "string", r.val)

\* A slip to be caught: reply->str is copied without asking whether there is one.
RopGetString_Unasked(f, r) ==
    Function(One("GET", f), IF r.type = "none" \/ r.type = "nil" THEN Crash ELSE 1)

RopGetString(f, r)    == Typed(One("GET", f), r, "string", 1)

\* make_hmset_command makes one command of all the fields.
MakeHmsetCommand(f)             == One("HMSET", f)
RopCreateOrReplaceHash(f, r)    == SaysOK(MakeHmsetCommand(f), r, 0)
\* ZINCRBY answers with the new score and never with "OK".
RopZsetIncrement(f, r)          == SaysOK(One("ZINCRBY", f), r, 0)
RopSetString(f, r)              == SaysOK(One("SET", f), r, 1)

\* What the call f sends, and what it returns after its last reply r.
Rop(f, r) ==
    CASE f.op = "rop_selectdatabase"        -> RopSelectDatabase(f, r)
      [] f.op = "rop_flush_database"        -> RopFlushDatabase(f, r)
      [] f.op = "rop_redis_command"         -> RopRedisCommand(f, r)
      [] f.op = "rop_hincrement_one_field"  -> RopHincrementOneField(f, r)
      [] f.op = "rop_redis_append"          -> RopRedisAppend(f, r)
      [] f.op = "rop_hash_set_append"       -> RopHashSetAppend(f, r)
      [] f.op = "rop_list_push_append"      -> RopListPushAppend(f, r)
      [] f.op = "rop_zset_increment_append" -> RopZsetIncrementAppend(f, r)
      [] f.op = "rop_connectdb"             -> RopConnectdb(f, r)
      [] f.op = "rop_connectdb_unix"        -> RopConnectdbUnix(f, r)
      [] f.op = "rop_is_key_exist"          -> RopIsKeyExist(f, r)
      [] f.op = "rop_del_key"               -> RopDelKey(f, r)
      [] f.op = "rop_set_key_lifecycle"     -> RopSetKeyLifecycle(f, r)
      [] f.op = "rop_show_keys"             -> RopShowKeys(f, r)
      [] f.op = "rop_list_push"             -> RopListPush(f, r)
      [] f.op = "rop_get_list_cnt"          -> RopGetListCnt(f, r)
      [] f.op = "rop_trim_list"             -> RopTrimList(f, r)
      [] f.op = "rop_range_list"            -> RopRangeList(f, r)
      [] f.op = "rop_zset_get_score"        -> RopZsetGetScore(f, r)
      [] f.op = "rop_get_string"            -> RopGetString(f, r)
      [] f.op = "rop_create_or_replace_hash_table" -> RopCreateOrReplaceHash(f, r)
      [] f.op = "rop_zset_increment"        -> RopZsetIncrement(f, r)
      [] f.op = "rop_set_string"            -> RopSetString(f, r)

Sends(f) == Rop(f, NoReply).send

IsSeq(s) == s \in Seq({s[i] : i \in DOMAIN s})

\* A command has a key of the data base; the ends of a range are integers.
Usable(cmd) ==
    /\ cmd.key \in Keys
    /\ cmd.op \in {"LTRIM", "LRANGE"} => cmd.arg[1] \in Int /\ cmd.arg[2] \in Int

\* The callers' part: they use the functions there are, and no batch is empty.
ASSUME CallsAssumption ==
    \A c \in Clients : \A f \in Calls[c] :
        /\ f.op \in Singles \cup Batches \cup Connects
        /\ f.op \notin Unprotected =>
              /\ IsSeq(Sends(f)) /\ Sends(f) # << >>
              /\ \A i \in DOMAIN Sends(f) : Usable(Sends(f)[i])

-----------------------------------------------------------------------------
(* The client's side of a connection.                                      *)

Begin(c, f) ==
    /\ call[c] = NoCall
    /\ ret[c] # Crash
    /\ f \in Calls[c]
    /\ made[c] < MaxCalls[c]
    /\ made' = [made EXCEPT ![c] = @ + 1]

\* Commands are sent on a connection that is sound; one that is broken keeps
\* them to itself.
Enter(c, f) ==
    /\ call' = [call EXCEPT ![c] = f]
    /\ got' = [got EXCEPT ![c] = 0]
    /\ good' = [good EXCEPT ![c] = 0]
    /\ out' = IF link'[c] = "open" THEN [out EXCEPT ![c] = @ \o Sends(f)] ELSE out
    /\ UNCHANGED <<in, ret>>

Leave(c, value) ==
    /\ call' = [call EXCEPT ![c] = NoCall]
    /\ ret' = [ret EXCEPT ![c] = value]

\* A new connection, to the first data base.  Whatever the one before had sent
\* is executed or dropped by now.
Opens(c) ==
    /\ link[c] = "none"
    /\ out[c] = << >>
    /\ link' = [link EXCEPT ![c] = "open"]
    /\ number' = [number EXCEPT ![c] = 0]
    /\ known' = known \ {c}
    /\ UNCHANGED db

\* rop_connectdb_nopwd and rop_connectdb_timeout return what redisConnect does.
RopConnectdbNopwd(c) ==
    /\ Opens(c)
    /\ \E f \in Calls[c] :
          /\ f.op \in Unprotected
          /\ Begin(c, f)
    /\ ret' = [ret EXCEPT ![c] = 0]
    /\ UNCHANGED <<out, in, call, got, good>>

\* The others go on with AUTH.
ConnectWithPassword(c) ==
    /\ Opens(c)
    /\ \E f \in Calls[c] :
          /\ f.op \in Connects \ Unprotected
          /\ Begin(c, f)
          /\ Enter(c, f)

\* conn is NULL, or holds an error and is freed: NULL is returned.
ConnectFails(c) ==
    /\ "connect" \in Faults
    /\ link[c] = "none"
    /\ \E f \in Calls[c] : f.op \in Connects /\ Begin(c, f)
    /\ ret' = [ret EXCEPT ![c] = -1]
    /\ UNCHANGED <<redis, wire, call, got, good>>

Call(c) ==
    /\ link[c] # "none"
    /\ \E f \in Calls[c] :
          /\ f.op \notin Connects
          /\ Begin(c, f)
          /\ UNCHANGED link
          /\ Enter(c, f)
    /\ UNCHANGED redis

\* What is returned when there is no reply.  A batch frees the reply before
\* once more, if there was one, and may not survive that.
WithoutReply(c, f) ==
    {Rop(f, NoReply).value} \cup (IF f.op \in Batches /\ got[c] > 0 THEN {Crash} ELSE {})

\* The handle of a failed AUTH is dropped without being freed.
LinkAfter(c, f) ==
    [link EXCEPT ![c] = IF f.op \in Connects THEN "none" ELSE "broken"]

\* A command cannot be formatted or buffered: hiredis marks the connection and
\* sends nothing on it any more, not even the commands before this one.
AppendFails(c) ==
    /\ "append" \in Faults
    /\ link[c] = "open"
    /\ \E f \in Calls[c] :
          /\ f.op \notin Connects
          /\ Begin(c, f)
          /\ ret' = [ret EXCEPT ![c] = Rop(f, NoReply).value]
    /\ link' = [link EXCEPT ![c] = "broken"]
    /\ UNCHANGED <<redis, out, in, call, got, good>>

\* make_hmset_command returns NULL, and nothing is sent or read.
MakeHmsetFails(c) ==
    /\ "malloc" \in Faults
    /\ link[c] # "none"
    /\ \E f \in Calls[c] : f.op = "rop_create_or_replace_hash_table" /\ Begin(c, f)
    /\ ret' = [ret EXCEPT ![c] = -1]
    /\ UNCHANGED <<redis, wire, call, got, good>>

\* A slip to be caught: a batch ends at the first reply that is an error.
TakeReply_StopsAtError(c) ==
    /\ call[c] # NoCall
    /\ in[c] # << >>
    /\ in' = [in EXCEPT ![c] = Tail(@)]
    /\ got' = [got EXCEPT ![c] = @ + 1]
    /\ IF got'[c] = Len(Sends(call[c])) \/ Head(in[c]).reply.type = "error"
       THEN Leave(c, Rop(call[c], Head(in[c]).reply).value)
       ELSE UNCHANGED <<call, ret>>
    /\ UNCHANGED <<redis, link, out, good, made>>

\* A slip to be caught: the loop asks for one reply more than it sent commands.
TakeReply_OneMore(c) ==
    /\ call[c] # NoCall
    /\ in[c] # << >>
    /\ in' = [in EXCEPT ![c] = Tail(@)]
    /\ got' = [got EXCEPT ![c] = @ + 1]
    /\ IF got'[c] > Len(Sends(call[c]))
       THEN Leave(c, Rop(call[c], Head(in[c]).reply).value)
       ELSE UNCHANGED <<call, ret>>
    /\ UNCHANGED <<redis, link, out, good, made>>

\* redisGetReply: the replies come in order and the call returns at the last.
TakeReply(c) ==
    /\ call[c] # NoCall
    /\ in[c] # << >>
    /\ in' = [in EXCEPT ![c] = Tail(@)]
    /\ got' = [got EXCEPT ![c] = @ + 1]
    /\ IF got'[c] = Len(Sends(call[c]))
       THEN Leave(c, Rop(call[c], Head(in[c]).reply).value)
       ELSE UNCHANGED <<call, ret>>
    /\ UNCHANGED <<redis, link, out, good, made>>

GetReplyFails(c) ==
    /\ call[c] # NoCall
    /\ link[c] = "broken"
    /\ in[c] = << >>
    /\ \E value \in WithoutReply(c, call[c]) : Leave(c, value)
    /\ link' = LinkAfter(c, call[c])
    /\ UNCHANGED <<redis, out, in, got, good, made>>

RopDisconnect(c) ==
    /\ call[c] = NoCall
    /\ ret[c] # Crash
    /\ link[c] # "none"
    /\ link' = [link EXCEPT ![c] = "none"]
    /\ UNCHANGED <<redis, out, in, client>>

-----------------------------------------------------------------------------
(* The other side.                                                         *)

\* Redis executes the next command of a connection and answers it.
Serve(c) ==
    /\ out[c] # << >>
    /\ LET cmd  == Head(out[c])
           done == ~ Refused(c, cmd)
           keys == db[number[c]]
       IN  /\ db' = IF ~ done THEN db
                    ELSE [db EXCEPT ![number[c]] =
                             IF cmd.op = "FLUSHDB" THEN [k \in Keys |-> Absent]
                             ELSE [keys EXCEPT ![cmd.key] = After(cmd, keys[cmd.key])]]
           /\ number' = IF done /\ cmd.op = "SELECT"
                        THEN [number EXCEPT ![c] = cmd.arg[1]] ELSE number
           /\ known' = IF done /\ cmd.op = "AUTH" THEN known \cup {c} ELSE known
           /\ IF link[c] = "open"
              THEN /\ in' = [in EXCEPT ![c] = Append(@, [cmd |-> cmd,
                                reply |-> IF done THEN Answer(cmd, keys[cmd.key])
                                          ELSE Reply("error", 0)])]
                   /\ good' = [good EXCEPT ![c] = IF done THEN @ + 1 ELSE @]
              ELSE UNCHANGED <<in, good>>
    /\ out' = [out EXCEPT ![c] = Tail(@)]
    /\ UNCHANGED <<link, call, got, ret, made>>

\* The connection breaks; replies that did not arrive are gone.
Break(c) ==
    /\ "lost" \in Faults
    /\ link[c] = "open"
    /\ link' = [link EXCEPT ![c] = "broken"]
    /\ \E n \in 0 .. Len(in[c]) : in' = [in EXCEPT ![c] = SubSeq(@, 1, n)]
    /\ UNCHANGED <<redis, out, client>>

\* Commands that Redis did not get are gone too.
Drop(c) ==
    /\ link[c] # "open"
    /\ out[c] # << >>
    /\ out' = [out EXCEPT ![c] = << >>]
    /\ UNCHANGED <<redis, link, in, client>>

\* No client has a call left, or it is gone.
Resting ==
    /\ \A c \in Clients : /\ call[c] = NoCall
                          /\ out[c] = << >>
                          /\ made[c] = MaxCalls[c] \/ ret[c] = Crash
    /\ UNCHANGED vars

Client(c) ==
    \/ RopConnectdbNopwd(c) \/ ConnectWithPassword(c) \/ ConnectFails(c)
    \/ Call(c) \/ AppendFails(c) \/ MakeHmsetFails(c)
    \/ TakeReply(c) \/ GetReplyFails(c) \/ RopDisconnect(c)

Next == (\E c \in Clients : Client(c) \/ Serve(c) \/ Break(c) \/ Drop(c)) \/ Resting

Spec == Init /\ [][Next]_vars

(***************************************************************************)
(* A client reads what has come for it, and Redis serves every connection. *)
(***************************************************************************)
FairSpec ==
    /\ Spec
    /\ \A c \in Clients : /\ WF_out(Serve(c))
                          /\ WF_<<in, call>>(TakeReply(c) \/ GetReplyFails(c))
-----------------------------------------------------------------------------
(* Properties.                                                             *)

(* Every variable holds a value of its kind; a call has read fewer replies *)
(* than it sent commands, and Redis has answered no more.                  *)
TypeOK ==
    /\ \A n \in Dbs, k \in Keys :
          db[n][k].kind \in {"none", "list", "zset", "hash", "string"}
    /\ number \in [Clients -> Dbs]
    /\ known \subseteq Clients
    /\ link \in [Clients -> {"none", "open", "broken"}]
    /\ \A c \in Clients :
          /\ call[c] \in Calls[c] \cup {NoCall}
          /\ ret[c] \in Int \/ ret[c] = Crash
          /\ call[c] # NoCall => /\ got[c] < Len(Sends(call[c]))
                                 /\ good[c] <= Len(Sends(call[c]))
          /\ made[c] <= MaxCalls[c]

(* Replies and calls stay in step: on a sound connection a client that is  *)
(* in no call has nothing under way, and one that is in a call has under   *)
(* way exactly the rest of that call, the replies first.  No function ever *)
(* judges the reply to another one's command, whatever failed before       *)
(* (the two loops of the batches, redis_op.c 242-268 and its like).        *)
RepliesInStep ==
    \A c \in Clients : link[c] = "open" =>
        [i \in DOMAIN in[c] |-> in[c][i].cmd] \o out[c] =
            IF call[c] = NoCall THEN << >>
            ELSE SubSeq(Sends(call[c]), got[c] + 1, Len(Sends(call[c])))

Exact == { "rop_is_key_exist", "rop_list_push", "rop_get_list_cnt", "rop_trim_list",
           "rop_range_list", "rop_create_or_replace_hash_table", "rop_set_string" }

(* A function that looks at the type of its reply, or for "OK", returns -1 *)
(* exactly when Redis refused the command: neither another client's key of *)
(* another kind, nor a missing password, nor a broken connection makes it  *)
(* claim what was not done, or deny what was.                              *)
ReturnIsExact ==
    [][\A c \in Clients :
          /\ call[c] # NoCall /\ call'[c] = NoCall
          /\ call[c].op \in Exact
          /\ ret'[c] # Crash
          => (ret'[c] = -1 <=> good[c] = 0)]_vars

(* Only a connection that fails takes a client down: an answer Redis gives *)
(* never does, be it an error, nothing or another type than expected.      *)
CrashHasCause ==
    \A c \in Clients : ret[c] = Crash => link[c] = "broken"

(* A call returns or takes the process down, though nothing limits how     *)
(* long a function waits for a reply.                                      *)
CallsReturn ==
    \A c \in Clients : call[c] # NoCall ~> call[c] = NoCall

(* A batch returns "0 succ, -1 FAIL" (redis_op.c 231-233, 611-613, 743-745, *)
(* 961-963).  When it returns 0 to a client that gave the password, Redis   *)
(* has done all of it.                                                     *)
BatchTellsSuccess ==
    [][\A c \in Clients :
          /\ call[c] # NoCall /\ call'[c] = NoCall
          /\ call[c].op \in Batches
          /\ c \in known
          /\ ret'[c] = 0
          => good[c] = Len(Sends(call[c]))]_vars
==============================================================================
