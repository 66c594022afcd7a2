--------------------------- MODULE RedisOpsProofs ---------------------------
(***************************************************************************)
(* What holds of the Redis wrapper for every number of clients, data bases *)
(* and keys, whatever calls the clients make and whatever fails.           *)
(*                                                                         *)
(* The inductive invariant has a part about Redis (what a key holds fits   *)
(* its kind) and one about each client: the replies it has not read and    *)
(* the commands Redis has not executed are, in this order, the rest of     *)
(* what its call sends.  A step of one client leaves the part of another   *)
(* as it was, so each kind of step is a lemma about the values of one.     *)
(***************************************************************************)
EXTENDS RedisOps, TLAPS

-----------------------------------------------------------------------------
(* The inductive invariant.                                                *)

EntryOK(e) ==
    /\ e.kind \in {"none", "list", "zset", "hash", "string"}
    /\ e.kind = "none" => e.val = << >>
    /\ e.kind = "list" => IsSeq(e.val)
    /\ e.kind = "zset" => \A x \in DOMAIN e.val : e.val[x] \in Int

DbOK ==
    /\ DOMAIN db = Dbs
    /\ \A n \in Dbs : DOMAIN db[n] = Keys /\ \A k \in Keys : EntryOK(db[n][k])

\* A reply fits its command.
TypesFor(op) ==
    IF op \in {"HMSET", "SET", "LTRIM"} THEN {"status", "error"}
    ELSE IF op = "ZINCRBY" THEN {"string", "error"}
    ELSE IF op \in {"EXISTS", "LPUSH", "LLEN"} THEN {"integer", "error"}
    ELSE IF op \in {"KEYS", "LRANGE"} THEN {"array", "error"}
    ELSE {"status", "integer", "string", "nil", "array", "error"}

Known == {"AUTH", "SELECT", "FLUSHDB", "EXISTS", "DEL", "EXPIREAT", "KEYS", "LPUSH",
          "LLEN", "LTRIM", "LRANGE", "ZINCRBY", "ZSCORE", "HSET", "HMSET", "HINCRBY",
          "GET", "SET"}

ReplyOK(cmd, r) ==
    /\ cmd.op \in Known => r.type \in TypesFor(cmd.op)
    /\ cmd.op = "LLEN" /\ r.type = "integer" => r.val \in Nat
    /\ cmd.op = "ZSCORE" /\ r.type = "string" => r.val \in Int

\* The line of a client: its handle l, the commands o and the replies i on it.
LineOK(l, o, i) ==
    /\ l \in {"none", "open", "broken"}
    /\ IsSeq(o) /\ \A k \in DOMAIN o : Usable(o[k])
    /\ IsSeq(i) /\ \A k \in DOMAIN i : ReplyOK(i[k].cmd, i[k].reply)

\* What is under way is the rest of what call f sends, g replies being read.
InStep(f, l, o, i, g) ==
    /\ g \in Nat /\ g < Len(Sends(f)) /\ g + Len(i) <= Len(Sends(f))
    /\ \A k \in 1 .. Len(i) : i[k].cmd = Sends(f)[g + k]
    /\ l = "open" =>
          /\ g + Len(i) + Len(o) = Len(Sends(f))
          /\ \A k \in 1 .. Len(o) : o[k] = Sends(f)[g + Len(i) + k]

\* d of the commands of call f were not refused.
Counted(f, l, i, g, d) ==
    /\ d \in Nat /\ d <= Len(Sends(f))
    /\ l = "open" => d <= g + Len(i)
    /\ f.op \in Exact /\ i # << >> => (d = 0 <=> i[1].reply.type = "error")

ClientOK(c, l, o, i, f, g, d, r) ==
    /\ LineOK(l, o, i)
    /\ r \in Int \cup {Crash}
    /\ r = Crash => l = "broken" /\ f = NoCall
    /\ f = NoCall => i = << >> /\ (l = "open" => o = << >>)
    /\ f # NoCall =>
          /\ f \in Calls[c] /\ f.op \notin Unprotected /\ l # "none"
          /\ InStep(f, l, o, i, g)
          /\ Counted(f, l, i, g, d)

ClientsOK ==
    \A c \in Clients :
        ClientOK(c, link[c], out[c], in[c], call[c], got[c], good[c], ret[c])

Shape ==
    /\ link \in [Clients -> {"none", "open", "broken"}]
    /\ DOMAIN out = Clients /\ DOMAIN in = Clients /\ DOMAIN call = Clients
    /\ DOMAIN got = Clients /\ DOMAIN good = Clients /\ DOMAIN ret = Clients
    /\ made \in [Clients -> Nat] /\ \A c \in Clients : made[c] <= MaxCalls[c]
    /\ number \in [Clients -> Dbs] /\ known \subseteq Clients

Inv == DbOK /\ Shape /\ ClientsOK

-----------------------------------------------------------------------------
(* Sequences of commands and replies.                                      *)

LEMMA SeqIs == ASSUME NEW S, NEW s \in Seq(S) PROVE IsSeq(s)
<1>1. s \in [1 .. Len(s) -> {s[i] : i \in DOMAIN s}] /\ Len(s) \in Nat
  OBVIOUS
<1> QED BY <1>1 DEF IsSeq

LEMMA Lengths ==
    ASSUME NEW s, IsSeq(s)
    PROVE  Len(s) \in Nat /\ DOMAIN s = 1 .. Len(s) /\ (Len(s) = 0 <=> s = << >>)
BY DEF IsSeq

LEMMA EmptyIs == IsSeq(<< >>) /\ Len(<< >>) = 0
<1>1. << >> \in Seq({})
  OBVIOUS
<1> QED BY <1>1, SeqIs

LEMMA TailIs ==
    ASSUME NEW s, IsSeq(s), s # << >>
    PROVE  /\ IsSeq(Tail(s)) /\ Len(Tail(s)) = Len(s) - 1 /\ Head(s) = s[1]
           /\ \A k \in 1 .. Len(Tail(s)) : Tail(s)[k] = s[k + 1]
<1> DEFINE S == {s[i] : i \in DOMAIN s}
<1>1. s \in Seq(S)
  BY DEF IsSeq
<1> HIDE DEF S
<1>2. Tail(s) \in Seq(S) /\ Len(Tail(s)) = Len(s) - 1 /\ Head(s) = s[1]
      /\ \A k \in 1 .. Len(Tail(s)) : Tail(s)[k] = s[k + 1]
  BY <1>1
<1> QED BY <1>2, SeqIs

LEMMA AppendIs ==
    ASSUME NEW s, IsSeq(s), NEW x
    PROVE  /\ IsSeq(Append(s, x)) /\ Len(Append(s, x)) = Len(s) + 1
           /\ Append(s, x)[Len(s) + 1] = x
           /\ \A k \in 1 .. Len(s) : Append(s, x)[k] = s[k]
<1> DEFINE S == {s[i] : i \in DOMAIN s} \cup {x}
<1>1. s \in Seq(S) /\ x \in S
  BY DEF IsSeq
<1> HIDE DEF S
<1>2. Append(s, x) \in Seq(S) /\ Len(Append(s, x)) = Len(s) + 1
      /\ Append(s, x)[Len(s) + 1] = x
      /\ \A k \in 1 .. Len(s) : Append(s, x)[k] = s[k]
  BY <1>1
<1> QED BY <1>2, SeqIs

LEMMA ConcatIs ==
    ASSUME NEW s, IsSeq(s), NEW t, IsSeq(t)
    PROVE  /\ IsSeq(s \o t) /\ Len(s \o t) = Len(s) + Len(t)
           /\ \A k \in 1 .. Len(s) + Len(t) :
                 (s \o t)[k] = IF k <= Len(s) THEN s[k] ELSE t[k - Len(s)]
<1> DEFINE S == {s[i] : i \in DOMAIN s} \cup {t[i] : i \in DOMAIN t}
<1>1. s \in Seq(S) /\ t \in Seq(S)
  BY DEF IsSeq
<1> HIDE DEF S
<1>2. s \o t \in Seq(S) /\ Len(s \o t) = Len(s) + Len(t)
      /\ \A k \in 1 .. Len(s) + Len(t) :
            (s \o t)[k] = IF k <= Len(s) THEN s[k] ELSE t[k - Len(s)]
  BY <1>1
<1> QED BY <1>2, SeqIs

\* From a first place on to a last one that is there.
LEMMA PartIs ==
    ASSUME NEW s, IsSeq(s), NEW m \in Nat \ {0}, NEW n \in Int, n <= Len(s)
    PROVE  /\ IsSeq(SubSeq(s, m, n)) /\ DOMAIN SubSeq(s, m, n) = 1 .. Len(SubSeq(s, m, n))
           /\ Len(SubSeq(s, m, n)) = IF m <= n THEN n - m + 1 ELSE 0
           /\ \A k \in 1 .. Len(SubSeq(s, m, n)) : SubSeq(s, m, n)[k] = s[m + k - 1]
<1> DEFINE S == {s[i] : i \in DOMAIN s}
<1>1. s \in Seq(S)
  BY DEF IsSeq
<1> HIDE DEF S
<1>2. SubSeq(s, m, n) \in Seq(S)
      /\ Len(SubSeq(s, m, n)) = (IF m <= n THEN n - m + 1 ELSE 0)
      /\ \A k \in 1 .. Len(SubSeq(s, m, n)) : SubSeq(s, m, n)[k] = s[m + k - 1]
  BY <1>1
<1>3. DOMAIN SubSeq(s, m, n) = 1 .. Len(SubSeq(s, m, n))
  BY <1>2
<1>4. IsSeq(SubSeq(s, m, n))
  BY <1>2, SeqIs
<1> QED BY <1>2, <1>3, <1>4

-----------------------------------------------------------------------------
(* Redis.                                                                  *)

LEMMA CutIs ==
    ASSUME NEW s, IsSeq(s), NEW a \in Int, NEW b \in Int
    PROVE  IsSeq(Cut(s, a, b)) /\ Len(Cut(s, a, b)) \in Nat
<1>1. Len(s) \in Nat
  BY Lengths
<1>2. \A n \in Int : (IF n < 0 THEN Len(s) + n + 1 ELSE n + 1) \in Int
  BY <1>1
<1>3. PICK m \in Nat \ {0}, n \in Int : n <= Len(s) /\ Cut(s, a, b) = SubSeq(s, m, n)
  <2> DEFINE x == IF a < 0 THEN Len(s) + a + 1 ELSE a + 1
             y == IF b < 0 THEN Len(s) + b + 1 ELSE b + 1
             m == IF x < 1 THEN 1 ELSE x
             n == IF y > Len(s) THEN Len(s) ELSE y
  <2>1. x \in Int /\ y \in Int
    BY <1>2
  <2>2. Cut(s, a, b) = SubSeq(s, m, n)
    BY DEF Cut
  <2> HIDE DEF x, y
  <2>3. m \in Nat \ {0} /\ n \in Int /\ n <= Len(s)
    BY <1>1, <2>1
  <2> QED BY <2>2, <2>3
<1>4. IsSeq(SubSeq(s, m, n))
  BY <1>3, PartIs
<1> QED BY <1>3, <1>4, Lengths

\* What a key may hold when a command on it is not refused.
Serves(cmd, e) == KindOf(cmd) = "any" \/ e.kind \in {"none", KindOf(cmd)}

LEMMA AfterOK ==
    ASSUME NEW cmd, Usable(cmd), NEW e, EntryOK(e), Serves(cmd, e)
    PROVE  EntryOK(After(cmd, e))
<1>1. EntryOK(Absent)
  BY DEF EntryOK, Absent
<1>2. CASE cmd.op \in {"LPUSH", "LTRIM"}
  <2>1. KindOf(cmd) = "list"
    BY <1>2 DEF KindOf
  <2>2. IsSeq(e.val)
    BY <2>1, EmptyIs DEF Serves, EntryOK
  <2>3. IsSeq(<<cmd.arg>>)
    <3>1. <<cmd.arg>> \in Seq({cmd.arg})
      OBVIOUS
    <3> QED BY <3>1, SeqIs
  <2>4. CASE cmd.op = "LPUSH"
    <3>1. IsSeq(<<cmd.arg>> \o e.val)
      BY <2>2, <2>3, ConcatIs
    <3>2. After(cmd, e) = Entry("list", <<cmd.arg>> \o e.val)
      BY <2>4 DEF After
    <3> QED BY <1>1, <3>1, <3>2 DEF Entry, EntryOK
  <2>5. CASE cmd.op = "LTRIM"
    <3>1. IsSeq(Cut(e.val, cmd.arg[1], cmd.arg[2]))
      BY <2>2, <2>5, CutIs DEF Usable
    <3>2. After(cmd, e) = Entry("list", Cut(e.val, cmd.arg[1], cmd.arg[2]))
      BY <2>5 DEF After
    <3> QED BY <1>1, <3>1, <3>2 DEF Entry, EntryOK
  <2> QED BY <1>2, <2>4, <2>5
<1>3. CASE cmd.op = "ZINCRBY"
  <2>1. After(cmd, e) = Entry("zset", Plus(e.val, cmd.arg, 1))
    BY <1>3 DEF After
  <2>2. KindOf(cmd) = "zset"
    BY <1>3 DEF KindOf
  <2>3. \A x \in DOMAIN e.val : e.val[x] \in Int
    BY <2>2 DEF Serves, EntryOK
  <2>4. \A x \in DOMAIN Plus(e.val, cmd.arg, 1) : Plus(e.val, cmd.arg, 1)[x] \in Int
    BY <2>3 DEF Plus
  <2> QED BY <1>1, <2>1, <2>4 DEF Entry, EntryOK
<1>4. CASE cmd.op = "HINCRBY"
  <2>1. After(cmd, e) = Entry("hash", Plus(e.val, cmd.arg[1], cmd.arg[2]))
    BY <1>4 DEF After
  <2> QED BY <1>1, <2>1 DEF Entry, EntryOK
<1>5. CASE cmd.op \in {"HSET", "HMSET"}
  <2>1. After(cmd, e) = Entry("hash", Set(e.val, cmd.arg))
    BY <1>5 DEF After
  <2> QED BY <1>1, <2>1 DEF Entry, EntryOK
<1>6. CASE cmd.op \notin {"LPUSH", "LTRIM", "ZINCRBY", "HINCRBY", "HSET", "HMSET"}
  <2>1. \/ After(cmd, e) = [kind |-> "string", val |-> cmd.arg]
        \/ After(cmd, e) = Absent \/ After(cmd, e) = e
    BY <1>6 DEF After
  <2> QED BY <1>1, <2>1 DEF EntryOK
<1> QED BY <1>2, <1>3, <1>4, <1>5, <1>6

LEMMA AnswerOK ==
    ASSUME NEW cmd, Usable(cmd), NEW e, EntryOK(e), Serves(cmd, e)
    PROVE  /\ ReplyOK(cmd, Answer(cmd, e))
           /\ cmd.op \in Known => Answer(cmd, e).type # "error"
<1>1. cmd.op \in Known => Answer(cmd, e).type \in TypesFor(cmd.op) \ {"error"}
  BY DEF Answer, Reply, TypesFor, Known
<1>2. CASE cmd.op = "LLEN"
  <2>1. KindOf(cmd) = "list" /\ Answer(cmd, e) = Reply("integer", Len(e.val))
    BY <1>2 DEF KindOf, Answer
  <2>2. IsSeq(e.val)
    BY <2>1, EmptyIs DEF Serves, EntryOK
  <2>3. Len(e.val) \in Nat
    BY <2>2, Lengths
  <2> QED BY <1>1, <1>2, <2>1, <2>3 DEF Reply, ReplyOK
<1>3. CASE cmd.op = "ZSCORE"
  <2>1. KindOf(cmd) = "zset"
        /\ Answer(cmd, e) = (IF cmd.arg \in DOMAIN e.val
                             THEN Reply("string", e.val[cmd.arg]) ELSE Reply("nil", 0))
    BY <1>3 DEF KindOf, Answer
  <2>2. \A x \in DOMAIN e.val : e.val[x] \in Int
    BY <2>1 DEF Serves, EntryOK
  <2> QED BY <1>1, <1>3, <2>1, <2>2 DEF Reply, ReplyOK
<1> QED BY <1>1, <1>2, <1>3 DEF ReplyOK

LEMMA ErrorOK == ASSUME NEW cmd PROVE ReplyOK(cmd, Reply("error", 0))
BY DEF ReplyOK, Reply, TypesFor

-----------------------------------------------------------------------------
(* The functions.                                                          *)

\* Every function but the batches sends one command.
LEMMA OneCommand ==
    ASSUME NEW f, f.op \in Singles \cup Connects, f.op \notin Unprotected
    PROVE  Len(Sends(f)) = 1
<1>1. CASE f.op = "rop_redis_command"
  BY <1>1 DEF Sends, Rop, RopRedisCommand, Answered, Function
<1>2. CASE f.op \in Connects
  BY <1>2 DEF Sends, Rop, RopConnectdb, RopConnectdbUnix, Answered, Function, One, Connects,
     Unprotected
<1>3. CASE f.op \in {"rop_selectdatabase", "rop_flush_database", "rop_hincrement_one_field"}
  BY <1>3 DEF Sends, Rop, RopSelectDatabase, RopFlushDatabase, RopHincrementOneField,
     Answered, Function, One
<1>4. CASE f.op \in {"rop_is_key_exist", "rop_del_key", "rop_set_key_lifecycle",
                     "rop_show_keys", "rop_list_push", "rop_get_list_cnt", "rop_trim_list",
                     "rop_range_list", "rop_zset_get_score", "rop_get_string"}
  BY <1>4 DEF Sends, Rop, RopIsKeyExist, RopDelKey, RopSetKeyLifecycle, RopShowKeys,
     RopListPush, RopGetListCnt, RopTrimList, RopRangeList, RopZsetGetScore, RopGetString,
     Typed, Function, One
<1>5. CASE f.op \in {"rop_create_or_replace_hash_table", "rop_zset_increment",
                     "rop_set_string"}
  BY <1>5 DEF Sends, Rop, RopCreateOrReplaceHash, RopZsetIncrement, RopSetString,
     MakeHmsetCommand, SaysOK, Function, One
<1> QED BY <1>1, <1>2, <1>3, <1>4, <1>5 DEF Singles

\* The functions that look at no more than whether there is a reply.
Plain == Batches \cup {"rop_connectdb", "rop_connectdb_unix", "rop_redis_command",
                       "rop_selectdatabase", "rop_flush_database", "rop_hincrement_one_field"}

LEMMA PlainValue ==
    ASSUME NEW f, f.op \in Plain, NEW r
    PROVE  Rop(f, r).value = IF r.type = "none" THEN -1 ELSE 0
BY DEF Plain, Batches, Rop, RopRedisAppend, RopHashSetAppend, RopListPushAppend,
   RopZsetIncrementAppend, RopConnectdb, RopConnectdbUnix, RopRedisCommand,
   RopSelectDatabase, RopFlushDatabase, RopHincrementOneField, Answered, Function

\* The others send a command that Redis knows and return an integer for every
\* reply that fits it; those in Exact return -1 for an error only.
LEMMA JudgedValue ==
    ASSUME NEW f, f.op \in Singles \ Plain, NEW r, ReplyOK(Sends(f)[1], r)
    PROVE  /\ Rop(f, r).value \in Int /\ Sends(f)[1].op \in Known
           /\ f.op \in Exact => (Rop(f, r).value = -1 <=> r.type = "error")
<1>1. CASE f.op = "rop_is_key_exist"
  <2>1. /\ Sends(f)[1].op = "EXISTS"
        /\ Rop(f, r).value = IF r.type = "none" THEN Crash
                             ELSE IF r.type # "integer" THEN -1 ELSE IF r.val = 1 THEN 1 ELSE 0
    BY <1>1 DEF Sends, Rop, RopIsKeyExist, Typed, Function, One, Command
  <2> QED BY <1>1, <2>1 DEF ReplyOK, TypesFor, Known, Exact
<1>2. CASE f.op = "rop_del_key"
  <2>1. /\ Sends(f)[1].op = "DEL"
        /\ Rop(f, r).value = IF r.type = "none" THEN Crash
                             ELSE IF r.type # "integer" THEN -1 ELSE IF r.val > 0 THEN 0 ELSE -1
    BY <1>2 DEF Sends, Rop, RopDelKey, Typed, Function, One, Command
  <2> QED BY <1>2, <2>1 DEF ReplyOK, TypesFor, Known, Exact
<1>3. CASE f.op = "rop_set_key_lifecycle"
  <2>1. /\ Sends(f)[1].op = "EXPIREAT"
        /\ Rop(f, r).value = IF r.type = "none" THEN Crash
                             ELSE IF r.type # "integer" THEN -1 ELSE IF r.val = 1 THEN 0 ELSE -1
    BY <1>3 DEF Sends, Rop, RopSetKeyLifecycle, Typed, Function, One, Command
  <2> QED BY <1>3, <2>1 DEF ReplyOK, TypesFor, Known, Exact
<1>4. CASE f.op = "rop_show_keys"
  <2>1. /\ Sends(f)[1].op = "KEYS"
        /\ Rop(f, r).value = IF r.type = "none" THEN Crash ELSE 0
    BY <1>4 DEF Sends, Rop, RopShowKeys, Function, One, Command
  <2> QED BY <1>4, <2>1 DEF ReplyOK, TypesFor, Known, Exact
<1>5. CASE f.op = "rop_list_push"
  <2>1. /\ Sends(f)[1].op = "LPUSH"
        /\ Rop(f, r).value = IF r.type = "none" THEN Crash
                             ELSE IF r.type # "integer" THEN -1 ELSE 0
    BY <1>5 DEF Sends, Rop, RopListPush, Typed, Function, One, Command
  <2> QED BY <1>5, <2>1 DEF ReplyOK, TypesFor, Known, Exact
<1>6. CASE f.op = "rop_get_list_cnt"
  <2>1. /\ Sends(f)[1].op = "LLEN"
        /\ Rop(f, r).value = IF r.type = "none" THEN Crash
                             ELSE IF r.type # "integer" THEN -1 ELSE r.val
    BY <1>6 DEF Sends, Rop, RopGetListCnt, Typed, Function, One, Command
  <2> QED BY <1>6, <2>1 DEF ReplyOK, TypesFor, Known, Exact
<1>7. CASE f.op = "rop_trim_list"
  <2>1. /\ Sends(f)[1].op = "LTRIM"
        /\ Rop(f, r).value = IF r.type = "none" THEN Crash
                             ELSE IF r.type # "status" THEN -1 ELSE 0
    BY <1>7 DEF Sends, Rop, RopTrimList, Typed, Function, One, Command
  <2> QED BY <1>7, <2>1 DEF ReplyOK, TypesFor, Known, Exact
<1>8. CASE f.op = "rop_range_list"
  <2>1. /\ Sends(f)[1].op = "LRANGE"
        /\ Rop(f, r).value = IF r.type = "none" THEN Crash
                             ELSE IF r.type # "array" THEN -1 ELSE 0
    BY <1>8 DEF Sends, Rop, RopRangeList, Typed, Function, One, Command
  <2> QED BY <1>8, <2>1 DEF ReplyOK, TypesFor, Known, Exact
<1>9. CASE f.op = "rop_zset_get_score"
  <2>1. /\ Sends(f)[1].op = "ZSCORE"
        /\ Rop(f, r).value = IF r.type = "none" THEN Crash
                             ELSE IF r.type # "string" THEN -1 ELSE r.val
    BY <1>9 DEF Sends, Rop, RopZsetGetScore, Typed, Function, One, Command
  <2> QED BY <1>9, <2>1 DEF ReplyOK, TypesFor, Known, Exact
<1>10. CASE f.op = "rop_get_string"
  <2>1. /\ Sends(f)[1].op = "GET"
        /\ Rop(f, r).value = IF r.type = "none" THEN Crash
                             ELSE IF r.type # "string" THEN -1 ELSE 1
    BY <1>10 DEF Sends, Rop, RopGetString, Typed, Function, One, Command
  <2> QED BY <1>10, <2>1 DEF ReplyOK, TypesFor, Known, Exact
<1>11. CASE f.op = "rop_create_or_replace_hash_table"
  <2>1. /\ Sends(f)[1].op = "HMSET"
        /\ Rop(f, r).value = IF r.type = "none" \/ r.type \in {"integer", "nil", "array"}
                             THEN Crash ELSE IF r.type = "status" THEN 0 ELSE -1
    BY <1>11 DEF Sends, Rop, RopCreateOrReplaceHash, MakeHmsetCommand, SaysOK, Function, One, Command
  <2> QED BY <1>11, <2>1 DEF ReplyOK, TypesFor, Known, Exact
<1>12. CASE f.op = "rop_zset_increment"
  <2>1. /\ Sends(f)[1].op = "ZINCRBY"
        /\ Rop(f, r).value = IF r.type = "none" \/ r.type \in {"integer", "nil", "array"}
                             THEN Crash ELSE IF r.type = "status" THEN 0 ELSE -1
    BY <1>12 DEF Sends, Rop, RopZsetIncrement, SaysOK, Function, One, Command
  <2> QED BY <1>12, <2>1 DEF ReplyOK, TypesFor, Known, Exact
<1>13. CASE f.op = "rop_set_string"
  <2>1. /\ Sends(f)[1].op = "SET"
        /\ Rop(f, r).value = IF r.type = "none" \/ r.type \in {"integer", "nil", "array"}
                             THEN Crash ELSE IF r.type = "status" THEN 1 ELSE -1
    BY <1>13 DEF Sends, Rop, RopSetString, SaysOK, Function, One, Command
  <2> QED BY <1>13, <2>1 DEF ReplyOK, TypesFor, Known, Exact
<1> QED BY <1>1, <1>2, <1>3, <1>4, <1>5, <1>6, <1>7, <1>8, <1>9,
           <1>10, <1>11, <1>12, <1>13 DEF Singles, Plain

\* Without a reply those functions crash.
LEMMA UnjudgedValue ==
    ASSUME NEW f, f.op \in Singles \ Plain
    PROVE  Rop(f, NoReply).value = Crash
<1> USE DEF Rop, Typed, SaysOK, Function, NoReply, Reply
<1>1. CASE f.op \in {"rop_is_key_exist", "rop_del_key", "rop_set_key_lifecycle",
                     "rop_show_keys", "rop_list_push", "rop_get_list_cnt", "rop_trim_list",
                     "rop_range_list", "rop_zset_get_score", "rop_get_string"}
  BY <1>1 DEF RopIsKeyExist, RopDelKey, RopSetKeyLifecycle, RopShowKeys,
     RopListPush, RopGetListCnt, RopTrimList, RopRangeList, RopZsetGetScore, RopGetString
<1>2. CASE f.op \in {"rop_create_or_replace_hash_table", "rop_zset_increment",
                     "rop_set_string"}
  BY <1>2 DEF RopCreateOrReplaceHash, RopZsetIncrement, RopSetString
<1> QED BY <1>1, <1>2 DEF Singles, Plain

-----------------------------------------------------------------------------
(* The steps of one client, as lemmas about its values: its handle l, the  *)
(* commands o and the replies i under way, its call f with g replies read  *)
(* and d commands not refused, and what its last call returned, r.         *)

\* A connection is opened without a password, or cannot be opened.
LEMMA ConnectedOK ==
    ASSUME NEW c \in Clients, NEW i, NEW g, NEW d, NEW r, NEW o,
           ClientOK(c, "none", o, i, NoCall, g, d, r), NEW l \in {"none", "open"},
           l = "open" => o = << >>, NEW v \in Int
    PROVE  ClientOK(c, l, o, i, NoCall, g, d, v)
BY RedisAssumption DEF ClientOK, LineOK

\* A call begins.
LEMMA EnterOK ==
    ASSUME NEW c \in Clients, NEW l, NEW o, NEW i, NEW g, NEW d, NEW r,
           ClientOK(c, l, o, i, NoCall, g, d, r), r # Crash,
           NEW x \in Calls[c], x.op \notin Unprotected,
           NEW m \in {"open", "broken"}, m = "open" => o = << >>
    PROVE  ClientOK(c, m, IF m = "open" THEN o \o Sends(x) ELSE o, i, x, 0, 0, r)
<1>1. IsSeq(Sends(x)) /\ Sends(x) # << >> /\ \A k \in DOMAIN Sends(x) : Usable(Sends(x)[k])
  BY CallsAssumption
<1>2. PICK n : n = Len(Sends(x)) /\ n \in Nat /\ n > 0
  BY <1>1, Lengths
<1>3. x # NoCall /\ i = << >> /\ Len(i) = 0 /\ LineOK(l, o, i)
      /\ r \in Int \cup {Crash}
  BY RedisAssumption, EmptyIs DEF ClientOK
<1>4. Counted(x, m, i, 0, 0)
  BY <1>2, <1>3 DEF Counted
<1>5. CASE m = "open"
  <2>1. o \o Sends(x) = Sends(x)
    <3>1. Sends(x) \in Seq({Sends(x)[k] : k \in DOMAIN Sends(x)}) /\ o = << >>
      BY <1>1, <1>5 DEF IsSeq
    <3> QED BY <3>1
  <2>2. LineOK(m, Sends(x), i)
    BY <1>1, <1>3, <1>5 DEF LineOK
  <2>3. InStep(x, m, Sends(x), i, 0)
    BY <1>2, <1>3 DEF InStep
  <2> QED BY <1>3, <1>4, <1>5, <2>1, <2>2, <2>3 DEF ClientOK
<1>6. CASE m = "broken"
  <2>1. LineOK(m, o, i)
    BY <1>3, <1>6 DEF LineOK
  <2>2. InStep(x, m, o, i, 0)
    BY <1>2, <1>3, <1>6 DEF InStep
  <2> QED BY <1>3, <1>4, <1>6, <2>1, <2>2 DEF ClientOK
<1> QED BY <1>5, <1>6

\* What a call returns without a reply.
LEMMA FailedValue ==
    ASSUME NEW c \in Clients, NEW f \in Calls[c], f.op \notin Unprotected
    PROVE  /\ Rop(f, NoReply).value \in Int \cup {Crash}
           /\ f.op \in Connects \cup Batches => Rop(f, NoReply).value = -1
           /\ f.op \in Exact => Rop(f, NoReply).value = Crash
<1>1. f.op \in Plain \/ f.op \in Singles \ Plain
  BY CallsAssumption DEF Plain, Connects, Unprotected
<1>2. f.op \in Connects \cup Batches => f.op \in Plain
  BY <1>1 DEF Connects, Plain, Singles
<1>3. f.op \in Exact => f.op \in Singles \ Plain
  BY DEF Exact, Singles, Plain, Batches
<1>4. f.op \in Plain => Rop(f, NoReply).value = -1
  BY PlainValue DEF NoReply, Reply
<1>5. f.op \in Singles \ Plain => Rop(f, NoReply).value = Crash
  BY UnjudgedValue
<1> QED BY <1>1, <1>2, <1>3, <1>4, <1>5

\* A command cannot be sent.
LEMMA NotSentOK ==
    ASSUME NEW c, NEW o, NEW i, NEW g, NEW d, NEW r,
           ClientOK(c, "open", o, i, NoCall, g, d, r), NEW v \in Int \cup {Crash}
    PROVE  ClientOK(c, "broken", o, i, NoCall, g, d, v)
BY DEF ClientOK, LineOK

\* No more replies come.
LEMMA NoMoreOK ==
    ASSUME NEW c, NEW o, NEW i, NEW f, NEW g, NEW d, NEW r,
           ClientOK(c, "broken", o, i, f, g, d, r), f # NoCall, i = << >>,
           NEW l \in {"none", "broken"}, NEW v \in Int \cup {Crash}, v = Crash => l = "broken"
    PROVE  ClientOK(c, l, o, i, NoCall, g, d, v)
BY DEF ClientOK, LineOK

LEMMA DisconnectOK ==
    ASSUME NEW c, NEW l, NEW o, NEW i, NEW g, NEW d, NEW r,
           ClientOK(c, l, o, i, NoCall, g, d, r), r # Crash
    PROVE  ClientOK(c, "none", o, i, NoCall, g, d, r)
BY DEF ClientOK, LineOK

\* What has not been executed is dropped, or executed and not answered.
LEMMA DropOK ==
    ASSUME NEW c, NEW l, l # "open", NEW o, NEW i, NEW f, NEW g, NEW d, NEW r,
           ClientOK(c, l, o, i, f, g, d, r), NEW p, IsSeq(p),
           \A k \in DOMAIN p : Usable(p[k])
    PROVE  ClientOK(c, l, p, i, f, g, d, r)
BY DEF ClientOK, LineOK, InStep

\* The connection breaks.
LEMMA BreakOK ==
    ASSUME NEW c, NEW o, NEW i, NEW f, NEW g, NEW d, NEW r,
           ClientOK(c, "open", o, i, f, g, d, r), NEW n \in 0 .. Len(i)
    PROVE  ClientOK(c, "broken", o, SubSeq(i, 1, n), f, g, d, r)
<1>1. PICK j : j = SubSeq(i, 1, n)
  OBVIOUS
<1>2. IsSeq(i) /\ Len(i) \in Nat
  BY Lengths DEF ClientOK, LineOK
<1>3. /\ IsSeq(j) /\ DOMAIN j = 1 .. Len(j) /\ Len(j) = n
      /\ \A k \in 1 .. Len(j) : j[k] = i[k]
  <2>1. n <= Len(i) /\ n \in Int
    BY <1>2
  <2> QED BY <1>1, <1>2, <2>1, PartIs
<1>4. \A k \in 1 .. n : k \in 1 .. Len(i) /\ k \in DOMAIN i
  BY <1>2, Lengths
<1>5. LineOK("broken", o, j)
  BY <1>3, <1>4 DEF ClientOK, LineOK
<1>6. CASE f = NoCall
  <2>1. j = << >>
    BY <1>2, <1>3, <1>6, Lengths DEF ClientOK
  <2> QED BY <1>1, <1>5, <1>6, <2>1 DEF ClientOK
<1>7. CASE f # NoCall
  <2>1. InStep(f, "open", o, i, g) /\ Counted(f, "open", i, g, d)
    BY <1>7 DEF ClientOK
  <2>2. InStep(f, "broken", o, j, g)
    <3>1. \A k \in 1 .. Len(j) : j[k].cmd = Sends(f)[g + k]
      BY <1>3, <1>4, <2>1 DEF InStep
    <3>2. g \in Nat /\ g < Len(Sends(f)) /\ g + Len(j) <= Len(Sends(f))
      <4>1. g \in Nat /\ g < Len(Sends(f)) /\ g + Len(i) <= Len(Sends(f))
        BY <2>1 DEF InStep
      <4> QED BY <1>2, <1>3, <4>1
    <3> QED BY <3>1, <3>2 DEF InStep
  <2>3. Counted(f, "broken", j, g, d)
    <3>1. j # << >> => j[1] = i[1] /\ i # << >>
      BY <1>2, <1>3, Lengths
    <3> QED BY <2>1, <3>1 DEF Counted
  <2> QED BY <1>1, <1>5, <1>7, <2>2, <2>3 DEF ClientOK
<1> QED BY <1>6, <1>7

\* What a call returns after its last reply.
LEMMA ReturnedValue ==
    ASSUME NEW c \in Clients, NEW f \in Calls[c], f.op \notin Unprotected, NEW q,
           Len(Sends(f)) = 1 => q.cmd = Sends(f)[1], ReplyOK(q.cmd, q.reply)
    PROVE  /\ Rop(f, q.reply).value \in Int /\ Rop(f, q.reply).value # Crash
           /\ f.op \in Exact => (Rop(f, q.reply).value = -1 <=> q.reply.type = "error")
<1>1. CASE f.op \in Plain
  <2>1. f.op \notin Exact
    BY <1>1 DEF Plain, Exact, Batches
  <2> QED BY <1>1, <2>1, PlainValue, RedisAssumption
<1>2. CASE f.op \in Singles \ Plain
  <2>1. Len(Sends(f)) = 1
    BY <1>2, OneCommand
  <2> QED BY <1>2, <2>1, JudgedValue, RedisAssumption
<1> QED BY <1>1, <1>2, CallsAssumption DEF Plain, Connects, Unprotected

\* A reply is read, and the call returns v after its last one.
LEMMA TakeOK ==
    ASSUME NEW c \in Clients, NEW l, NEW o, NEW i, NEW f, NEW g, NEW d, NEW r,
           ClientOK(c, l, o, i, f, g, d, r), f # NoCall, i # << >>,
           NEW v, v = Rop(f, Head(i).reply).value
    PROVE  IF g + 1 = Len(Sends(f))
           THEN /\ ClientOK(c, l, o, Tail(i), NoCall, g + 1, d, v)
                /\ f.op \in Exact => (v = -1 <=> d = 0)
           ELSE ClientOK(c, l, o, Tail(i), f, g + 1, d, r)
<1>0. /\ LineOK(l, o, i) /\ InStep(f, l, o, i, g) /\ Counted(f, l, i, g, d)
      /\ f \in Calls[c] /\ f.op \notin Unprotected /\ l # "none"
      /\ r \in Int \cup {Crash} /\ (r = Crash => l = "broken" /\ f = NoCall)
  BY DEF ClientOK
<1>1. PICK j : j = Tail(i)
  OBVIOUS
<1>2. /\ IsSeq(i) /\ Len(i) \in Nat /\ Len(i) > 0 /\ Head(i) = i[1] /\ 1 \in DOMAIN i
      /\ DOMAIN i = 1 .. Len(i)
      /\ IsSeq(j) /\ Len(j) = Len(i) - 1 /\ DOMAIN j = 1 .. Len(j)
      /\ (Len(j) = 0 <=> j = << >>) /\ \A k \in 1 .. Len(j) : j[k] = i[k + 1]
  <2>1. IsSeq(i)
    BY <1>0 DEF LineOK
  <2>2. Len(i) \in Nat /\ Len(i) # 0 /\ DOMAIN i = 1 .. Len(i)
    BY <2>1, Lengths
  <2>3. IsSeq(j) /\ Len(j) = Len(i) - 1 /\ Head(i) = i[1]
        /\ \A k \in 1 .. Len(j) : j[k] = i[k + 1]
    BY <1>1, <2>1, TailIs
  <2>4. DOMAIN j = 1 .. Len(j) /\ (Len(j) = 0 <=> j = << >>)
    BY <2>3, Lengths
  <2> QED BY <2>1, <2>2, <2>3, <2>4
<1>3. LineOK(l, o, j)
  <2>1. \A k \in 1 .. Len(j) : k + 1 \in 1 .. Len(i)
    BY <1>2
  <2>2. \A k \in DOMAIN j : ReplyOK(j[k].cmd, j[k].reply)
    BY <1>0, <1>2, <2>1 DEF LineOK
  <2> QED BY <1>0, <1>2, <2>2 DEF LineOK
<1>4. PICK n : /\ n = Len(Sends(f)) /\ n \in Nat /\ g \in Nat /\ g < n /\ g + Len(i) <= n
               /\ d \in Nat /\ d <= n
  <2>1. Len(Sends(f)) \in Nat
    BY <1>0, CallsAssumption, Lengths
  <2> QED BY <1>0, <2>1 DEF InStep, Counted
<1>5. l = "open" => /\ g + Len(i) + Len(o) = n /\ Len(o) \in Nat /\ (Len(o) = 0 <=> o = << >>)
                    /\ d <= g + Len(i)
  BY <1>0, <1>4, Lengths DEF LineOK, InStep, Counted
<1>6. i[1].cmd = Sends(f)[g + 1] /\ ReplyOK(i[1].cmd, i[1].reply)
  BY <1>0, <1>2 DEF InStep, LineOK
<1>7. ASSUME g + 1 = n
      PROVE  /\ ClientOK(c, l, o, j, NoCall, g + 1, d, Rop(f, i[1].reply).value)
             /\ f.op \in Exact => (Rop(f, i[1].reply).value = -1 <=> d = 0)
  <2>1. Len(j) = 0 /\ j = << >>
    BY <1>2, <1>4, <1>7
  <2>2. l = "open" => o = << >>
    BY <1>2, <1>4, <1>5, <1>7
  <2>3. n = 1 => i[1].cmd = Sends(f)[1]
    BY <1>4, <1>6, <1>7
  <2>4. /\ Rop(f, i[1].reply).value \in Int /\ Rop(f, i[1].reply).value # Crash
        /\ f.op \in Exact => (Rop(f, i[1].reply).value = -1 <=> i[1].reply.type = "error")
    BY <1>0, <1>4, <1>6, <2>3, ReturnedValue
  <2>5. f.op \in Exact => (d = 0 <=> i[1].reply.type = "error")
    BY <1>0, <1>2 DEF Counted
  <2> QED BY <1>3, <2>1, <2>2, <2>4, <2>5 DEF ClientOK
<1>8. ASSUME g + 1 # n PROVE ClientOK(c, l, o, j, f, g + 1, d, r)
  <2>1. InStep(f, l, o, j, g + 1)
    <3>1. g + 1 \in Nat /\ g + 1 < n /\ (g + 1) + Len(j) <= n /\ (g + 1) + Len(j) = g + Len(i)
      BY <1>2, <1>4, <1>8
    <3>2. ASSUME NEW k \in 1 .. Len(j) PROVE j[k].cmd = Sends(f)[(g + 1) + k]
      <4>1. k + 1 \in 1 .. Len(i) /\ g + (k + 1) = (g + 1) + k
        BY <1>2, <1>4
      <4> QED BY <1>0, <1>2, <4>1 DEF InStep
    <3>3. l = "open" => /\ (g + 1) + Len(j) + Len(o) = n
                        /\ \A k \in 1 .. Len(o) : o[k] = Sends(f)[(g + 1) + Len(j) + k]
      BY <1>0, <1>5, <3>1 DEF InStep
    <3> QED BY <1>4, <3>1, <3>2, <3>3 DEF InStep
  <2>2. Counted(f, l, j, g + 1, d)
    <3>1. f.op \notin Exact
      <4>1. ASSUME f.op \in Exact PROVE FALSE
        <5>1. f.op \in Singles
          BY <4>1 DEF Exact, Singles
        <5>2. n = 1
          BY <1>0, <1>4, <5>1, OneCommand
        <5> QED BY <1>4, <1>8, <5>2
      <4> QED BY <4>1
    <3>2. l = "open" => d <= (g + 1) + Len(j)
      BY <1>2, <1>4, <1>5
    <3> QED BY <1>4, <3>1, <3>2 DEF Counted
  <2> QED BY <1>0, <1>3, <2>1, <2>2 DEF ClientOK
<1> QED BY <1>1, <1>2, <1>4, <1>7, <1>8

\* Redis executes the next command of a sound connection.
LEMMA ServedOK ==
    ASSUME NEW c \in Clients, NEW o, NEW i, NEW f, NEW g, NEW d, NEW r,
           ClientOK(c, "open", o, i, f, g, d, r), o # << >>,
           NEW q, q.cmd = Head(o), ReplyOK(q.cmd, q.reply),
           NEW e, \/ e = d /\ q.reply.type = "error"
                  \/ e = d + 1 /\ (q.cmd.op \in Known => q.reply.type # "error")
    PROVE  ClientOK(c, "open", Tail(o), Append(i, q), f, g, e, r)
<1>0. /\ f # NoCall /\ LineOK("open", o, i) /\ InStep(f, "open", o, i, g)
      /\ Counted(f, "open", i, g, d) /\ f \in Calls[c] /\ f.op \notin Unprotected
      /\ r \in Int \cup {Crash} /\ r # Crash
  BY DEF ClientOK
<1>1. PICK p, j : p = Tail(o) /\ j = Append(i, q)
  OBVIOUS
<1>2. /\ Len(o) \in Nat /\ Len(o) > 0 /\ Head(o) = o[1] /\ DOMAIN o = 1 .. Len(o)
      /\ IsSeq(p) /\ Len(p) = Len(o) - 1 /\ DOMAIN p = 1 .. Len(p)
      /\ \A k \in 1 .. Len(p) : p[k] = o[k + 1]
  BY <1>0, <1>1, Lengths, TailIs DEF LineOK
<1>3. /\ Len(i) \in Nat /\ DOMAIN i = 1 .. Len(i) /\ (Len(i) = 0 <=> i = << >>)
      /\ IsSeq(j) /\ Len(j) = Len(i) + 1 /\ DOMAIN j = 1 .. Len(j)
      /\ j[Len(i) + 1] = q /\ \A k \in 1 .. Len(i) : j[k] = i[k]
  BY <1>0, <1>1, Lengths, AppendIs DEF LineOK
<1>4. LineOK("open", p, j)
  <2>1. \A k \in 1 .. Len(p) : k + 1 \in 1 .. Len(o)
    BY <1>2
  <2>2. \A k \in DOMAIN p : Usable(p[k])
    BY <1>0, <1>2, <2>1 DEF LineOK
  <2>3. \A k \in 1 .. Len(j) : k \in 1 .. Len(i) \/ k = Len(i) + 1
    BY <1>3
  <2>4. \A k \in DOMAIN j : ReplyOK(j[k].cmd, j[k].reply)
    BY <1>0, <1>3, <2>3 DEF LineOK
  <2> QED BY <1>2, <1>3, <2>2, <2>4 DEF LineOK
<1>5. PICK n : /\ n = Len(Sends(f)) /\ n \in Nat /\ g \in Nat /\ g < n
               /\ g + Len(i) + Len(o) = n /\ d \in Nat /\ d <= g + Len(i)
  <2>1. Len(Sends(f)) \in Nat
    BY <1>0, CallsAssumption, Lengths
  <2> QED BY <1>0, <2>1 DEF InStep, Counted
<1>6. q.cmd = Sends(f)[g + Len(i) + 1]
  BY <1>0, <1>2 DEF InStep
<1>7. InStep(f, "open", p, j, g)
  <2>1. g + Len(j) <= n /\ g + Len(j) + Len(p) = n
    <3>1. /\ Len(o) \in Nat /\ Len(o) > 0 /\ Len(p) = Len(o) - 1 /\ Len(i) \in Nat
          /\ Len(j) = Len(i) + 1 /\ n \in Nat /\ g \in Nat /\ g + Len(i) + Len(o) = n
      BY <1>2, <1>3, <1>5
    <3> QED BY ONLY <3>1
  <2>2. ASSUME NEW k \in 1 .. Len(j) PROVE j[k].cmd = Sends(f)[g + k]
    <3>1. CASE k \in 1 .. Len(i)
      BY <1>0, <1>3, <3>1 DEF InStep
    <3>2. CASE k = Len(i) + 1
      <4>1. g + k = g + Len(i) + 1
        BY <1>3, <1>5, <3>2
      <4> QED BY <1>3, <1>6, <3>2, <4>1
    <3> QED BY <1>3, <3>1, <3>2
  <2>3. ASSUME NEW k \in 1 .. Len(p) PROVE p[k] = Sends(f)[g + Len(j) + k]
    <3>1. k + 1 \in 1 .. Len(o) /\ g + Len(i) + (k + 1) = g + Len(j) + k
      BY <1>2, <1>3, <1>5
    <3> QED BY <1>0, <1>2, <3>1 DEF InStep
  <2> QED BY <1>5, <2>1, <2>2, <2>3 DEF InStep
<1>8. Counted(f, "open", j, g, e)
  <2>1. e \in Nat /\ e <= n /\ e <= g + Len(j)
    BY <1>2, <1>3, <1>5
  <2>2. ASSUME f.op \in Exact PROVE e = 0 <=> j[1].reply.type = "error"
    <3>1. f.op \in Singles \ Plain
      BY <2>2 DEF Exact, Singles, Plain, Batches
    <3>2. n = 1
      BY <1>0, <1>5, <3>1, OneCommand
    <3>3. g = 0 /\ Len(i) = 0 /\ d = 0
      BY <1>2, <1>3, <1>5, <3>2
    <3>4. j[1] = q /\ q.cmd = Sends(f)[1]
      BY <1>3, <1>6, <3>3
    <3>5. q.cmd.op \in Known
      BY <3>1, <3>4, JudgedValue
    <3> QED BY <3>3, <3>4, <3>5
  <2> QED BY <1>5, <2>1, <2>2 DEF Counted
<1> QED BY <1>0, <1>1, <1>4, <1>7, <1>8 DEF ClientOK

-----------------------------------------------------------------------------
(* The invariant is inductive.                                             *)

LEMMA Initially == Init => Inv
<1> SUFFICES ASSUME Init PROVE Inv
  OBVIOUS
<1>1. DbOK
  BY DEF Init, DbOK, EntryOK, Absent
<1>2. Shape
  BY RedisAssumption DEF Init, Shape
<1>3. ASSUME NEW c \in Clients
      PROVE  ClientOK(c, link[c], out[c], in[c], call[c], got[c], good[c], ret[c])
  <2>1. /\ link[c] = "none" /\ out[c] = << >> /\ in[c] = << >> /\ call[c] = NoCall
        /\ ret[c] = 0
    BY <1>3 DEF Init
  <2>2. LineOK("none", << >>, << >>)
    BY EmptyIs DEF LineOK
  <2> QED BY <2>1, <2>2, RedisAssumption DEF ClientOK
<1> QED BY <1>1, <1>2, <1>3 DEF Inv, ClientsOK

\* The steps of a client and of its connection.
Does(c) == Client(c) \/ Serve(c) \/ Break(c) \/ Drop(c)

\* Nothing of another client changes.
Only(c) == \A b \in Clients \ {c} :
    /\ link'[b] = link[b] /\ out'[b] = out[b] /\ in'[b] = in[b] /\ call'[b] = call[b]
    /\ got'[b] = got[b] /\ good'[b] = good[b] /\ ret'[b] = ret[b]

LEMMA OnlyStep == ASSUME Shape, NEW c \in Clients, Does(c) PROVE Only(c)
<1> USE DEF Shape, Only, wire, client
<1>1. CASE RopConnectdbNopwd(c) \/ ConnectFails(c) \/ AppendFails(c) \/ MakeHmsetFails(c)
  BY <1>1 DEF RopConnectdbNopwd, Opens, ConnectFails, AppendFails, MakeHmsetFails
<1>2. CASE ConnectWithPassword(c) \/ Call(c)
  <2>1. /\ link' = link \/ link' = [link EXCEPT ![c] = "open"]
        /\ \E f : Enter(c, f)
    BY <1>2 DEF ConnectWithPassword, Opens, Call
  <2> QED BY <2>1 DEF Enter
<1>3. CASE TakeReply(c) \/ GetReplyFails(c)
  BY <1>3 DEF TakeReply, GetReplyFails, Leave, LinkAfter
<1>4. CASE RopDisconnect(c) \/ Break(c) \/ Drop(c)
  BY <1>4 DEF RopDisconnect, Break, Drop
<1>5. CASE Serve(c)
  <2>1. /\ UNCHANGED <<link, call, got, ret>>
        /\ \E s : out' = [out EXCEPT ![c] = s]
        /\ in' = in \/ \E s : in' = [in EXCEPT ![c] = s]
        /\ good' = good \/ \E n : good' = [good EXCEPT ![c] = n]
    BY <1>5 DEF Serve
  <2> QED BY <2>1
<1> QED BY <1>1, <1>2, <1>3, <1>4, <1>5 DEF Does, Client

LEMMA BeginCounts ==
    ASSUME Shape, NEW c \in Clients, NEW f, Begin(c, f)
    PROVE  made' \in [Clients -> Nat] /\ \A b \in Clients : made'[b] <= MaxCalls[b]
<1>1. /\ made \in [Clients -> Nat] /\ \A b \in Clients : made[b] <= MaxCalls[b]
      /\ made[c] < MaxCalls[c] /\ made' = [made EXCEPT ![c] = @ + 1]
      /\ MaxCalls \in [Clients -> Nat]
  BY RedisAssumption DEF Shape, Begin
<1> QED BY ONLY <1>1, c \in Clients

LEMMA ShapeStep == ASSUME Shape, NEW c \in Clients, Does(c) PROVE Shape'
<1> USE DEF Shape, wire, client, redis
<1>1. CASE RopConnectdbNopwd(c) \/ ConnectFails(c) \/ AppendFails(c) \/ MakeHmsetFails(c)
  <2>1. \E f : Begin(c, f)
    BY <1>1 DEF RopConnectdbNopwd, ConnectFails, AppendFails, MakeHmsetFails
  <2>2. made' \in [Clients -> Nat] /\ \A b \in Clients : made'[b] <= MaxCalls[b]
    BY <2>1, BeginCounts
  <2>3. link' = link \/ \E l \in {"open", "broken"} : link' = [link EXCEPT ![c] = l]
    BY <1>1 DEF RopConnectdbNopwd, Opens, ConnectFails, AppendFails, MakeHmsetFails
  <2>4. link' \in [Clients -> {"none", "open", "broken"}]
    BY <2>3
  <2>5. UNCHANGED <<out, in, call, got, good>> /\ DOMAIN ret' = Clients
    BY <1>1 DEF RopConnectdbNopwd, ConnectFails, AppendFails, MakeHmsetFails
  <2>6. /\ number' = number \/ number' = [number EXCEPT ![c] = 0]
        /\ known' \subseteq known
    BY <1>1 DEF RopConnectdbNopwd, Opens, ConnectFails, AppendFails, MakeHmsetFails
  <2>7. number' \in [Clients -> Dbs] /\ known' \subseteq Clients
    BY <2>6, RedisAssumption
  <2> QED BY <2>2, <2>4, <2>5, <2>7
<1>2. CASE ConnectWithPassword(c) \/ Call(c)
  <2>1. /\ link' = link \/ link' = [link EXCEPT ![c] = "open"]
        /\ number' = number \/ number' = [number EXCEPT ![c] = 0]
        /\ known' \subseteq known
        /\ \E f : Enter(c, f)
    BY <1>2 DEF ConnectWithPassword, Opens, Call
  <2>4. number' \in [Clients -> Dbs] /\ known' \subseteq Clients
    BY <2>1, RedisAssumption
  <2>5. /\ DOMAIN out' = Clients /\ DOMAIN in' = Clients /\ DOMAIN call' = Clients
        /\ DOMAIN got' = Clients /\ DOMAIN good' = Clients /\ DOMAIN ret' = Clients
    BY <2>1 DEF Enter
  <2>2. \E f : Begin(c, f)
    BY <1>2 DEF ConnectWithPassword, Call
  <2>3. made' \in [Clients -> Nat] /\ \A b \in Clients : made'[b] <= MaxCalls[b]
    BY <2>2, BeginCounts
  <2> QED BY <2>1, <2>3, <2>4, <2>5
<1>3. CASE TakeReply(c) \/ GetReplyFails(c)
  BY <1>3 DEF TakeReply, GetReplyFails, Leave, LinkAfter
<1>4. CASE RopDisconnect(c) \/ Break(c) \/ Drop(c)
  BY <1>4 DEF RopDisconnect, Break, Drop
<1>5. CASE Serve(c)
  <2>1. /\ UNCHANGED <<link, call, got, ret, made>>
        /\ \E s : out' = [out EXCEPT ![c] = s]
        /\ in' = in \/ \E s : in' = [in EXCEPT ![c] = s]
        /\ good' = good \/ \E n : good' = [good EXCEPT ![c] = n]
        /\ known' = known \/ known' = known \cup {c}
    BY <1>5 DEF Serve
  <2>2. number' = number \/ \E n \in Dbs : number' = [number EXCEPT ![c] = n]
    BY <1>5 DEF Serve, Refused
  <2> QED BY <2>1, <2>2
<1> QED BY <1>1, <1>2, <1>3, <1>4, <1>5 DEF Does, Client

\* What Redis keeps stays well formed.
LEMMA DbStep == ASSUME Inv, NEW c \in Clients, Does(c) PROVE DbOK'
<1>1. CASE Serve(c)
  <2>1. PICK cmd, n : cmd = Head(out[c]) /\ n = number[c]
    OBVIOUS
  <2>2. Usable(cmd) /\ n \in Dbs
    <3>1. LineOK(link[c], out[c], in[c]) /\ out[c] # << >> /\ number \in [Clients -> Dbs]
      BY <1>1 DEF Inv, Shape, ClientsOK, ClientOK, Serve
    <3>2. Head(out[c]) = out[c][1] /\ 1 \in DOMAIN out[c]
      <4>1. IsSeq(out[c]) /\ out[c] # << >>
        BY <3>1 DEF LineOK
      <4>2. Len(out[c]) \in Nat /\ Len(out[c]) # 0 /\ DOMAIN out[c] = 1 .. Len(out[c])
        BY <4>1, Lengths
      <4> QED BY <4>1, <4>2, TailIs
    <3> QED BY <2>1, <3>1, <3>2 DEF LineOK
  <2>3. /\ DOMAIN db = Dbs
        /\ \A m \in Dbs : DOMAIN db[m] = Keys /\ \A k \in Keys : EntryOK(db[m][k])
    BY DEF Inv, DbOK
  <2>4. CASE db' = db
    BY <2>3, <2>4 DEF DbOK
  <2>5. CASE db' # db
    <3>1. /\ ~ Refused(c, cmd)
          /\ db' = [db EXCEPT ![n] = IF cmd.op = "FLUSHDB" THEN [k \in Keys |-> Absent]
                       ELSE [db[n] EXCEPT ![cmd.key] = After(cmd, db[n][cmd.key])]]
      BY <1>1, <2>1, <2>5 DEF Serve
    <3>2. EntryOK(After(cmd, db[n][cmd.key]))
      <4>1. EntryOK(db[n][cmd.key])
        BY <2>2, <2>3 DEF Usable
      <4>2. Serves(cmd, db[n][cmd.key])
        BY <2>1, <3>1 DEF Refused, At, Serves
      <4> QED BY <2>2, <4>1, <4>2, AfterOK
    <3>3. EntryOK(Absent)
      BY DEF EntryOK, Absent
    <3>6. CASE cmd.op = "FLUSHDB"
      <4>1. db' = [db EXCEPT ![n] = [k \in Keys |-> Absent]]
        BY <3>1, <3>6
      <4> QED BY <2>2, <2>3, <3>3, <4>1 DEF DbOK
    <3>7. CASE cmd.op # "FLUSHDB"
      <4>1. PICK e : e = After(cmd, db[n][cmd.key]) /\ EntryOK(e)
        BY <3>2
      <4>2. db' = [db EXCEPT ![n] = [db[n] EXCEPT ![cmd.key] = e]]
        BY <3>1, <3>7, <4>1
      <4>3. \A k \in Keys : [db[n] EXCEPT ![cmd.key] = e][k] = IF k = cmd.key THEN e ELSE db[n][k]
        BY <2>2, <2>3
      <4> QED BY <2>2, <2>3, <4>1, <4>2, <4>3 DEF DbOK
    <3> QED BY <3>6, <3>7
  <2> QED BY <2>4, <2>5
<1>2. CASE ~ Serve(c)
  <2>1. db' = db
    BY <1>2 DEF Does, Client, RopConnectdbNopwd, Opens, ConnectWithPassword, ConnectFails,
       Call, AppendFails, MakeHmsetFails, TakeReply, GetReplyFails, RopDisconnect, Break, Drop,
       redis
  <2> QED BY <2>1 DEF Inv, DbOK
<1> QED BY <1>1, <1>2

\* What is true of a client's values.
Fine(c) == ClientOK(c, link[c], out[c], in[c], call[c], got[c], good[c], ret[c])

\* When a call takes its last reply.
Returns(c) == TakeReply(c) /\ got[c] + 1 = Len(Sends(call[c]))

LEMMA TakeStep ==
    ASSUME Shape, NEW c \in Clients, Fine(c), TakeReply(c)
    PROVE  /\ Fine(c)'
           /\ Returns(c) /\ call[c].op \in Exact => (ret'[c] = -1 <=> good[c] = 0)
           /\ call'[c] = NoCall => Returns(c)
<1>1. /\ call[c] # NoCall /\ in[c] # << >> /\ link' = link /\ out' = out /\ good' = good
      /\ in'[c] = Tail(in[c]) /\ got'[c] = got[c] + 1
  BY DEF TakeReply, Shape
<1>2. CASE got[c] + 1 = Len(Sends(call[c]))
  <2>1. call'[c] = NoCall /\ ret'[c] = Rop(call[c], Head(in[c]).reply).value
    BY <1>1, <1>2 DEF TakeReply, Leave, Shape
  <2>2. /\ ClientOK(c, link[c], out[c], Tail(in[c]), NoCall, got[c] + 1, good[c],
                    Rop(call[c], Head(in[c]).reply).value)
        /\ call[c].op \in Exact => (Rop(call[c], Head(in[c]).reply).value = -1 <=> good[c] = 0)
    <3>1. PICK l, o, i, f, g, d, r :
             /\ l = link[c] /\ o = out[c] /\ i = in[c] /\ f = call[c] /\ g = got[c]
             /\ d = good[c] /\ r = ret[c]
      OBVIOUS
    <3>2. ClientOK(c, l, o, i, f, g, d, r) /\ f # NoCall /\ i # << >> /\ g + 1 = Len(Sends(f))
      BY <1>1, <1>2, <3>1 DEF Fine
    <3>3. PICK v : v = Rop(f, Head(i).reply).value
      OBVIOUS
    <3>4. /\ ClientOK(c, l, o, Tail(i), NoCall, g + 1, d, v)
          /\ f.op \in Exact => (v = -1 <=> d = 0)
      <4>1. IF g + 1 = Len(Sends(f))
            THEN /\ ClientOK(c, l, o, Tail(i), NoCall, g + 1, d, v)
                 /\ f.op \in Exact => (v = -1 <=> d = 0)
            ELSE ClientOK(c, l, o, Tail(i), f, g + 1, d, r)
        <5>1. ClientOK(c, l, o, i, f, g, d, r)
          BY <3>2
        <5>2. f # NoCall
          BY <3>2
        <5>3. i # << >>
          BY <3>2
        <5> QED BY <3>3, <5>1, <5>2, <5>3, TakeOK
      <4> QED BY ONLY <3>2, <4>1
    <3> QED BY <3>1, <3>3, <3>4
  <2> QED BY <1>1, <1>2, <2>1, <2>2 DEF Fine, Returns
<1>3. CASE got[c] + 1 # Len(Sends(call[c]))
  <2>1. call' = call /\ ret' = ret
    BY <1>1, <1>3 DEF TakeReply
  <2>2. ClientOK(c, link[c], out[c], Tail(in[c]), call[c], got[c] + 1, good[c], ret[c])
    BY <1>1, <1>3, TakeOK DEF Fine
  <2> QED BY <1>1, <1>3, <2>1, <2>2 DEF Fine, Returns
<1> QED BY <1>2, <1>3

LEMMA ServeStep ==
    ASSUME Inv, NEW c \in Clients, Serve(c) PROVE Fine(c)'
<1>1. PICK cmd : cmd = Head(out[c])
  OBVIOUS
<1>2. /\ Fine(c) /\ Shape /\ out[c] # << >> /\ out'[c] = Tail(out[c])
      /\ link' = link /\ call' = call /\ got' = got /\ ret' = ret
  BY DEF Inv, ClientsOK, Fine, Serve, Shape
<1>3. /\ IsSeq(out[c]) /\ cmd = out[c][1] /\ IsSeq(Tail(out[c])) /\ Usable(cmd)
      /\ \A k \in DOMAIN Tail(out[c]) : Usable(Tail(out[c])[k])
  <2>1. PICK o : o = out[c] /\ o # << >>
    BY <1>2
  <2>2. IsSeq(o) /\ \A k \in DOMAIN o : Usable(o[k])
    BY <1>2, <2>1 DEF Fine, ClientOK, LineOK
  <2>3. Len(o) \in Nat /\ Len(o) # 0 /\ DOMAIN o = 1 .. Len(o)
    BY <2>1, <2>2, Lengths
  <2>4. /\ IsSeq(Tail(o)) /\ Len(Tail(o)) = Len(o) - 1 /\ Head(o) = o[1]
        /\ \A k \in 1 .. Len(Tail(o)) : Tail(o)[k] = o[k + 1]
    BY <2>1, <2>2, TailIs
  <2>5. DOMAIN Tail(o) = 1 .. Len(Tail(o))
    BY <2>4, Lengths
  <2>6. \A k \in DOMAIN Tail(o) : k + 1 \in DOMAIN o
    BY <2>3, <2>4, <2>5
  <2>7. 1 \in DOMAIN o
    BY <2>3
  <2> QED BY <1>1, <2>1, <2>2, <2>4, <2>5, <2>6, <2>7
<1>4. CASE link[c] = "open"
  <2>1. PICK q : /\ q = [cmd |-> cmd, reply |-> IF ~ Refused(c, cmd)
                                              THEN Answer(cmd, db[number[c]][cmd.key])
                                              ELSE Reply("error", 0)]
                 /\ in'[c] = Append(in[c], q)
                 /\ good'[c] = IF ~ Refused(c, cmd) THEN good[c] + 1 ELSE good[c]
    BY <1>1, <1>2, <1>4 DEF Serve, Shape
  <2>2. q.cmd = Head(out[c])
    BY <1>1, <2>1
  <2>3. CASE Refused(c, cmd)
    <3>1. q.reply = Reply("error", 0) /\ good'[c] = good[c] /\ q.cmd = cmd
      BY <2>1, <2>3
    <3>2. ReplyOK(q.cmd, q.reply) /\ q.reply.type = "error"
      BY <3>1, ErrorOK DEF Reply
    <3>3. ClientOK(c, "open", Tail(out[c]), Append(in[c], q), call[c], got[c], good[c], ret[c])
      BY <1>2, <1>4, <2>2, <3>2, ServedOK DEF Fine
    <3> QED BY <1>2, <1>4, <2>1, <3>1, <3>3 DEF Fine
  <2>4. CASE ~ Refused(c, cmd)
    <3>1. q.reply = Answer(cmd, db[number[c]][cmd.key]) /\ good'[c] = good[c] + 1 /\ q.cmd = cmd
      BY <2>1, <2>4
    <3>2. EntryOK(db[number[c]][cmd.key]) /\ Serves(cmd, db[number[c]][cmd.key])
      <4>1. number[c] \in Dbs /\ cmd.key \in Keys
        BY <1>2, <1>3 DEF Shape, Usable
      <4> QED BY <2>4, <4>1 DEF Inv, DbOK, Refused, At, Serves
    <3>3. /\ ReplyOK(q.cmd, q.reply)
          /\ q.cmd.op \in Known => q.reply.type # "error"
      BY <1>3, <3>1, <3>2, AnswerOK
    <3>4. ClientOK(c, "open", Tail(out[c]), Append(in[c], q), call[c], got[c], good[c] + 1, ret[c])
      BY <1>2, <1>4, <2>2, <3>3, ServedOK DEF Fine
    <3> QED BY <1>2, <1>4, <2>1, <3>1, <3>4 DEF Fine
  <2> QED BY <2>3, <2>4
<1>5. CASE link[c] # "open"
  <2>1. in' = in /\ good' = good
    BY <1>5 DEF Serve
  <2>2. ClientOK(c, link[c], Tail(out[c]), in[c], call[c], got[c], good[c], ret[c])
    BY <1>2, <1>3, <1>5, DropOK DEF Fine
  <2> QED BY <1>2, <2>1, <2>2 DEF Fine
<1> QED BY <1>4, <1>5

\* The other steps.
LEMMA ClientStep ==
    ASSUME Inv, NEW c \in Clients, Does(c), ~ TakeReply(c), ~ Serve(c)
    PROVE  Fine(c)'
<1>0. Shape /\ Fine(c)
  BY DEF Inv, ClientsOK, Fine
<1>1. CASE RopConnectdbNopwd(c)
  <2>1. /\ link[c] = "none" /\ out[c] = << >> /\ call[c] = NoCall /\ link'[c] = "open"
        /\ ret'[c] = 0 /\ UNCHANGED <<out, in, call, got, good>>
    BY <1>0, <1>1 DEF RopConnectdbNopwd, Opens, Begin, Shape
  <2>2. ClientOK(c, "open", out[c], in[c], NoCall, got[c], good[c], 0)
    BY <1>0, <2>1, ConnectedOK DEF Fine
  <2> QED BY <2>1, <2>2 DEF Fine
<1>2. CASE ConnectFails(c)
  <2>1. /\ link[c] = "none" /\ call[c] = NoCall /\ ret'[c] = -1
        /\ UNCHANGED <<link, out, in, call, got, good>>
    BY <1>0, <1>2 DEF ConnectFails, Begin, Shape, wire
  <2>2. ClientOK(c, "none", out[c], in[c], NoCall, got[c], good[c], -1)
    BY <1>0, <2>1, ConnectedOK DEF Fine
  <2> QED BY <2>1, <2>2 DEF Fine
<1>3. CASE ConnectWithPassword(c) \/ Call(c)
  <2>1. PICK f \in Calls[c] : f.op \notin Unprotected /\ Begin(c, f) /\ Enter(c, f)
    BY <1>3 DEF ConnectWithPassword, Call, Connects
  <2>2. /\ link'[c] \in {"open", "broken"} /\ (link'[c] = "open" => out[c] = << >>)
        /\ call[c] = NoCall /\ ret[c] # Crash
    BY <1>0, <1>3, <2>1 DEF ConnectWithPassword, Opens, Call, Begin, Shape, Fine, ClientOK,
       LineOK
  <2>3. /\ out'[c] = IF link'[c] = "open" THEN out[c] \o Sends(f) ELSE out[c]
        /\ in' = in /\ ret' = ret /\ call'[c] = f /\ got'[c] = 0 /\ good'[c] = 0
    BY <1>0, <2>1 DEF Enter, Shape
  <2>4. PICK m, o : m \in {"open", "broken"} /\ m = link'[c] /\ o = out[c]
    BY <2>2
  <2>5. ClientOK(c, m, IF m = "open" THEN o \o Sends(f) ELSE o, in[c], f, 0, 0, ret[c])
    BY <1>0, <2>1, <2>2, <2>4, EnterOK DEF Fine
  <2> QED BY <2>3, <2>4, <2>5 DEF Fine
<1>4. CASE AppendFails(c)
  <2>1. PICK f \in Calls[c] : /\ f.op \notin Connects /\ Begin(c, f)
                             /\ ret' = [ret EXCEPT ![c] = Rop(f, NoReply).value]
    BY <1>4 DEF AppendFails
  <2>2. ret'[c] \in Int \cup {Crash}
    BY <1>0, <2>1, FailedValue DEF Shape, Connects
  <2>3. /\ link[c] = "open" /\ call[c] = NoCall /\ link'[c] = "broken"
        /\ UNCHANGED <<out, in, call, got, good>>
    BY <1>0, <1>4, <2>1 DEF AppendFails, Begin, Shape
  <2>4. PICK v \in Int \cup {Crash} : v = ret'[c]
    BY <2>2
  <2>5. ClientOK(c, "broken", out[c], in[c], NoCall, got[c], good[c], v)
    BY <1>0, <2>3, NotSentOK DEF Fine
  <2> QED BY <2>3, <2>4, <2>5 DEF Fine
<1>5. CASE GetReplyFails(c)
  <2>1. PICK f : f = call[c]
    OBVIOUS
  <2>2. /\ f # NoCall /\ link[c] = "broken" /\ in[c] = << >>
        /\ f \in Calls[c] /\ f.op \notin Unprotected
    BY <1>0, <1>5, <2>1 DEF GetReplyFails, Fine, ClientOK
  <2>3. PICK v \in WithoutReply(c, f) : ret'[c] = v
    BY <1>0, <1>5, <2>1 DEF GetReplyFails, Leave, Shape
  <2>4. /\ call'[c] = NoCall /\ UNCHANGED <<out, in, got, good>>
        /\ link'[c] = IF f.op \in Connects THEN "none" ELSE "broken"
    BY <1>0, <1>5, <2>1 DEF GetReplyFails, Leave, LinkAfter, Shape
  <2>5. v \in Int \cup {Crash} /\ (f.op \in Connects => v # Crash)
    <3>1. /\ Rop(f, NoReply).value \in Int \cup {Crash}
          /\ f.op \in Connects => Rop(f, NoReply).value = -1
      BY <2>2, FailedValue
    <3>2. f.op \in Connects => f.op \notin Batches
      BY DEF Connects, Unprotected, Batches
    <3> QED BY <2>3, <3>1, <3>2, RedisAssumption DEF WithoutReply
  <2>6. PICK l \in {"none", "broken"} : l = link'[c] /\ (v = Crash => l = "broken")
    BY <2>4, <2>5
  <2>7. ClientOK(c, l, out[c], in[c], NoCall, got[c], good[c], v)
    BY <1>0, <2>1, <2>2, <2>5, <2>6, NoMoreOK DEF Fine
  <2> QED BY <2>3, <2>4, <2>6, <2>7 DEF Fine
<1>6. CASE RopDisconnect(c)
  <2>1. /\ call[c] = NoCall /\ ret[c] # Crash /\ link'[c] = "none"
        /\ UNCHANGED <<out, in, call, got, good, ret>>
    BY <1>0, <1>6 DEF RopDisconnect, Shape, client
  <2>2. ClientOK(c, "none", out[c], in[c], NoCall, got[c], good[c], ret[c])
    BY <1>0, <2>1, DisconnectOK DEF Fine
  <2> QED BY <2>1, <2>2 DEF Fine
<1>7. CASE Break(c)
  <2>1. PICK n \in 0 .. Len(in[c]) : in' = [in EXCEPT ![c] = SubSeq(@, 1, n)]
    BY <1>7 DEF Break
  <2>2. /\ link[c] = "open" /\ link'[c] = "broken" /\ in'[c] = SubSeq(in[c], 1, n)
        /\ UNCHANGED <<out, call, got, good, ret>>
    BY <1>0, <1>7, <2>1 DEF Break, Shape, client
  <2>3. PICK i : i = in[c]
    OBVIOUS
  <2>4. ClientOK(c, "broken", out[c], SubSeq(i, 1, n), call[c], got[c], good[c], ret[c])
    BY <1>0, <2>1, <2>2, <2>3, BreakOK DEF Fine
  <2> QED BY <2>2, <2>3, <2>4 DEF Fine
<1>8. CASE Drop(c)
  <2>1. /\ link[c] # "open" /\ out'[c] = << >> /\ link' = link
        /\ UNCHANGED <<in, call, got, good, ret>>
    BY <1>0, <1>8 DEF Drop, Shape, client
  <2>2. IsSeq(<< >>) /\ \A k \in DOMAIN << >> : Usable(<< >>[k])
    BY EmptyIs
  <2>3. ClientOK(c, link[c], << >>, in[c], call[c], got[c], good[c], ret[c])
    BY <1>0, <2>1, <2>2, DropOK DEF Fine
  <2> QED BY <2>1, <2>3 DEF Fine
<1>9. CASE MakeHmsetFails(c)
  <2>1. /\ call[c] = NoCall /\ ret[c] # Crash /\ ret'[c] = -1
        /\ UNCHANGED <<link, out, in, call, got, good>>
    BY <1>0, <1>9 DEF MakeHmsetFails, Begin, Shape, wire
  <2>2. ClientOK(c, link[c], out[c], in[c], NoCall, got[c], good[c], -1)
    BY <1>0, <2>1, RedisAssumption DEF Fine, ClientOK
  <2> QED BY <2>1, <2>2 DEF Fine
<1> QED BY <1>1, <1>2, <1>3, <1>4, <1>5, <1>6, <1>7, <1>8, <1>9 DEF Does, Client

LEMMA Inductive == Inv /\ [Next]_vars => Inv'
<1> SUFFICES ASSUME Inv, [Next]_vars PROVE Inv'
  OBVIOUS
<1>1. CASE UNCHANGED vars
  BY <1>1 DEF vars, redis, wire, client, Inv, DbOK, Shape, ClientsOK
<1>2. ASSUME NEW c \in Clients, Does(c) PROVE Inv'
  <2>1. Shape /\ \A b \in Clients : Fine(b)
    BY DEF Inv, ClientsOK, Fine
  <2>2. Shape' /\ DbOK' /\ Only(c)
    BY <1>2, <2>1, ShapeStep, DbStep, OnlyStep
  <2>3. Fine(c)'
    BY <1>2, <2>1, TakeStep, ServeStep, ClientStep
  <2>4. ASSUME NEW b \in Clients PROVE Fine(b)'
    BY <2>1, <2>2, <2>3 DEF Only, Fine
  <2> QED BY <2>2, <2>4 DEF Inv, ClientsOK, Fine
<1> QED BY <1>1, <1>2 DEF Next, Does, Resting

LEMMA Invariance == Spec => []Inv
BY Initially, Inductive, PTL DEF Spec

-----------------------------------------------------------------------------
(* The results.                                                            *)

(* Handles, calls and what they return keep their kinds, a call has read   *)
(* fewer replies than it sent commands, and Redis has done no more of it,  *)
(* for every number of clients and every set of calls (redis_op.c).        *)
THEOREM TypeCorrect == Spec => []TypeOK
<1>1. Inv => TypeOK
  <2> SUFFICES ASSUME Inv PROVE TypeOK
    OBVIOUS
  <2>1. /\ \A n \in Dbs, k \in Keys :
              db[n][k].kind \in {"none", "list", "zset", "hash", "string"}
        /\ number \in [Clients -> Dbs] /\ known \subseteq Clients
        /\ \A c \in Clients : made[c] <= MaxCalls[c]
    BY DEF Inv, DbOK, EntryOK, Shape
  <2>2. link \in [Clients -> {"none", "open", "broken"}]
    BY DEF Inv, Shape
  <2>3. ASSUME NEW c \in Clients
        PROVE  /\ call[c] \in Calls[c] \cup {NoCall}
               /\ ret[c] \in Int \/ ret[c] = Crash
               /\ call[c] # NoCall => /\ got[c] < Len(Sends(call[c]))
                                      /\ good[c] <= Len(Sends(call[c]))
    BY DEF Inv, ClientsOK, ClientOK, InStep, Counted
  <2> QED BY <2>1, <2>2, <2>3 DEF TypeOK
<1> QED BY <1>1, Invariance, PTL

\* Sequences with the same elements at the same places are one.
LEMMA SameSeq ==
    ASSUME NEW s, IsSeq(s), NEW t, IsSeq(t), Len(s) = Len(t),
           \A k \in 1 .. Len(s) : s[k] = t[k]
    PROVE  s = t
<1>1. PICK S : s \in Seq(S) /\ t \in Seq(S)
  <2> DEFINE S == {s[i] : i \in DOMAIN s} \cup {t[i] : i \in DOMAIN t}
  <2>1. s \in Seq(S) /\ t \in Seq(S)
    BY DEF IsSeq
  <2> HIDE DEF S
  <2> QED BY <2>1
<1> QED BY <1>1

(* On a sound connection what is under way is the rest of the call that is *)
(* being made, the replies first, and nothing outside of a call: no        *)
(* function takes the reply to another one's command for its own, however  *)
(* calls fail before (redis_op.c 242-268 and the other batches).           *)
THEOREM InStepAlways == Spec => []RepliesInStep
<1>1. Inv => RepliesInStep
  <2> SUFFICES ASSUME Inv, NEW c \in Clients, link[c] = "open"
               PROVE  [k \in DOMAIN in[c] |-> in[c][k].cmd] \o out[c] =
                          IF call[c] = NoCall THEN << >>
                          ELSE SubSeq(Sends(call[c]), got[c] + 1, Len(Sends(call[c])))
    BY DEF RepliesInStep
  <2>1. PICK i, o, f, g : i = in[c] /\ o = out[c] /\ f = call[c] /\ g = got[c]
    OBVIOUS
  <2>2. PICK h : h = [k \in DOMAIN i |-> i[k].cmd]
    OBVIOUS
  <2>3. /\ LineOK("open", o, i) /\ (f = NoCall => i = << >> /\ o = << >>)
        /\ f # NoCall => InStep(f, "open", o, i, g) /\ f \in Calls[c] /\ f.op \notin Unprotected
    BY <2>1 DEF Inv, ClientsOK, ClientOK
  <2>4. /\ Len(i) \in Nat /\ DOMAIN i = 1 .. Len(i) /\ Len(o) \in Nat
        /\ IsSeq(o) /\ (Len(i) = 0 <=> i = << >>)
    BY <2>3, Lengths DEF LineOK
  <2>5. IsSeq(h) /\ Len(h) = Len(i) /\ \A k \in 1 .. Len(i) : h[k] = i[k].cmd
    <3>1. h \in Seq({h[k] : k \in DOMAIN h}) /\ Len(h) = Len(i)
      BY <2>2, <2>4
    <3> QED BY <2>2, <2>4, <3>1 DEF IsSeq
  <2>6. /\ IsSeq(h \o o) /\ Len(h \o o) = Len(i) + Len(o)
        /\ \A k \in 1 .. Len(i) + Len(o) :
              (h \o o)[k] = IF k <= Len(i) THEN h[k] ELSE o[k - Len(i)]
    <3>1. /\ IsSeq(h \o o) /\ Len(h \o o) = Len(h) + Len(o)
          /\ \A k \in 1 .. Len(h) + Len(o) :
                (h \o o)[k] = IF k <= Len(h) THEN h[k] ELSE o[k - Len(h)]
      BY <2>4, <2>5, ConcatIs
    <3> QED BY <2>5, <3>1
  <2>7. CASE f = NoCall
    <3>1. Len(i) = 0 /\ Len(o) = 0
      BY <2>3, <2>7, EmptyIs
    <3>2. h \o o = << >>
      BY <2>6, <3>1, Lengths
    <3> QED BY <2>1, <2>2, <2>7, <3>2
  <2>8. CASE f # NoCall
    <3>1. PICK n, s : n = Len(Sends(f)) /\ s = SubSeq(Sends(f), g + 1, n)
      OBVIOUS
    <3>2. IsSeq(Sends(f)) /\ n \in Nat /\ g \in Nat /\ g < n /\ g + Len(i) + Len(o) = n
      BY <2>3, <2>8, <3>1, CallsAssumption, Lengths DEF InStep
    <3>3. IsSeq(s) /\ Len(s) = n - g /\ \A k \in 1 .. Len(s) : s[k] = Sends(f)[(g + 1) + k - 1]
      <4>1. PICK u, a : u = Sends(f) /\ a = g + 1 /\ s = SubSeq(u, a, n)
        BY <3>1
      <4>2. /\ IsSeq(u) /\ a \in Nat \ {0} /\ n \in Int /\ n <= Len(u) /\ a <= n
            /\ n - a + 1 = n - g
        BY <3>1, <3>2, <4>1
      <4>3. IsSeq(s) /\ Len(s) = n - g /\ \A k \in 1 .. Len(s) : s[k] = u[a + k - 1]
        BY ONLY <4>1, <4>2, PartIs
      <4> QED BY <4>1, <4>3
    <3>4. Len(s) = Len(h \o o) /\ Len(s) = Len(i) + Len(o)
      BY <2>4, <2>6, <3>2, <3>3
    <3>5. ASSUME NEW k \in 1 .. Len(s) PROVE (h \o o)[k] = s[k]
      <4>0. k \in 1 .. Len(i) + Len(o) /\ (g + 1) + k - 1 = g + k
        BY <2>4, <3>2, <3>4
      <4>1. s[k] = Sends(f)[g + k]
        BY <3>3, <4>0
      <4>2. CASE k <= Len(i)
        <5>1. k \in 1 .. Len(i)
          BY <2>4, <4>0, <4>2
        <5> QED BY <2>3, <2>5, <2>6, <2>8, <4>0, <4>1, <4>2, <5>1 DEF InStep
      <4>3. CASE ~ (k <= Len(i))
        <5>1. k - Len(i) \in 1 .. Len(o) /\ g + Len(i) + (k - Len(i)) = g + k
          BY <2>4, <3>2, <4>0, <4>3
        <5>2. o[k - Len(i)] = Sends(f)[g + Len(i) + (k - Len(i))]
          BY <2>3, <2>8, <5>1 DEF InStep
        <5> QED BY <2>6, <4>0, <4>1, <4>3, <5>1, <5>2
      <4> QED BY <4>2, <4>3
    <3>6. h \o o = s
      BY <2>6, <3>3, <3>4, <3>5, SameSeq
    <3> QED BY <2>1, <2>2, <2>8, <3>1, <3>6
  <2> QED BY <2>7, <2>8
<1> QED BY <1>1, Invariance, PTL

(* Only a connection that fails takes a client down, never an answer, be   *)
(* it an error, nothing, or another type than the function expects.        *)
THEOREM CrashIsCaused == Spec => []CrashHasCause
<1>1. Inv => CrashHasCause
  BY DEF Inv, ClientsOK, ClientOK, CrashHasCause
<1> QED BY <1>1, Invariance, PTL

(* A function that looks at its reply returns -1 exactly when Redis        *)
(* refused its command.                                                    *)
THEOREM ReturnsAreExact == Spec => ReturnIsExact
<1>1. ASSUME Inv, [Next]_vars, NEW c \in Clients, call[c] # NoCall, call'[c] = NoCall,
             call[c].op \in Exact, ret'[c] # Crash
      PROVE  ret'[c] = -1 <=> good[c] = 0
  <2>1. Shape /\ Fine(c)
    BY <1>1 DEF Inv, ClientsOK, Fine
  <2>2. Does(c)
    <3>1. ~ UNCHANGED vars
      BY <1>1 DEF vars, client
    <3>2. PICK b \in Clients : Does(b)
      BY <1>1, <3>1 DEF Next, Does, Resting
    <3>3. b = c
      BY <1>1, <2>1, <3>2, OnlyStep DEF Only
    <3> QED BY <3>2, <3>3
  <2>3. TakeReply(c) \/ GetReplyFails(c)
    <3>1. ~ RopConnectdbNopwd(c) /\ ~ ConnectFails(c) /\ ~ ConnectWithPassword(c) /\ ~ Call(c)
          /\ ~ AppendFails(c) /\ ~ MakeHmsetFails(c) /\ ~ RopDisconnect(c)
      BY <1>1 DEF RopConnectdbNopwd, ConnectFails, ConnectWithPassword, Call, AppendFails,
         MakeHmsetFails, RopDisconnect, Begin
    <3>2. ~ Serve(c) /\ ~ Break(c) /\ ~ Drop(c)
      BY <1>1 DEF Serve, Break, Drop, client
    <3> QED BY <2>2, <3>1, <3>2 DEF Does, Client
  <2>4. CASE TakeReply(c)
    BY <1>1, <2>1, <2>4, TakeStep
  <2>5. ~ GetReplyFails(c)
    <3> SUFFICES ASSUME GetReplyFails(c) PROVE FALSE
      OBVIOUS
    <3>1. PICK f : f = call[c]
      OBVIOUS
    <3>2. f \in Calls[c] /\ f.op \notin Unprotected /\ f.op \in Exact
      BY <1>1, <2>1, <3>1 DEF Fine, ClientOK
    <3>3. ret'[c] \in WithoutReply(c, f)
      BY <2>1, <3>1 DEF GetReplyFails, Leave, Shape
    <3>5. f.op \notin Batches
      BY <3>2 DEF Exact, Batches
    <3>4. Rop(f, NoReply).value = Crash
      BY <3>2, FailedValue
    <3> QED BY <1>1, <3>3, <3>4, <3>5 DEF WithoutReply
  <2> QED BY <2>3, <2>4, <2>5
<1>2. Inv /\ [Next]_vars =>
        [\A c \in Clients :
            /\ call[c] # NoCall /\ call'[c] = NoCall
            /\ call[c].op \in Exact
            /\ ret'[c] # Crash
            => (ret'[c] = -1 <=> good[c] = 0)]_vars
  BY <1>1
<1> QED BY <1>2, Invariance, PTL DEF Spec, ReturnIsExact
==============================================================================
