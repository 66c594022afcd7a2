----------------------------- MODULE RedisRecord -----------------------------
(***************************************************************************)
(* The value of an element of FILE_INFO_LIST: how write_redis (usefull.c)  *)
(* puts six fields together and how get_value_by_redis (data_use.c) takes  *)
(* one out again.  A text is a sequence of characters, of which only the   *)
(* bar tells anything: it is what the delimiter is made of.                *)
(***************************************************************************)
EXTENDS Integers, Sequences, FiniteSetsExt

Bar     == "|"
Delim   == <<Bar, Bar>>         \* REDIS_DILIMIT, and key in the reader
NoUser  == Delim \o Delim       \* key_error: two delimiters with nothing between

\* The numbers get_value_by_redis gives to the fields.
Words == 1 .. 6

\* file_id || url || filename || create time || user || type
Value(f) ==
    f[1] \o Delim \o f[2] \o Delim \o f[3] \o Delim
         \o f[4] \o Delim \o f[5] \o Delim \o f[6]

(***************************************************************************)
(* strstr: the places where key is found in s from place k on, and the     *)
(* first of them.                                                          *)
(***************************************************************************)
Places(s, key, k) ==
    {i \in k .. Len(s) - Len(key) + 1 : SubSeq(s, i, i + Len(key) - 1) = key}

StrStr(s, key, k) == Min(Places(s, key, k))

\* A slip to be caught: the pointer is moved by one character.
Begin_OneBar(s) ==
    LET begin[n \in 0 .. 5] ==
            IF n = 0 THEN 1 ELSE StrStr(s, Delim, begin[n - 1]) + 1
    IN  begin

(***************************************************************************)
(* The loops of get_value_by_redis: Begin(s)[n] is where the reader stands *)
(* after n delimiters.  A value has five, so strstr does not return NULL.  *)
(***************************************************************************)
Begin(s) ==
    LET begin[n \in 0 .. 5] ==
            IF n = 0 THEN 1 ELSE StrStr(s, Delim, begin[n - 1]) + Len(Delim)
    IN  begin

HasMark(s) == Places(s, NoUser, 1) # {}

Mark(s) == StrStr(s, NoUser, 1)

\* A mark is taken to end the fourth field; when it stands before the place
\* where that field begins, the length is negative and strncpy runs off.
Crashes(s) == HasMark(s) /\ Mark(s) < Begin(s)[3]

\* get_value_by_redis, for a value it survives.
Get(s, n) ==
    CASE n \in 1 .. 3 -> SubSeq(s, Begin(s)[n - 1], Begin(s)[n] - Len(Delim) - 1)
      [] n = 4 -> IF HasMark(s) THEN SubSeq(s, Begin(s)[3], Mark(s) - 1)
                  ELSE SubSeq(s, Begin(s)[3], Begin(s)[4] - Len(Delim) - 1)
      [] n = 5 -> IF HasMark(s) THEN << >>
                  ELSE SubSeq(s, Begin(s)[4], Begin(s)[5] - Len(Delim) - 1)
      [] n = 6 -> IF HasMark(s) THEN SubSeq(s, Mark(s) + Len(NoUser), Len(s))
                  ELSE SubSeq(s, Begin(s)[5], Len(s))

(***************************************************************************)
(* What a value can be read back from: no field has a delimiter inside or  *)
(* ends in half of one.                                                    *)
(***************************************************************************)
Plain(t) ==
    /\ Places(t, Delim, 1) = {}
    /\ t # << >> => t[Len(t)] # Bar

Readable(f) == \A n \in Words : Plain(f[n])

\* The fields the reader takes a mark from must not be empty.
Complete(f) == \A n \in 2 .. 4 : f[n] # << >>
==============================================================================
