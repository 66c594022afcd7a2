------------------------ MODULE FileServiceRowsProofs ------------------------
(***************************************************************************)
(* What the rows of a listing show, and what data_cgi ends over, for every *)
(* number of uploads and requests: a listing never shows fewer clicks than *)
(* one before it, a row counts the clicks of its file, and no request but  *)
(* a listing of no rows or of a broken record ends the process.            *)
(***************************************************************************)
EXTENDS FileServiceProofs, RecordProofs

\* No call of the process fails.
NoCallFails == Faults \cap {"malloc", "redis_down", "redis_lost"} = {}

\* Record u can be read back.
IsSound(u) == Complete(Fields[u]) /\ Readable(Fields[u])

Cause ==
    /\ Cmd[req] = "newFile"
    /\ Count[req] <= 0 \/ \E k \in DOMAIN page : ~ IsSound(page[k])

DeathInv == pc = "dead" /\ NoCallFails => Cause

-----------------------------------------------------------------------------
(* The length of the beginning of a sequence.                              *)
LEMMA BeginningLength ==
    ASSUME NEW S, NEW s \in Seq(S), NEW m \in Nat, m <= Len(s)
    PROVE  Len(SubSeq(s, 1, m)) = m
OBVIOUS

(* A listing of one row or more gets no more rows than it asked for, for   *)
(* every fromId, a negative one included (redis_op.c 889-920).             *)
LEMMA PageFits ==
    ASSUME list \in Seq(Uploads), NEW from \in Int, NEW count \in Int, count > 0
    PROVE  Len(RopRangeList(from, from + count - 1)) <= count
<1> DEFINE end == from + count - 1
           a == Max({FromEnd(from), 0}) + 1
           b == Min({FromEnd(end) + 1, Len(list)})
           t == LRange(from, end)
<1>1. PICK l : l \in Nat /\ l = Len(list)
  <2>1. Len(list) \in Nat
    OBVIOUS
  <2> QED BY <2>1
<1>2. PICK e : e \in Int /\ e = end /\ e = from + count - 1
  OBVIOUS
<1>3. PICK p, q : /\ p \in Int /\ q \in Int
                  /\ p = FromEnd(from) /\ q = FromEnd(end)
                  /\ p = (IF from < 0 THEN l + from ELSE from)
                  /\ q = (IF e < 0 THEN l + e ELSE e)
  BY <1>1, <1>2 DEF FromEnd
<1>4. a = (IF p >= 0 THEN p ELSE 0) + 1 /\ b = (IF q + 1 <= l THEN q + 1 ELSE l)
  <2>1. Max({p, 0}) = IF p >= 0 THEN p ELSE 0
    BY <1>3, MaxOfTwo
  <2>2. Min({q + 1, l}) = IF q + 1 <= l THEN q + 1 ELSE l
    <3>1. q + 1 \in Int /\ l \in Int
      BY <1>1, <1>3
    <3> QED BY <3>1, MaxOfTwo
  <2> QED BY <1>1, <1>3, <2>1, <2>2
<1>5. PICK c, d : c \in Nat \ {0} /\ d \in Int /\ c = a /\ d = b /\ d <= l
                  /\ c = (IF p >= 0 THEN p ELSE 0) + 1 /\ d = (IF q + 1 <= l THEN q + 1 ELSE l)
  BY <1>1, <1>3, <1>4
<1>6. t = SubSeq(list, c, d)
  BY <1>5 DEF LRange
<1>7. t \in Seq(Uploads)
  BY <1>1, <1>5, <1>6, PartIsBlock
<1>8. PICK n : n \in Nat /\ n = Len(t) /\ n = (IF c <= d THEN d - c + 1 ELSE 0)
  <2>1. \A i \in c .. d : list[i] \in Uploads
    BY <1>1, <1>5
  <2>2. Len(SubSeq(list, c, d)) = IF c <= d THEN d - c + 1 ELSE 0
    BY <1>5, <2>1, SubSeqProperties
  <2> QED BY <1>5, <1>6, <2>2
<1> HIDE DEF end, a, b, t
<1>9. /\ l \in Nat /\ count \in Int /\ count > 0 /\ from \in Int
      /\ e \in Int /\ e = from + count - 1 /\ p \in Int /\ q \in Int
      /\ p = (IF from < 0 THEN l + from ELSE from)
      /\ q = (IF e < 0 THEN l + e ELSE e)
      /\ c \in Nat \ {0} /\ d \in Int /\ n \in Nat
      /\ c = (IF p >= 0 THEN p ELSE 0) + 1 /\ d = (IF q + 1 <= l THEN q + 1 ELSE l)
      /\ n = (IF c <= d THEN d - c + 1 ELSE 0)
  BY <1>1, <1>2, <1>3, <1>5, <1>8
<1>10. CASE e < 0
  <2>1. RopRangeList(from, end) = t
    BY <1>2, <1>10, Zenon DEF RopRangeList, t
  <2>2. n <= count
    BY ONLY <1>9, <1>10
  <2> QED BY <1>8, <2>1, <2>2 DEF end
<1>11. CASE ~ (e < 0)
  <2>1. RopRangeList(from, end) = SubSeq(t, 1, Min({Len(t), end}))
    BY <1>2, <1>11, Zenon DEF RopRangeList, t
  <2>2. Min({n, e}) = IF n <= e THEN n ELSE e
    <3>1. n \in Int
      BY <1>9
    <3> QED BY <1>2, <3>1, MaxOfTwo
  <2>3. e \in Nat
    BY ONLY <1>9, <1>11
  <2>4. PICK m : m \in Nat /\ m = Min({Len(t), end}) /\ m = IF n <= e THEN n ELSE e
    <3>1. (IF n <= e THEN n ELSE e) \in Nat
      BY <1>8, <2>3
    <3>2. Min({Len(t), end}) = Min({n, e})
      BY <1>2, <1>8
    <3> QED BY <2>2, <3>1, <3>2
  <2>5. m <= n /\ m <= count
    BY ONLY <1>9, <1>11, <2>4
  <2>6. Len(SubSeq(t, 1, m)) = m
    <3>1. 1 \in Nat \ {0} /\ m \in Nat /\ m \in Int /\ m <= Len(t)
      BY <1>8, <2>4, <2>5
    <3> QED BY <1>7, <3>1, BeginningLength
  <2> QED BY <2>1, <2>4, <2>5, <2>6 DEF end
<1> QED BY <1>10, <1>11

-----------------------------------------------------------------------------
(* What data_cgi ends over.                                                *)

\* The element the next row is made of is a file that was uploaded.
LEMMA CurrentIsUpload ==
    ASSUME ServiceAssumption, TypeInv, pc \in {"row", "score"}
    PROVE  /\ Len(rows) + 1 \in DOMAIN page /\ Current \in Uploads
           /\ Fields[Current] \in Records
<1>1. Len(rows) < Len(page) /\ page \in Seq(Uploads) /\ rows \in Seq([id : RowIds, pv : Int])
  BY DEF TypeInv, TypeOK, RowsToGo
<1>2. Len(rows) + 1 \in DOMAIN page
  BY <1>1
<1>3. Current \in Uploads
  BY <1>1, <1>2 DEF Current
<1> QED BY <1>2, <1>3 DEF ServiceAssumption

LEMMA MoreElements ==
    ASSUME NEW S, NEW T, S \subseteq T, NEW s \in Seq(S) PROVE s \in Seq(T)
OBVIOUS

\* The reader survives a record that can be read back.
LEMMA SoundSurvives ==
    ASSUME ServiceAssumption, TypeInv, pc = "row", IsSound(Current)
    PROVE  Survives
<1> DEFINE S == STRING \cup {Bar}
<1>1. Fields[Current] \in [Words -> Seq(S)]
  <2>1. ASSUME NEW t \in Seq(STRING) PROVE t \in Seq(S)
    BY MoreElements
  <2>2. Fields[Current] \in [Words -> Seq(STRING)]
    BY CurrentIsUpload DEF Records
  <2> HIDE DEF S
  <2> QED BY <2>1, <2>2
<1>2. Readable(Fields[Current]) /\ Complete(Fields[Current])
  BY DEF IsSound
<1>3. ASSUME NEW T, Bar \in T, NEW f, f \in [Words -> Seq(T)], Readable(f), Complete(f)
      PROVE  ~ Crashes(Value(f))
  BY <1>3, ReaderSurvives, Zenon
<1>4. Bar \in S
  OBVIOUS
<1> HIDE DEF S
<1>5. ~ Crashes(Value(Fields[Current]))
  BY <1>1, <1>2, <1>3, <1>4
<1> QED BY <1>5 DEF Survives, Fatal

\* A request that was accepted does not end the process at once.
LEMMA CommandOfAccept == ASSUME ServiceAssumption, Accept PROVE pc' # "dead"
<1>1. PICK r \in Requests : Goto(CASE Cmd[r] = "newFile"  -> "connect"
                                  [] Cmd[r] = "increase" -> "decode"
                                  [] Cmd[r] = "other"    -> "reply")
  BY DEF Accept
<1> QED BY <1>1 DEF ServiceAssumption, Goto

LEMMA DeathStep ==
    ASSUME ServiceAssumption, TypeInv, CommandFits, DeathInv, [Next]_vars
    PROVE  DeathInv'
<1> SUFFICES ASSUME pc' = "dead", NoCallFails PROVE Cause'
  BY DEF DeathInv, NoCallFails
<1> USE DEF worker, upload, redis, client
<1>1. ~ Fault("malloc") /\ ~ Fault("redis_down") /\ ~ Fault("redis_lost")
  BY DEF Fault, NoCallFails
<1>2. CASE Push \/ Point \/ UploadDies \/ UNCHANGED vars
  <2>1. pc' = pc /\ req' = req /\ page' = page
    BY <1>2 DEF Push, Point, UploadDies, vars
  <2> QED BY <2>1 DEF DeathInv, Cause, IsSound
<1>3. CASE RangeList
  <2>1. /\ req \in Requests /\ From[req] \in Int /\ Count[req] \in Int
        /\ Cmd[req] = "newFile" /\ list \in Seq(Uploads)
    BY <1>3 DEF RangeList, TypeInv, TypeOK, Serves, ServiceAssumption, CommandFits
  <2>2. page' = RopRangeList(From[req], From[req] + Count[req] - 1) /\ req' = req
    BY <1>3 DEF RangeList, EndId
  <2>3. Len(page') > Count[req]
    BY <1>3 DEF RangeList, Goto
  <2>4. ~ (Count[req] > 0)
    <3> SUFFICES ASSUME Count[req] > 0 PROVE FALSE
      OBVIOUS
    <3>1. Len(page') <= Count[req]
      BY <2>1, <2>2, PageFits
    <3>2. Len(page') \in Nat
      BY <2>1, <2>2, RangeIsBlock
    <3> QED BY <2>1, <2>3, <3>1, <3>2
  <2>5. Count[req] <= 0
    BY <2>1, <2>4
  <2> QED BY <2>1, <2>2, <2>5 DEF Cause
<1>4. CASE ReadRowCrashes
  <2>1. pc = "row" /\ ~ Survives /\ req' = req /\ page' = page
    BY <1>4 DEF ReadRowCrashes, Die
  <2>2. ~ IsSound(Current)
    BY <2>1, SoundSurvives
  <2>3. Len(rows) + 1 \in DOMAIN page /\ Cmd[req] = "newFile"
    BY <2>1, CurrentIsUpload DEF CommandFits
  <2> QED BY <2>1, <2>2, <2>3 DEF Cause, Current
<1>5. ~ (ConnectFails \/ RangeLost \/ ZScoreLost \/ DecodeFails \/ ZIncrLost)
  BY <1>1 DEF ConnectFails, RangeLost, ZScoreLost, DecodeFails, ZIncrLost
<1>6. ~ (Accept \/ Reply \/ Connect \/ RangeError \/ ReadRow \/ ZScore \/ Decode
         \/ ClickConnect \/ ZIncr \/ Restart)
  <2>1. ~ Accept
    BY CommandOfAccept
  <2>2. ~ (Reply \/ Connect \/ RangeError \/ ReadRow \/ Decode \/ ClickConnect \/ ZIncr \/ Restart)
    BY DEF Reply, Connect, RangeError, ReadRow, Decode, ClickConnect, ZIncr, Restart, Goto
  <2>3. ~ ZScore
    BY DEF ZScore, AddRow, Goto
  <2> QED BY <2>1, <2>2, <2>3
<1> QED BY <1>2, <1>3, <1>4, <1>5, <1>6 DEF Next, DataCgi, Listing, Clicking, Resting

(* Unless a call fails, data_cgi ends only on a listing of no rows that    *)
(* LRANGE answers with some, or on a record that lacks its url, name or    *)
(* time (data_use.c 76-88, 165, 196), for every list and every fromId.     *)
THEOREM DeathIsCaused == Spec => []DeathHasCause
<1>1. Init => DeathInv
  BY DEF Init, DeathInv
<1>2. Init => CommandFits
  BY DEF Init, CommandFits, AtClick
<1>3. TypeInv /\ CommandFits /\ [Next]_vars => CommandFits'
  BY CommandStep, ServiceAssumption
<1>4. TypeInv /\ CommandFits /\ DeathInv /\ [Next]_vars => DeathInv'
  BY DeathStep, ServiceAssumption
<1>5. DeathInv => DeathHasCause
  BY DEF DeathInv, DeathHasCause, NoCallFails, Cause, IsSound
<1>6. Spec => []TypeInv
  BY ServiceInvariant, PTL DEF ServiceInv
<1> QED BY <1>1, <1>2, <1>3, <1>4, <1>5, <1>6, PTL DEF Spec

-----------------------------------------------------------------------------
(* What a client sees of a file's clicks never falls.  Every row is within *)
(* the score of its file, scores only rise, and the rows in progress are   *)
(* not below those that were sent when their request was accepted.         *)

WithinScores(s) == \A j \in DOMAIN s : s[j].pv \in Int /\ s[j].pv <= Score(s[j].id) - 1

NoFewer(s, t) ==
    \A j \in DOMAIN s, k \in DOMAIN t : s[j].id = t[k].id => s[j].pv <= t[k].pv

SentWithin == \A r \in Requests : shown[r] # NoPage => WithinScores(shown[r])

SentNotAbove == \A r \in Requests : shown[r] # NoPage => NoFewer(shown[r], rows)

RowsRise ==
    ~ Fault("redis_error") =>
        /\ WithinScores(rows)
        /\ SentWithin
        /\ pc # "accept" => SentNotAbove

(* Scores only rise.                                                       *)
LEMMA ScoresRise ==
    ASSUME ServiceAssumption, TypeInv, [Next]_vars, NEW id
    PROVE  Score(id) \in Int /\ Score(id)' \in Int /\ Score(id) <= Score(id)'
<1>1. hot \in [Ids \cup {Garbage} -> Nat]
  BY DEF TypeInv, TypeOK
<1>2. hot' = hot \/ \E m \in Ids \cup {Garbage} : hot' = [hot EXCEPT ![m] = @ + 1]
  <2> USE DEF redis
  <2>1. CASE Point
    BY <2>1 DEF Point, TypeInv, TypeOK, IdOf, Ids
  <2>2. CASE ZIncr \/ ZIncrLost
    BY <2>2 DEF ZIncr, ZIncrLost, TypeInv, TypeOK
  <2>3. CASE Push \/ UploadDies \/ Accept \/ Reply \/ Restart \/ UNCHANGED vars
    BY <2>3 DEF Push, UploadDies, Accept, Reply, Restart, vars
  <2>4. CASE Listing
    BY <2>4 DEF Listing, Connect, ConnectFails, RangeList, RangeError, RangeLost, ReadRow,
       ReadRowCrashes, ZScore, ZScoreLost, AddRow
  <2>5. CASE Decode \/ DecodeFails \/ ClickConnect
    BY <2>5 DEF Decode, DecodeFails, ClickConnect
  <2> QED BY <2>1, <2>2, <2>3, <2>4, <2>5 DEF Next, DataCgi, Clicking, Resting
<1>3. DOMAIN hot' = DOMAIN hot
      /\ \A m \in DOMAIN hot : hot[m] \in Nat /\ hot'[m] \in Nat /\ hot[m] <= hot'[m]
  <2>1. CASE hot' = hot
    BY <1>1, <2>1
  <2>2. CASE \E m \in Ids \cup {Garbage} : hot' = [hot EXCEPT ![m] = @ + 1]
    BY <1>1, <2>2
  <2> QED BY <1>2, <2>1, <2>2
<1>4. CASE id \in DOMAIN hot
  <2>1. PICK a, b : a \in Nat /\ b \in Nat /\ a <= b /\ a = hot[id] /\ b = hot'[id]
    BY <1>3, <1>4
  <2> QED BY <1>3, <1>4, <2>1 DEF Score
<1>5. CASE id \notin DOMAIN hot
  BY <1>3, <1>5 DEF Score
<1> QED BY <1>4, <1>5

LEMMA StillWithin ==
    ASSUME ServiceAssumption, TypeInv, [Next]_vars, NEW s, WithinScores(s)
    PROVE  \A j \in DOMAIN s : s[j].pv \in Int /\ s[j].pv <= Score(s[j].id)' - 1
<1> SUFFICES ASSUME NEW j \in DOMAIN s
             PROVE  s[j].pv \in Int /\ s[j].pv <= Score(s[j].id)' - 1
  OBVIOUS
<1>1. PICK id, pv : id = s[j].id /\ pv = s[j].pv
  OBVIOUS
<1>2. pv \in Int /\ pv <= Score(id) - 1
  BY <1>1 DEF WithinScores
<1>3. Score(id) \in Int /\ Score(id)' \in Int /\ Score(id) <= Score(id)'
  BY ScoresRise
<1>4. pv <= Score(id)' - 1
  <2>1. PICK a, b : a = Score(id) /\ b = Score(id)' /\ a \in Int /\ b \in Int /\ a <= b
                    /\ pv \in Int /\ pv <= a - 1
    BY <1>2, <1>3
  <2> QED BY ONLY <2>1
<1> QED BY <1>1, <1>2, <1>4

(* The rows change only by a row that shows the score of its file, or are  *)
(* thrown away.                                                            *)
LEMMA RowsChange ==
    ASSUME ServiceAssumption, TypeInv, ~ Fault("redis_error"), [Next]_vars
    PROVE  \/ rows' = rows
           \/ rows' = << >>
           \/ /\ pc = "score" /\ pc' # "accept" /\ shown' = shown
              /\ rows' = Append(rows, Row(Score(Element[1])))
<1> USE DEF worker, client
<1>1. CASE ZScore
  BY <1>1 DEF ZScore, AddRow, Goto
<1>2. CASE Listing /\ ~ ZScore
  BY <1>2 DEF Listing, Connect, ConnectFails, RangeList, RangeError, RangeLost, ReadRow,
     ReadRowCrashes, ZScoreLost, Die
<1>3. CASE Clicking
  BY <1>3 DEF Clicking, Decode, DecodeFails, ClickConnect, ZIncr, ZIncrLost, Die
<1>4. CASE Push \/ Point \/ UploadDies \/ Accept \/ Reply \/ Restart \/ UNCHANGED vars
  BY <1>4 DEF Push, Point, UploadDies, Accept, Reply, Restart, vars
<1> QED BY <1>1, <1>2, <1>3, <1>4 DEF Next, DataCgi, Resting

(* Only an answer shows rows, and they are the rows that were made.        *)
LEMMA ShownChange ==
    ASSUME ServiceAssumption, TypeInv, [Next]_vars
    PROVE  \/ shown' = shown
           \/ /\ pc = "reply" /\ pc' = "accept" /\ rows' = rows /\ req \in Requests
              /\ shown' = [shown EXCEPT ![req] = rows]
<1> USE DEF client
<1>1. CASE Reply
  BY <1>1 DEF Reply, Goto, TypeInv, Serves
<1>2. CASE Listing
  BY <1>2 DEF Listing, Connect, ConnectFails, RangeList, RangeError, RangeLost, ReadRow,
     ReadRowCrashes, ZScore, ZScoreLost, AddRow, Die
<1>3. CASE Clicking
  BY <1>3 DEF Clicking, Decode, DecodeFails, ClickConnect, ZIncr, ZIncrLost, Die
<1>4. CASE Push \/ Point \/ UploadDies \/ Accept \/ Restart \/ UNCHANGED vars
  BY <1>4 DEF Push, Point, UploadDies, Accept, Restart, vars
<1> QED BY <1>1, <1>2, <1>3, <1>4 DEF Next, DataCgi, Resting

(* A request begins without rows.                                          *)
LEMMA FreshRows ==
    ASSUME [Next]_vars, pc = "accept", pc' # "accept" PROVE rows' = << >>
<1> USE DEF worker
<1>1. CASE Accept
  BY <1>1 DEF Accept
<1>2. ~ (Listing \/ Clicking \/ Reply)
  BY DEF Listing, Connect, ConnectFails, RangeList, RangeError, RangeLost, ReadRow,
     ReadRowCrashes, ZScore, ZScoreLost, Clicking, Decode, DecodeFails, ClickConnect,
     ZIncr, ZIncrLost, Reply
<1>3. CASE Push \/ Point \/ UploadDies \/ Restart \/ UNCHANGED vars
  BY <1>3 DEF Push, Point, UploadDies, Restart, Goto, vars
<1> QED BY <1>1, <1>2, <1>3 DEF Next, DataCgi, Resting

(* The elements of a sequence with one more at its end.                    *)
LEMMA Appended ==
    ASSUME NEW S, NEW s \in Seq(S), NEW e \in S
    PROVE  \A k \in DOMAIN Append(s, e) :
              (k \in DOMAIN s /\ Append(s, e)[k] = s[k]) \/ Append(s, e)[k] = e
OBVIOUS

\* The row that is added shows the score that was read.
LEMMA AddedRow ==
    ASSUME ServiceAssumption, TypeInv, pc = "score"
    PROVE  /\ Row(Score(Element[1])) \in [id : RowIds, pv : Int]
           /\ Row(Score(Element[1])).pv = Score(Row(Score(Element[1])).id) - 1
           /\ rows \in Seq([id : RowIds, pv : Int])
<1>1. Score(Element[1]) \in Int
  BY DEF Score, TypeInv, TypeOK
<1>2. Element[1] \in RowIds
  BY CurrentIsUpload DEF Element, RowIds
<1>3. Score(Element[1]) - 1 \in Int
  BY <1>1
<1> QED BY <1>1, <1>2, <1>3 DEF Row, TypeInv

LEMMA RowsRiseStep ==
    ASSUME ServiceAssumption, TypeInv, RowsRise, [Next]_vars PROVE RowsRise'
<1> SUFFICES ASSUME ~ Fault("redis_error")
             PROVE  WithinScores(rows)' /\ SentWithin' /\ (pc' # "accept" => SentNotAbove')
  BY DEF RowsRise, Fault
<1>1. WithinScores(rows) /\ SentWithin /\ (pc # "accept" => SentNotAbove)
  BY DEF RowsRise
<1>2. ASSUME NEW s, WithinScores(s)
      PROVE  \A j \in DOMAIN s : s[j].pv \in Int /\ s[j].pv <= Score(s[j].id)' - 1
  BY <1>2, StillWithin
<1>3. WithinScores(rows)'
  <2>1. CASE rows' = rows
    BY <1>1, <1>2, <2>1 DEF WithinScores
  <2>2. CASE rows' = << >>
    BY <2>2 DEF WithinScores
  <2>3. CASE pc = "score" /\ rows' = Append(rows, Row(Score(Element[1])))
    <3>0. PICK row : row = Row(Score(Element[1]))
      OBVIOUS
    <3>1. row.pv \in Int /\ row.pv <= Score(row.id)' - 1
      <4>1. row.pv = Score(row.id) - 1
        BY <2>3, <3>0, AddedRow
      <4>2. Score(row.id) \in Int /\ Score(row.id)' \in Int /\ Score(row.id) <= Score(row.id)'
        BY ScoresRise
      <4>3. PICK a, b, pv : a = Score(row.id) /\ b = Score(row.id)' /\ pv = row.pv
                            /\ a \in Int /\ b \in Int /\ a <= b /\ pv = a - 1
        BY <4>1, <4>2
      <4>4. pv \in Int /\ pv <= b - 1
        BY ONLY <4>3
      <4> QED BY <4>3, <4>4
    <3>2. \A k \in DOMAIN rows' : (k \in DOMAIN rows /\ rows'[k] = rows[k]) \/ rows'[k] = row
      BY <2>3, <3>0, AddedRow, Appended
    <3> QED BY <1>1, <1>2, <3>1, <3>2 DEF WithinScores
  <2> QED BY <2>1, <2>2, <2>3, RowsChange
<1>4. SentWithin'
  <2>1. CASE shown' = shown
    BY <1>1, <1>2, <2>1 DEF SentWithin, WithinScores
  <2>2. CASE req \in Requests /\ rows' = rows /\ shown' = [shown EXCEPT ![req] = rows]
    <3>1. \A r \in Requests : shown'[r] = IF r = req THEN rows ELSE shown[r]
      BY <2>2 DEF TypeInv, TypeOK
    <3>2. \A r \in Requests : shown'[r] # NoPage => WithinScores(shown'[r])
      BY <1>1, <3>1 DEF SentWithin
    <3> QED BY <1>2, <3>2 DEF SentWithin, WithinScores
  <2> QED BY <2>1, <2>2, ShownChange
<1>5. ASSUME pc' # "accept" PROVE SentNotAbove'
  <2>1. shown' = shown
    BY <1>5, ShownChange
  <2>2. CASE rows' = << >>
    BY <2>2 DEF SentNotAbove, NoFewer
  <2>3. CASE rows' = rows /\ pc # "accept"
    BY <1>1, <2>1, <2>3 DEF SentNotAbove
  <2>4. CASE pc = "score" /\ rows' = Append(rows, Row(Score(Element[1])))
    <3> DEFINE row == Row(Score(Element[1]))
    <3> SUFFICES ASSUME NEW r \in Requests, shown[r] # NoPage,
                        NEW j \in DOMAIN shown[r], NEW k \in DOMAIN rows',
                        shown[r][j].id = rows'[k].id
                 PROVE  shown[r][j].pv <= rows'[k].pv
      BY <2>1 DEF SentNotAbove, NoFewer
    <3>1. (k \in DOMAIN rows /\ rows'[k] = rows[k]) \/ rows'[k] = row
      BY <2>4, AddedRow, Appended
    <3>2. CASE k \in DOMAIN rows /\ rows'[k] = rows[k]
      BY <1>1, <2>4, <3>2 DEF SentNotAbove, NoFewer
    <3>3. CASE rows'[k] = row
      <4>1. shown[r][j].pv <= Score(shown[r][j].id) - 1
        BY <1>1 DEF SentWithin, WithinScores
      <4>2. row.pv = Score(row.id) - 1
        BY <2>4, AddedRow
      <4> QED BY <3>3, <4>1, <4>2
    <3> QED BY <3>1, <3>2, <3>3
  <2> QED BY <1>5, <2>2, <2>3, <2>4, RowsChange, FreshRows
<1> QED BY <1>3, <1>4, <1>5

(* Of two pages that are sent one after the other the later one never      *)
(* shows fewer clicks of a file, whatever is uploaded, clicked, lost and   *)
(* restarted between them, unless Redis answers ZSCORE with an error       *)
(* (read_redis_to_json, data_use.c 198-272).                               *)
THEOREM PagesNeverFall == Spec => PvNeverFalls
<1>1. Init => RowsRise
  BY DEF Init, RowsRise, WithinScores, SentWithin, SentNotAbove
<1>2. TypeInv /\ RowsRise /\ [Next]_vars => RowsRise'
  BY RowsRiseStep, ServiceAssumption
<1>3. ASSUME TypeInv, RowsRise, [Next]_vars,
             NEW r1 \in Requests, NEW r2 \in Requests,
             shown[r1] # NoPage, shown[r2] = NoPage, shown'[r2] # NoPage,
             ~ Fault("redis_error"),
             NEW j \in DOMAIN shown[r1], NEW k \in DOMAIN shown'[r2],
             shown[r1][j].id = shown'[r2][k].id
      PROVE  shown[r1][j].pv <= shown'[r2][k].pv
  <2>1. pc = "reply" /\ shown' = [shown EXCEPT ![req] = rows]
    BY <1>3, ShownChange, ServiceAssumption
  <2>2. shown'[r2] = rows
    BY <1>3, <2>1 DEF TypeInv, TypeOK
  <2>3. NoFewer(shown[r1], rows)
    BY <1>3, <2>1 DEF RowsRise, SentNotAbove
  <2> QED BY <1>3, <2>2, <2>3 DEF NoFewer
<1>4. TypeInv /\ RowsRise /\ [Next]_vars =>
        [\A r1, r2 \in Requests :
            /\ shown[r1] # NoPage
            /\ shown[r2] = NoPage /\ shown'[r2] # NoPage
            /\ ~ Fault("redis_error")
            => \A j \in DOMAIN shown[r1], k \in DOMAIN shown'[r2] :
                  shown[r1][j].id = shown'[r2][k].id =>
                      shown[r1][j].pv <= shown'[r2][k].pv]_vars
  BY <1>3
<1>5. Spec => []TypeInv
  BY ServiceInvariant, PTL DEF ServiceInv
<1> QED BY <1>1, <1>2, <1>4, <1>5, PTL DEF Spec, PvNeverFalls

-----------------------------------------------------------------------------
(* A row counts the clicks of its file.  A score and the points somebody   *)
(* owes it are no more than the clicks that were sent and the one upload.  *)

\* FastDFS gives every file an id of its own.
OwnIds == \A u, v \in Uploads : IdOf(u) = IdOf(v) => u = v

Asked(id) ==
    {r \in Requests : /\ Cmd[r] = "increase" /\ Clicked[r] = id
                      /\ outcome[r] \in {"serving", "answered", "closed"}}

Recorded(id) == IF \E u \in Uploads \ todo : IdOf(u) = id THEN 1 ELSE 0

AskedOnce ==
    \A id \in Ids :
        /\ IsFiniteSet(Asked(id))
        /\ hot[id] + Owed[id] <= Cardinality(Asked(id)) + Recorded(id)

\* A click has no rows.
ClickRows ==
    pc \in AtClick \/ (pc = "reply" /\ Cmd[req] = "increase") => rows = << >>

(* A score and what is owed to it rise together only when somebody asks.   *)
LEMMA OwedRises ==
    ASSUME ServiceAssumption, TypeInv, [Next]_vars, NEW id \in Ids
    PROVE  /\ hot[id] \in Nat /\ Owed[id] \in Nat /\ hot'[id] \in Nat /\ Owed'[id] \in Nat
           /\ \/ hot'[id] + Owed'[id] <= hot[id] + Owed[id]
              \/ Owed'[id] = Owed[id] + 1 /\ hot'[id] = hot[id]
<1>1. [Counter!Next]_(Counter!vars)
  BY CounterStep
<1>2. /\ hot[id] \in Nat /\ hot'[id] \in Nat
      /\ OwedByUpload(id) \in {0, 1} /\ OwedByUpload(id)' \in {0, 1}
      /\ OwedByClick(id) \in {0, 1} /\ OwedByClick(id)' \in {0, 1}
  BY TypeStep DEF TypeInv, TypeOK, OwedByUpload, OwedByClick
<1>3. Owed[id] \in Nat /\ Owed'[id] \in Nat
  BY <1>2 DEF Owed
<1>4. \/ Points' = Points /\ Owed' = Owed
      \/ \E f \in Ids :
            \/ Points' = Points /\ Owed' = [Owed EXCEPT ![f] = @ + 1]
            \/ /\ Owed' = [Owed EXCEPT ![f] = @ - 1]
               /\ Points' = [Points EXCEPT ![f] = @ + 1] \/ Points' = Points
  BY <1>1 DEF Counter!Next, Counter!vars, Counter!Ask, Counter!Tally, Counter!Forget,
     Points, Owed
<1>5. /\ Points = [i \in Ids |-> hot[i]] /\ Points' = [i \in Ids |-> hot'[i]]
      /\ DOMAIN Owed = Ids
  BY DEF Points, Owed
<1>6. PICK h, o, h1, o1 : /\ h = hot[id] /\ o = Owed[id] /\ h1 = hot'[id] /\ o1 = Owed'[id]
                          /\ h \in Nat /\ o \in Nat /\ h1 \in Nat /\ o1 \in Nat
  BY <1>2, <1>3
<1>7. \/ h1 = h /\ o1 = o
      \/ h1 = h /\ o1 = o + 1
      \/ (h1 = h + 1 \/ h1 = h) /\ o1 = o - 1
  <2> HIDE DEF Points, Owed
  <2> QED BY <1>4, <1>5, <1>6
<1> QED BY <1>6, <1>7

(* Who asks for a point: the upload worker for the file it lists, or the   *)
(* click that is accepted.                                                 *)
LEMMA WhoAsks ==
    ASSUME ServiceAssumption, TypeInv, [Next]_vars, NEW id \in Ids, Owed'[id] = Owed[id] + 1
    PROVE  \/ /\ \E u \in todo : todo' = todo \ {u} /\ IdOf(u) = id
              /\ outcome' = outcome
           \/ \E r \in Requests :
                 /\ Cmd[r] = "increase" /\ Clicked[r] = id /\ outcome[r] = "queued"
                 /\ outcome' = [outcome EXCEPT ![r] = "serving"]
                 /\ todo' = todo
<1> USE DEF worker, client, upload
<1>1. /\ OwedByUpload(id) \in {0, 1} /\ OwedByUpload(id)' \in {0, 1}
      /\ OwedByClick(id) \in {0, 1} /\ OwedByClick(id)' \in {0, 1}
  BY DEF OwedByUpload, OwedByClick
<1>2. \/ OwedByUpload(id) = 0 /\ OwedByUpload(id)' = 1
      \/ OwedByClick(id) = 0 /\ OwedByClick(id)' = 1
  BY <1>1 DEF Owed
<1>3. CASE OwedByUpload(id) = 0 /\ OwedByUpload(id)' = 1
  <2>1. cur' # cur /\ cur' \in Uploads /\ IdOf(cur') = id
    BY <1>3 DEF OwedByUpload, IdOf
  <2>2. Push
    BY <2>1, ServiceAssumption DEF Next, DataCgi, Listing, Clicking, Resting, Point,
       UploadDies, Accept, Reply, Connect, ConnectFails, RangeList, RangeError, RangeLost,
       ReadRow, ReadRowCrashes, ZScore, ZScoreLost, AddRow, Decode, DecodeFails,
       ClickConnect, ZIncr, ZIncrLost, Die, Restart, vars, ServiceAssumption
  <2> QED BY <2>1, <2>2 DEF Push
<1>4. CASE OwedByClick(id) = 0 /\ OwedByClick(id)' = 1
  <2>1. pc' \in AtClick /\ Clicked[req'] = id /\ (pc \in AtClick => req' # req)
    BY <1>4 DEF OwedByClick, AtClick
  <2>2. Accept
    BY <2>1 DEF Next, DataCgi, Listing, Clicking, Resting, Push, Point,
       UploadDies, Reply, Connect, ConnectFails, RangeList, RangeError, RangeLost,
       ReadRow, ReadRowCrashes, ZScore, ZScoreLost, AddRow, Decode, DecodeFails,
       ClickConnect, ZIncr, ZIncrLost, Die, Restart, vars, AtClick, Goto
  <2>3. PICK r \in Requests :
           /\ outcome[r] = "queued"
           /\ outcome' = [outcome EXCEPT ![r] = "serving"]
           /\ req' = r
           /\ Goto(CASE Cmd[r] = "newFile"  -> "connect"
                     [] Cmd[r] = "increase" -> "decode"
                     [] Cmd[r] = "other"    -> "reply")
    BY <2>2 DEF Accept
  <2>4. Cmd[r] = "increase"
    BY <2>1, <2>3 DEF Goto, AtClick, ServiceAssumption
  <2> QED BY <2>1, <2>2, <2>3, <2>4 DEF Accept
<1> QED BY <1>2, <1>3, <1>4

(* A click that was sent stays one that was sent.                          *)
LEMMA AskedGrows ==
    ASSUME ServiceAssumption, TypeInv, CommandFits, [Next]_vars
    PROVE  \/ \A r \in Requests : outcome'[r] = "queued" <=> outcome[r] = "queued"
           \/ \E r \in Requests : /\ outcome[r] = "queued"
                                  /\ outcome' = [outcome EXCEPT ![r] = "serving"]
                                  /\ todo' = todo /\ rows' = << >>
<1> USE DEF client, worker, upload
<1>1. CASE Accept
  BY <1>1 DEF Accept
<1>2. ASSUME pc \notin {"accept", "dead"}, NEW o \in {"answered", "closed"},
             outcome' = [outcome EXCEPT ![req] = o]
      PROVE  \A r \in Requests : outcome'[r] = "queued" <=> outcome[r] = "queued"
  <2>1. req \in Requests /\ outcome[req] = "serving"
    BY <1>2 DEF CommandFits, TypeInv, Serves
  <2>2. \A r \in Requests : outcome'[r] = IF r = req THEN o ELSE outcome[r]
    BY <1>2, <2>1 DEF TypeInv, TypeOK
  <2> QED BY <2>1, <2>2
<1>3. CASE Push \/ Point \/ UploadDies \/ UNCHANGED vars
  BY <1>3 DEF Push, Point, UploadDies, vars
<1>4. CASE Listing
  <2>1. outcome' = outcome \/ (pc \notin {"accept", "dead"}
                               /\ outcome' = [outcome EXCEPT ![req] = "closed"])
    BY <1>4 DEF Listing, Connect, ConnectFails, RangeList, RangeError, RangeLost,
       ReadRow, ReadRowCrashes, ZScore, ZScoreLost, AddRow, Die
  <2> QED BY <1>2, <2>1
<1>5. CASE Clicking
  <2>1. outcome' = outcome \/ (pc \notin {"accept", "dead"}
                               /\ outcome' = [outcome EXCEPT ![req] = "closed"])
    BY <1>5 DEF Clicking, Decode, DecodeFails, ClickConnect, ZIncr, ZIncrLost, Die
  <2> QED BY <1>2, <2>1
<1>6. CASE Reply
  BY <1>2, <1>6 DEF Reply
<1>7. CASE Restart
  BY <1>7 DEF Restart
<1> QED BY <1>1, <1>3, <1>4, <1>5, <1>6, <1>7 DEF Next, DataCgi, Resting

\* Asked is the set Sent counts, and those that are no longer queued.
LEMMA AskedIsSent ==
    ASSUME TypeInv, NEW id
    PROVE  /\ Sent(id) = Cardinality(Asked(id))
           /\ Asked(id) = {r \in Requests : Cmd[r] = "increase" /\ Clicked[r] = id
                                            /\ outcome[r] # "queued"}
BY DEF Sent, Clicks, Asked, TypeInv, TypeOK

LEMMA AskedChange ==
    ASSUME ServiceAssumption, TypeInv, CommandFits, [Next]_vars, NEW id,
           Asked(id)' # Asked(id)
    PROVE  \E r \in Requests : /\ Cmd[r] = "increase" /\ Clicked[r] = id
                               /\ outcome[r] = "queued"
                               /\ outcome' = [outcome EXCEPT ![r] = "serving"]
                               /\ todo' = todo /\ rows' = << >>
<1>1. CASE \A r \in Requests : outcome'[r] = "queued" <=> outcome[r] = "queued"
  <2>1. Asked(id)' = {r \in Requests : Cmd[r] = "increase" /\ Clicked[r] = id
                                       /\ outcome'[r] # "queued"}
    BY TypeStep DEF Asked, TypeInv, TypeOK
  <2> QED BY <1>1, <2>1, AskedIsSent
<1>2. ASSUME NEW r \in Requests, outcome[r] = "queued",
             outcome' = [outcome EXCEPT ![r] = "serving"],
             ~ (Cmd[r] = "increase" /\ Clicked[r] = id)
      PROVE  FALSE
  BY <1>2 DEF Asked, TypeInv, TypeOK
<1> QED BY <1>1, <1>2, AskedGrows

LEMMA AskedOnceStep ==
    ASSUME ServiceAssumption, OwnIds, TypeInv, CommandFits, AskedOnce, [Next]_vars
    PROVE  AskedOnce'
<1> SUFFICES ASSUME NEW id \in Ids
             PROVE  /\ IsFiniteSet(Asked(id)')
                    /\ hot'[id] + Owed'[id] <= Cardinality(Asked(id)') + Recorded(id)'
  BY DEF AskedOnce
<1>1. /\ IsFiniteSet(Asked(id)) /\ Cardinality(Asked(id)) \in Nat
      /\ hot[id] + Owed[id] <= Cardinality(Asked(id)) + Recorded(id)
      /\ Recorded(id) \in {0, 1} /\ Recorded(id)' \in {0, 1}
  BY FS_CardinalityType DEF AskedOnce, Recorded
<1>2. /\ IsFiniteSet(Asked(id)') /\ Cardinality(Asked(id)') \in Nat
      /\ Cardinality(Asked(id)) <= Cardinality(Asked(id)')
      /\ \A r \in Requests :
            /\ Cmd[r] = "increase" /\ Clicked[r] = id /\ outcome[r] = "queued"
            /\ outcome' = [outcome EXCEPT ![r] = "serving"]
            => Cardinality(Asked(id)') = Cardinality(Asked(id)) + 1
  <2>1. ASSUME NEW r \in Requests, Cmd[r] = "increase", Clicked[r] = id,
               outcome[r] = "queued", outcome' = [outcome EXCEPT ![r] = "serving"]
        PROVE  /\ IsFiniteSet(Asked(id)')
               /\ Cardinality(Asked(id)') = Cardinality(Asked(id)) + 1
    <3>1. Asked(id)' = Asked(id) \cup {r} /\ r \notin Asked(id)
      BY <2>1 DEF Asked, TypeInv, TypeOK
    <3> QED BY <1>1, <3>1, FS_AddElement
  <2>2. CASE Asked(id)' = Asked(id)
    BY <1>1, <2>1, <2>2
  <2>3. CASE Asked(id)' # Asked(id)
    BY <1>1, <2>1, <2>3, AskedChange
  <2> QED BY <2>2, <2>3
<1>3. Recorded(id) <= Recorded(id)'
  <2>1. todo' \subseteq todo
    BY DEF Next, DataCgi, Listing, Clicking, Resting, Push, Point, UploadDies, Accept,
       Reply, Connect, ConnectFails, RangeList, RangeError, RangeLost, ReadRow,
       ReadRowCrashes, ZScore, ZScoreLost, AddRow, Decode, DecodeFails, ClickConnect,
       ZIncr, ZIncrLost, Die, Restart, vars, upload
  <2> QED BY <2>1 DEF Recorded, IdOf
<1>4. ASSUME NEW u \in todo, todo' = todo \ {u}, IdOf(u) = id
      PROVE  Recorded(id) = 0 /\ Recorded(id)' = 1
  BY <1>4 DEF Recorded, OwnIds, TypeInv, TypeOK, IdOf
<1>5. PICK h, o, h1, o1 : /\ h = hot[id] /\ o = Owed[id] /\ h1 = hot'[id] /\ o1 = Owed'[id]
                          /\ h \in Nat /\ o \in Nat /\ h1 \in Nat /\ o1 \in Nat
                          /\ h1 + o1 <= h + o \/ (o1 = o + 1 /\ h1 = h)
  BY OwedRises
<1>6. PICK c, d, c1, d1 : /\ c = Cardinality(Asked(id)) /\ d = Recorded(id)
                          /\ c1 = Cardinality(Asked(id)') /\ d1 = Recorded(id)'
                          /\ c \in Nat /\ d \in Nat /\ c1 \in Nat /\ d1 \in Nat
                          /\ c <= c1 /\ d <= d1 /\ h + o <= c + d
  BY <1>1, <1>2, <1>3, <1>5
<1>7. o1 = o + 1 => c1 + d1 >= c + d + 1
  <2> SUFFICES ASSUME Owed'[id] = Owed[id] + 1 PROVE c1 = c + 1 \/ d1 = d + 1
    BY <1>5, <1>6
  <2> QED BY <1>2, <1>4, <1>6, WhoAsks
<1>8. h1 + o1 <= c1 + d1
  BY <1>5, <1>6, <1>7
<1> QED BY <1>2, <1>5, <1>6, <1>8

\* Nothing goes wrong that changes an answer.
Calm == Faults \subseteq {"upload_dies", "restart"}

\* What a row of file id may show.
CountsClicks(id, pv) ==
    \/ pv \in Max({Answered(id) - 1, 0}) .. Sent(id)
    \/ pv = -2 /\ Answered(id) = 0

\* No point has gone to a garbled member.
GarbageUnused == Calm => hot[Garbage] = 0

RowsCount == Calm => \A k \in DOMAIN rows : CountsClicks(rows[k].id, rows[k].pv)

LEMMA ClickRowsStep ==
    ASSUME ServiceAssumption, TypeInv, CommandFits, ClickRows, [Next]_vars
    PROVE  ClickRows'
<1> USE DEF worker, client, ClickRows, AtClick, Goto
<1>1. CASE Accept
  BY <1>1 DEF Accept
<1>2. CASE pc' \in {"accept", "dead", "range", "row", "score"}
  BY <1>2
<1>3. CASE RangeList \/ RangeError
  BY <1>3 DEF RangeList, RangeError, CommandFits
<1>4. CASE ZScore
  BY <1>4 DEF ZScore, AddRow, CommandFits
<1>5. CASE Decode \/ ClickConnect \/ ZIncr
  BY <1>5 DEF Decode, ClickConnect, ZIncr
<1>6. CASE Push \/ Point \/ UploadDies \/ UNCHANGED vars
  BY <1>6 DEF Push, Point, UploadDies, vars
<1>7. \/ Accept \/ pc' \in {"accept", "dead", "range", "row", "score"}
      \/ RangeList \/ RangeError \/ ZScore \/ Decode \/ ClickConnect \/ ZIncr
      \/ Push \/ Point \/ UploadDies \/ UNCHANGED vars
  BY DEF Next, DataCgi, Listing, Clicking, Resting, Reply, Connect, ReadRow, ConnectFails,
     RangeLost, ReadRowCrashes, ZScoreLost, DecodeFails, ZIncrLost, Die, Restart
<1> QED BY <1>1, <1>2, <1>3, <1>4, <1>5, <1>6, <1>7

LEMMA GarbageStep ==
    ASSUME ServiceAssumption, TypeInv, CommandFits, GarbageUnused, [Next]_vars
    PROVE  GarbageUnused'
<1> SUFFICES ASSUME Calm PROVE hot'[Garbage] = 0
  BY DEF GarbageUnused, Calm
<1>1. hot[Garbage] = 0 /\ Sound
  BY DEF GarbageUnused, Calm, Sound
<1>2. hot \in [Ids \cup {Garbage} -> Nat] /\ Garbage \notin Ids
  BY DEF TypeInv, TypeOK, ServiceAssumption
<1>3. CASE Point
  <2>1. IdOf(cur) \in Ids
    BY <1>3 DEF Point, TypeInv, TypeOK, IdOf, Ids
  <2> QED BY <1>1, <1>2, <1>3, <2>1 DEF Point
<1>4. CASE ZIncr \/ ZIncrLost
  <2>1. member = Clicked[req] /\ req \in Requests /\ Clicked[req] \in Ids
    BY <1>1, <1>4 DEF ZIncr, ZIncrLost, CommandFits, TypeInv, Serves, Ids
  <2> QED BY <1>1, <1>2, <1>4, <2>1 DEF ZIncr, ZIncrLost
<1>5. CASE ~ (Point \/ ZIncr \/ ZIncrLost)
  <2>1. hot' = hot
    BY <1>5 DEF Next, DataCgi, Listing, Clicking, Resting, Push, UploadDies, Accept,
       Reply, Connect, ConnectFails, RangeList, RangeError, RangeLost, ReadRow,
       ReadRowCrashes, ZScore, ZScoreLost, AddRow, Decode, DecodeFails, ClickConnect,
       Restart, vars, redis
  <2> QED BY <1>1, <2>1
<1> QED BY <1>3, <1>4, <1>5

(* The score that is read counts the clicks of its file.                   *)
LEMMA ScoreCounts ==
    ASSUME ServiceAssumption, TypeInv, NoClickLost, AskedOnce, GarbageUnused, Calm, NEW id
    PROVE  CountsClicks(id, Score(id) - 1)
<1>1. hot \in [Ids \cup {Garbage} -> Nat] /\ Garbage \notin Ids
  BY DEF TypeInv, TypeOK, ServiceAssumption
<1>2. CASE id \notin Ids
  <2>1. Score(id) = -1
    BY <1>1, <1>2 DEF Score, GarbageUnused
  <2>2. Done(id) = {}
    BY <1>2 DEF Done, Ids
  <2>3. Answered(id) = 0
    <3>1. Answered(id) = Cardinality(Done(id))
      BY DEF Answered, Clicks, Done
    <3> QED BY <2>2, <3>1, FS_EmptySet
  <2> QED BY <2>1, <2>3 DEF CountsClicks
<1>3. CASE id \in Ids
  <2>1. /\ Sent(id) \in Nat /\ Owed[id] \in Nat /\ Recorded(id) \in {0, 1} /\ hot[id] \in Nat
        /\ hot[id] + Owed[id] <= Sent(id) + Recorded(id)
    <3>1. Sent(id) = Cardinality(Asked(id)) /\ IsFiniteSet(Asked(id))
      BY <1>3, AskedIsSent DEF AskedOnce
    <3>2. Owed[id] \in Nat
      BY <1>3 DEF Owed, OwedByUpload, OwedByClick
    <3> QED BY <1>1, <1>3, <3>1, <3>2, FS_CardinalityType DEF AskedOnce, Recorded
  <2>2. Answered(id) \in Nat /\ Answered(id) <= hot[id]
    <3>1. Answered(id) <= hot[id]
      BY <1>3 DEF NoClickLost, Calm
    <3>2. Done(id) \subseteq Asked(id) /\ Answered(id) = Cardinality(Done(id))
      BY DEF Done, Asked, Answered, Clicks
    <3>3. IsFiniteSet(Done(id))
      BY <1>3, <3>2, FS_Subset DEF AskedOnce
    <3> QED BY <3>1, <3>2, <3>3, FS_CardinalityType
  <2>3. Score(id) = IF hot[id] > 0 THEN hot[id] ELSE -1
    BY <1>1, <1>3 DEF Score
  <2>4. PICK a, h, n : /\ a \in Nat /\ h \in Nat /\ n \in Nat
                       /\ a = Answered(id) /\ h = hot[id] /\ n = Sent(id)
                       /\ a <= h /\ h <= n + 1
    BY <2>1, <2>2
  <2>5. Max({a - 1, 0}) = IF a - 1 >= 0 THEN a - 1 ELSE 0
    <3>1. a - 1 \in Int
      BY <2>4
    <3> QED BY <3>1, MaxOfTwo
  <2>6. PICK m : m \in Nat /\ m = Max({a - 1, 0}) /\ m = IF a - 1 >= 0 THEN a - 1 ELSE 0
    BY <2>4, <2>5
  <2>7. CASE h > 0
    <3>1. h - 1 \in m .. n
      BY ONLY <2>4, <2>6, <2>7
    <3> QED BY <2>3, <2>4, <2>6, <2>7, <3>1 DEF CountsClicks
  <2>8. CASE ~ (h > 0)
    <3>1. a = 0
      BY ONLY <2>4, <2>8
    <3> QED BY <2>3, <2>4, <2>8, <3>1 DEF CountsClicks
  <2> QED BY <2>7, <2>8
<1> QED BY <1>2, <1>3

(* While rows are there, no click is sent or answered.                     *)
LEMMA CountsStay ==
    ASSUME ServiceAssumption, TypeInv, CommandFits, ClickRows, [Next]_vars,
           rows' # << >>, NEW id
    PROVE  (rows = << >> /\ rows' = rows)
           \/ (Answered(id)' = Answered(id) /\ Sent(id)' = Sent(id))
<1>1. Asked(id)' = Asked(id)
  BY AskedChange
<1>2. Sent(id)' = Sent(id)
  <2>1. TypeInv'
    BY TypeStep
  <2>2. Sent(id) = Cardinality(Asked(id)) /\ Sent(id)' = Cardinality(Asked(id)')
    BY <2>1 DEF Sent, Clicks, Asked
  <2> QED BY <1>1, <2>2
<1>3. Done(id)' = Done(id) \/ (rows = << >> /\ rows' = rows)
  <2>1. ASSUME Reply, Cmd[req] = "increase" PROVE rows = << >> /\ rows' = rows
    BY <2>1 DEF Reply, ClickRows
  <2> QED BY <2>1, DoneGrows
<1>4. Answered(id) = Cardinality(Done(id)) /\ Answered(id)' = Cardinality(Done(id)')
  BY DEF Answered, Clicks, Done
<1> QED BY <1>2, <1>3, <1>4

LEMMA RowsCountStep ==
    ASSUME ServiceAssumption, TypeInv, CommandFits, ClickRows, NoClickLost, AskedOnce,
           GarbageUnused, RowsCount, [Next]_vars
    PROVE  RowsCount'
<1> SUFFICES ASSUME Calm, NEW k \in DOMAIN rows', rows' # << >>
             PROVE  CountsClicks(rows[k].id, rows[k].pv)'
  BY DEF RowsCount, Calm
<1>1. PICK id, pv : id = rows'[k].id /\ pv = rows'[k].pv
  OBVIOUS
<1>2. CountsClicks(id, pv)
  <2>1. ~ Fault("redis_error")
    BY DEF Calm, Fault
  <2>2. CASE rows' = rows
    BY <1>1, <2>2 DEF RowsCount
  <2>3. CASE pc = "score" /\ rows' = Append(rows, Row(Score(Element[1])))
    <3>1. PICK row : row = Row(Score(Element[1]))
      OBVIOUS
    <3>2. (k \in DOMAIN rows /\ rows'[k] = rows[k]) \/ rows'[k] = row
      BY <2>3, <3>1, AddedRow, Appended
    <3>3. CASE k \in DOMAIN rows /\ rows'[k] = rows[k]
      BY <1>1, <3>3 DEF RowsCount
    <3>4. CASE rows'[k] = row
      <4>1. id = row.id /\ pv = Score(id) - 1
        BY <1>1, <2>3, <3>1, <3>4, AddedRow
      <4> QED BY <4>1, ScoreCounts
    <3> QED BY <3>2, <3>3, <3>4
  <2> QED BY <2>1, <2>2, <2>3, RowsChange
<1>3. Answered(id)' = Answered(id) /\ Sent(id)' = Sent(id)
  BY CountsStay
<1> QED BY <1>1, <1>2, <1>3 DEF CountsClicks

(* A row of a page in progress shows no fewer clicks than were answered,   *)
(* or one less while the upload's point is not there, no more than were    *)
(* sent, and -2 only when none was answered: for every number of clicks    *)
(* and uploads and every stop and restart, as long as FastDFS gives every  *)
(* file an id of its own (score - 1, data_use.c 263-264).                  *)
THEOREM RowsCountClicks == ASSUME OwnIds PROVE Spec => []PvCountsClicks
<1> DEFINE Inv == CommandFits /\ ClickRows /\ AskedOnce /\ GarbageUnused /\ RowsCount
<1>1. Init => Inv
  <2> SUFFICES ASSUME Init PROVE Inv
    OBVIOUS
  <2>1. CommandFits /\ ClickRows /\ GarbageUnused /\ RowsCount
    BY DEF Init, CommandFits, ClickRows, GarbageUnused, RowsCount, AtClick
  <2>2. ASSUME NEW id \in Ids
        PROVE  IsFiniteSet(Asked(id)) /\ hot[id] + Owed[id] <= Cardinality(Asked(id)) + Recorded(id)
    <3>1. Asked(id) = {} /\ hot[id] = 0 /\ Recorded(id) = 0
      BY DEF Init, Asked, Recorded
    <3>2. Owed[id] = 0
      BY ServiceAssumption DEF Init, Owed, OwedByUpload, OwedByClick, ServiceAssumption
    <3> QED BY <3>1, <3>2, FS_EmptySet
  <2> QED BY <2>1, <2>2 DEF AskedOnce
<1>2. TypeInv /\ NoClickLost /\ Inv /\ [Next]_vars => Inv'
  BY CommandStep, ClickRowsStep, AskedOnceStep, GarbageStep, RowsCountStep, ServiceAssumption
<1>3. Inv => PvCountsClicks
  BY DEF RowsCount, PvCountsClicks, CountsClicks, Calm
<1>4. Spec => []TypeInv
  BY ServiceInvariant, PTL DEF ServiceInv
<1>5. Spec => []NoClickLost
  BY ClicksAreKept
<1> HIDE DEF Inv
<1> QED BY <1>1, <1>2, <1>3, <1>4, <1>5, PTL DEF Spec
==============================================================================
