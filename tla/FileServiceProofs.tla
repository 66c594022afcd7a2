-------------------------- MODULE FileServiceProofs --------------------------
(***************************************************************************)
(* What holds of listings and clicks for every number of uploads and       *)
(* requests and every set of faults: the types, that a page is a block of  *)
(* the list, that the scores implement ClickCounter, and that no click is  *)
(* lost unless Redis or memory fails.                                      *)
(***************************************************************************)
EXTENDS FileService, SequenceTheorems, FiniteSetTheorems, TLAPS

\* The ids a row can have.
RowIds == {Parsed[u][1] : u \in Uploads}

\* data_cgi has a request wherever it is at work or ended.
Serves == pc # "accept" => req \in Requests

\* A listing starts without rows, and has one to go while it is making them.
RowsToGo ==
    /\ pc \in {"connect", "range"} => rows = << >>
    /\ pc \in {"row", "score"} => Len(rows) < Len(page)

\* A click that is under way is for its file or for a garbled member.
MemberIsOwn == pc \in {"click", "incr"} => member \in {Clicked[req], Garbage}

TypeInv ==
    /\ TypeOK
    /\ rows \in Seq([id : RowIds, pv : Int])
    /\ Serves
    /\ RowsToGo
    /\ MemberIsOwn

ServiceInv == TypeInv /\ PageIsBlock

-----------------------------------------------------------------------------
(* Blocks of a list.                                                       *)

IsBlock(t, s) == \E k \in 0 .. Len(s) - Len(t) : SubSeq(s, k + 1, k + Len(t)) = t

(* The larger and the smaller of two numbers.                              *)
LEMMA MaxOfTwo ==
    ASSUME NEW a \in Int, NEW b \in Int
    PROVE  /\ Max({a, b}) = IF a >= b THEN a ELSE b
           /\ Min({a, b}) = IF a <= b THEN a ELSE b
BY DEF Max, Min

(* Every part of a list that SubSeq gives is a block of it, the empty one  *)
(* included.                                                               *)
LEMMA PartIsBlock ==
    ASSUME NEW S, NEW s \in Seq(S), NEW a \in Nat \ {0}, NEW b \in Int, b <= Len(s)
    PROVE  SubSeq(s, a, b) \in Seq(S) /\ IsBlock(SubSeq(s, a, b), s)
<1>1. CASE a <= b
  <2>1. SubSeq(s, a, b) \in Seq(S) /\ Len(SubSeq(s, a, b)) = b - a + 1
    BY <1>1, SubSeqProperties
  <2>2. a - 1 \in 0 .. Len(s) - Len(SubSeq(s, a, b))
    BY <1>1, <2>1
  <2>3. (a - 1) + 1 = a /\ (a - 1) + (b - a + 1) = b
    OBVIOUS
  <2> QED BY <2>1, <2>2, <2>3 DEF IsBlock
<1>2. CASE b < a
  <2>1. SubSeq(s, a, b) = << >> /\ SubSeq(s, 0 + 1, 0 + Len(<< >>)) = << >>
    BY <1>2, SubSeqEmpty
  <2> QED BY <2>1 DEF IsBlock
<1> QED BY <1>1, <1>2

(* So is every beginning of a part.                                        *)
LEMMA BeginningIsBlock ==
    ASSUME NEW S, NEW s \in Seq(S), NEW a \in Nat \ {0}, NEW b \in Int, b <= Len(s),
           NEW c \in 0 .. Len(SubSeq(s, a, b))
    PROVE  /\ SubSeq(SubSeq(s, a, b), 1, c) \in Seq(S)
           /\ IsBlock(SubSeq(SubSeq(s, a, b), 1, c), s)
<1> DEFINE t == SubSeq(s, a, b)
           v == SubSeq(t, 1, c)
           w == SubSeq(s, a, a + c - 1)
<1>1. CASE c = 0
  <2>1. v = SubSeq(s, 1, 0)
    BY <1>1, SubSeqEmpty
  <2>2. 1 \in Nat \ {0} /\ 0 \in Int /\ 0 <= Len(s)
    OBVIOUS
  <2>3. SubSeq(s, 1, 0) \in Seq(S) /\ IsBlock(SubSeq(s, 1, 0), s)
    BY <2>2, PartIsBlock
  <2> QED BY <2>1, <2>3
<1>2. CASE c # 0
  <2>0. a <= b
    BY <1>2, SubSeqEmpty
  <2>1. t \in Seq(S) /\ Len(t) = b - a + 1 /\ \A i \in 1 .. Len(t) : t[i] = s[a + i - 1]
    BY <2>0, SubSeqProperties
  <2>2. v \in Seq(S) /\ Len(v) = c /\ \A i \in 1 .. c : v[i] = t[i]
    <3> HIDE DEF t
    <3> QED BY <2>1, <1>2
  <2>3. a + c - 1 \in Int /\ a + c - 1 <= Len(s) /\ a <= a + c - 1
    BY <1>2, <2>0, <2>1
  <2>4. w \in Seq(S) /\ Len(w) = c /\ \A i \in 1 .. c : w[i] = s[a + i - 1]
    BY <2>3, SubSeqProperties
  <2>5. v = w
    <3>1. c \in 0 .. Len(t)
      OBVIOUS
    <3> HIDE DEF t, v, w
    <3>2. \A i \in 1 .. c : v[i] = w[i]
      BY <2>1, <2>2, <2>4, <3>1
    <3> QED BY <2>2, <2>4, <3>2, SeqEqual
  <2> QED BY <2>3, <2>5, PartIsBlock
<1> QED BY <1>1, <1>2

(* A block stays one when an element is pushed in front of the list.       *)
LEMMA BlockAfterPush ==
    ASSUME NEW S, NEW s \in Seq(S), NEW t \in Seq(S), NEW u \in S, IsBlock(t, s)
    PROVE  IsBlock(t, <<u>> \o s)
<1> DEFINE l == <<u>> \o s
<1>1. PICK k \in 0 .. Len(s) - Len(t) : SubSeq(s, k + 1, k + Len(t)) = t
  BY DEF IsBlock
<1>2. /\ l \in Seq(S) /\ Len(l) = Len(s) + 1
      /\ \A i \in 1 .. Len(s) : l[i + 1] = s[i]
  OBVIOUS
<1>3. k + 1 \in 0 .. Len(l) - Len(t)
  BY <1>2
<1>4. CASE t = << >>
  <2>1. SubSeq(l, (k + 1) + 1, (k + 1) + Len(t)) = << >>
    BY <1>4, SubSeqEmpty
  <2> QED BY <1>3, <1>4, <2>1 DEF IsBlock
<1>5. CASE t # << >>
  <2> DEFINE w == SubSeq(l, (k + 1) + 1, (k + 1) + Len(t))
  <2>1. Len(t) > 0
    BY <1>5
  <2>2. w \in Seq(S) /\ Len(w) = Len(t) /\ \A i \in 1 .. Len(t) : w[i] = l[k + 1 + i]
    <3> HIDE DEF l
    <3>1. \A i \in (k + 1) + 1 .. (k + 1) + Len(t) : l[i] \in S
      BY <1>2, <1>3
    <3> QED BY <2>1, <3>1, SubSeqProperties
  <2>3. \A i \in 1 .. Len(t) : k + i \in 1 .. Len(s) /\ t[i] = s[k + i]
    <3>1. k \in Nat /\ k + Len(t) <= Len(s)
      OBVIOUS
    <3> TAKE i \in 1 .. Len(t)
    <3>2. k + 1 <= k + Len(t) /\ k + 1 \in 1 .. Len(s) /\ k + Len(t) \in 1 .. Len(s)
      BY <2>1, <3>1
    <3>3. SubSeq(s, k + 1, k + Len(t))[i] = s[k + i]
      BY <3>1, <3>2
    <3>4. k + i \in 1 .. Len(s)
      BY <3>1
    <3> QED BY <1>1, <3>3, <3>4
  <2>4. w = t
    <3>1. \A i \in 1 .. Len(t) : w[i] = t[i]
      <4> HIDE DEF l, w
      <4>1. ASSUME NEW i \in 1 .. Len(t) PROVE w[i] = t[i]
        <5>1. k + 1 + i = (k + i) + 1
          OBVIOUS
        <5> QED BY <1>2, <2>2, <2>3, <5>1
      <4> QED BY <4>1
    <3> HIDE DEF w
    <3> QED BY <2>2, <3>1, SeqEqual
  <2> QED BY <1>3, <2>4 DEF IsBlock
<1> QED BY <1>4, <1>5

(* What rop_range_list returns is a block of the list, for every fromId    *)
(* and every bound, negative ones included (redis_op.c 889-920).           *)
LEMMA RangeIsBlock ==
    ASSUME list \in Seq(Uploads), NEW from \in Int, NEW count \in Int
    PROVE  /\ RopRangeList(from, count) \in Seq(Uploads)
           /\ IsBlock(RopRangeList(from, count), list)
<1> DEFINE a == Max({FromEnd(from), 0}) + 1
           b == Min({FromEnd(count) + 1, Len(list)})
           t == LRange(from, count)
<1>1. FromEnd(from) \in Int /\ FromEnd(count) \in Int
  BY DEF FromEnd
<1>2. a \in Nat \ {0} /\ b \in Int /\ b <= Len(list)
  <2>1. Max({FromEnd(from), 0}) = IF FromEnd(from) >= 0 THEN FromEnd(from) ELSE 0
    BY <1>1, MaxOfTwo
  <2>2. FromEnd(count) + 1 \in Int /\ Len(list) \in Int
    BY <1>1
  <2>3. b = IF FromEnd(count) + 1 <= Len(list) THEN FromEnd(count) + 1 ELSE Len(list)
    BY <2>2, MaxOfTwo
  <2> QED BY <1>1, <2>1, <2>2, <2>3
<1>3. t = SubSeq(list, a, b)
  BY DEF LRange
<1> HIDE DEF a, b
<1>4. t \in Seq(Uploads) /\ IsBlock(t, list)
  BY <1>2, <1>3, PartIsBlock
<1>5. CASE count < 0
  BY <1>4, <1>5 DEF RopRangeList
<1>6. CASE count >= 0
  <2>1. Min({Len(t), count}) \in 0 .. Len(t)
    <3>1. Len(t) \in Nat /\ Len(t) \in Int
      BY <1>4
    <3> HIDE DEF t
    <3>2. Min({Len(t), count}) = IF Len(t) <= count THEN Len(t) ELSE count
      BY <3>1, MaxOfTwo, Zenon
    <3> QED BY <1>6, <3>1, <3>2
  <2>2. RopRangeList(from, count) = SubSeq(t, 1, Min({Len(t), count}))
    <3>1. ~ (count < 0)
      BY <1>6
    <3> QED BY <3>1, Zenon DEF RopRangeList
  <2> QED BY <1>2, <1>3, <2>1, <2>2, BeginningIsBlock
<1> QED BY <1>5, <1>6

-----------------------------------------------------------------------------
(* Types.                                                                  *)

(* The elements of a sequence, and the clicks of its rows when it has rows.*)
LEMMA ElementsOf == ASSUME NEW S, NEW s \in Seq(S) PROVE \A k \in DOMAIN s : s[k] \in S
OBVIOUS

LEMMA PvOfRows ==
    ASSUME NEW S, NEW s \in Seq([id : S, pv : Int])
    PROVE  \A k \in DOMAIN s : s[k].pv \in Int
<1>1. \A k \in DOMAIN s : s[k] \in [id : S, pv : Int]
  BY ElementsOf, Zenon
<1> QED BY <1>1

(* The types hold at the start and in every step.                          *)
LEMMA TypeInit == ASSUME ServiceAssumption, Init PROVE TypeInv
BY DEF Init, TypeInv, TypeOK, Serves, RowsToGo, MemberIsOwn, Locations, Ids

(* An end of the process keeps every type.                                 *)
LEMMA DieKeepsTypes ==
    ASSUME TypeInv, pc # "accept", Die, UNCHANGED <<upload, redis>>
    PROVE  TypeInv'
<1>1. outcome' \in [Requests -> {"queued", "serving", "answered", "closed"}]
  BY DEF Die, TypeInv, TypeOK, Serves
<1> QED BY <1>1 DEF Die, Goto, TypeInv, TypeOK, Serves, RowsToGo, MemberIsOwn, Locations,
                    upload, redis

LEMMA TypeStep == ASSUME ServiceAssumption, TypeInv, [Next]_vars PROVE TypeInv'
<1> USE DEF upload, redis, worker, client, Locations
<1>1. CASE Push
  <2>1. PICK u \in todo : /\ todo' = todo \ {u} /\ cur' = u
                          /\ list' = <<u>> \o list \/ list' = list
    BY <1>1 DEF Push
  <2>2. list' \in Seq(Uploads)
    <3>1. u \in Uploads /\ list \in Seq(Uploads)
      BY DEF TypeInv, TypeOK
    <3>2. <<u>> \o list \in Seq(Uploads)
      BY <3>1
    <3> QED BY <2>1, <3>1, <3>2
  <2> QED BY <1>1, <2>1, <2>2 DEF Push, TypeInv, TypeOK, Serves, RowsToGo, MemberIsOwn
<1>2. CASE Point
  <2>1. cur \in Uploads /\ IdOf(cur) \in Ids
    BY <1>2 DEF Point, TypeInv, TypeOK, IdOf, Ids
  <2>2. hot' \in [Ids \cup {Garbage} -> Nat]
    BY <1>2, <2>1 DEF Point, TypeInv, TypeOK
  <2> QED BY <1>2, <2>2 DEF Point, TypeInv, TypeOK, Serves, RowsToGo, MemberIsOwn
<1>3. CASE UploadDies
  BY <1>3 DEF UploadDies, TypeInv, TypeOK, Serves, RowsToGo, MemberIsOwn
<1>4. CASE Accept
  <2>1. PICK r \in Requests :
           /\ outcome' = [outcome EXCEPT ![r] = "serving"] /\ req' = r
           /\ Goto(CASE Cmd[r] = "newFile"  -> "connect"
                     [] Cmd[r] = "increase" -> "decode"
                     [] Cmd[r] = "other"    -> "reply")
    BY <1>4 DEF Accept
  <2>2. pc' \in {"connect", "decode", "reply"}
    BY <2>1 DEF ServiceAssumption, Goto
  <2> QED BY <1>4, <2>1, <2>2 DEF Accept, TypeInv, TypeOK, Serves, RowsToGo, MemberIsOwn
<1>5. CASE Reply
  BY <1>5 DEF Reply, Goto, TypeInv, TypeOK, Serves, RowsToGo, MemberIsOwn
<1>6. CASE Connect
  BY <1>6 DEF Connect, Goto, TypeInv, TypeOK, Serves, RowsToGo, MemberIsOwn
<1>7. CASE ConnectFails \/ RangeLost \/ ReadRowCrashes \/ ZScoreLost \/ DecodeFails
  BY <1>7, DieKeepsTypes DEF ConnectFails, RangeLost, ReadRowCrashes, ZScoreLost, DecodeFails
<1>8. CASE RangeList
  <2>1. req \in Requests /\ EndId(req) \in Int /\ From[req] \in Int
    BY <1>8 DEF RangeList, TypeInv, Serves, EndId, ServiceAssumption
  <2>2. page' \in Seq(Uploads) /\ rows = << >>
    BY <1>8, <2>1, RangeIsBlock DEF RangeList, TypeInv, TypeOK, RowsToGo
  <2>3. /\ pc' \in {"reply", "row", "dead"} /\ (pc' = "row" => page' # << >>)
        /\ outcome' \in [Requests -> {"queued", "serving", "answered", "closed"}]
    BY <1>8, <2>1 DEF RangeList, Goto, TypeInv, TypeOK
  <2>4. Len(rows) <= Len(page') /\ (pc' = "row" => Len(rows) < Len(page'))
    BY <2>2, <2>3
  <2> QED BY <1>8, <2>2, <2>3, <2>4
         DEF RangeList, TypeInv, TypeOK, Serves, RowsToGo, MemberIsOwn
<1>9. CASE RangeError
  BY <1>9 DEF RangeError, Goto, TypeInv, TypeOK, Serves, RowsToGo, MemberIsOwn
<1>10. CASE ReadRow
  BY <1>10 DEF ReadRow, Goto, TypeInv, TypeOK, Serves, RowsToGo, MemberIsOwn
<1>11. CASE ZScore
  <2>1. PICK score \in Int : AddRow(score)
    BY <1>11 DEF ZScore, Score, TypeInv, TypeOK
  <2>2. pc = "score" /\ Len(rows) < Len(page) /\ rows \in Seq([id : RowIds, pv : Int])
    BY <1>11 DEF ZScore, TypeInv, RowsToGo
  <2>3. Row(score) \in [id : RowIds, pv : Int]
    <3>1. page[Len(rows) + 1] \in Uploads
      BY <2>2 DEF TypeInv, TypeOK
    <3> QED BY <3>1 DEF Row, Element, Current, RowIds
  <2>4. rows' \in Seq([id : RowIds, pv : Int]) /\ Len(rows') = Len(rows) + 1
    BY <2>1, <2>2, <2>3 DEF AddRow
  <2>5. \A k \in DOMAIN rows' : rows'[k].pv \in Int
    BY <2>4, PvOfRows, Zenon
  <2>6. /\ pc' \in {"reply", "row"} /\ page' = page
        /\ Len(rows') <= Len(page) /\ (pc' = "row" => Len(rows') < Len(page))
    BY <2>1, <2>2, <2>4 DEF AddRow, Goto, TypeInv, TypeOK
  <2> QED BY <2>1, <2>2, <2>4, <2>5, <2>6
         DEF AddRow, TypeInv, TypeOK, Serves, RowsToGo, MemberIsOwn
<1>12. CASE Decode
  <2>1. req \in Requests /\ Clicked[req] \in Ids
    BY <1>12 DEF Decode, TypeInv, Serves, Ids
  <2> QED BY <1>12, <2>1 DEF Decode, Goto, TypeInv, TypeOK, Serves, RowsToGo, MemberIsOwn
<1>13. CASE ClickConnect
  BY <1>13 DEF ClickConnect, Goto, TypeInv, TypeOK, Serves, RowsToGo, MemberIsOwn
<1>14. CASE ZIncr
  <2>1. hot' \in [Ids \cup {Garbage} -> Nat]
    BY <1>14 DEF ZIncr, TypeInv, TypeOK
  <2> QED BY <1>14, <2>1 DEF ZIncr, Goto, TypeInv, TypeOK, Serves, RowsToGo, MemberIsOwn
<1>15. CASE ZIncrLost
  <2>1. hot' \in [Ids \cup {Garbage} -> Nat]
    BY <1>15 DEF ZIncrLost, TypeInv, TypeOK
  <2>2. outcome' \in [Requests -> {"queued", "serving", "answered", "closed"}]
    BY <1>15 DEF ZIncrLost, Die, TypeInv, TypeOK
  <2> QED BY <1>15, <2>1, <2>2
         DEF ZIncrLost, Die, Goto, TypeInv, TypeOK, Serves, RowsToGo, MemberIsOwn
<1>16. CASE Restart
  BY <1>16 DEF Restart, Goto, TypeInv, TypeOK, Serves, RowsToGo, MemberIsOwn
<1>17. CASE UNCHANGED vars
  BY <1>17 DEF vars, TypeInv, TypeOK, Serves, RowsToGo, MemberIsOwn
<1> QED
  BY <1>1, <1>2, <1>3, <1>4, <1>5, <1>6, <1>7, <1>8, <1>9, <1>10, <1>11, <1>12, <1>13,
     <1>14, <1>15, <1>16, <1>17
     DEF Next, DataCgi, Listing, Clicking, Resting

-----------------------------------------------------------------------------
(* A page stays a block of the list while records are pushed in front.     *)
LEMMA BlockStep ==
    ASSUME ServiceAssumption, TypeInv, PageIsBlock, [Next]_vars PROVE PageIsBlock'
<1> USE DEF upload, redis, worker, client
<1>1. CASE UNCHANGED <<list, page>>
  BY <1>1 DEF PageIsBlock
<1>2. CASE Push
  <2>1. page' = page /\ list \in Seq(Uploads) /\ page \in Seq(Uploads)
    BY <1>2 DEF Push, TypeInv, TypeOK
  <2>2. PICK u \in Uploads : list' = <<u>> \o list \/ list' = list
    BY <1>2 DEF Push, TypeInv, TypeOK
  <2>3. IsBlock(page, list)
    BY DEF PageIsBlock, IsBlock
  <2>4. IsBlock(page, list')
    <3>1. IsBlock(page, <<u>> \o list)
      BY <2>1, <2>3, BlockAfterPush, Zenon
    <3> QED BY <2>2, <2>3, <3>1
  <2> QED BY <2>1, <2>4 DEF PageIsBlock, IsBlock
<1>3. CASE Accept \/ Restart
  <2>1. page' = << >> /\ list' = list
    BY <1>3 DEF Accept, Restart
  <2>2. SubSeq(list, 0 + 1, 0 + Len(<< >>)) = << >> /\ 0 \in 0 .. Len(list) - Len(<< >>)
    BY SubSeqEmpty DEF TypeInv, TypeOK
  <2> QED BY <2>1, <2>2 DEF PageIsBlock
<1>4. CASE RangeList
  <2>1. req \in Requests /\ EndId(req) \in Int /\ From[req] \in Int
    BY <1>4 DEF RangeList, TypeInv, Serves, EndId, ServiceAssumption
  <2>2. page' = RopRangeList(From[req], EndId(req)) /\ list' = list
    BY <1>4 DEF RangeList
  <2>3. IsBlock(page', list)
    BY <2>1, <2>2, RangeIsBlock DEF TypeInv, TypeOK
  <2> QED BY <2>2, <2>3 DEF PageIsBlock, IsBlock
<1>5. ASSUME ~ Push, ~ Accept, ~ Restart, ~ RangeList PROVE UNCHANGED <<list, page>>
  BY <1>5 DEF Next, DataCgi, Listing, Clicking, Resting, Point, UploadDies, Reply, Connect,
     ConnectFails, RangeError, RangeLost, ReadRow, ReadRowCrashes, ZScore, ZScoreLost,
     AddRow, Decode, DecodeFails, ClickConnect, ZIncr, ZIncrLost, Die, vars
<1> QED BY <1>1, <1>2, <1>3, <1>4, <1>5

(* The invariant holds of every behaviour of the service.                  *)
THEOREM ServiceInvariant == Spec => []ServiceInv
<1>1. Init => ServiceInv
  <2> SUFFICES ASSUME Init PROVE ServiceInv
    OBVIOUS
  <2>1. SubSeq(<< >>, 0 + 1, 0 + Len(<< >>)) = << >> /\ 0 \in 0 .. Len(<< >>) - Len(<< >>)
    BY SubSeqEmpty
  <2>2. PageIsBlock
    BY <2>1 DEF Init, PageIsBlock
  <2> QED BY <2>2, TypeInit, ServiceAssumption DEF ServiceInv
<1>2. ServiceInv /\ [Next]_vars => ServiceInv'
  BY TypeStep, BlockStep, ServiceAssumption DEF ServiceInv
<1> QED BY <1>1, <1>2, PTL DEF Spec

(* The variables of the listing and click service keep to their kinds, and *)
(* no more rows are made than the page has (data_use.c 198-272).           *)
THEOREM TypeCorrect == Spec => []TypeOK
BY ServiceInvariant, PTL DEF ServiceInv, TypeInv

(* A page is a block of the list for every length of list and page, every  *)
(* fromId and count, and wherever a push falls (data_use.c 198-272).       *)
THEOREM PagesAreBlocks == Spec => []PageIsBlock
BY ServiceInvariant, PTL DEF ServiceInv

-----------------------------------------------------------------------------
(* The refinement of ClickCounter.                                         *)

Points == [id \in Ids |-> hot[id]]

Owed == [id \in Ids |-> OwedByUpload(id) + OwedByClick(id)]

AtClick == {"decode", "click", "incr"}

(* What the abstract steps are in terms of the service.                    *)
LEMMA CounterMoves ==
    ASSUME NEW f \in Ids,
           \/ Points' = Points /\ Owed' = [Owed EXCEPT ![f] = @ + 1]
           \/ /\ Owed[f] > 0
              /\ Owed' = [Owed EXCEPT ![f] = @ - 1]
              /\ Points' = Points \/ Points' = [Points EXCEPT ![f] = @ + 1]
    PROVE  Counter!Next
BY DEF Points, Owed, Counter!Next, Counter!Ask, Counter!Tally, Counter!Forget

LEMMA CounterStays ==
    ASSUME Points' = Points, Owed' = Owed PROVE UNCHANGED Counter!vars
BY DEF Points, Owed, Counter!vars

(* A step that neither begins nor ends a click leaves what clicks owe.     *)
LEMMA ClickGoesOn ==
    ASSUME \/ pc \notin AtClick /\ pc' \notin AtClick
           \/ pc \in AtClick /\ pc' \in AtClick /\ req' = req,
           cur' = cur
    PROVE  Owed' = Owed
BY DEF Owed, OwedByUpload, OwedByClick, AtClick

(* A step that ends a click takes its point from what is owed.             *)
LEMMA ClickEnds ==
    ASSUME TypeInv, pc \in AtClick, pc' \notin AtClick, cur' = cur
    PROVE  /\ Clicked[req] \in Ids /\ Owed[Clicked[req]] > 0
           /\ Owed' = [Owed EXCEPT ![Clicked[req]] = @ - 1]
<1>1. req \in Requests /\ Clicked[req] \in Ids
  BY DEF TypeInv, Serves, AtClick, Ids
<1>2. \A id \in Ids : /\ OwedByUpload(id)' = OwedByUpload(id)
                      /\ OwedByUpload(id) \in {0, 1}
                      /\ OwedByClick(id) = IF id = Clicked[req] THEN 1 ELSE 0
                      /\ OwedByClick(id)' = 0
  BY DEF OwedByUpload, OwedByClick, AtClick
<1> QED BY <1>1, <1>2 DEF Owed

(* A record that is pushed is owed its point, and no longer when the       *)
(* worker has added it or is gone.                                         *)
LEMMA UploadOwes ==
    ASSUME TypeInv, ServiceAssumption, pc' = pc, req' = req
    PROVE  /\ cur = NoUpload /\ cur' \in Uploads =>
                 Owed' = [Owed EXCEPT ![IdOf(cur')] = @ + 1]
           /\ cur \in Uploads /\ cur' = NoUpload =>
                 Owed[IdOf(cur)] > 0 /\ Owed' = [Owed EXCEPT ![IdOf(cur)] = @ - 1]
<1>1. \A u \in Uploads : IdOf(u) \in Ids
  BY DEF IdOf, Ids
<1>2. \A id \in Ids : OwedByClick(id)' = OwedByClick(id) /\ OwedByClick(id) \in {0, 1}
  BY DEF OwedByClick
<1>3. ASSUME cur = NoUpload, cur' \in Uploads
      PROVE  Owed' = [Owed EXCEPT ![IdOf(cur')] = @ + 1]
  <2>1. \A id \in Ids : /\ OwedByUpload(id) = 0
                        /\ OwedByUpload(id)' = IF id = IdOf(cur') THEN 1 ELSE 0
    BY <1>3 DEF OwedByUpload, ServiceAssumption, IdOf
  <2> QED BY <1>1, <1>2, <1>3, <2>1 DEF Owed
<1>4. ASSUME cur \in Uploads, cur' = NoUpload
      PROVE  Owed[IdOf(cur)] > 0 /\ Owed' = [Owed EXCEPT ![IdOf(cur)] = @ - 1]
  <2>1. \A id \in Ids : /\ OwedByUpload(id)' = 0
                        /\ OwedByUpload(id) = IF id = IdOf(cur) THEN 1 ELSE 0
    BY <1>4 DEF OwedByUpload, ServiceAssumption, IdOf
  <2> QED BY <1>1, <1>2, <1>4, <2>1 DEF Owed
<1> QED BY <1>3, <1>4

(* Every step of the service is one of the counter, or none.               *)
LEMMA CounterStep ==
    ASSUME ServiceAssumption, TypeInv, [Next]_vars
    PROVE  [Counter!Next]_(Counter!vars)
<1> USE DEF upload, redis, worker, client
<1>1. CASE Push
  <2>1. Points' = Points /\ pc' = pc /\ req' = req /\ cur = NoUpload /\ cur' \in Uploads
    BY <1>1 DEF Push, Points, TypeInv, TypeOK
  <2>2. IdOf(cur') \in Ids
    BY <2>1 DEF IdOf, Ids
  <2> QED BY <2>1, <2>2, UploadOwes, CounterMoves
<1>2. CASE Point
  <2>1. cur \in Uploads /\ cur' = NoUpload /\ pc' = pc /\ req' = req /\ IdOf(cur) \in Ids
    BY <1>2 DEF Point, TypeInv, TypeOK, IdOf, Ids
  <2>2. Points' = Points \/ Points' = [Points EXCEPT ![IdOf(cur)] = @ + 1]
    BY <1>2, <2>1 DEF Point, Points, TypeInv, TypeOK
  <2> QED BY <2>1, <2>2, UploadOwes, CounterMoves
<1>3. CASE UploadDies
  <2>1. /\ cur \in Uploads /\ cur' = NoUpload /\ pc' = pc /\ req' = req /\ IdOf(cur) \in Ids
        /\ Points' = Points
    BY <1>3 DEF UploadDies, Points, TypeInv, TypeOK, IdOf, Ids
  <2> QED BY <2>1, UploadOwes, CounterMoves
<1>4. CASE Accept
  <2>1. PICK r \in Requests :
           /\ req' = r
           /\ Goto(CASE Cmd[r] = "newFile"  -> "connect"
                     [] Cmd[r] = "increase" -> "decode"
                     [] Cmd[r] = "other"    -> "reply")
    BY <1>4 DEF Accept
  <2>2. pc = "accept" /\ cur' = cur /\ Points' = Points /\ Clicked[r] \in Ids
    BY <1>4 DEF Accept, Points, Ids
  <2>3. CASE pc' = "decode"
    <3>1. \A id \in Ids : /\ OwedByUpload(id)' = OwedByUpload(id)
                          /\ OwedByUpload(id) \in {0, 1}
                          /\ OwedByClick(id) = 0
                          /\ OwedByClick(id)' = IF id = Clicked[r] THEN 1 ELSE 0
      BY <2>1, <2>2, <2>3 DEF OwedByUpload, OwedByClick
    <3>2. Owed' = [Owed EXCEPT ![Clicked[r]] = @ + 1]
      <4>1. Owed' = [id \in Ids |-> IF id = Clicked[r] THEN Owed[id] + 1 ELSE Owed[id]]
        BY <3>1 DEF Owed
      <4> QED BY <2>2, <4>1 DEF Owed
    <3> QED BY <2>2, <3>2, CounterMoves
  <2>4. CASE pc' # "decode"
    <3>1. pc' \in {"connect", "reply"}
      BY <2>1, <2>4 DEF Goto, ServiceAssumption
    <3> QED BY <2>2, <3>1, ClickGoesOn, CounterStays DEF AtClick
  <2> QED BY <2>3, <2>4
<1>5. CASE ZIncr \/ ZIncrLost
  <2>1. pc = "incr" /\ pc' \in {"reply", "dead"} /\ cur' = cur
    BY <1>5 DEF ZIncr, ZIncrLost, Die, Goto
  <2>2. /\ Clicked[req] \in Ids /\ Owed[Clicked[req]] > 0
        /\ Owed' = [Owed EXCEPT ![Clicked[req]] = @ - 1]
    BY <2>1, ClickEnds DEF AtClick
  <2>3. hot' = hot \/ hot' = [hot EXCEPT ![member] = @ + 1]
    BY <1>5 DEF ZIncr, ZIncrLost
  <2>4. member \in {Clicked[req], Garbage} /\ Garbage \notin Ids
    BY <2>1 DEF TypeInv, MemberIsOwn, ServiceAssumption
  <2>5. Points' = Points \/ Points' = [Points EXCEPT ![Clicked[req]] = @ + 1]
    <3>1. hot \in [Ids \cup {Garbage} -> Nat]
      BY DEF TypeInv, TypeOK
    <3>2. CASE hot' = hot
      BY <3>2 DEF Points
    <3>3. CASE hot' = [hot EXCEPT ![member] = @ + 1] /\ member = Garbage
      BY <2>4, <3>1, <3>3 DEF Points
    <3>4. CASE hot' = [hot EXCEPT ![member] = @ + 1] /\ member = Clicked[req]
      BY <2>2, <3>1, <3>4 DEF Points
    <3> QED BY <2>3, <2>4, <3>2, <3>3, <3>4
  <2> QED BY <2>2, <2>5, CounterMoves
<1>6. CASE DecodeFails \/ (ClickConnect /\ pc' = "reply") \/ (Restart /\ pc \in AtClick)
  <2>1. pc \in AtClick /\ pc' \notin AtClick /\ cur' = cur /\ Points' = Points
    BY <1>6 DEF DecodeFails, ClickConnect, Restart, Die, Goto, AtClick, Points
  <2> QED BY <2>1, ClickEnds, CounterMoves
<1>7. CASE \/ Decode
           \/ ClickConnect /\ pc' = "incr"
           \/ Restart /\ pc \notin AtClick
           \/ Listing \/ Reply \/ UNCHANGED vars
  <2>1. /\ cur' = cur /\ Points' = Points
        /\ \/ pc \notin AtClick /\ pc' \notin AtClick
           \/ pc \in AtClick /\ pc' \in AtClick /\ req' = req
    BY <1>7 DEF Decode, ClickConnect, Restart, Listing, Reply, vars, Connect, ConnectFails,
       RangeList, RangeError, RangeLost, ReadRow, ReadRowCrashes, ZScore, ZScoreLost,
       AddRow, Die, Goto, AtClick, Points
  <2> QED BY <2>1, ClickGoesOn, CounterStays
<1>8. ClickConnect => pc' = "incr" \/ pc' = "reply"
  BY DEF ClickConnect, Goto
<1> QED BY <1>1, <1>2, <1>3, <1>4, <1>5, <1>6, <1>7, <1>8
       DEF Next, DataCgi, Clicking, Resting

(* The service implements ClickCounter for every number of uploads and     *)
(* requests: a score rises by one for a record and by one for each click,  *)
(* at most once each, whatever is lost (usefull.c 324-328, data_use.c      *)
(* 324-340).                                                               *)
THEOREM CounterImplemented == Spec => ImplementsCounter
<1>1. Init => Counter!Init
  <2> SUFFICES ASSUME Init PROVE Counter!Init
    OBVIOUS
  <2>1. \A id \in Ids : hot[id] = 0 /\ OwedByClick(id) = 0
    BY DEF Init, OwedByClick
  <2>2. \A id \in Ids : OwedByUpload(id) = 0
    BY ServiceAssumption DEF Init, OwedByUpload, ServiceAssumption
  <2> QED BY <2>1, <2>2 DEF Counter!Init
<1>2. TypeInv /\ [Next]_vars => [Counter!Next]_(Counter!vars)
  BY CounterStep, ServiceAssumption
<1>3. Spec => []TypeInv
  BY ServiceInvariant, PTL DEF ServiceInv
<1> QED BY <1>1, <1>2, <1>3, PTL DEF Spec, ImplementsCounter, Counter!Spec

-----------------------------------------------------------------------------
(* Clicks are not lost.  A click that has come to its reply is counted:    *)
(* the invariant adds it to those that were answered.                      *)

Sound == Faults \cap {"redis_down", "redis_error", "stale_memory"} = {}

Done(id) == {r \in Requests :
                Cmd[r] = "increase" /\ Clicked[r] = id /\ outcome[r] \in {"answered"}}

Pending(id) ==
    IF pc = "reply" /\ Cmd[req] = "increase" /\ Clicked[req] = id THEN 1 ELSE 0

\* What a request asks for decides where it is served.
CommandFits ==
    /\ pc \in {"connect", "range", "row", "score"} => Cmd[req] = "newFile"
    /\ pc \in AtClick => Cmd[req] = "increase"
    /\ pc \notin {"accept", "dead"} => outcome[req] = "serving"
    /\ Sound /\ pc \in {"click", "incr"} => member = Clicked[req]

ClicksCounted ==
    \A id \in Ids : /\ IsFiniteSet(Done(id))
                    /\ Sound => Cardinality(Done(id)) + Pending(id) <= hot[id]

CountInv == CommandFits /\ ClicksCounted

(* The command of a request decides which part of data_cgi serves it       *)
(* (data_cgi.c 68-85).                                                     *)
LEMMA CommandStep ==
    ASSUME ServiceAssumption, TypeInv, CommandFits, [Next]_vars PROVE CommandFits'
<1> USE DEF worker, client, CommandFits, AtClick, Goto
<1>1. CASE Accept
  <2>1. PICK r \in Requests :
           /\ outcome' = [outcome EXCEPT ![r] = "serving"] /\ req' = r
           /\ Goto(CASE Cmd[r] = "newFile"  -> "connect"
                     [] Cmd[r] = "increase" -> "decode"
                     [] Cmd[r] = "other"    -> "reply")
    BY <1>1 DEF Accept
  <2>2. \/ Cmd[r] = "newFile" /\ pc' = "connect"
        \/ Cmd[r] = "increase" /\ pc' = "decode"
        \/ Cmd[r] = "other" /\ pc' = "reply"
    BY <2>1 DEF ServiceAssumption
  <2>3. outcome'[r] = "serving"
    BY <2>1 DEF TypeInv, TypeOK
  <2> QED BY <2>1, <2>2, <2>3
<1>2. CASE pc' \in {"accept", "dead"}
  BY <1>2
<1>3. CASE RangeList \/ RangeError \/ Connect \/ ReadRow \/ ZScore
  BY <1>2, <1>3 DEF RangeList, RangeError, Connect, ReadRow, ZScore, AddRow
<1>4. CASE Decode \/ ClickConnect \/ ZIncr
  <2>1. CASE Decode
    BY <1>4, <2>1 DEF Decode, Sound, Fault
  <2>2. CASE ClickConnect
    BY <1>4, <2>2 DEF ClickConnect
  <2>3. CASE ZIncr
    BY <1>4, <2>3 DEF ZIncr
  <2> QED BY <1>4, <2>1, <2>2, <2>3
<1>5. CASE Push \/ Point \/ UploadDies \/ UNCHANGED vars
  BY <1>5 DEF Push, Point, UploadDies, vars
<1>6. \/ Accept \/ pc' \in {"accept", "dead"}
      \/ RangeList \/ RangeError \/ Connect \/ ReadRow \/ ZScore
      \/ Decode \/ ClickConnect \/ ZIncr
      \/ Push \/ Point \/ UploadDies \/ UNCHANGED vars
  BY DEF Next, DataCgi, Listing, Clicking, Resting, Reply, ConnectFails, RangeLost,
     ReadRowCrashes, ZScoreLost, DecodeFails, ZIncrLost, Die, Restart
<1> QED BY <1>1, <1>2, <1>3, <1>4, <1>5, <1>6

(* Only an answer adds to the clicks that were answered, and only the one  *)
(* of the request that is served.                                          *)
LEMMA DoneGrows ==
    ASSUME ServiceAssumption, TypeInv, CommandFits, [Next]_vars, NEW id
    PROVE  \/ Done(id)' = Done(id)
           \/ /\ Reply /\ Cmd[req] = "increase" /\ Clicked[req] = id
              /\ Done(id)' = Done(id) \cup {req}
<1> USE DEF client, worker
<1>1. CASE UNCHANGED outcome
  BY <1>1 DEF Done
<1>2. CASE Reply
  <2>1. req \in Requests /\ outcome' = [outcome EXCEPT ![req] = "answered"]
    BY <1>2 DEF Reply, TypeInv, Serves
  <2>2. outcome[req] = "serving"
    BY <1>2 DEF Reply, CommandFits
  <2>3. \A r \in Requests \ {req} : outcome'[r] = outcome[r]
    BY <2>1 DEF TypeInv, TypeOK
  <2>4. outcome'[req] = "answered"
    BY <2>1 DEF TypeInv, TypeOK
  <2> QED BY <1>2, <2>1, <2>2, <2>3, <2>4 DEF Done
<1>3. CASE \E r \in Requests : /\ outcome[r] # "answered"
                               /\ \E x \in {"serving", "closed"} : outcome' = [outcome EXCEPT ![r] = x]
  BY <1>3 DEF Done, TypeInv, TypeOK
<1>4. CASE outcome' = [r \in Requests |-> IF outcome[r] = "serving" THEN "closed" ELSE outcome[r]]
  BY <1>4 DEF Done
<1>5. ASSUME pc \notin {"accept", "dead"}, outcome' = [outcome EXCEPT ![req] = "closed"]
      PROVE  Done(id)' = Done(id)
  <2>1. req \in Requests /\ outcome[req] = "serving"
    BY <1>5 DEF CommandFits, TypeInv, Serves
  <2>2. \A r \in Requests : outcome'[r] = IF r = req THEN "closed" ELSE outcome[r]
    BY <1>5, <2>1 DEF TypeInv, TypeOK
  <2> QED BY <2>1, <2>2 DEF Done
<1>6. CASE Accept
  BY <1>3, <1>6 DEF Accept
<1>7. CASE Push \/ Point \/ UploadDies \/ UNCHANGED vars
  BY <1>1, <1>7 DEF Push, Point, UploadDies, vars
<1>8. CASE Listing
  BY <1>1, <1>5, <1>8 DEF Listing, Connect, ConnectFails, RangeList, RangeError, RangeLost,
     ReadRow, ReadRowCrashes, ZScore, ZScoreLost, AddRow, Die
<1>9. CASE Clicking
  BY <1>1, <1>5, <1>9 DEF Clicking, Decode, DecodeFails, ClickConnect, ZIncr, ZIncrLost, Die
<1>10. CASE Restart
  BY <1>4, <1>10 DEF Restart
<1> QED BY <1>2, <1>6, <1>7, <1>8, <1>9, <1>10 DEF Next, DataCgi, Resting

(* A point is given before the reply, so what is answered is in the score. *)
LEMMA CountStep ==
    ASSUME ServiceAssumption, TypeInv, CountInv, [Next]_vars PROVE CountInv'
<1> SUFFICES ASSUME NEW id \in Ids
             PROVE  /\ IsFiniteSet(Done(id))'
                    /\ Sound => (Cardinality(Done(id)) + Pending(id) <= hot[id])'
  BY CommandStep DEF CountInv, ClicksCounted, Sound
<1>1. /\ IsFiniteSet(Done(id)) /\ Cardinality(Done(id)) \in Nat
      /\ Sound => Cardinality(Done(id)) + Pending(id) <= hot[id]
      /\ hot \in [Ids \cup {Garbage} -> Nat]
      /\ Pending(id) \in {0, 1}
  BY FS_CardinalityType DEF CountInv, ClicksCounted, TypeInv, TypeOK, Pending
<1>2. CASE Reply /\ Cmd[req] = "increase" /\ Clicked[req] = id
  <2>1. Done(id)' = Done(id) \/ Done(id)' = Done(id) \cup {req}
    BY DoneGrows DEF CountInv
  <2>2. IsFiniteSet(Done(id)') /\ Cardinality(Done(id)') \in Nat
        /\ Cardinality(Done(id)') <= Cardinality(Done(id)) + 1
    <3>1. CASE Done(id)' = Done(id)
      BY <1>1, <3>1
    <3>2. CASE Done(id)' = Done(id) \cup {req}
      <4>1. /\ IsFiniteSet(Done(id) \cup {req})
            /\ \/ Cardinality(Done(id) \cup {req}) = Cardinality(Done(id))
               \/ Cardinality(Done(id) \cup {req}) = Cardinality(Done(id)) + 1
        BY <1>1, FS_AddElement
      <4> QED BY <1>1, <3>2, <4>1
    <3> QED BY <2>1, <3>1, <3>2
  <2>3. Pending(id) = 1 /\ Pending(id)' = 0 /\ hot' = hot
    BY <1>2 DEF Reply, Goto, Pending, redis
  <2> QED BY <1>1, <2>2, <2>3
<1>3. CASE ~ (Reply /\ Cmd[req] = "increase" /\ Clicked[req] = id)
  <2>1. Done(id)' = Done(id)
    BY <1>3, DoneGrows DEF CountInv
  <2>2. Sound => hot'[id] - hot[id] >= Pending(id)' - Pending(id)
    <3> USE <1>1 DEF worker, upload, redis, Goto
    <3>1. CASE hot' = hot /\ pc' # "reply"
      BY <3>1 DEF Pending
    <3>2. CASE hot' = hot /\ Cmd[req] # "increase" /\ req' = req
      BY <3>2 DEF Pending
    <3>3. CASE hot' = hot /\ pc' = pc /\ req' = req
      BY <3>3 DEF Pending
    <3>4. CASE Point
      <4>1. IdOf(cur) \in Ids /\ pc' = pc /\ req' = req
        BY <3>4 DEF Point, TypeInv, TypeOK, IdOf, Ids
      <4>2. Pending(id)' = Pending(id)
        BY <4>1 DEF Pending
      <4> QED BY <3>4, <4>1, <4>2 DEF Point
    <3>5. CASE ZIncr
      <4>1. Sound => member = Clicked[req] /\ hot' = [hot EXCEPT ![member] = @ + 1]
        BY <3>5 DEF ZIncr, CountInv, CommandFits, Sound, Fault
      <4>2. pc = "incr" /\ pc' = "reply" /\ req' = req /\ req \in Requests /\ Clicked[req] \in Ids
        BY <3>5 DEF ZIncr, TypeInv, Serves, Ids
      <4>3. Pending(id) = 0 /\ Pending(id)' = IF Cmd[req] = "increase" /\ Clicked[req] = id
                                              THEN 1 ELSE 0
        BY <4>2 DEF Pending
      <4> QED BY <4>1, <4>2, <4>3
    <3>6. CASE ZIncrLost
      <4>1. pc' = "dead" /\ member \in Ids \cup {Garbage}
        BY <3>6 DEF ZIncrLost, Die, TypeInv, TypeOK
      <4>2. hot'[id] >= hot[id] /\ hot'[id] \in Nat
        BY <3>6, <4>1 DEF ZIncrLost
      <4>3. Pending(id) \in {0, 1} /\ Pending(id)' = 0 /\ hot[id] \in Nat
        BY <4>1 DEF Pending
      <4> QED BY <4>2, <4>3
    <3>7. CASE Accept
      <4>1. PICK r \in Requests :
               /\ req' = r
               /\ Goto(CASE Cmd[r] = "newFile"  -> "connect"
                         [] Cmd[r] = "increase" -> "decode"
                         [] Cmd[r] = "other"    -> "reply")
        BY <3>7 DEF Accept
      <4>2. hot' = hot /\ pc = "accept"
        BY <3>7 DEF Accept
      <4>3. pc' # "reply" \/ Cmd[req'] = "other"
        BY <4>1 DEF ServiceAssumption
      <4>4. Pending(id) = 0 /\ Pending(id)' = 0
        BY <4>2, <4>3 DEF Pending
      <4> QED BY <4>2, <4>4
    <3>8. CASE Listing \/ Reply
      <4>1. hot' = hot /\ (pc' = "reply" => Cmd[req] = "newFile" /\ req' = req)
        BY <3>8 DEF Listing, Reply, Connect, ConnectFails, RangeList, RangeError, RangeLost,
           ReadRow, ReadRowCrashes, ZScore, ZScoreLost, AddRow, Die, CountInv, CommandFits
      <4> QED BY <4>1, <3>1, <3>2
    <3>9. CASE Decode \/ DecodeFails \/ ClickConnect \/ Restart
      <4>1. hot' = hot /\ (Sound => pc' # "reply")
        BY <3>9 DEF Decode, DecodeFails, ClickConnect, Restart, Die, Sound, Fault
      <4> QED BY <4>1, <3>1
    <3>10. CASE Push \/ UploadDies \/ UNCHANGED vars
      BY <3>3, <3>10 DEF Push, UploadDies, vars
    <3> QED BY <3>4, <3>5, <3>6, <3>7, <3>8, <3>9, <3>10
           DEF Next, DataCgi, Clicking, Resting
  <2>3. hot'[id] \in Nat /\ Pending(id)' \in {0, 1}
    BY TypeStep DEF TypeInv, TypeOK, Pending
  <2> QED BY <1>1, <2>1, <2>2, <2>3
<1> QED BY <1>2, <1>3

(* Unless Redis refuses a connection or a command, or memory is not clean, *)
(* every click that was answered is in the score of its file, for every    *)
(* number of clicks, uploads and restarts between them (write_redis,       *)
(* usefull.c 324-328; increase_file_pv, data_use.c 324-340).               *)
THEOREM ClicksAreKept == Spec => []NoClickLost
<1>1. Init => CountInv
  <2> SUFFICES ASSUME Init PROVE CountInv
    OBVIOUS
  <2>1. \A id \in Ids : Done(id) = {} /\ Pending(id) = 0 /\ hot[id] = 0
    BY DEF Init, Done, Pending
  <2>2. CommandFits
    BY DEF Init, CommandFits, AtClick
  <2>3. ClicksCounted
    <3> SUFFICES ASSUME NEW id \in Ids
                 PROVE  IsFiniteSet(Done(id)) /\ Cardinality(Done(id)) + Pending(id) <= hot[id]
      BY DEF ClicksCounted
    <3>1. IsFiniteSet(Done(id)) /\ Cardinality(Done(id)) = 0
      BY <2>1, FS_EmptySet, Zenon
    <3> QED BY <2>1, <3>1
  <2> QED BY <2>2, <2>3 DEF CountInv
<1>2. TypeInv /\ CountInv /\ [Next]_vars => CountInv'
  BY CountStep, ServiceAssumption
<1>3. TypeInv /\ CountInv => NoClickLost
  <2> SUFFICES ASSUME TypeInv, CountInv, Sound, NEW id \in Ids
               PROVE  Answered(id) <= hot[id]
    BY DEF NoClickLost, Sound
  <2>1. Answered(id) = Cardinality(Done(id))
    BY DEF Answered, Clicks, Done
  <2>2. /\ Cardinality(Done(id)) \in Nat /\ hot[id] \in Nat /\ Pending(id) \in {0, 1}
        /\ Cardinality(Done(id)) + Pending(id) <= hot[id]
    BY FS_CardinalityType DEF CountInv, ClicksCounted, TypeInv, TypeOK, Pending
  <2> QED BY <2>1, <2>2
<1>4. Spec => []TypeInv
  BY ServiceInvariant, PTL DEF ServiceInv
<1> QED BY <1>1, <1>2, <1>3, <1>4, PTL DEF Spec
==============================================================================
