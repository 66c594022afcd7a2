----------------------------- MODULE FileService -----------------------------
(***************************************************************************)
(* Listing and clicks: the data_cgi process (data_cgi.c, data_use.c) works *)
(* on the two Redis keys while the upload worker adds to them              *)
(* (write_redis, usefull.c).  Both are single processes that talk to Redis *)
(* one command at a time; Redis runs each command as a whole.              *)
(***************************************************************************)
EXTENDS RedisRecord, FiniteSets

CONSTANTS
    Uploads,    \* the files the upload worker has yet to record
    Fields,     \* the six fields of each upload's record
    NoUpload,   \* the upload worker is recording nothing
    Requests,   \* what clients send to data_cgi
    NoReq,      \* data_cgi serves no request
    Cmd,        \* the command of each request
    From,       \* fromId of a newFile request, as atoi reads it
    Count,      \* its count, likewise: 0 when there is none
    Clicked,    \* the file an increase request names
    Garbage,    \* a member made from what was left in memory
    NoPage,     \* nothing was sent for this request
    Faults      \* what may go wrong in a behaviour

FaultKinds ==
    { "malloc",         \* malloc returns NULL in str_replace
      "stale_memory",   \* what malloc returns does not begin with a zero
      "redis_down",     \* redisConnect fails
      "redis_error",    \* Redis answers a command with an error
      "redis_lost",     \* the reply to a command is lost: redisCommand is NULL
      "upload_dies",    \* the upload worker ends inside write_redis
      "restart" }       \* data_cgi is stopped and started again

\* Six texts, each of characters.
Records == [Words -> Seq(STRING)]

Ids == {Fields[u][1] : u \in Uploads} \cup {Clicked[r] : r \in Requests}

ASSUME ServiceAssumption ==
    /\ NoUpload \notin Uploads
    /\ NoReq \notin Requests
    /\ \A u \in Uploads : Fields[u] \in Records
    /\ Cmd \in [Requests -> {"newFile", "increase", "other"}]
    /\ From \in [Requests -> Int]
    /\ Count \in [Requests -> Int]
    /\ DOMAIN Clicked = Requests
    /\ Garbage \notin Ids
    /\ Faults \subseteq FaultKinds

VARIABLES
    todo,       \* uploads not yet recorded
    cur,        \* the upload that is listed and has no point yet
    list,       \* FILE_INFO_LIST, newest first as LPUSH leaves it
    hot,        \* FILE_HOT_ZSET: the score of each member, 0 when absent
    pc,         \* where data_cgi is
    req,        \* the request it serves
    member,     \* fileId after str_replace
    page,       \* file_list_values: what LRANGE returned
    rows,       \* the rows made of it so far
    outcome,    \* what the web server knows of each request
    shown       \* the rows that were sent for each request

worker == <<pc, req, member, page, rows>>
upload == <<todo, cur>>
redis  == <<list, hot>>
client == <<outcome, shown>>
vars   == <<worker, upload, redis, client>>

Locations == { "accept", "connect", "range", "row", "score", "reply",
               "decode", "click", "incr", "dead" }

Init ==
    /\ todo = Uploads
    /\ cur = NoUpload
    /\ list = << >>
    /\ hot = [m \in Ids \cup {Garbage} |-> 0]
    /\ pc = "accept"
    /\ req = NoReq
    /\ member = Garbage
    /\ page = << >>
    /\ rows = << >>
    /\ outcome = [r \in Requests |-> "queued"]
    /\ shown = [r \in Requests |-> NoPage]

Fault(k) == k \in Faults

Goto(l) == pc' = l

\* data_cgi ends with a request open.  What it held is kept for the properties.
Die ==
    /\ Goto("dead")
    /\ outcome' = [outcome EXCEPT ![req] = "closed"]
    /\ UNCHANGED <<req, member, page, rows, shown>>

-----------------------------------------------------------------------------
(* The upload worker: write_redis pushes the record and adds the point.    *)

IdOf(u) == Fields[u][1]

Push ==
    /\ cur = NoUpload
    /\ \E u \in todo :
          /\ todo' = todo \ {u}
          /\ cur' = u
          /\ \/ list' = <<u>> \o list
             \/ Fault("redis_error") /\ UNCHANGED list
    /\ UNCHANGED <<hot, worker, client>>

\* A slip to be caught: the score is set to the default and not added to.
Point_Sets ==
    /\ cur # NoUpload
    /\ hot' = [hot EXCEPT ![IdOf(cur)] = 1]
    /\ cur' = NoUpload
    /\ UNCHANGED <<todo, list, worker, client>>

Point ==
    /\ cur # NoUpload
    /\ \/ hot' = [hot EXCEPT ![IdOf(cur)] = @ + 1]
       \/ Fault("redis_error") /\ UNCHANGED hot
    /\ cur' = NoUpload
    /\ UNCHANGED <<todo, list, worker, client>>

\* It is stopped or crashes after the push; start-up.sh starts another.
UploadDies ==
    /\ Fault("upload_dies")
    /\ cur # NoUpload
    /\ cur' = NoUpload
    /\ UNCHANGED <<todo, redis, worker, client>>

-----------------------------------------------------------------------------
(* main of data_cgi.c.                                                     *)

\* A slip to be caught: the rows of the request before stay.
Accept_KeepsRows ==
    /\ pc = "accept"
    /\ \E r \in Requests :
          /\ outcome[r] = "queued"
          /\ outcome' = [outcome EXCEPT ![r] = "serving"]
          /\ req' = r
          /\ Goto(CASE Cmd[r] = "newFile"  -> "connect"
                    [] Cmd[r] = "increase" -> "decode"
                    [] Cmd[r] = "other"    -> "reply")
    /\ member' = Garbage
    /\ page' = << >>
    /\ UNCHANGED <<rows, upload, redis, shown>>

Accept ==
    /\ pc = "accept"
    /\ \E r \in Requests :
          /\ outcome[r] = "queued"
          /\ outcome' = [outcome EXCEPT ![r] = "serving"]
          /\ req' = r
          /\ Goto(CASE Cmd[r] = "newFile"  -> "connect"
                    [] Cmd[r] = "increase" -> "decode"
                    [] Cmd[r] = "other"    -> "reply")
    /\ member' = Garbage
    /\ page' = << >>
    /\ rows' = << >>
    /\ UNCHANGED <<upload, redis, shown>>

\* A slip to be caught: only the request of a listing is ended.
Reply_ListingOnly ==
    /\ pc = "reply"
    /\ Goto("accept")
    /\ outcome' = IF Cmd[req] = "newFile" THEN [outcome EXCEPT ![req] = "answered"] ELSE outcome
    /\ shown' = IF Cmd[req] = "newFile" THEN [shown EXCEPT ![req] = rows] ELSE shown
    /\ req' = NoReq
    /\ UNCHANGED <<member, page, rows, upload, redis>>

\* The output goes out and the request ends at the next FCGI_Accept.
Reply ==
    /\ pc = "reply"
    /\ Goto("accept")
    /\ outcome' = [outcome EXCEPT ![req] = "answered"]
    /\ shown' = IF Cmd[req] = "newFile" THEN [shown EXCEPT ![req] = rows] ELSE shown
    /\ req' = NoReq
    /\ UNCHANGED <<member, page, rows, upload, redis>>

-----------------------------------------------------------------------------
(* newFile: read_redis_to_json and the commands it gives.                  *)

Connect ==
    /\ pc = "connect"
    /\ Goto("range")
    /\ UNCHANGED <<req, member, page, rows, upload, redis, client>>

\* exit(1)
ConnectFails ==
    /\ pc = "connect"
    /\ Fault("redis_down")
    /\ Die
    /\ UNCHANGED <<upload, redis>>

(***************************************************************************)
(* LRANGE: positions count from 0, negative ones from the end.             *)
(***************************************************************************)
FromEnd(i) == IF i < 0 THEN Len(list) + i ELSE i

LRange(from, to) ==
    SubSeq(list, Max({FromEnd(from), 0}) + 1, Min({FromEnd(to) + 1, Len(list)}))

\* A slip to be caught: the elements are copied from the last to the first.
RopRangeList_Backwards(from, count) ==
    LET elements == LRange(from, count)
    IN  [i \in DOMAIN elements |-> elements[Len(elements) - i + 1]]

(***************************************************************************)
(* rop_range_list: count is both the last position for LRANGE and a bound  *)
(* on the number of elements kept, compared as unsigned numbers.           *)
(***************************************************************************)
RopRangeList(from, count) ==
    LET elements == LRange(from, count)
    IN  IF count < 0 THEN elements
        ELSE SubSeq(elements, 1, Min({Len(elements), count}))

EndId(r) == From[r] + Count[r] - 1

\* The values are copied to an array of Count values; more of them, or an
\* array that malloc refused, end the process unless the heap happens to bear it.
RangeList ==
    /\ pc = "range"
    /\ page' = RopRangeList(From[req], EndId(req))
    /\ \/ /\ Len(page') <= Count[req] \/ page' = << >> \/ Count[req] = 0
          /\ Goto(IF page' = << >> THEN "reply" ELSE "row")
          /\ UNCHANGED outcome
       \/ /\ Len(page') > Count[req]
          /\ page' # << >>
          /\ Goto("dead")
          /\ outcome' = [outcome EXCEPT ![req] = "closed"]
    /\ UNCHANGED <<req, member, rows, upload, redis, shown>>

\* The reply is no array: -1 is returned, main does not look at it.
RangeError ==
    /\ pc = "range"
    /\ Fault("redis_error")
    /\ Goto("reply")
    /\ UNCHANGED <<req, member, page, rows, upload, redis, client>>

RangeLost ==
    /\ pc = "range"
    /\ Fault("redis_lost")
    /\ Die
    /\ UNCHANGED <<upload, redis>>

\* The fields of the element an upload pushed, as the reader finds them.
Parsed == [u \in Uploads |-> [n \in Words |-> Get(Value(Fields[u]), n)]]

\* The element the next row is made of, and its fields.
Current == page[Len(rows) + 1]

Element == Parsed[Current]

\* The records the reader does not survive.
Fatal == {u \in Uploads : Crashes(Value(Fields[u]))}

Survives == Current \notin Fatal

ReadRow ==
    /\ pc = "row"
    /\ Survives
    /\ Goto("score")
    /\ UNCHANGED <<req, member, page, rows, upload, redis, client>>

ReadRowCrashes ==
    /\ pc = "row"
    /\ ~ Survives
    /\ Die
    /\ UNCHANGED <<upload, redis>>

\* A slip to be caught: the upload's own point is shown as a click.
Row_CountsUpload(score) == [id |-> Element[1], pv |-> score]

Row(score) == [id |-> Element[1], pv |-> score - 1]

AddRow(score) ==
    /\ rows' = Append(rows, Row(score))
    /\ Goto(IF Len(rows') = Len(page) THEN "reply" ELSE "row")
    /\ UNCHANGED <<req, member, page, upload, redis, client>>

\* What rop_zset_get_score returns: -1 for a member that is not there.
Score(m) == IF m \in DOMAIN hot /\ hot[m] > 0 THEN hot[m] ELSE -1

ZScore ==
    /\ pc = "score"
    /\ \/ AddRow(Score(Element[1]))
       \/ Fault("redis_error") /\ AddRow(-1)

ZScoreLost ==
    /\ pc = "score"
    /\ Fault("redis_lost")
    /\ Die
    /\ UNCHANGED <<upload, redis>>

-----------------------------------------------------------------------------
(* increase: str_replace and increase_file_pv.                             *)

\* A slip to be caught: the process ends on every click.
Decode_Exits ==
    /\ pc = "decode"
    /\ Goto("dead")
    /\ UNCHANGED <<req, member, page, rows, upload, redis, client>>

\* str_replace appends to memory that malloc returned and nobody cleared.
Decode ==
    /\ pc = "decode"
    /\ \/ member' = Clicked[req]
       \/ Fault("stale_memory") /\ member' = Garbage
    /\ Goto("click")
    /\ UNCHANGED <<req, page, rows, upload, redis, client>>

DecodeFails ==
    /\ pc = "decode"
    /\ Fault("malloc")
    /\ Die
    /\ UNCHANGED <<upload, redis>>

\* Without a connection the click is answered and not counted.
ClickConnect ==
    /\ pc = "click"
    /\ \/ Goto("incr")
       \/ Fault("redis_down") /\ Goto("reply")
    /\ UNCHANGED <<req, member, page, rows, upload, redis, client>>

\* A slip to be caught: the -1 that rop_zset_increment always returns is taken
\* for a failure and the command is given again.
ZIncr_Retried ==
    /\ pc = "incr"
    /\ \/ hot' = [hot EXCEPT ![member] = @ + 2]
       \/ Fault("redis_error") /\ UNCHANGED hot
    /\ Goto("reply")
    /\ UNCHANGED <<req, member, page, rows, upload, list, client>>

\* rop_zset_increment: its result is ignored.
ZIncr ==
    /\ pc = "incr"
    /\ \/ hot' = [hot EXCEPT ![member] = @ + 1]
       \/ Fault("redis_error") /\ UNCHANGED hot
    /\ Goto("reply")
    /\ UNCHANGED <<req, member, page, rows, upload, list, client>>

ZIncrLost ==
    /\ pc = "incr"
    /\ Fault("redis_lost")
    /\ \/ hot' = [hot EXCEPT ![member] = @ + 1]
       \/ UNCHANGED hot
    /\ Die
    /\ UNCHANGED <<upload, list>>

-----------------------------------------------------------------------------
(* data_cgi is started again; the request it had is lost.                  *)
Restart ==
    /\ Fault("restart")
    /\ Goto("accept")
    /\ outcome' = [r \in Requests |->
                      IF outcome[r] = "serving" THEN "closed" ELSE outcome[r]]
    /\ req' = NoReq
    /\ member' = Garbage
    /\ page' = << >>
    /\ rows' = << >>
    /\ UNCHANGED <<upload, redis, shown>>

\* Nothing is left to record, and data_cgi has nothing to serve or is gone.
Resting ==
    /\ todo = {}
    /\ cur = NoUpload
    /\ pc = "dead" \/ (pc = "accept" /\ \A r \in Requests : outcome[r] # "queued")
    /\ UNCHANGED vars

Listing == Connect \/ ConnectFails \/ RangeList \/ RangeError \/ RangeLost
             \/ ReadRow \/ ReadRowCrashes \/ ZScore \/ ZScoreLost

Clicking == Decode \/ DecodeFails \/ ClickConnect \/ ZIncr \/ ZIncrLost

DataCgi == Accept \/ Listing \/ Clicking \/ Reply

Next == Push \/ Point \/ UploadDies \/ DataCgi \/ Restart \/ Resting

Spec == Init /\ [][Next]_vars

(***************************************************************************)
(* The kernel schedules data_cgi, and Redis answers or fails.              *)
(***************************************************************************)
FairSpec == Spec /\ WF_vars(DataCgi)
-----------------------------------------------------------------------------
(* Properties.                                                             *)

(* Every variable holds a value of its kind, and rows are made of the page *)
(* from its first element on.                                              *)
TypeOK ==
    /\ todo \subseteq Uploads
    /\ cur \in Uploads \cup {NoUpload}
    /\ list \in Seq(Uploads)
    /\ hot \in [Ids \cup {Garbage} -> Nat]
    /\ pc \in Locations
    /\ req \in Requests \cup {NoReq}
    /\ member \in Ids \cup {Garbage}
    /\ page \in Seq(Uploads)
    /\ Len(rows) <= Len(page)
    /\ \A k \in DOMAIN rows : rows[k].pv \in Int
    /\ outcome \in [Requests -> {"queued", "serving", "answered", "closed"}]
    /\ DOMAIN shown = Requests

Clicks(id, states) ==
    Cardinality({r \in Requests :
        Cmd[r] = "increase" /\ Clicked[r] = id /\ outcome[r] \in states})

Answered(id) == Clicks(id, {"answered"})

Sent(id) == Clicks(id, {"serving", "answered", "closed"})

(* The abstract view: the points of the files that exist, and who is about *)
(* to add one.  A point that goes to a garbled member is forgotten.        *)
OwedByUpload(id) == IF \E u \in Uploads : u = cur /\ IdOf(u) = id THEN 1 ELSE 0

OwedByClick(id) ==
    IF pc \in {"decode", "click", "incr"} /\ Clicked[req] = id THEN 1 ELSE 0

Counter == INSTANCE ClickCounter WITH
    Files <- Ids,
    score <- [id \in Ids |-> hot[id]],
    owed  <- [id \in Ids |-> OwedByUpload(id) + OwedByClick(id)]

(* Scores keep what ClickCounter promises: whatever replies are lost and   *)
(* whoever is restarted, no command is given twice and none for another    *)
(* file (write_redis, usefull.c 324-328; increase_file_pv, data_use.c      *)
(* 324-340).                                                               *)
ImplementsCounter == Counter!Spec

(* A click that was answered is in the score, unless Redis refused the     *)
(* connection or the command, or memory was not clean: the upload worker's *)
(* point and the clicks do not overwrite each other.                       *)
NoClickLost ==
    Faults \cap {"redis_down", "redis_error", "stale_memory"} = {} =>
        \A id \in Ids : Answered(id) <= hot[id]

(* A page is a part of the list as it stands, in its order and without a   *)
(* gap, though the upload worker pushes while data_cgi goes through it     *)
(* (read_redis_to_json, data_use.c 198-272).                               *)
PageIsBlock ==
    \E k \in 0 .. Len(list) - Len(page) : SubSeq(list, k + 1, k + Len(page)) = page

(* A row of a page in progress counts the clicks of its file: no fewer     *)
(* than were answered, or one less while the upload's own point is not     *)
(* there, no more than were sent, and -2 only when none was answered       *)
(* (score - 1, data_use.c 263-264).                                        *)
PvCountsClicks ==
    Faults \subseteq {"upload_dies", "restart"} =>
        \A k \in DOMAIN rows :
            LET id == rows[k].id
                pv == rows[k].pv
            IN  \/ pv \in Max({Answered(id) - 1, 0}) .. Sent(id)
                \/ pv = -2 /\ Answered(id) = 0

(* Of two pages a client gets one after the other, the later one never     *)
(* shows fewer clicks of a file, unless Redis answers ZSCORE with an error.*)
PvNeverFalls ==
    [][\A r1, r2 \in Requests :
          /\ shown[r1] # NoPage
          /\ shown[r2] = NoPage /\ shown'[r2] # NoPage
          /\ ~ Fault("redis_error")
          => \A j \in DOMAIN shown[r1], k \in DOMAIN shown'[r2] :
                shown[r1][j].id = shown'[r2][k].id =>
                    shown[r1][j].pv <= shown'[r2][k].pv]_vars

(* Unless a call fails, data_cgi ends only on a listing: one of no rows    *)
(* that LRANGE answers with some, or one that holds a record without its   *)
(* url, name or time (data_use.c 76-88, 165, 196).                         *)
DeathHasCause ==
    pc = "dead" /\ Faults \cap {"malloc", "redis_down", "redis_lost"} = {} =>
        /\ Cmd[req] = "newFile"
        /\ \/ Count[req] <= 0
           \/ \E k \in DOMAIN page :
                 ~ (Complete(Fields[page[k]]) /\ Readable(Fields[page[k]]))

(* Every request is answered in the end, is closed by a restart, or        *)
(* data_cgi is gone (data_cgi.c 47-93).                                    *)
RequestsAnswered ==
    <>[](pc = "dead" \/ \A r \in Requests : outcome[r] \in {"answered", "closed"})

(* get_cnt says what count is: how many files to show in all               *)
(* (usefull.c:376).  A listing of count files shows that many, or as many  *)
(* as the list has from fromId on.                                         *)
PageShowsCount ==
    [][pc = "range" /\ pc' # "range" =>
          Len(page') = Min({Count[req], Max({Len(list) - From[req], 0})})]_vars
==============================================================================
