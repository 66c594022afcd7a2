# Verification of the distributed storage service

TLA+ models of the upload and catalogue service in this repository, TLC runs on
small instances, and TLAPS proofs of their safety properties for every instance.

## The system

A browser uploads files and lists them through nginx. Two FastCGI programs do the
work, one process of each (`start-up.sh`):

| part | code | state it keeps | operations |
|---|---|---|---|
| upload worker | `src/upload.c` | buffers of the request in progress; its descriptors | accept, read body, store, get url, record, END |
| FastDFS bridge, Redis writer | `src/usefull.c` | pipes, children, a temporary file named by the client | `upload_file`, `fdfs_client`, `get_url`, `write_redis` |
| data_cgi worker | `src/data_cgi.c` | none between requests | `newFile` (list a page), `increase` (count a click) |
| listing and clicks | `src/data_use.c` | none | `read_redis_to_json`, `get_value_by_redis`, `increase_file_pv`, `str_replace` |
| Redis wrapper | `src/redis_op.c` | a connection and its pipeline | connect, list, zset, hash and string commands |
| Redis schema | `include/redis_keys.h` | `FILE_INFO_LIST`, `FILE_HOT_ZSET` | LPUSH, LRANGE, ZINCRBY, ZSCORE |
| file log | `src/make_log.c` | log directories and files | `dumpmsg_to_file`, `make_path`, `out_put_file` |
| JSON library | `src/cJSON.c` | none shared | vendored, not modelled |
| FastDFS, Redis, libfcgi, the kernel | external | stored files; the two keys; descriptors and processes | modelled from how the code uses them |

How the parts interact.  The upload worker forks `fdfs_upload_file` and
`fdfs_file_info`, waits for each and reads its output from a pipe; it then writes
one record with LPUSH and one point with ZINCRBY.  data_cgi reads the list with
LRANGE and each score with ZSCORE, and adds a point with ZINCRBY for each click.
The two workers share only Redis.

What is hard.  A failing `exec` makes the *child* return into `main`, so a second
worker appears while its parent sits in `wait(NULL)` with a request open.  Every
upload loses two descriptors.  Each of the calls of an upload may fail, and most
results are ignored.  A crash or a restart can fall between storing a file and
listing it.  Records, pages and queries are parsed with pointer arithmetic.

What makes each part correct.

- Upload: a record names the file of its own request and its url; a request is
  stored once and listed once, whatever fails; a temporary file does not outlive
  its listing; requests are closed; uploads are recorded while descriptors last.
- Listing and clicks: clicks are neither lost nor counted twice; a page shows the
  elements it was asked for; a record parses into the fields it was made from.
- Redis wrapper: what a function returns agrees with what Redis did.
- Log: a line is written, whichever process creates the directories.

## Modules

| module | models |
|---|---|
| `Catalogue` | abstract: what readers of FastDFS and Redis may see |
| `UploadWorker` | `upload.c` with `upload_file`, `fdfs_client`, `get_url`, `write_redis`; implements `Catalogue` |
| `MCUploadWorker` | instances of `UploadWorker` for TLC |
| `UploadWorkerProofs` | TLAPS proofs about `UploadWorker` |
| `RedisRecord` | the six-field value: `Value` as `write_redis` makes it, `Get` as `get_value_by_redis` reads it |
| `Texts` | the string functions of `usefull.c` and `data_use.c` as operators |
| `FileTexts` | the texts of one file from the body of its upload to a click on its row, over `Texts` and `RedisRecord` |
| `ClickCounter` | abstract: what `FILE_HOT_ZSET` promises |
| `FileService` | `data_cgi.c` and `data_use.c` beside the upload worker on the two Redis keys; implements `ClickCounter` |
| `RedisOps` | `redis_op.c`: every function over a connection, several clients and one Redis |
| `MakeLog` | `make_log.c`: several processes and one tree of log directories |
| `UploadRecordsProofs` | what `UploadWorker` records and scores, over `UploadWorkerProofs` |
| `RecordProofs` | a record is read back as it was written |
| `FileTextsProofs` | TLAPS proofs about `FileTexts`, over `RecordProofs` |
| `FileServiceProofs`, `FileServiceRowsProofs` | TLAPS proofs about `FileService`: types, pages and clicks; rows and what data_cgi ends over |
| `RedisOpsProofs`, `MakeLogProofs` | TLAPS proofs about `RedisOps` and `MakeLog` |
| `MCFileTexts`, `MCFileService`, `MCRedisOps`, `MCMakeLog` | instances of them for TLC |

The modules meet at their interfaces.  `UploadWorker` takes a body as a form and a
url as the id it was made from; `FileTexts` shows what the texts behind them are.
`FileService` takes records, parsed by the `Get` of `RedisRecord`, and commands to
Redis that are executed, refused or lost; `RedisOps` shows that the wrapper's calls
are exactly that.  The log calls that stand all over the code change nothing but the
log and are only in `MakeLog`.

### UploadWorker

A process is a slot with a location (`pc`), the request it serves (`req`), its two
buffers (`fid`, `url`), the child it waits for, what a dead child left in its pipe
(`out`) and the number of descriptors it opened (`used`).  Each action is the code
between two points where something else may be seen to happen: one system call,
one command to Redis, or one handler step.

| code | actions |
|---|---|
| `FCGI_Accept`, body (upload.c 53-102) | `Accept`, `AcceptFails`, `ReadBody`, `GetBufFails` |
| `upload_file` | `ParseCrashes`, `OpenTemp`, `OpenTempFails`, `WriteTemp` |
| `fdfs_client` | `FdfsPipe`, `FdfsPipeFails`, `FdfsFork`, `FdfsForkFails`, `FdfsExec`, `FdfsWait` |
| `unlink` | `UnlinkTemp` |
| `get_url` | `UrlPipe`, `UrlPipeFails`, `UrlFork`, `UrlForkFails`, `UrlExec`, `UrlWait`, `UrlWaitCrashes` |
| the FastDFS tools (external) | `FdfsToolStores`, `FdfsToolFails`, `UrlToolPrints`, `UrlToolFails` |
| `write_redis` | `Connect`, `ConnectFails`, `LPush`, `LPushLost`, `ZIncr`, `ZIncrLost` |
| `END`, the next `FCGI_Accept` | `End` |
| stop and `start-up.sh` | `Restart` |

Data is abstract.  A body is `good`, `dashes` (nine dashes inside the file, where
`memstr` takes the file to end), `malformed` (no headers: `strstr` returns NULL and the
worker crashes), `cut` (the connection ended early) or `nodata`.  A body that is cut
before its headers end crashes the worker too.  One that is cut later, or has no boundary,
does not: `memstr` returns NULL and the length is whatever an address makes it, but
`fwrite` writes nothing when it is negative, or what stands in memory as far as that is
mapped; its result is not looked at (`usefull.c:149`), and an empty or padded file is
stored and listed like any other.  A file's content is the request it came from and
whether it is whole.  A url is the id it was made from.

A process that crashes leaves its request closed only when no other has a copy of the
connection (`AbandonRequest`): after a failing `exec` parent and child both hold it, and
either may finish it (`CloseRequest`).

`Faults` is the set of things that may go wrong in an instance.  `Resting` is the
only stuttering step and is taken only when the first process has ended or one of
the processes accepts with nothing queued, so that TLC's deadlock check reports
every other standstill.

`Catalogue` has two actions, `Store` and `Publish`.  The refinement is the identity
on `stored` and `list`; what has to be shown is that no step stores or lists a
request twice or with a foreign file.

### RedisRecord, Texts and FileTexts

A text is a sequence of tokens.  A word the code looks for as a whole (`filename=`,
nine dashes, the name of a parameter, `source ip address:`) is one token, every other
character one of its own.  `Begin(s)[n]` is where the reader's loops stand after `n`
delimiters, `Mark(s)` the first `||||`, which the reader takes for a missing user.
`Crashes` says of which values the reader computes a negative length; `Get` is only
asked about the others.  The buffer sizes are not
modelled: no field here comes near them.

| code | definitions |
|---|---|
| `upload_file` (parsing), `memstr` | `Ends`, `HasName`, `HasHeaders`, `FileName`, `Rest`, `FileLength`, `MemStr`; `Written`, `UploadFile`, `UploadFileCrashes` |
| `trim_space` in `fdfs_client` | `TrimSpace`; `FdfsClient` |
| `get_url` | `HasAddress`, `Address`, `UrlOf`; `GetUrl`, `GetUrlCrashes` |
| `get_file_suffix`, `write_redis` | `GetFileSuffix`, `Record`, `Element` |
| `get_value_by_redis`, `get_ip_url` in `read_redis_to_json` | `Get`, `GetIpUrl`; `ReadRow`, `ReadRowCrashes` |
| `get_query_string` and its five getters, `str_replace` | `GetQueryString`, `StrReplace`; `Click`, `Increase` |

`FileTexts` is one file's way through both workers, one step per function. `Body` is the
form a browser sends, cut anywhere when its connection ends early (`upload.c:93` reads
on with what it has). `Given` says what the client and the tools supply, and `Possible`
what such a supply is like: a name without an end of line, an id that begins with its
group, and a server without white space or slashes, which the second tool names only for
a stored file. `Written` is what `fwrite` may be given: the file up to the first nine
dashes; nothing, when they come in its first two bytes or only three ends of line came;
and without dashes any part of what came and of the memory behind it (`Junk`). With three
ends of line `memstr` is given an address behind NULL, and reads from it unless its
length came out negative, so both `UploadFile` and `UploadFileCrashes` may follow.
`Info` is what that tool prints: nothing, or lines with the server in one
of them. The user is not a parameter: `upload.c:132` overwrites whatever the query names
before `write_redis` sees it. `StrReplace` keeps two facts of the code: the copy is made
in memory from `malloc` that nothing clears, so old text (`junk`) can stand behind the
part before the first key; and only as many characters are copied back as the source
had. `get_fromId`, `get_cnt`, `get_usr` are the same function under other keys.

### FileService

data_cgi is a process with a location; the upload worker is reduced to the two
commands of `write_redis`, in their order (its other work is `UploadWorker`'s).

| code | actions |
|---|---|
| `write_redis` (usefull.c 324-328) | `Push`, `Point`, `UploadDies` |
| `main` of data_cgi.c | `Accept`, `Reply` |
| `read_redis_to_json` | `Connect`, `ConnectFails`, `RangeList`, `RangeError`, `RangeLost`, `ReadRow`, `ReadRowCrashes`, `ZScore`, `ZScoreLost` |
| `str_replace`, `increase_file_pv` | `Decode`, `DecodeFails`, `ClickConnect`, `ZIncr`, `ZIncrLost` |
| stop and `start-up.sh` | `Restart` |

The url of a record may be missing (`upload.c` goes on when `get_url` fails), which is
where a listing ends data_cgi.  `Parsed` holds what `Get` finds in each record.
`ClickCounter` is refined with the score as it stands and, as what is owed, the point
of the record just pushed and of the click in progress; a lost process or a garbled
member is a `Forget`.

`RopRangeList` keeps both uses of its last argument, as a position and as a bound,
and the unsigned comparison for negative ones.  A listing without a count (`atoi`
of an empty text) asks for positions 0 to -1: all elements are copied to an array
of none, and both outcomes are kept, the process dies or goes on.  `Decode` may
yield `Garbage` (fault `stale_memory`): the buffer of `str_replace` is appended to
before anything ends it.  When the process dies its variables stay as they were, so
that `DeathHasCause` can say why.  How a query is split into parameters is not
part of this model (`FileTexts` has it): `Cmd`, `From`, `Count` and `Clicked` are what
the parser returned.

### RedisOps

Each client has one connection: `link` is its handle, `out` the commands that Redis has
not executed, `in` the replies it has not read.  A function is a record of what it
sends and of what it makes of its last reply (`Rop`), so that one set of actions
stands for all of them.

| code | actions and operators |
|---|---|
| `rop_connectdb_nopwd`, `rop_connectdb_timeout` | `RopConnectdbNopwd`, `ConnectFails` |
| `rop_connectdb`, `rop_connectdb_unix` | `ConnectWithPassword`, then the answer to AUTH as any reply |
| `redisCommand`, `redisAppendCommand` | `Call`, `AppendFails` |
| `make_hmset_command` | `MakeHmsetCommand`, `MakeHmsetFails` |
| `redisGetReply`, `freeReplyObject`, the return of each function | `TakeReply`, `GetReplyFails` with `RopListPush` ... |
| `rop_disconnect` | `RopDisconnect` |
| Redis and TCP (external) | `Serve`, `Break`, `Drop` |

A key holds a list, a sorted set, a hash or a string, and Redis refuses a command of
another kind, a command before AUTH, and a data base that is not there.  `Answered`,
`Typed` and `SaysOK` are the three ways in which functions judge a reply; `Crash` is
a function that looks into a reply it does not have.  `rop_show_keys`
returns nothing; 0 stands for its return.  A batch whose `redisGetReply`
fails after the first reply frees that reply twice, so it may return -1 or die.
The time given to EXPIREAT has passed.  What a broken connection had sent is executed
or dropped before its client connects again.  A handle that a failed AUTH leaks is
not kept.

### MakeLog

A line is given by its four directories: `./logs`, module, year, month.  `DumpmsgToFile`
begins a call; `Access`, `Mkdir`, `MkdirExists` and `MkdirFails` are the calls of
`make_path`, one at a time; `OutPutFile` and `OpenFails` end it (`out_put_file`).  A
process goes from looking to making at the first missing directory and from there on
makes the rest without looking; a `mkdir` that finds its directory made counts as a
failure and ends the making.  The mutex of the library is one per process, and these
processes have one thread each, so it orders nothing here.  `Dies` is a process that
ends inside a call and is started again with its remaining lines.

## Runs

| run | instance | shows |
|---|---|---|
| `upload_faults` | 3 processes, 3 requests under one file name (good, with dashes inside, cut), 2 file ids, every fault but a command that Redis refuses | `TypeOK`, `OneRunning`, `RecordContent`, `TempGone`, `ScoredIsListed`, `ImplementsCatalogue` |
| `upload_live` | 3 processes, a request of each form, every fault but restart, fairness | `RequestsClose` |
| `upload_fds` | no fault, 4 uploads, a limit of 7 descriptors | `FirstUploadsRecorded`, `UploadsRecorded` |
| `upload_fields` | as `upload_fds` | violation: a record without file_id and url |
| `upload_unlink` | as `upload_fds`, the upload tool may fail | violation: the only copy is removed |
| `texts` | 5,114 files: bodies cut anywhere and padded with what memory holds, contents up to five tokens with line ends and dashes, names up to four with dots and bars, ids with slashes and the letters of a key, tools that print nothing | `StoredIsSent`, `CrashHasCause`, `ReadBack`, `PictureMatches`, `ClickNamesRow` |
| `service_clicks` | 3 uploads, the last without a url; 2 clicks on the first file, 2 listings, one asking for no rows; upload worker dies, data_cgi is restarted; fairness | `NoClickLost`, `PvCountsClicks`, `DeathHasCause`, `PvNeverFalls`, `RequestsAnswered` |
| `service_faults` | 2 uploads, one without a url; 3 listings, a click, an unknown command; every fault | `TypeOK`, `PageIsBlock`, `ImplementsCounter` |
| `service_count` | 2 uploads, listings of 2 from 0 | violation: one row of two |
| `redis_ops` | 2 clients on one key, one of them calling any function; connections break, cannot be made, or refuse to buffer, and memory runs out; fairness | `TypeOK`, `RepliesInStep`, `CrashHasCause`, `ReturnIsExact`, `CallsReturn` |
| `redis_batch` | the same clients, no fault | violation: a batch returns 0 for a command that Redis refused |
| `make_log` | 3 processes, nine lines, two modules, a change of year; mkdir and open fail, processes end | `TypeOK`, `LostHasCause`, `RacesBounded`, `NoDirectoryAbandoned` |

Bounds of `UploadWorker`.  Three processes let a child of a child become a worker and make `fork`
fail for want of slots.  Two requests under one name are what it takes to mix
up files, ids and records; the third, cut one makes workers crash between them or
goes on with a file that is not whole.  A push that Redis refuses only leaves a request
out of the list, and `ScoredIsListed` is not true then, so that fault is left to
`upload_live` (the proofs of the other properties have it).
A limit of 7 descriptors with tools that need 2 serves exactly two uploads
(`SafeUploads`); the third is listed without its file and the fourth ends the
worker.  In `upload_live` the limit of 20 never binds.
Bounds of `FileTexts`.  A content of five tokens can have the nine dashes with an end of line
before and after them and still begin or end elsewhere; a name of four can hold a
delimiter and half of another, or two dots.  `Junk` holds nothing or a text of its
own.  Files are independent here, so one is enough.
Bounds of `FileService`.  Two uploads let a push fall before, into and after a listing of two
rows; two clicks are needed to tell an overwritten score from a fresh one, and two
listings to compare.  Scores need no bound: each request and upload adds one point.
Bounds of `RedisOps`.  `MaxCalls`: the first client connects and calls one function, or two
after a failure; the second connects, fills the key with a batch and calls once more
on the same connection, which is where a reply out of step would be met.  One key and
two data bases are enough for keys of the wrong kind and for SELECT.
Bounds of `MakeLog`.  `Lines`: one process writes more lines than its chain has directories,
which `RacesBounded` needs to be able to fail; two processes share a chain, and the
third shares only `./logs`.

In `upload_faults` file ids and child slots are symmetric; the temporal runs use no
symmetry.

Fairness (`FairSpec`) is weak fairness of each process: the kernel schedules it,
the tools end, and FastDFS and Redis answer or fail.  Nothing is assumed about
which alternative a fault takes.  A restart closes all open requests by itself and
is left out of the liveness run.  In `FileService`, `FairSpec` is weak fairness of
data_cgi alone: requests are answered, or closed by a restart, whatever the upload
worker does.  In `RedisOps` it is weak fairness of Redis on each connection and of a
client that has a reply, or a broken connection, to read; nothing forces a connection
to break, so `CallsReturn` rests on the replies alone.

## Proofs

`UploadWorkerProofs` proves for every set of processes, requests, names and ids,
every descriptor limit and every set of faults, from `UploadAssumption` only:

| theorem | states |
|---|---|
| `TypeCorrect` | `[]TypeOK` |
| `OneProcessRuns` | `[]OneRunning` |
| `RecordsAreOwn` | `[]RecordContent` |
| `TempFilesGo` | `[]TempGone` |
| `CatalogueImplemented` | `ImplementsCatalogue`, the refinement of `Catalogue` |

The inductive invariant has four layers, each preserved given those before it.
`TypeInv` adds to the types the descriptors held at each location (without it
`used` could fall below zero at the `close` after `fork`).  `TreeInv` says that at
most one process is active and that parent and child agree on the request and the
stage; activity must count ended processes and childless waiters, since those hand
it on.  `ContentInv` follows the request through temporary file, pipe, buffers and
list; it needs the single active process, because nothing else keeps two workers
apart.  A file that is not whole is allowed where `MayBeCut` allows it and nowhere else.  `OnceInv` says which two processes may hold the same request and that
whoever may still publish one finds it unlisted; it is what the refinement rests on.

`FileServiceProofs` proves for every number of uploads and requests, every page a
request may ask for and every set of faults, from `ServiceAssumption` only:

| theorem | states |
|---|---|
| `TypeCorrect` | `[]TypeOK` |
| `PagesAreBlocks` | `[]PageIsBlock` |
| `CounterImplemented` | `ImplementsCounter`, the refinement of `ClickCounter` |
| `ClicksAreKept` | `[]NoClickLost` |

`TypeInv` adds to the types that data_cgi has a request wherever it is at work, that a
row is only begun while the page has an element left (`RowsToGo`), and that the member
of a click is the one it names or a garbled one (`MemberIsOwn`).  `PageIsBlock` follows
from lemmas about blocks: what `SubSeq` gives is a block, a block of a block is one, and
a push leaves a block a block.  The refinement is one lemma per kind of step: what the
upload worker owes moves with `cur`, what a click owes with `pc`, and a score moves only
when one of them falls.  `NoClickLost` is not inductive: a click is counted before it is
answered.  `ClicksCounted` adds the click that waits for its reply (`Pending`) to those
that were answered, and needs `CommandFits`, that only a click comes through the commands
of a click and that its request is still open.

`MakeLogProofs` proves for every set of processes, every sequence of lines and every
set of faults, from `LogAssumption` only:

| theorem | states |
|---|---|
| `TypeCorrect` | `[]TypeOK` |
| `LinesAreWritten` | `[]LostHasCause` |
| `DirectoriesAreFinished` | `[]NoDirectoryAbandoned` |
| `RacesAreFew` | `[]RacesBounded` |

`TreeInv` adds that a process has made or found every directory above the one it is at.
`Written` says that a call which met neither a failure nor a race has its last directory
when it comes to its file.  `NoDirectoryAbandoned` is not inductive: a process that makes
the directory itself would do as a witness and then be lost to a race.  `Continued` asks
for a process that is strictly deeper, or a complete chain; when that process loses a
race at a deeper directory, the one below it takes over, down to a complete chain.
`RaceInv` says that a process about to lose a race has one race less than there are
directories; it then looks before it makes that directory again.

`UploadRecordsProofs` proves over the invariant of `UploadWorkerProofs`:

| theorem | states |
|---|---|
| `ScoredAreListed` | `[]ScoredIsListed` |
| `FirstUploadsKept` | `[]FirstUploadsRecorded`, when more than one process fits (`Procs # {Root}`) |

`PushedFirst` adds to the first that a process about to score has its record in the
list.  The second needs a quantitative invariant for the instance without faults:
every other process is the child the first one waits for (`LoneWorker`), the
descriptors held are at most twice the closed requests and what the location costs
(`FdsSpent`), and while those fit nothing has failed (`NothingFailed`) and every closed
request has its record (`ClosedRecorded`).  With a single process `fork` fails at once,
hence the hypothesis.

`RecordProofs` is about `RedisRecord` alone, for texts of every length over every
alphabet that has the bar: `RoundTrip`, `Get(Value(f), n) = f[n]`, and `ReaderSurvives`,
`~ Crashes(Value(f))`, both for a record that is readable and complete.  The argument is
that two bars in a row inside a value are always those of a delimiter, so each `strstr`
finds the next one.

`FileServiceRowsProofs` proves over the invariant of `FileServiceProofs` and the
round trip:

| theorem | states |
|---|---|
| `DeathIsCaused` | `[]DeathHasCause` |
| `PagesNeverFall` | `PvNeverFalls` |
| `RowsCountClicks` | `[]PvCountsClicks`, when files have ids of their own (`OwnIds`) |

`DeathInv` is inductive with the bounds of a page; the work is in showing that a page of
one row or more never asks for more rows than there are places for (`PageFits`).
`RowsRise` compares the rows at hand and the page sent last with the scores.  For the
count, `ClickRows` and `AskedOnce` relate each row to the clicks answered and sent when
its score was read.  Without `OwnIds` two files share a score, and a row counts both.

`RedisOpsProofs` proves for every set of clients, keys, data bases and calls, from
`RedisAssumption` and `CallsAssumption` only:

| theorem | states |
|---|---|
| `TypeCorrect` | `[]TypeOK` |
| `InStepAlways` | `[]RepliesInStep` |
| `CrashIsCaused` | `[]CrashHasCause` |
| `ReturnsAreExact` | `ReturnIsExact` |

`InStep` says that the replies not read and the commands not executed are, in this order,
the rest of what the call sends.  `TypesFor` and `ReplyOK` say which replies a command
can have, which is what keeps a function that looks into its reply alive; `Counted` ties
the number of commands that were not refused to the reply a function judges.

`FileTextsProofs` proves for every file, every place its body breaks off at and every
answer of the tools, from `GivenAssumption` and `JunkAssumption` only:

| theorem | states |
|---|---|
| `StoredAsSent` | `[]StoredIsSent` |
| `CrashIsCaused` | `[]CrashHasCause` |
| `RowIsRecord` | `[]ReadBack` |
| `PictureIsOfRow` | `[]PictureMatches` |
| `ClickIsOfRow` | `[]ClickNamesRow`, when no id has a `%`, `#` or `&` (`PlainIds`) |

The invariant says that every text is still what it was made of.  The proof is in the
lemmas: where the tokens of a form stand (`FormLies`), that a form has four ends of line
before the file (`LineEnds`, `FourLines`), how many of them a body that breaks off has
left (`TwoLines`, `FewerLines`, `NoName`) and so that any body `upload_file` survives
gives the name (`NameFound`); what is written is the file up to the first dashes
(`Stored`) when the boundary came (`BoundaryFound`), else what came with something behind
it (`Padded`, `NothingOf`); and that the server is taken out of a url where `get_url` put
it (`Addressed`, `ServerFound`).

For the click a second invariant (`Asked`) says what was taken out of the query.
`Escaped` and `StrReplace` put a text together piece by piece: each character of an id
stands at a known place of the escaped form (`EscapedLies`, `BlocksInOrder`), the places
where `StrReplace` cuts are those of its slashes (`SlashPlaces`), and one token is kept
of each character (`OneKept`), so the id comes back (`Rebuilt`).  These inductions run
over a set of lengths (`Climb`), since the library's take an operator.  `ValueFound` finds
a parameter, and `FirstField` bounds what the first field of any record shows.
`PlainIds` is needed: an id ends in the type of the client's file name, and data_cgi
undoes the escape of a slash and no other (`data_cgi.c:78`), so an id with one of these
three comes back cut or altered, escaped or not.  The ids of the run `texts` satisfy it.

Model-checked only:

- Liveness (`RequestsClose`, `UploadsRecorded`, `RequestsAnswered`, `CallsReturn`):
  fairness and `ENABLED` are out of the prover's reach.
- The four violations, which are counterexamples.

## Findings

- `upload_fields`: with nothing failing, leaked descriptors lead to a record of empty
  fields, against the schema of `redis_keys.h:19`.
- `upload_unlink`: `fdfs_client` returns 0 in the parent whatever happened, so the
  error branch of `upload.c:115-119` is dead there and the file is lost.
- `service_count`: a page from 0 shows one file fewer than `count`, against
  `usefull.c:376`; a client that pages by `count` never sees the file between.
- `redis_batch`: the functions that send several commands count the replies and look
  at none, against "0 succ, -1 FAIL" (`redis_op.c:231-233`).

What the passing runs say about the limits of the code, in the conditions of their
properties:

- A record whose url is missing ends data_cgi on every listing that meets it
  (`DeathHasCause`, `CrashHasCause`).  With the first finding this closes a circle:
  leaked descriptors make such a record.
- `str_replace` appends to memory that nothing ended: a click names its row only when
  that memory was clean (`ClickNamesRow`, `NoClickLost`).
- A file with nine dashes inside is cut there, two bytes early, and with dashes in its
  first two bytes nothing of it is stored (`StoredIsSent`).
- An upload that breaks off within the bytes of its file, or a client whose boundary has
  fewer than nine dashes, is not noticed: an empty file, or one with bytes of the worker's
  memory behind what came, is stored and listed as the upload (`StoredIsSent`,
  `RecordContent`).  Only one that breaks off earlier ends the worker (`CrashHasCause`).
- The type of a file is what follows the first dot of its name, and both workers agree
  on that (`PictureMatches`).
- A file_id with the letters `cmd` before the command makes the click be ignored
  (`ClickNamesRow`).
- A log line whose process lost a mkdir race may be lost (`LostHasCause`), but not more
  often than there are directories (`RacesBounded`).  Its own chain may stay unmade until
  the next line: the winner of `./logs` goes on under its own module and year.

## Plan

1. `UploadWorker`, `Catalogue`, proofs (done).
2. `RedisRecord`, `Texts`, `FileTexts`, `FileService`, `ClickCounter` (done).
3. `RedisOps`, `MakeLog` (done).
4. Proofs for `FileService` and `MakeLog` (done).
5. Proofs for `RedisOps`, `FileTexts`, the records of `UploadWorker` and the rows of
   `FileService` (done).
6. The click of a row in `FileTexts`, proved (done).  Liveness stays with TLC.

Not modelled: `cJSON.c` (vendored; what it prints is not looked at), the test programs
(they assert nothing), the configuration files, the lengths of the fixed buffers, the
growth of `FILE_INFO_LIST` (the LTRIM of its schema is in no code) and the memory
`get_buf` leaks (only its failure is).
