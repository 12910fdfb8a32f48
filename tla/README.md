# Verification of libeventMultithThread

A TLA+ development kept beside the code: a multi-threaded libevent server for
lessons and program files, its client, the framing they share, and the MySQL
access behind the server. Source lines below are `file:line` of the repository;
most files are GBK-encoded.

## 1. Inventory

| Component | State | Operations | What must hold |
|---|---|---|---|
| **LibEvtServer**, dispatch and broadcast (`server/server.cpp`) | per worker thread: `conn_queue` (under `conn_mtx`), notification channel, `data_map` (its `data_mtx` is never taken), bufferevents; shared: `m_last_thread`, `m_strClass`, `m_strCourse`, `m_strFilePath`, `m_nType` (no lock) | `listener_cb`, `notify_cb` on `a`, `b`, `c`, `conn_readcb`, `conn_eventcb`, `Give_A_Class`, `SendFile`, `GetConnectDevice`, getters | connections are dealt evenly, none is lost or served twice, descriptors are reused safely, nobody keeps an old or mixed lesson or file |
| **LibEvtServer**, start and stop | event bases, threads, listener | `init`, `init_threads`, `listen`, destructor | nothing is used after it is freed, failures are noticed |
| **CWorker** (`common/function.cpp`) | `m_strData`, `m_strMsgContent`, the file being received, `m_cmdFinishFlag` | `SendMsgTo` (two), `SendFileTo`, `send_package`, `GetPackage`, `Process`, wait flag | what is sent is executed once, whole, in order, however the stream is cut |
| **CServerWorker** (`server/work.cpp`) | command tables, a StudentManager | `Comman*`, `SendSKBJ`, `SendCXWJ` | every request is answered |
| **LibEvtClient**, **CClientWorker** (`client/`) | connection flag, base, bufferevent, worker, dispatch thread, last replies | `InitSystem`, `TryConnect`, `Svc` heartbeat, `DownloadFile`, `GetFileList`, `GetDeviceNum`, `UpperFile`, `Comman*` | a request ends with its own answer, a list shows what was uploaded, the lesson is current; a lost connection comes back |
| **DataHelper** (`Src/DataHelp.cpp`) | one `MYSQL` handle, `m_bConnect`, `m_data_mtx` | `Connect`, `excuteSql`, `Display`, `IsExistData`, `close` | statements of many threads run on one connection without mixing |
| **StudentManager** (`Src/StudentManager.cpp`) | rows of `devices`, `studentinfo`, `class`, `upfile`, `downfile` | `Device`, `Student`, `Class`, `UpFile`, `DownFile`, `GetFiles`, each with add, delete, view, modify | a check answers for the write that follows, success means the work is done |
| Drivers (`main.cpp`, `serverMain.cpp`, `clientMain.cpp`) | none | test programs; `QueryFromUpper` hands statements to DataHelper | |
| `libevent/include` | vendored headers | external | |
| BaseLib, jsoncpp, MySQL client | not in the repository | external | |

Interactions. The kernel hands sockets to the listener thread, which queues
them for a worker thread and writes one byte to its channel. The host
application's thread writes the lesson or file into the server object and
writes one byte to every channel. Workers run `notify_cb` and the callbacks of
their connections, send through CWorker, and run the commands that arrive,
which reach the database through the DataHelper singleton. A client has a
dispatch thread (callbacks), a heartbeat task and the application's threads,
which send a request and spin on a flag until the dispatch thread sets it.

What is hard: everything between these threads goes without locks except
`conn_queue` and the SQL statements; the notification can fail unnoticed; the
descriptor is the identity of a connection and is reused; a TCP stream is cut
anywhere and a `send()` may be short; reconnection runs beside the threads it
replaces. `PROJECT.json` lists these hazards with their lines and the
properties that cover them.

## 2. Modules

| Module | Models | Extends / uses |
|---|---|---|
| `HandOff` | abstract dispatcher: connections are dealt in turn, taken in order, held, released | |
| `Server` | LibEvtServer between start and stop | `H == INSTANCE HandOff` |
| `Server_proofs` | theorems about `Server` | `Server`, `TLAPS` |
| `Workers_proofs` | theorems about its queues and wake-ups, device lists and `SendFile` | `Server_proofs` |
| `ServerLifecycle` | `init`, `init_threads`, `listen` and the destructor, beside the threads they start | |
| `ServerLifecycle_proofs` | theorems about `ServerLifecycle` | `ServerLifecycle`, `TLAPS` |
| `Courier` | abstract connection: items handed over are delivered once, in order | |
| `Wire` | CWorker, both ends of connections | `C == INSTANCE Courier` |
| `Wire_proofs` | theorems about `Wire` | `Wire`, `TLAPS` |
| `Delivery_proofs` | that `Wire` delivers whole files and implements `Courier` | `Wire_proofs` |
| `MCWire` | how much each connection sends in Wire's runs | `Wire` |
| `Client` | a session of LibEvtClient, CClientWorker and CServerWorker's commands | |
| `Client_proofs` | theorems about `Client` | `Client`, `TLAPS` |
| `DataHelper` | DataHelper with its callers | |
| `DataHelper_proofs` | theorems about `DataHelper` | `DataHelper`, `TLAPS` |
| `Registry` | StudentManager's operations, each statement through the steps of DataHelper | `DataHelper` |
| `MCRegistry` | the symmetry of addresses and of names in Registry's run | `Registry` |
| `Registry_proofs` | theorems about `Registry`, its refinement of `DataHelper` | `Registry`, `DataHelper_proofs` |

### Server

Every access to shared state that can interleave with another thread's is a
step of its own; what runs on one thread and touches nothing shared is folded
into the step.

- `Accept`, `Wake`: `listener_cb` before and after the end of `conn_mtx`'s scope.
- `GiveClass`, `GiveCourse`, `GiveDone`, `Broadcast`: `Give_A_Class`; the strings
  are being assigned in between, and a reader (`ReadClass`, `ReadCourse`,
  `ReadFile`) then sees the old, the new or a torn value. `SendFileType`,
  `SendFilePath`, `Broadcast`: `SendFile`.
- `GetConnectDevice`, `VisitDevice`, `VisitStale`, `NextMap`, `ReturnDevices`: the
  unlocked walk. Using a dead iterator or an entry without bufferevent is
  undefined; a process that survives it goes on anywhere. `MapChanged` kills the
  iterator when a worker erases its node, and may break it on any change,
  because the tree is rebalanced under the increment.
- `RecvA`/`SendA`, `RecvB`/`SendB`, `RecvC`/`SetBev`/`Register`: `notify_cb` on the
  three bytes, cut where the strings are read. `Register` takes class and course
  in either order, as C++ allows for arguments.
- `ReadCb`, `EventCb`: the callbacks. `CloseFd` is libevent: a freed bufferevent
  closes its descriptor after its callbacks, and the kernel may reuse it.
- `Waiting`: all threads block. It lets TLC's deadlock check tell an idle server
  from a stuck one.

The lesson of the k-th `Give_A_Class` and the file of the k-th `SendFile` are the
number k. History variables (`assigned`, `lost`, `joined`, `dev`) are written and
never tested by a guard, except `assigned`, which carries the bound.
`NotifyIsSocket` chooses the build: the WIN32 socket pair or the pipe.

### ServerLifecycle

The owner's thread goes through the phases of `init` (`NewBase`; `NewChannel` and
`NewThread`, one turn of each loop of `init_threads`; `Listen`), stays `up`, where it
may `Announce`, and goes through those of the destructor (`Stop`; `Break`, `Free`,
`Join`, `Delete` of each worker; `FreeListener`, `BreakBase`, `FreeBase`,
`JoinListener`). `at` and `i` are its place and loop index. `MayFail` names what may
fail in `init`: a base (m_base is looked at, a worker's is not, and
`event_base_set` reads through it: `NoThreadBase`), a channel (`NoChannel`: a failed
socket pair makes `init_threads` return, a failed pipe ends the process), the bind;
`init` ignores what `init_threads` and `listen` return.
Beside it `EnterLoop` and `LeaveLoop` are the threads' event loops, `Deal` is
`listener_cb`, `Take` is `notify_cb`; a connection is a count here. `event_base_loop`
clears a break requested before it is entered, so a `Break` may be forgotten.
`undefined` records the first use of an object that is null, not made, deleted,
freed under a thread, or of a thread that was not joined. `hasty` records that a
base was freed before its thread had left the loop, `late` that a connection was
dealt while the destructor ran: the two races of `server.cpp:12-27`.

### Wire

The stream is a sequence of tokens: a package's head with its fields, its
content, its tail, and a heartbeat's bytes. `SendMsgTo` and `SendFileTo` begin,
`SendPackage` is one turn of their loops with `send_package`, cut short by what
the socket buffers (`SockBuf`). `Receive` hands `Process` any part of the
stream; `ProcessMsg`, `ProcessFile`, `WriteChunk`, `OpenFailed`, `ProcessEnd`
are the turns of its loop. A failed open loses its chunk and ends `Process`;
the history variable `missed` goes with what is executed then, so that
`FileWhole` speaks of such a file too. The flag that `function.cpp:133` sets is
in `Client`. The deletion of an old file and the append of a chunk are two
steps, because the workers of other connections may use the path in between. A
connection has one sender that finishes an item before the next, besides the
heartbeats. The receivers share one upload path, the worst case. Item contents
are abstract: a text that contains the markers is not modelled.

The two ends of a connection each have one thread that sends: on the server the
worker of the connection, which also runs `notify_cb`, on the client the
application's, besides the heartbeats.

### Client

One application thread, the dispatch thread, the heartbeat task and the server
at the other end. The unit is the package. Requests fit one package, and socket
buffers take every package whole; `Wire` is about those that do not.

- `InitConnects`, `InitDone`: `InitSystem` up to the start of the dispatch thread, and
  its last statements. It is called again only when it failed.
- `Request`, `Reset`, `Send`, `Enter`, `Wake` or `WakeStale`, `Return`: `DownloadFile`,
  `GetFileList`, `GetDeviceNum`, which differ in the label only. Each use of
  `m_spWorker` takes the worker of that moment; `WakeStale` is the loop on a worker
  that `TryConnect` has deleted. `Upload`: `UpperFile`, which nobody answers.
- `ServeMessage`, `ServePackage`, `ServeMissing`, `ServeUpload`: CServerWorker's
  handlers for `WJLB` and `SBBH`, for `XZWJ` package by package, for a file that is not
  there, which is not answered, and for an upload, which is `Stored` or fails
  unnoticed. The k-th call is the number k, and so is what it uploads; a file list
  carries the last upload stored. `Push`: a package of a file from `SendFile`.
  `NewLesson`: `Give_A_Class`, numbered too; a new connection is sent the current
  lesson by `Connection`. `Drop`: the connection ends, with any of the last packages.
- `Cuts`: of a `WJLB` or `SKBJ` of more than one package only the first is sent
  (`function.cpp:341`); it arrives with `more` set and nothing follows it.
- `Receive`: `server_msg_cb` moves any part of what has arrived to `m_strData`.
  `Process` takes it package by package: `Keep` (a package with more to come: a file's
  is written, a message's stays in `m_strMsgContent`, which is `fragment`), `Execute`
  (`ReceivedAfter`, `ListAfter`, and the flag, unless it is the lesson: `FlagAfter`),
  `ExecuteSpoiled` (a message behind a fragment), `OpenFails` (the received file cannot
  be opened: the flag is set, `Process` ends, and the rest of `m_strData` waits for
  the next bytes).
- `EventCb`, `DispatchEnds`: after EOF or an error bufferevent has no event enabled, so
  `event_base_dispatch` returns by itself.
- `Heartbeat`, `FreeOld`, `ConnectFails`, `ConnectSucceeds`, `Restart`, `SetConnected`:
  `Svc` and `TryConnect`, cut where another thread's step matters.

`faults` is what may go wrong in a behaviour, one of `FaultSets`; no step changes it.
`troubles` records what the current connection has met of it: an unasked file
(`push`), a failed open (`open`), a message of more than one package (`long`), an
upload not stored or a list not read (`server`). The properties name the ones they
except: `AnswerOwn` all but `server`, `ListShowsUpload` all, `Answered` and
`LessonShown` `open` and `long`. These are not idle exceptions; with each of them the
code does break the property. After a failed open the file's later package sets the
flag in the next call, after a long list the caller waits for ever.

The variable `undefined` records that a thread used freed memory (the base under
the dispatch thread, the bufferevent under a sender, the worker under a
waiter); what happens after it is left open, and the properties say so.

### DataHelper

`Test` and `ConnectTest` are the two unlocked reads of `m_bConnect`, `RealConnect`
is `Connect` under the mutex, `Query` and `StoreResult` a statement under the
mutex, `CloseFlag` and `MysqlClose` the unlocked `close`. The handle has the
states the client library gives it: a connected handle refuses to connect
again; on a handle that was closed and not initialised again a connection may
succeed or fail. The database may refuse (`DbFails`) or drop (`DbDrops`)
connections, between a query and its result too. `NullResult`: when the connection was
cut or closed since the query, `mysql_store_result` returns NULL and the process
dies of it (`DataHelp.cpp:105, 145`); `crashed` ends the behaviour.

### Registry

An operation of StudentManager is up to three statements: `Start` calls the first
method of DataHelper, `Check` and `Write` are the moments the database runs the
statement, `Inside` is every other step of the methods, `Proceed` calls the next one,
`Finish` returns. `stage` is the statement that runs, `found` what the last
`IsExistData` returned. The tables are sets of rows; a row is its key and what
another operation looks at. `UpFile` with op 0 turns into its op 3 when it finds the
path. `Backslashed` are the paths whose delete (`StudentManager.cpp:310`) matches
nothing because their backslashes are not escaped. `numble` is the column a modify
without `number` sets to 0 and Student's device check compares with a device
number; the column's type decides whether they are equal, so `Finds` allows both.
`DeviceReset` is the modify without `number`, `DeviceModify` the one with it, which
leaves the column alone. `StartMissing` is the add of an upload whose file is not on
disk, which returns 0 at once. When the process dies in DataHelper everything stops.

`known` and `clean` are history: did the queries of the checks all run, and has
nobody else written since the operation began. The properties hold up to them,
because the code does not hold the mutex from the check to the write.
No statement tells two addresses or two names apart but by equality: `MCRegistry`
declares both sets symmetric.

## 3. Runs

Every run checks for deadlock: `Waiting`, `Quiet` (Wire), `Uncalled` and
`NoOperation` (nobody calls, or the process has died) are the only ways to
rest, and a connected client always has its heartbeat. The exception is
`lifecycle`: a destroyed server stops, a server whose pipe failed has exited,
and a destructor that frees in use may hang.

| Run | Bounds | Shows |
|---|---|---|
| `server_safety` | 2 threads, 2 descriptors, channel of 2 bytes, 2 connections per thread, one call of `Give_A_Class`, `SendFile` or `GetConnectDevice` | `TypeOK`, `Balanced`, `WakeupsMatchQueue`, `FdOwnedOnce`, `ConvergedLesson`, `FileReaches`, `DeviceListComplete`, with reuse and lost bytes |
| `server_live` | 1 connection per thread, 1 lesson, a channel that never fills, fairness | `ImplementsHandOff`, `LessonReaches` |
| `server_devices_unlocked` | 1 walk | *violated* `DeviceListSafe` |
| `server_pipe` | pipe build, fairness | *violated* `ConnServed` |
| `lifecycle` | 2 workers, 3 connections, anything may fail, WIN32 build | `TypeOK`, `SafeWhileUp`, `CleanEnd`, `SafeStop` |
| `wire_courier` | 3 items: messages below PAGSIZE = 2, files of 1 to 3; a heartbeat; ample buffer; fairness | `ImplementsCourier` |
| `wire_cut` | 2 connections (2 items and 1), one path, buffer of 4 tokens, a heartbeat, open failures | `TypeOK`, `FileWhole`, `ExecutedInOrder` |
| `wire_large` | messages of PAGSIZE | *violated* `CommandWhole` |
| `client_session` | 2 calls, 2 connections, 1 new lesson, files of up to 2 packages, 1 package of a pushed file; a missing file with a pushed file, a failed open or long messages, or a server that fails to store; fairness | `TypeOK`, `AnswerOwn`, `ListShowsUpload`, `Answered`, `NoticedReconnects`, `LessonShown` |
| `client_reconnect` | 1 request, 2 connections, fairness | *violated* `Reconnects` |
| `registry` | 2 callers, any 3 operations, 2 addresses, names and paths (one with a backslash), 1 number, everything may fail or drop | `RegTypeOK`, `OwnResult`, `CheckHolds`, `QuietForGood`, `WorkDone` |
| `database_race` | 2 callers, a database that always accepts | *violated* `StatementsRun` |

Why the bounds are enough to meet the interesting cases. Two threads give a
previous and a next thread to the round robin; two descriptors with two
connections per thread let a descriptor close and come back, to the same
thread or the other; a channel of two bytes overflows when a lesson
meets new connections; the initial and the given lesson or file overlap in the unlocked
strings. The application's thread makes one call at a time, so that two of
different kinds do not overlap; one call of each kind, alone, meets everything the
other threads do. The broadcasts of two successive calls, which the workers may handle
mixed, are beyond this run; the theorems about `ConvergedLesson` and `FileReaches` have
them. The queue of `server_live` holds one connection; the order of more is in
`HandOffImplemented`. PAGSIZE 2
gives messages and files below, at and above a package, and a buffer that is
no multiple of a package's three tokens cuts at each place. Two requests are a
late answer and the call it could deceive; two connections are one loss and one
replacement, a first and a new lesson one that is overwritten, a file of two packages
one whose first open fails and whose last package comes in the next call. The things
that may go wrong come a few at a time, because each excepts the connection it happens to
from some properties, and would hide what the others do there; the theorems have
them all together. Two callers with three operations are one operation that
another changes between its check and its write, after a third made the row; the
connection is lost, closed or refused at any point. Two workers are one that the
destructor has dealt with and one it has not. Most safety properties are
proved for all bounds (section 4). Bounds are the
constants commented "bound" in each module.

Fairness. `Server!Fairness` and `Wire!FairSpec` ask only that a thread goes on with
what it has begun or was notified of: the listener finishes `listener_cb`, the
application finishes a call, each event loop serves what its channel or socket
holds (level-triggered), a sender finishes its loop. No fairness is assumed of
peers, of new calls, or between two kinds of a worker's steps. `Client!FairSpec`
lets the threads and the server go on (weak fairness), and a server that `Svc`
tries again every second be reached at last (strong fairness of
`ConnectSucceeds`, since each failure disables it); without the latter no client
could promise to reconnect. ServerLifecycle, DataHelper and Registry have none: a
destructor whose break was forgotten waits for ever or worse, so that nothing can be
promised of its end.

### Findings

1. `server.cpp:84` names `data_mtx` and takes no lock; the walk uses erased and
   unfinished entries (`server_devices_unlocked`).
2. `server.cpp:151` makes a pipe where `send()` needs a socket; no connection is
   served in builds other than WIN32 (`server_pipe`).
3. `function.cpp:341` ends `SendMsgTo` after the first package, since
   `send_package` returns 0 on success; a message of PAGSIZE or more is never
   completed and its fragment runs with the next command (`wire_large`).
4. `DataHelp.cpp:45` tests the flag outside the mutex; two first calls leave
   the handle closed and the flag set, for good (`database_race`).
5. `client.cpp:97` and `237` set `m_bConnect` after the dispatch thread has started:
   a loss reported in between is overwritten, the heartbeat's `TryConnect` then
   returns at once (`client.cpp:42`), and nobody reconnects (`client_reconnect`).

The same line 42 stops a reconnection asked for at `client.cpp:448`, whenever the
heartbeat fails before `event_cb` has run; that heals, because `event_cb` comes.

Met while modelling, and part of the models, but contradicted by no document:

- The destructor frees each worker's base before it joins the worker, and deletes
  the workers before it frees the listener that deals to them (`server.cpp:17-26`).
  `SafeWhileUp` and `CleanEnd` are therefore about the server's life before, and about
  destructors that were lucky; `SafeStop` says what luck they need: no base freed
  before its thread has left, no connection dealt meanwhile, no failed `init`.
- `init` goes on after a failed socket pair or bind (`server.cpp:121, 126`), and after
  an `event_base_new` that returned null for a worker (186).
- A received file that cannot be opened sets the wait flag (`function.cpp:133`): the
  download returns with nothing received, the file is executed without the chunk
  (147), and its last package, if it comes later, ends the next call's wait, which then
  returns a stale answer or a list older than the upload.
- A file list or lesson of PAGSIZE or more (finding 3) never arrives: `GetFileList`
  waits for ever, and the next message is executed behind the fragment.
- `UpFile`'s add returns 0, success, for a file that is not on disk
  (`StudentManager.cpp:284-287`).
- When the connection to the database goes between a query and its result, or `close`
  is called there, `Display` and `IsExistData` read through NULL (`DataHelp.cpp:105, 145`).
- A first statement of a process that is a check fails, because `IsExistData` does not
  connect, and says that the row does not exist (`DataHelp.cpp:136-153`).
- `Device` reads `number` when it is absent (`StudentManager.cpp:32`). A modify then writes
  `numble` 0, which lets Student's add accept a device that is not there.
- `UpFile`'s delete does not escape backslashes (`StudentManager.cpp:310`); its update does
  not write `className` (345-369), so that `GetFiles` misses a file that was uploaded
  again for another class.
- `Class`'s rename and `Device`'s modify do not look whether the new key exists.
- `Display`, `UpperFile`, `DownloadFile` and `GetFileList` end without a return statement
  (`DataHelp.cpp:134`, `client.cpp:263, 303, 325`); `QueryFromUpper` (`main.cpp:138`) reads
  what `Display` returns.
- `m_bConnect` of DataHelper stays set when the database drops the connection; after
  that no statement runs until somebody calls `close` (`DataHelp.cpp:76`).

## 4. Proofs

`Server_proofs` is checked by TLAPS for every number of threads, every set of
descriptors and every bound, from `ServerAssumption` alone.

- `TypeCorrect`: `Spec => []TypeOK`, the basis of all others.
- `BalancedCorrect`: `Spec => []Balanced`. `Balanced` is not inductive: two equal
  counts say nothing about whose turn it is. `BalancedInv` adds where the round
  stands: threads up to `m_last_thread` have one connection more than the rest.
- `FdOwnedOnceCorrect`: `Spec => []FdOwnedOnce`, through `OwnInv`, which adds that
  the connection being registered is in its thread's map; without it the
  step that enables its bufferevent could enable one no map knows.
- `ConvergedLessonCorrect`: `Spec => []ConvergedLesson`, through `LessonInv`, which
  also speaks of the connection being registered and of the class and course
  a running handler holds: an old value in a handler's hands is harmless
  because the byte that corrects it comes later on the same channel.
- `HandOffImplemented`: `Spec => H!HSafeSpec`, the initial states map to initial
  states and each step of `Server` to a step of `HandOff` or to a stutter.

`Workers_proofs` goes on from there:

- `WakeupsMatchQueueCorrect`: `WakeupsMatchQueue` is inductive by itself. The work is in
  counting: what an appended and a taken byte do to the number of bytes "c".
- `DeviceListCompleteCorrect`: `Spec => DeviceListComplete`, through `DeviceInv`: a device
  that stayed is in the list already or `Ahead` of the walk, in a later map or in
  the current one not before the iterator.
- `FileReachesCorrect`: `Spec => []FileReaches`, through `FileInv`, which adds that a worker
  sending holds the newest name, and that one registering an older connection is
  about to be notified. It shows why the unlocked path does no harm: an old or new
  name in a worker's hands is followed by the byte of the newer one.

`DataHelper_proofs`, from `DataAssumption`, for every set of callers and methods:

- `TypeCorrect`, the basis of the others.
- `OwnResultCorrect`, through `Locked`: whoever holds the mutex is between its query
  and its result, and the connection holds that result.
- `QuietForGoodCorrect`: from `Quiet` no step but `close` and a drop leads out. It
  needs no more than types, because `Quiet` itself says that nobody is past the test.

`Registry_proofs`, from `RegistryAssumption` and `DataAssumption`:

- `UsesDataHelper`: `RegSpec => Spec`. Every step of an operation is a step of
  DataHelper or leaves its variables alone. `DataHelperKeeps` draws the conclusion
  for `OwnResult` and `QuietForGood`.
- `CheckHoldsCorrect`, through `LookInv`: what a caller that nobody's write has
  overtaken may rely on, from the moment its check's query ran until its own write's.
- `RegTypeCorrect`, through `DbOK`: each table holds rows of its own kind.
- `WorkDoneCorrect`, through `DoneInv`: what the write achieved still holds when
  the operation returns, since nobody else wrote. Its two exceptions, the upload
  without a file and the delete of a path with a backslash, are the code's.

`ServerLifecycle_proofs`, from `LifecycleAssumption`, for every number of workers:
`TypeCorrect`; `SafeWhileUpCorrect`, through `StartInv`, which says for each phase of
`init` what exists; `CleanEndCorrect`, through `StopInv`, which says what the
destructor has dismantled as long as nothing undefined has happened, and
`Shape`, how far start had come when a part of it failed; `SafeStopCorrect`, through
`OrderInv`, which says what is still there at each statement of the destructor as long
as it met neither of its races: the threads of the workers before the current one are
joined, those behind it still have their base and their thread, and so has the
listener until its turn comes.

`Client_proofs`, from `ClientAssumption`:

- `TypeCorrect`, which needs that the current worker is the last one made and that a
  call in progress has a number.
- `AnswerOwnCorrect`: `Spec => AnswerOwn`. The invariant `OwnInv` is about the whole
  way of a request: from its sending to the last package of its answer there is at most one
  request that will be answered and at most one package that ends an answer, not both; it
  belongs to the call that waits, and until it is executed the flag is not set. It holds
  while `troubles` has none of the three things the property excepts. `LinkInv` (nothing
  travels without a connection) carries it over a reconnection, `Numbered` (only pushed
  files have number 0) tells answers from pushes. `ServeSteps` and `ProcessSteps` say
  once, for all that may go wrong, what a step of the server or of `Process` does to the
  two queues.
- `ListShowsUploadCorrect`: `Spec => ListShowsUpload`. `InTurn`: requests are
  stored and executed in the order of their numbers, and the last upload of a
  living connection is stored or still in the queue, unless the server failed. `ListInv`,
  which needs `OwnInv`: nothing is sent behind a request that is waited for, so that the
  server executes it when the queue holds nothing else, and the list it answers shows
  the upload.

`Wire_proofs`, from `WireAssumption`, for every number of connections, every size and
every socket buffer:

- `TypeCorrect` and `ExecutedInOrderCorrect`, through `WireInv`. What the receiver holds and
  what travels is one stream, to which a send appends a beginning of a package and
  from which Process drops a beginning; receiving moves the border only. `Fits`
  says that the heads in it are in the order of sending, behind the chunk being
  written and behind everything executed, whatever contents and tails
  are missing. That a head's number is below its message's last one is what keeps
  a later head from belonging to a message already executed.

`Delivery_proofs` goes on from there:

- `FileWholeCorrect`: `Spec => []FileWhole`, with nothing assumed of sizes, numbers of
  packages, heartbeats, open failures or of how the socket cuts what it delivers.
  `FileWhole` says something of a file only when it has been executed; `DeliveryInv`
  says it of every moment before. On a connection whose sends were not cut the stream
  is `Intact`: behind each head come its content and its tail, and each package
  follows the one before it, the last one being followed by the package the sender
  is to send next (`Due`). The chunk being written is the one before the
  package Process takes next (`Coming`), and the file at the path, as long as nobody
  else wrote it, is the beginning of the content that this chunk or package
  continues; after a failed open it is still made of chunks of this one file, in order,
  with numbers below the one that comes next. A file executed then has the content up to
  the last package, or what the failed opens left of it. Of the
  stream only two things are needed: what a send appends continues it
  (`PackageSent`, `BeatSent`), and what Process drops (`PackageRemoved`) or Receive moves
  (`StreamReceived`) leaves it intact.
- `CourierImplemented`: `Spec /\ []NeverCut /\ []OnePathUser => C!CSafeSpec`, for
  messages below PAGSIZE (`SmallMessages`) and opens that succeed. Without any of the
  four conditions the code does not keep the promise: `wire_large` shows it of large
  messages, a short send and a failed open lose what they cut, and a second uploading
  connection writes into the same path. `wire_courier` is an instance that keeps them all.
  `InTurn` adds to `DeliveryInv` that exactly the items before the one now
  arriving were executed, whole, in order, with their own kind, and that no fragment
  of a message is left over. Under `HandedBar` and `DeliveredBar` a step that begins an
  item hands it over, one that executes is `Deliver`, all others stutter.

Only model-checked: liveness (`ImplementsHandOff` and `ImplementsCourier` beyond their
safety parts, `LessonReaches`, `Answered`, `NoticedReconnects`,
`LessonShown`). Every safety property and action property of a passing run is a theorem.
TLAPS does not treat liveness under fairness, ENABLED, or induction over data, and the
modules avoid RECURSIVE operators so that theorems about them are possible.

## 5. Not modelled, and the plan

- `Client` with several application threads on the one flag: they would be given each
  other's answers (a hazard of `PROJECT.json`), and no document says that they may
  call together. Its destructor, and the heartbeat task's start and end, depend on
  `BaseLib::CTask`, which is not in the repository.
- StudentManager's arguments that cannot be parsed, empty names, and the columns only
  a select shows. They change what is written, not when.
- `CServerWorker`'s `WCZL` and `MSQL`: no client sends them (`SendMSQL` belongs to a
  private object).
- Texts: JSON, SQL, number formatting, contents that contain the package markers, a
  file with zero bytes (`function.cpp:285`), the directories of the teach pendant;
  logging; the branch without `MUL_LIBEVENT_THREAD`, which is not compiled.
- `libevent/include`: vendored headers of a third-party library, declarations and
  macros without code of this system. They are about 10400 of the repository's 13400
  source lines, so that a model of everything else still touches less than a
  quarter of the lines; what the system uses of libevent is modelled where it is
  used (`CloseFd`, `EnterLoop`, `Ended`, `EventCb`).

What a next step could add: an abstract specification of `Client`, one call and its
answer, and the proof that `Client` implements it.
