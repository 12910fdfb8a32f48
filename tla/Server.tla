------------------------------- MODULE Server -------------------------------
(***************************************************************************)
(* LibEvtServer (server/server.cpp): a listener thread deals accepted      *)
(* sockets to THREAD_NUMB worker threads through a queue and a one-byte    *)
(* notification; the host application's thread broadcasts the current      *)
(* lesson ("a") and a file ("b") through the same notifications and walks  *)
(* the workers' connection maps to list the devices.                       *)
(*                                                                         *)
(* Threads interleave between the accesses to shared state.  A handler's   *)
(* loop over its own data_map is one step: it runs on the only thread that *)
(* changes that map.  The lesson of the k-th Give_A_Class and the file of  *)
(* the k-th SendFile are the number k; 0 is the initial, empty string.     *)
(***************************************************************************)
EXTENDS Integers, FiniteSets, SequencesExt

CONSTANTS
  THREAD_NUMB,     \* number of worker threads (server.h:12)
  Fds,             \* socket descriptors the kernel may hand out
  NotifyIsSocket,  \* TRUE: the WIN32 socket pair; FALSE: the pipe of other builds
  NotifyCap,       \* bytes the notification channel buffers
  MaxAssign,       \* bound: connections dealt to one thread
  MaxGive,         \* bound: calls of Give_A_Class
  MaxSend,         \* bound: calls of SendFile
  MaxAsk,          \* bound: calls of GetConnectDevice
  MaxCalls         \* bound: calls of these three together

ASSUME ServerAssumption ==
  /\ THREAD_NUMB \in Nat \ {0}
  /\ Fds \subseteq Nat
  /\ NotifyIsSocket \in BOOLEAN
  /\ NotifyCap \in Nat
  /\ MaxAssign \in Nat
  /\ MaxGive \in Nat
  /\ MaxSend \in Nat
  /\ MaxAsk \in Nat
  /\ MaxCalls \in Nat

Threads == 0 .. THREAD_NUMB-1

None == -1         \* no thread
End == -1          \* data_map.end()
Dangling == -3     \* an iterator whose node was freed or moved under it
Torn == -1         \* what a copy of a string sees while it is being assigned
Unread == -2       \* not read, or never sent

Bytes == {"a", "b", "c"}

VARIABLES
  sock,            \* kernel: is the descriptor free, open, or closed by the peer
  m_last_thread,   \* the thread the last connection was dealt to
  assigned,        \* history: connections dealt to each thread
  listener,        \* thread whose queue got an item and is still to be notified
  conn_queue,      \* per thread, accepted descriptors
  notify,          \* per thread, bytes in flight on the notification channel
  lost,            \* history: bytes send() could not deliver to a thread
  data_map,        \* per thread, the keys of data_map
  bevs,            \* per thread, descriptors whose bufferevent is enabled
  closing,         \* per thread, descriptors freed and not yet finalized
  wk,              \* per thread, where its running handler stands
  m_strClass, m_strCourse, m_strFilePath, m_nType,
  gives,           \* calls of Give_A_Class so far: the lesson being given
  asks,            \* calls of GetConnectDevice so far
  api,             \* where the host application's call stands
  dev,             \* GetConnectDevice's result, and history for its properties
  shown,           \* per connection, the lesson of the last SKBJ sent
  pushed,          \* per connection, the description of the last file sent
  joined           \* history: m_strFilePath when the connection was registered

socketVars == <<sock, bevs, closing>>
listenVars == <<m_last_thread, assigned, listener>>
lessonVars == <<m_strClass, m_strCourse, gives>>
fileVars == <<m_strFilePath, m_nType>>
apiVars == <<asks, api, dev>>
sentVars == <<shown, pushed, joined>>
vars == <<socketVars, listenVars, lessonVars, fileVars, apiVars, sentVars,
          conn_queue, notify, lost, data_map, wk>>

NothingShown == [cls |-> Unread, crs |-> Unread]
NothingPushed == [name |-> Unread, path |-> Unread, type |-> Unread]
AtLoop == [pc |-> "loop", fd |-> End, cls |-> Unread, crs |-> Unread,
           name |-> Unread]
Idle == [pc |-> "idle", i |-> 0, it |-> End]
NoList == [list |-> {}, stay |-> {}, tainted |-> FALSE]

Init ==
  /\ sock = [fd \in Fds |-> "free"]
  /\ m_last_thread = -1
  /\ assigned = [t \in Threads |-> 0]
  /\ listener = None
  /\ conn_queue = [t \in Threads |-> <<>>]
  /\ notify = [t \in Threads |-> <<>>]
  /\ lost = [t \in Threads |-> {}]
  /\ data_map = [t \in Threads |-> {}]
  /\ bevs = [t \in Threads |-> {}]
  /\ closing = [t \in Threads |-> {}]
  /\ wk = [t \in Threads |-> AtLoop]
  /\ m_strClass = 0 /\ m_strCourse = 0 /\ m_strFilePath = 0 /\ m_nType = 0
  /\ gives = 0 /\ asks = 0 /\ api = Idle /\ dev = NoList
  /\ shown = [fd \in Fds |-> NothingShown]
  /\ pushed = [fd \in Fds |-> NothingPushed]
  /\ joined = [fd \in Fds |-> 0]
-----------------------------------------------------------------------------
(* send(notfiy_send_fd, b, 1, 0), its result ignored: a byte is lost when  *)
(* the channel is full, and always when the channel is a pipe, on which    *)
(* send() fails.                                                           *)
Notify(t, b) ==
  \/ /\ NotifyIsSocket /\ Len(notify[t]) < NotifyCap
     /\ notify' = [notify EXCEPT ![t] = Append(@, b)]
     /\ UNCHANGED lost
  \/ /\ ~ (NotifyIsSocket /\ Len(notify[t]) < NotifyCap)
     /\ lost' = [lost EXCEPT ![t] = @ \cup {b}]
     /\ UNCHANGED notify

(* Mutant: everything on the channel is read, only the first byte served.  *)
RecvDrain(t, b) ==
  /\ notify[t] # <<>>
  /\ Head(notify[t]) = b
  /\ notify' = [notify EXCEPT ![t] = <<>>]

(* recv(fd, buf, 1, 0) by the worker that owns the receiving end.          *)
Recv(t, b) ==
  /\ notify[t] # <<>>
  /\ Head(notify[t]) = b
  /\ notify' = [notify EXCEPT ![t] = Tail(@)]

(* The values a copy of m_strClass, m_strCourse or m_strFilePath may have. *)
(* Nothing orders the copy and an assignment that is under way: the copy   *)
(* sees the old string, the new one, or a torn one.                        *)
ReadClass == {m_strClass} \cup (IF api.pc = "class" THEN {gives, Torn} ELSE {})
ReadCourse == {m_strCourse} \cup (IF api.pc = "course" THEN {gives, Torn} ELSE {})
ReadFile == {m_strFilePath} \cup (IF api.pc = "path" THEN {m_nType, Torn} ELSE {})

(* begin() of a map with these keys, in the order of std::map.             *)
First(S) == {fd \in S : \A g \in S : fd <= g} \cup (IF S = {} THEN {End} ELSE {})
-----------------------------------------------------------------------------
(*                              Listener thread                            *)

(* Mutant: the thread picked by descriptor instead of in turn.             *)
NextThreadByFd(fd) == fd % THREAD_NUMB

(* Round robin over the threads, from m_last_thread = -1.                  *)
NextThread(fd) == (m_last_thread + 1) % THREAD_NUMB

(* listener_cb up to the end of conn_mtx's scope: the kernel has accepted  *)
(* fd, the next thread in turn gets it in its queue.                       *)
Accept(fd) ==
  LET cur_thread == NextThread(fd)
  IN  /\ listener = None
      /\ sock[fd] = "free"
      /\ assigned[cur_thread] < MaxAssign
      /\ sock' = [sock EXCEPT ![fd] = "open"]
      /\ m_last_thread' = cur_thread
      /\ assigned' = [assigned EXCEPT ![cur_thread] = @ + 1]
      /\ conn_queue' = [conn_queue EXCEPT ![cur_thread] = Append(@, fd)]
      /\ listener' = cur_thread
      /\ UNCHANGED <<bevs, closing, lessonVars, fileVars, apiVars, sentVars,
                     notify, lost, data_map, wk>>

(* The end of listener_cb: activate the thread's read event.               *)
Wake ==
  /\ listener # None
  /\ Notify(listener, "c")
  /\ listener' = None
  /\ UNCHANGED <<m_last_thread, assigned, socketVars, lessonVars, fileVars,
                 apiVars, sentVars, conn_queue, data_map, wk>>

(* The peer closes its end, or the connection fails.                       *)
PeerClose(fd) ==
  /\ sock[fd] = "open"
  /\ sock' = [sock EXCEPT ![fd] = "eof"]
  /\ UNCHANGED <<bevs, closing, listenVars, lessonVars, fileVars, apiVars,
                 sentVars, conn_queue, notify, lost, data_map, wk>>
-----------------------------------------------------------------------------
(*                       Host application's thread                         *)

CallsLeft == gives + m_nType + asks < MaxCalls

apiFrame == <<socketVars, listenVars, sentVars, conn_queue, data_map, wk>>

(* Give_A_Class stores the class, then the course, then notifies.  pc =    *)
(* "class" and "course" while the string is being assigned.                *)
GiveClass ==
  /\ api.pc = "idle" /\ CallsLeft /\ gives < MaxGive
  /\ gives' = gives + 1
  /\ api' = [api EXCEPT !.pc = "class"]
  /\ UNCHANGED <<apiFrame, m_strClass, m_strCourse, fileVars, asks, dev,
                 notify, lost>>

GiveCourse ==
  /\ api.pc = "class"
  /\ m_strClass' = gives
  /\ api' = [api EXCEPT !.pc = "course"]
  /\ UNCHANGED <<apiFrame, m_strCourse, gives, fileVars, asks, dev, notify, lost>>

GiveDone ==
  /\ api.pc = "course"
  /\ m_strCourse' = gives
  /\ api' = [api EXCEPT !.pc = "a"]
  /\ UNCHANGED <<apiFrame, m_strClass, gives, fileVars, asks, dev, notify, lost>>

(* SendFile stores the type, then the path, then notifies.                 *)
SendFileType ==
  /\ api.pc = "idle" /\ CallsLeft /\ m_nType < MaxSend
  /\ m_nType' = m_nType + 1
  /\ api' = [api EXCEPT !.pc = "path"]
  /\ UNCHANGED <<apiFrame, lessonVars, m_strFilePath, asks, dev, notify, lost>>

SendFilePath ==
  /\ api.pc = "path"
  /\ m_strFilePath' = m_nType
  /\ api' = [api EXCEPT !.pc = "b"]
  /\ UNCHANGED <<apiFrame, lessonVars, m_nType, asks, dev, notify, lost>>

(* Mutants: the loop runs one past the last thread; it misses the last.    *)
NextNotifiedPastEnd ==
  IF api.i < THREAD_NUMB THEN [api EXCEPT !.i = @ + 1] ELSE Idle
NextNotifiedShort ==
  IF api.i < THREAD_NUMB - 2 THEN [api EXCEPT !.i = @ + 1] ELSE Idle

(* The loop over m_libevent_threads both calls end with.                   *)
NextNotified ==
  IF api.i < THREAD_NUMB - 1 THEN [api EXCEPT !.i = @ + 1] ELSE Idle

Broadcast ==
  /\ api.pc \in {"a", "b"}
  /\ Notify(api.i, api.pc)
  /\ api' = NextNotified
  /\ UNCHANGED <<apiFrame, lessonVars, fileVars, asks, dev>>

(* The walk stands on a live entry that has its bufferevent: not on the    *)
(* one notify_cb has only just inserted.                                   *)
OnDevice == /\ api.it \in data_map[api.i]
            /\ ~ (wk[api.i].pc = "setbev" /\ wk[api.i].fd = api.it)

deviceFrame == <<apiFrame, lessonVars, fileVars, notify, lost>>

(* GetConnectDevice walks every data_map.  "m_libevent_threads[i]->data_mtx;" *)
(* takes no lock, so the workers may change the map under the iterator.    *)
GetConnectDevice ==
  /\ api.pc = "idle" /\ CallsLeft /\ asks < MaxAsk
  /\ asks' = asks + 1
  /\ \E fd \in First(data_map[0]) :
       api' = [api EXCEPT !.pc = "devices", !.it = fd]
  /\ dev' = [NoList EXCEPT !.stay = UNION {bevs[t] : t \in Threads}]
  /\ UNCHANGED deviceFrame

(* One turn of the inner loop on a live entry.                             *)
VisitDevice ==
  /\ api.pc = "devices" /\ api.it # End /\ OnDevice
  /\ dev' = [dev EXCEPT !.list = @ \cup {api.it}]
  /\ \E fd \in First({g \in data_map[api.i] : g > api.it}) :
       api' = [api EXCEPT !.it = fd]
  /\ UNCHANGED <<deviceFrame, asks>>

(* The same turn on a dead iterator, or on an entry without bufferevent:   *)
(* undefined behaviour.  If the process survives it, the walk goes on from *)
(* anywhere.                                                               *)
VisitStale ==
  /\ api.pc = "devices" /\ api.it # End /\ ~ OnDevice
  /\ dev' = [dev EXCEPT !.tainted = TRUE]
  /\ \E fd \in data_map[api.i] \cup {End, Dangling} : api' = [api EXCEPT !.it = fd]
  /\ UNCHANGED <<deviceFrame, asks>>

(* Mutant: the loop stops before the last thread.                          *)
MoreThreadsShort == api.i < THREAD_NUMB - 2

MoreThreads == api.i < THREAD_NUMB - 1

NextMap ==
  /\ api.pc = "devices" /\ api.it = End /\ MoreThreads
  /\ \E fd \in First(data_map[api.i + 1]) :
       api' = [api EXCEPT !.i = @ + 1, !.it = fd]
  /\ UNCHANGED <<deviceFrame, asks, dev>>

ReturnDevices ==
  /\ api.pc = "devices" /\ api.it = End /\ ~ MoreThreads
  /\ api' = Idle
  /\ UNCHANGED <<deviceFrame, asks, dev>>
-----------------------------------------------------------------------------
(*                             Worker threads                              *)

workerFrame == <<listenVars, lessonVars, fileVars, asks, lost>>

(* A worker inserts into or erases from the map GetConnectDevice may be    *)
(* walking: an iterator on an erased entry dies, and the rebalancing can   *)
(* cross the increment of any other.                                       *)
MapChanged(t, erased) ==
  LET walked == api.pc = "devices" /\ api.i = t /\ api.it # End
  IN  \/ /\ ~ (walked /\ api.it \in erased)
         /\ api' = api
      \/ /\ walked
         /\ api' = [api EXCEPT !.it = Dangling]

(* notify_cb on "a": copy class and course, then SendSKBJ to every         *)
(* connection of this thread.                                              *)
RecvA(t) ==
  /\ wk[t].pc = "loop" /\ Recv(t, "a")
  /\ \E c \in ReadClass : wk' = [wk EXCEPT ![t] = [@ EXCEPT !.pc = "a", !.cls = c]]
  /\ UNCHANGED <<workerFrame, socketVars, api, dev, sentVars, conn_queue, data_map>>

SendA(t) ==
  /\ wk[t].pc = "a"
  /\ \E r \in ReadCourse :
       shown' = [fd \in Fds |-> IF fd \in data_map[t]
                                THEN [cls |-> wk[t].cls, crs |-> r] ELSE shown[fd]]
  /\ wk' = [wk EXCEPT ![t] = AtLoop]
  /\ UNCHANGED <<workerFrame, socketVars, api, dev, pushed, joined, conn_queue,
                 notify, data_map>>

(* notify_cb on "b": the file name comes from a first GetFile, the path    *)
(* and the type from later reads; the description goes out with the file   *)
(* it names, a torn path names none.                                       *)
RecvB(t) ==
  /\ wk[t].pc = "loop" /\ Recv(t, "b")
  /\ \E n \in ReadFile : wk' = [wk EXCEPT ![t] = [@ EXCEPT !.pc = "b", !.name = n]]
  /\ UNCHANGED <<workerFrame, socketVars, api, dev, sentVars, conn_queue, data_map>>

SendB(t) ==
  /\ wk[t].pc = "b"
  /\ \E p \in ReadFile :
       pushed' = [fd \in Fds |->
                    IF fd \in data_map[t] /\ p # Torn
                    THEN [name |-> wk[t].name, path |-> p, type |-> m_nType]
                    ELSE pushed[fd]]
  /\ wk' = [wk EXCEPT ![t] = AtLoop]
  /\ UNCHANGED <<workerFrame, socketVars, api, dev, shown, joined, conn_queue,
                 notify, data_map>>

(* notify_cb on "c": pop the front of the queue, data_map[fd] inserts a    *)
(* worker object that has no bufferevent yet.                              *)
RecvC(t) ==
  LET fd == Head(conn_queue[t])
  IN  /\ wk[t].pc = "loop" /\ Recv(t, "c") /\ conn_queue[t] # <<>>
      /\ conn_queue' = [conn_queue EXCEPT ![t] = Tail(@)]
      /\ data_map' = [data_map EXCEPT ![t] = @ \cup {fd}]
      /\ MapChanged(t, {})
      /\ wk' = [wk EXCEPT ![t] = [@ EXCEPT !.pc = "setbev", !.fd = fd]]
      /\ shown' = [shown EXCEPT ![fd] = NothingShown]
      /\ pushed' = [pushed EXCEPT ![fd] = NothingPushed]
      /\ joined' = [joined EXCEPT ![fd] = m_strFilePath]
      /\ UNCHANGED <<workerFrame, socketVars, dev>>

(* SetBev, SetIP, and the first of the two arguments of SendSKBJ, which    *)
(* the compiler may evaluate in either order.                              *)
SetBev(t) ==
  /\ wk[t].pc = "setbev"
  /\ \/ \E c \in ReadClass : wk' = [wk EXCEPT ![t] = [@ EXCEPT !.pc = "skbj", !.cls = c]]
     \/ \E r \in ReadCourse : wk' = [wk EXCEPT ![t] = [@ EXCEPT !.pc = "skbj", !.crs = r]]
  /\ UNCHANGED <<workerFrame, socketVars, api, dev, sentVars, conn_queue, notify,
                 data_map>>

(* The other argument, SendSKBJ, and the bufferevent is enabled.           *)
Register(t) ==
  LET fd == wk[t].fd
      Other(read, now) == IF read = Unread THEN now ELSE {read}
  IN  /\ wk[t].pc = "skbj"
      /\ \E c \in Other(wk[t].cls, ReadClass), r \in Other(wk[t].crs, ReadCourse) :
           shown' = [shown EXCEPT ![fd] = [cls |-> c, crs |-> r]]
      /\ bevs' = [bevs EXCEPT ![t] = @ \cup {fd}]
      /\ wk' = [wk EXCEPT ![t] = AtLoop]
      /\ UNCHANGED <<workerFrame, sock, closing, api, dev, pushed, joined,
                     conn_queue, notify, data_map>>

(* conn_readcb: data_map[fd] inserts an entry when there is none.          *)
ReadCb(t, fd) ==
  /\ wk[t].pc = "loop" /\ fd \in bevs[t] /\ sock[fd] = "open"
  /\ data_map' = [data_map EXCEPT ![t] = @ \cup {fd}]
  /\ UNCHANGED <<workerFrame, socketVars, api, dev, sentVars, conn_queue, notify, wk>>

(* Mutant: the bufferevent is freed first, its descriptor finds no entry.  *)
EraseAfterFree(t, fd) == UNCHANGED <<data_map, api>>

(* Find the descriptor's entry and erase it.                               *)
Erase(t, fd) == /\ data_map' = [data_map EXCEPT ![t] = @ \ {fd}]
                /\ MapChanged(t, {fd})

(* conn_eventcb: erase the entry, then bufferevent_free.                   *)
EventCb(t, fd) ==
  /\ wk[t].pc = "loop" /\ fd \in bevs[t] /\ sock[fd] = "eof"
  /\ Erase(t, fd)
  /\ bevs' = [bevs EXCEPT ![t] = @ \ {fd}]
  /\ closing' = [closing EXCEPT ![t] = @ \cup {fd}]
  /\ dev' = [dev EXCEPT !.stay = @ \ {fd}]
  /\ UNCHANGED <<workerFrame, sock, sentVars, conn_queue, notify, wk>>

(* libevent: a freed bufferevent closes its descriptor (CLOSE_ON_FREE)     *)
(* once its callbacks are over; the kernel may hand it out again.          *)
CloseFd(t, fd) ==
  /\ wk[t].pc = "loop" /\ fd \in closing[t]
  /\ closing' = [closing EXCEPT ![t] = @ \ {fd}]
  /\ sock' = [sock EXCEPT ![fd] = "free"]
  /\ UNCHANGED <<workerFrame, bevs, api, dev, sentVars, conn_queue, notify,
                 data_map, wk>>

(* Nothing to do: the event loops block, the application is between calls. *)
Waiting ==
  /\ listener = None /\ api.pc = "idle"
  /\ \A t \in Threads : wk[t].pc = "loop" /\ notify[t] = <<>> /\ closing[t] = {}
  /\ UNCHANGED vars
-----------------------------------------------------------------------------
Worker(t) ==
  \/ RecvA(t) \/ SendA(t) \/ RecvB(t) \/ SendB(t)
  \/ RecvC(t) \/ SetBev(t) \/ Register(t)
  \/ \E fd \in Fds : ReadCb(t, fd) \/ EventCb(t, fd) \/ CloseFd(t, fd)

(* What the application's thread does once a call is under way.            *)
InCall == GiveCourse \/ GiveDone \/ SendFilePath \/ Broadcast
          \/ VisitDevice \/ VisitStale \/ NextMap \/ ReturnDevices

Call == GiveClass \/ SendFileType \/ GetConnectDevice

Next ==
  \/ \E fd \in Fds : Accept(fd) \/ PeerClose(fd)
  \/ Wake \/ Call \/ InCall \/ Waiting
  \/ \E t \in Threads : Worker(t)

Spec == Init /\ [][Next]_vars

(* Each thread keeps running: what it has started or been notified of it   *)
(* does.  Peers, and the application's decision to call, promise nothing.  *)
Fairness == WF_vars(Wake) /\ WF_vars(InCall) /\ \A t \in Threads : WF_vars(Worker(t))

FairSpec == Spec /\ Fairness
-----------------------------------------------------------------------------
(*                               Properties                                *)

Lessons == {Torn} \cup 0 .. MaxGive
Files == {Torn} \cup 0 .. MaxSend
HandlerStates == [pc : {"loop", "a", "b", "setbev", "skbj"}, fd : Fds \cup {End},
                  cls : Lessons \cup {Unread}, crs : Lessons \cup {Unread},
                  name : Files \cup {Unread}]
CallStates == [pc : {"idle", "class", "course", "a", "path", "b", "devices"},
               i : Threads, it : Fds \cup {End, Dangling}]
DeviceStates == [list : SUBSET Fds, stay : SUBSET Fds, tainted : BOOLEAN]
LessonsShown == [cls : Lessons \cup {Unread}, crs : Lessons \cup {Unread}]
FilesPushed == [name : Files \cup {Unread}, path : Files \cup {Unread},
                type : 0 .. MaxSend \cup {Unread}]

(* Every variable keeps its type: in particular the loops over             *)
(* m_libevent_threads stay within the vector (server.cpp:36, 50, 82).      *)
TypeOK ==
  /\ sock \in [Fds -> {"free", "open", "eof"}]
  /\ m_last_thread \in Threads \cup {-1}
  /\ assigned \in [Threads -> 0 .. MaxAssign]
  /\ listener \in Threads \cup {None}
  /\ conn_queue \in [Threads -> Seq(Fds)]
  /\ notify \in [Threads -> Seq(Bytes)]
  /\ lost \in [Threads -> SUBSET Bytes]
  /\ data_map \in [Threads -> SUBSET Fds]
  /\ bevs \in [Threads -> SUBSET Fds]
  /\ closing \in [Threads -> SUBSET Fds]
  /\ wk \in [Threads -> HandlerStates]
  /\ \A t \in Threads : wk[t].pc \in {"setbev", "skbj"} => wk[t].fd \in Fds
  /\ m_strClass \in 0 .. MaxGive /\ m_strCourse \in 0 .. MaxGive
  /\ m_strFilePath \in 0 .. MaxSend /\ m_nType \in 0 .. MaxSend
  /\ gives \in 0 .. MaxGive /\ asks \in 0 .. MaxAsk
  /\ api \in CallStates /\ dev \in DeviceStates
  /\ shown \in [Fds -> LessonsShown]
  /\ pushed \in [Fds -> FilesPushed]
  /\ joined \in [Fds -> 0 .. MaxSend]

(* "Each thread handles all connections evenly" (server.cpp:415): the      *)
(* round robin never leaves two threads more than one connection apart.    *)
Balanced == \A t, u \in Threads : assigned[t] <= assigned[u] + 1

Count(s, b) == Cardinality({k \in 1 .. Len(s) : s[k] = b})

(* The bytes "c" on a thread's channel and its conn_queue are kept by two  *)
(* threads without a common lock: no "c" finds the queue empty (front() of *)
(* an empty std::queue), and while no byte was lost every queued           *)
(* connection has its "c" (server.cpp:234-238 against 350-358).            *)
WakeupsMatchQueue ==
  \A t \in Threads :
    LET coming == Count(notify[t], "c") + (IF listener = t THEN 1 ELSE 0)
    IN  /\ coming <= Len(conn_queue[t])
        /\ "c" \notin lost[t] => coming = Len(conn_queue[t])

Queued(t) == ToSet(conn_queue[t])
Held(t) == Queued(t) \cup data_map[t] \cup closing[t]
Registering(t) == IF wk[t].pc \in {"setbev", "skbj"} THEN {wk[t].fd} ELSE {}

InOnePlace(t) ==
  /\ IsInjective(conn_queue[t])
  /\ Queued(t) \cap (data_map[t] \cup closing[t]) = {}
  /\ data_map[t] \cap closing[t] = {}
  /\ bevs[t] = data_map[t] \ Registering(t)

(* A descriptor the kernel hands out again is never mixed up with its      *)
(* former connection: it is in one place of one thread, or free.  Entries  *)
(* are erased before the descriptor is closed (server.cpp:403-408), so a   *)
(* callback finds its entry and data_map[...] in conn_readcb (391) inserts *)
(* none.                                                                   *)
FdOwnedOnce ==
  /\ \A t \in Threads : InOnePlace(t)
  /\ \A t, u \in Threads : t # u => Held(t) \cap Held(u) = {}
  /\ \A fd \in Fds : sock[fd] = "free" <=> \A t \in Threads : fd \notin Held(t)

InChannel(t, b) == b \in ToSet(notify[t])

(* The current lesson is still on its way to thread t, or its byte is lost. *)
LessonComing(t) ==
  \/ api.pc \in {"class", "course"}
  \/ api.pc = "a" /\ api.i <= t
  \/ InChannel(t, "a")
  \/ "a" \in lost[t]

ShowsLesson(fd) == shown[fd] = [cls |-> m_strClass, crs |-> m_strCourse]

(* No registered connection is left with an old, mixed or torn lesson: it  *)
(* shows the current one or an update is coming, however registration, the *)
(* unlocked strings and overlapping broadcasts interleave (server.cpp:32-39*)
(* against 306-312 and 366).                                               *)
ConvergedLesson ==
  \A t \in Threads : \A fd \in bevs[t] :
    ShowsLesson(fd) \/ LessonComing(t) \/ (wk[t].pc = "a" /\ wk[t].cls = m_strClass)

FileComing(t) ==
  \/ api.pc = "path"
  \/ api.pc = "b" /\ api.i <= t
  \/ InChannel(t, "b")
  \/ "b" \in lost[t]

HasFile(fd) ==
  pushed[fd] = [name |-> m_strFilePath, path |-> m_strFilePath, type |-> m_strFilePath]

(* A connection registered before a SendFile gets that file, with the name *)
(* and type that belong to it, or it is coming: a description mixed from   *)
(* two calls (server.cpp:317-331) is always followed by a right one.       *)
FileReaches ==
  \A t \in Threads : \A fd \in bevs[t] :
    joined[fd] < m_strFilePath =>
      HasFile(fd) \/ FileComing(t) \/ (wk[t].pc = "b" /\ wk[t].name = m_strFilePath)

(* GetConnectDevice returns every device connected all through the call,   *)
(* provided the walk met no undefined behaviour (server.cpp:79-94).        *)
DeviceListComplete ==
  [][ReturnDevices /\ ~ dev.tainted => dev.stay \subseteq dev.list]_vars

(* data_mtx is the lock of data_map (server.h:32): whoever uses an entry   *)
(* finds it whole and alive.  server.cpp:84 names the lock and takes none. *)
DeviceListSafe == api.pc = "devices" /\ api.it # End => OnDevice

(* The dispatcher implements HandOff, its liveness included: a descriptor  *)
(* in closing is still held.                                               *)
H == INSTANCE HandOff WITH
       N <- THREAD_NUMB, Conns <- Fds,
       turn <- (m_last_thread + 1) % THREAD_NUMB,
       waiting <- conn_queue,
       held <- [t \in Threads |-> data_map[t] \cup closing[t]]

ImplementsHandOff == H!HSpec

(* Every accepted connection gets served (server.cpp:237, 414-416).        *)
ConnServed ==
  \A fd \in Fds : (\E t \in Threads : fd \in Queued(t))
                    ~> (\E t \in Threads : fd \in bevs[t])

(* A lesson that stays the current one reaches every connection that stays *)
(* registered, unless its byte was lost.                                   *)
LessonReaches ==
  \A fd \in Fds, t \in Threads :
    (fd \in bevs[t])
      ~> (fd \notin bevs[t] \/ "a" \in lost[t] \/ ShowsLesson(fd))
=============================================================================
