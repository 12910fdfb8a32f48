--------------------------- MODULE Server_proofs ---------------------------
(***************************************************************************)
(* Proofs about Server.tla for any number of threads and descriptors.      *)
(***************************************************************************)
EXTENDS Server, TLAPS

(* The thread after the last one is a thread, for the -1 of the start too. *)
LEMMA NextThreadInRange ==
  ASSUME NEW m \in Threads \cup {-1}
  PROVE  /\ (m + 1) % THREAD_NUMB \in Threads
         /\ m < THREAD_NUMB - 1 => (m + 1) % THREAD_NUMB = m + 1
         /\ m = THREAD_NUMB - 1 => (m + 1) % THREAD_NUMB = 0
BY ServerAssumption DEF Threads

LEMMA FirstType ==
  ASSUME NEW S \in SUBSET Fds, NEW fd \in First(S)
  PROVE  fd \in Fds \cup {End}
BY DEF First

LEMMA ReadTypes ==
  ASSUME TypeOK
  PROVE  /\ ReadClass \subseteq Lessons
         /\ ReadCourse \subseteq Lessons
         /\ ReadFile \subseteq Files
BY DEF TypeOK, ReadClass, ReadCourse, ReadFile, Lessons, Files
-----------------------------------------------------------------------------
(* Type correctness.                                                       *)

TypedNotify == notify \in [Threads -> Seq(Bytes)]
TypedLost == lost \in [Threads -> SUBSET Bytes]

LEMMA NotifyType ==
  ASSUME TypedNotify, TypedLost, NEW t \in Threads, NEW b \in Bytes, Notify(t, b)
  PROVE  TypedNotify' /\ TypedLost'
<1>1. Append(notify[t], b) \in Seq(Bytes)
  BY DEF TypedNotify
<1>2. lost[t] \cup {b} \in SUBSET Bytes
  BY DEF TypedLost
<1> QED BY <1>1, <1>2 DEF Notify, TypedNotify, TypedLost

LEMMA RecvType ==
  ASSUME TypedNotify, NEW t \in Threads, NEW b, Recv(t, b)
  PROVE  TypedNotify'
<1>1. Tail(notify[t]) \in Seq(Bytes)
  BY DEF TypedNotify, Recv
<1> QED BY <1>1 DEF Recv, TypedNotify

LEMMA MapChangedType ==
  ASSUME api \in CallStates, NEW t, NEW erased, MapChanged(t, erased)
  PROVE  api' \in CallStates
BY DEF MapChanged, CallStates

(* A handler's next state, when only one field of its record changes.      *)
LEMMA HandlerType ==
  ASSUME NEW h \in HandlerStates
  PROVE  /\ \A c \in Lessons : /\ [h EXCEPT !.pc = "a", !.cls = c] \in HandlerStates
                               /\ [h EXCEPT !.pc = "skbj", !.cls = c] \in HandlerStates
                               /\ [h EXCEPT !.pc = "skbj", !.crs = c] \in HandlerStates
         /\ \A n \in Files : [h EXCEPT !.pc = "b", !.name = n] \in HandlerStates
         /\ \A fd \in Fds : [h EXCEPT !.pc = "setbev", !.fd = fd] \in HandlerStates
         /\ AtLoop \in HandlerStates
BY DEF HandlerStates, AtLoop

LEMMA TypeInit == Init => TypeOK
<1> SUFFICES ASSUME Init PROVE TypeOK
  OBVIOUS
<1> USE ServerAssumption
<1>1. AtLoop \in HandlerStates /\ AtLoop.pc = "loop"
  BY DEF AtLoop, HandlerStates
<1>2. Idle \in CallStates
  BY DEF Idle, CallStates, Threads
<1>3. NoList \in DeviceStates
  BY DEF NoList, DeviceStates
<1>4. NothingShown \in LessonsShown /\ NothingPushed \in FilesPushed
  BY DEF NothingShown, NothingPushed, LessonsShown, FilesPushed
<1> QED BY <1>1, <1>2, <1>3, <1>4 DEF Init, TypeOK, None

LEMMA TypeNext == TypeOK /\ [Next]_vars => TypeOK'
<1> SUFFICES ASSUME TypeOK, [Next]_vars PROVE TypeOK'
  OBVIOUS
<1> USE ServerAssumption
<1>0. /\ api \in CallStates /\ dev \in DeviceStates
      /\ wk \in [Threads -> HandlerStates]
      /\ \A u \in Threads : wk[u].pc \in {"setbev", "skbj"} => wk[u].fd \in Fds
      /\ shown \in [Fds -> LessonsShown] /\ pushed \in [Fds -> FilesPushed]
      /\ gives \in 0 .. MaxGive /\ asks \in 0 .. MaxAsk /\ m_nType \in 0 .. MaxSend
  BY DEF TypeOK
<1>1. ASSUME NEW fd \in Fds, Accept(fd) PROVE TypeOK'
  <2>1. NextThread(fd) \in Threads
    BY NextThreadInRange DEF NextThread, TypeOK
  <2>2. \A t \in Threads : Append(conn_queue[t], fd) \in Seq(Fds)
    BY DEF TypeOK
  <2>3. assigned[NextThread(fd)] + 1 \in 0 .. MaxAssign
    BY <1>1, <2>1 DEF Accept, TypeOK
  <2> QED BY <1>1, <2>1, <2>2, <2>3 DEF TypeOK, Accept, socketVars, lessonVars,
           fileVars, apiVars, sentVars
<1>2. ASSUME NEW fd \in Fds, PeerClose(fd) PROVE TypeOK'
  BY <1>2 DEF TypeOK, PeerClose, listenVars, lessonVars, fileVars,
     apiVars, sentVars
<1>3. CASE Wake
  <2>1. TypedNotify' /\ TypedLost'
    BY <1>3, NotifyType DEF Wake, TypeOK, TypedNotify, TypedLost, Bytes, None
  <2> QED BY <1>3, <2>1 DEF TypeOK, Wake, TypedNotify, TypedLost, socketVars,
           lessonVars, fileVars, apiVars, sentVars
<1>4. CASE GiveClass
  <2>1. api' \in CallStates
    BY <1>0, <1>4 DEF GiveClass, CallStates
  <2>2. gives' \in 0 .. MaxGive
    BY <1>0, <1>4 DEF GiveClass
  <2> QED BY <1>4, <2>1, <2>2 DEF TypeOK, GiveClass, fileVars, apiFrame,
           socketVars, listenVars, sentVars
<1>5. CASE GiveCourse
  <2>1. api' \in CallStates
    BY <1>0, <1>5 DEF GiveCourse, CallStates
  <2> QED BY <1>5, <2>1 DEF TypeOK, GiveCourse, fileVars, apiFrame, socketVars,
           listenVars, sentVars
<1>6. CASE GiveDone
  <2>1. api' \in CallStates
    BY <1>0, <1>6 DEF GiveDone, CallStates
  <2> QED BY <1>6, <2>1 DEF TypeOK, GiveDone, fileVars, apiFrame, socketVars,
           listenVars, sentVars
<1>7. CASE SendFileType
  <2>1. api' \in CallStates
    BY <1>0, <1>7 DEF SendFileType, CallStates
  <2>2. m_nType' \in 0 .. MaxSend
    BY <1>0, <1>7 DEF SendFileType
  <2> QED BY <1>7, <2>1, <2>2 DEF TypeOK, SendFileType, lessonVars, apiFrame,
           socketVars, listenVars, sentVars
<1>8. CASE SendFilePath
  <2>1. api' \in CallStates
    BY <1>0, <1>8 DEF SendFilePath, CallStates
  <2> QED BY <1>8, <2>1 DEF TypeOK, SendFilePath, lessonVars, apiFrame,
           socketVars, listenVars, sentVars
<1>9. CASE Broadcast
  <2>1. TypedNotify' /\ TypedLost'
    BY <1>0, <1>9, NotifyType DEF Broadcast, TypeOK, TypedNotify, TypedLost, Bytes,
       CallStates
  <2>2. api' \in CallStates
    <3>1. api.i \in Threads /\ Idle \in CallStates
      BY DEF TypeOK, CallStates, Idle, Threads
    <3>2. CASE api.i < THREAD_NUMB - 1
      <4>1. api.i + 1 \in Threads
        BY <3>1, <3>2 DEF Threads
      <4> QED BY <1>9, <3>2, <4>1 DEF Broadcast, TypeOK, NextNotified, CallStates
    <3>3. CASE ~ (api.i < THREAD_NUMB - 1)
      BY <1>9, <3>1, <3>3 DEF Broadcast, NextNotified
    <3> QED BY <3>2, <3>3
  <2> QED BY <1>9, <2>1, <2>2 DEF TypeOK, Broadcast, TypedNotify, TypedLost,
           lessonVars, fileVars, apiFrame, socketVars, listenVars, sentVars
<1>10. CASE GetConnectDevice
  <2>1. data_map[0] \in SUBSET Fds
    BY DEF TypeOK, Threads
  <2>2. api' \in CallStates
    BY <1>0, <1>10, <2>1, FirstType DEF GetConnectDevice, CallStates
  <2>3. dev' \in DeviceStates
    <3>1. UNION {bevs[t] : t \in Threads} \in SUBSET Fds
      BY DEF TypeOK
    <3>2. dev' = [list |-> {}, stay |-> UNION {bevs[t] : t \in Threads},
                  tainted |-> FALSE]
      BY <1>10 DEF GetConnectDevice, NoList
    <3> QED BY <3>1, <3>2 DEF DeviceStates
  <2>4. asks' \in 0 .. MaxAsk
    <3>1. asks < MaxAsk /\ asks' = asks + 1
      BY <1>10 DEF GetConnectDevice
    <3> QED BY <1>0, <3>1
  <2> QED BY <1>10, <2>1, <2>2, <2>3, <2>4 DEF TypeOK, GetConnectDevice,
           deviceFrame, apiFrame, socketVars, listenVars, sentVars, lessonVars,
           fileVars
<1>11. CASE VisitDevice
  <2>1. api.i \in Threads /\ {g \in data_map[api.i] : g > api.it} \in SUBSET Fds
    BY DEF TypeOK, CallStates
  <2>2. api' \in CallStates
    BY <1>0, <1>11, <2>1, FirstType DEF VisitDevice, CallStates
  <2>3. dev' \in DeviceStates
    BY <1>11, <2>1 DEF VisitDevice, OnDevice, TypeOK, DeviceStates
  <2> QED BY <1>11, <2>1, <2>2, <2>3 DEF TypeOK, VisitDevice, deviceFrame,
           apiFrame, socketVars, listenVars, sentVars, lessonVars, fileVars
<1>12. CASE VisitStale
  <2>1. api.i \in Threads /\ data_map[api.i] \in SUBSET Fds
    BY DEF TypeOK, CallStates
  <2>2. api' \in CallStates
    <3>1. PICK fd \in Fds \cup {End, Dangling} : api' = [api EXCEPT !.it = fd]
      BY <1>12, <2>1 DEF VisitStale
    <3> QED BY <3>1 DEF TypeOK, CallStates
  <2>3. dev' \in DeviceStates
    BY <1>0, <1>12 DEF VisitStale, DeviceStates
  <2> QED BY <1>12, <2>1, <2>2, <2>3 DEF TypeOK, VisitStale, deviceFrame,
           apiFrame, socketVars, listenVars, sentVars, lessonVars, fileVars
<1>13. CASE NextMap
  <2>1. api.i + 1 \in Threads
    BY <1>0, <1>13 DEF NextMap, MoreThreads, CallStates, Threads
  <2>2. data_map[api.i + 1] \in SUBSET Fds
    BY <2>1 DEF TypeOK
  <2>3. api' \in CallStates
    BY <1>0, <1>13, <2>1, <2>2, FirstType DEF NextMap, CallStates
  <2> QED BY <1>13, <2>1, <2>2, <2>3 DEF TypeOK, NextMap, deviceFrame, apiFrame,
           socketVars, listenVars, sentVars, lessonVars, fileVars
<1>14. CASE ReturnDevices
  <2>1. Idle \in CallStates
    BY DEF Idle, CallStates, Threads
  <2> QED BY <1>14, <2>1 DEF TypeOK, ReturnDevices, deviceFrame, apiFrame,
           socketVars, listenVars, sentVars, lessonVars, fileVars
<1>15. CASE Waiting
  BY <1>15 DEF TypeOK, Waiting, vars, socketVars, listenVars,
     lessonVars, fileVars, apiVars, sentVars
<1>16. ASSUME NEW t \in Threads, RecvA(t) PROVE TypeOK'
  <2>1. TypedNotify'
    BY <1>16, RecvType DEF RecvA, TypeOK, TypedNotify
  <2>2. wk' \in [Threads -> HandlerStates]
    <3>1. PICK c \in Lessons :
            wk' = [wk EXCEPT ![t] = [wk[t] EXCEPT !.pc = "a", !.cls = c]]
      BY <1>16, ReadTypes DEF RecvA
    <3>2. wk[t] \in HandlerStates
      BY DEF TypeOK
    <3>3. [wk[t] EXCEPT !.pc = "a", !.cls = c] \in HandlerStates
      BY <3>2, HandlerType
    <3> QED BY <3>1, <3>3 DEF TypeOK
  <2>3. \A u \in Threads : wk'[u].pc \in {"setbev", "skbj"} => wk'[u].fd \in Fds
    BY <1>0, <1>16 DEF RecvA, HandlerStates, AtLoop
  <2> QED BY <1>16, <2>1, <2>2, <2>3 DEF TypeOK, RecvA, TypedNotify, socketVars,
           sentVars, workerFrame, listenVars, lessonVars, fileVars
<1>17. ASSUME NEW t \in Threads, SendA(t) PROVE TypeOK'
  <2>1. wk' \in [Threads -> HandlerStates]
    BY <1>0, <1>17, HandlerType, ReadTypes DEF SendA
  <2>2. \A u \in Threads : wk'[u].pc \in {"setbev", "skbj"} => wk'[u].fd \in Fds
    BY <1>0, <1>17 DEF SendA, HandlerStates, AtLoop
  <2>3. shown' \in [Fds -> LessonsShown]
    BY <1>0, <1>17, ReadTypes DEF SendA, LessonsShown, HandlerStates
  <2> QED BY <1>17, <2>1, <2>2, <2>3 DEF TypeOK, SendA, socketVars, workerFrame,
           listenVars, lessonVars, fileVars
<1>18. ASSUME NEW t \in Threads, RecvB(t) PROVE TypeOK'
  <2>1. TypedNotify'
    BY <1>18, RecvType DEF RecvB, TypeOK, TypedNotify
  <2>2. wk' \in [Threads -> HandlerStates]
    <3>1. PICK n \in Files :
            wk' = [wk EXCEPT ![t] = [wk[t] EXCEPT !.pc = "b", !.name = n]]
      BY <1>18, ReadTypes DEF RecvB
    <3>2. wk[t] \in HandlerStates
      BY DEF TypeOK
    <3>3. [wk[t] EXCEPT !.pc = "b", !.name = n] \in HandlerStates
      BY <3>2, HandlerType
    <3> QED BY <3>1, <3>3 DEF TypeOK
  <2>3. \A u \in Threads : wk'[u].pc \in {"setbev", "skbj"} => wk'[u].fd \in Fds
    BY <1>0, <1>18 DEF RecvB, HandlerStates, AtLoop
  <2> QED BY <1>18, <2>1, <2>2, <2>3 DEF TypeOK, RecvB, TypedNotify, socketVars,
           sentVars, workerFrame, listenVars, lessonVars, fileVars
<1>19. ASSUME NEW t \in Threads, SendB(t) PROVE TypeOK'
  <2>1. wk' \in [Threads -> HandlerStates]
    BY <1>0, <1>19, HandlerType, ReadTypes DEF SendB
  <2>2. \A u \in Threads : wk'[u].pc \in {"setbev", "skbj"} => wk'[u].fd \in Fds
    BY <1>0, <1>19 DEF SendB, HandlerStates, AtLoop
  <2>3. pushed' \in [Fds -> FilesPushed]
    BY <1>19, ReadTypes DEF SendB, TypeOK, FilesPushed, HandlerStates
  <2> QED BY <1>19, <2>1, <2>2, <2>3 DEF TypeOK, SendB, socketVars, workerFrame,
           listenVars, lessonVars, fileVars
<1>20. ASSUME NEW t \in Threads, RecvC(t) PROVE TypeOK'
  <2>1. TypedNotify'
    BY <1>20, RecvType DEF RecvC, TypeOK, TypedNotify
  <2>2. Head(conn_queue[t]) \in Fds /\ Tail(conn_queue[t]) \in Seq(Fds)
    BY <1>20 DEF RecvC, TypeOK
  <2>3. api' \in CallStates
    BY <1>20, <1>0, MapChangedType DEF RecvC
  <2>4. wk' \in [Threads -> HandlerStates]
    BY <1>20, <1>0, <2>2, HandlerType DEF RecvC
  <2>5. \A u \in Threads : wk'[u].pc \in {"setbev", "skbj"} => wk'[u].fd \in Fds
    BY <1>0, <1>20, <2>2 DEF RecvC, HandlerStates
  <2>6. NothingShown \in LessonsShown /\ NothingPushed \in FilesPushed
    BY ServerAssumption DEF NothingShown, NothingPushed, LessonsShown, FilesPushed
  <2> QED BY <1>20, <2>1, <2>2, <2>3, <2>4, <2>5, <2>6 DEF TypeOK, RecvC,
           TypedNotify, socketVars, workerFrame, listenVars, lessonVars, fileVars
<1>21. ASSUME NEW t \in Threads, SetBev(t) PROVE TypeOK'
  <2>1. wk' \in [Threads -> HandlerStates]
    <3>1. PICK c \in Lessons :
            \/ wk' = [wk EXCEPT ![t] = [wk[t] EXCEPT !.pc = "skbj", !.cls = c]]
            \/ wk' = [wk EXCEPT ![t] = [wk[t] EXCEPT !.pc = "skbj", !.crs = c]]
      BY <1>21, ReadTypes DEF SetBev
    <3>2. wk[t] \in HandlerStates
      BY DEF TypeOK
    <3>3. /\ [wk[t] EXCEPT !.pc = "skbj", !.cls = c] \in HandlerStates
          /\ [wk[t] EXCEPT !.pc = "skbj", !.crs = c] \in HandlerStates
      BY <3>2, HandlerType
    <3> QED BY <3>1, <3>3 DEF TypeOK
  <2>2. \A u \in Threads : wk'[u].pc \in {"setbev", "skbj"} => wk'[u].fd \in Fds
    <3>1. wk[t].pc = "setbev" /\ wk[t].fd \in Fds
      BY <1>21 DEF SetBev, TypeOK
    <3>2. wk'[t].fd = wk[t].fd /\ \A u \in Threads \ {t} : wk'[u] = wk[u]
      <4>1. PICK c :
              \/ wk' = [wk EXCEPT ![t] = [wk[t] EXCEPT !.pc = "skbj", !.cls = c]]
              \/ wk' = [wk EXCEPT ![t] = [wk[t] EXCEPT !.pc = "skbj", !.crs = c]]
        BY <1>21 DEF SetBev
      <4>2. wk \in [Threads -> HandlerStates] /\ wk[t] \in HandlerStates
        BY DEF TypeOK
      <4>3. /\ [wk[t] EXCEPT !.pc = "skbj", !.cls = c].fd = wk[t].fd
            /\ [wk[t] EXCEPT !.pc = "skbj", !.crs = c].fd = wk[t].fd
        BY <4>2 DEF HandlerStates
      <4> QED BY <4>1, <4>2, <4>3
    <3> QED BY <3>1, <3>2 DEF TypeOK
  <2> QED BY <1>21, <2>1, <2>2 DEF TypeOK, SetBev, socketVars, sentVars, workerFrame,
             listenVars, lessonVars, fileVars
<1>22. ASSUME NEW t \in Threads, Register(t) PROVE TypeOK'
  <2>1. wk' \in [Threads -> HandlerStates]
    BY <1>0, <1>22, HandlerType, ReadTypes DEF Register
  <2>2. \A u \in Threads : wk'[u].pc \in {"setbev", "skbj"} => wk'[u].fd \in Fds
    BY <1>0, <1>22 DEF Register, HandlerStates, AtLoop
  <2>3. wk[t].fd \in Fds
    BY <1>22 DEF Register, TypeOK
  <2>4. shown' \in [Fds -> LessonsShown]
    BY <1>0, <1>22, <2>3, ReadTypes DEF Register, LessonsShown, HandlerStates
  <2> QED BY <1>22, <2>1, <2>2, <2>3, <2>4 DEF TypeOK, Register, workerFrame,
           listenVars, lessonVars, fileVars
<1>23. ASSUME NEW t \in Threads, NEW fd \in Fds, ReadCb(t, fd) PROVE TypeOK'
  BY <1>23 DEF TypeOK, ReadCb, socketVars, sentVars, workerFrame,
     listenVars, lessonVars, fileVars
<1>24. ASSUME NEW t \in Threads, NEW fd \in Fds, EventCb(t, fd) PROVE TypeOK'
  <2>1. api' \in CallStates
    BY <1>24, <1>0, MapChangedType DEF EventCb, Erase
  <2>2. dev' \in DeviceStates
    BY <1>0, <1>24 DEF EventCb, DeviceStates
  <2> QED BY <1>24, <2>1, <2>2 DEF TypeOK, EventCb, Erase, sentVars,
           workerFrame, listenVars, lessonVars, fileVars
<1>25. ASSUME NEW t \in Threads, NEW fd \in Fds, CloseFd(t, fd) PROVE TypeOK'
  BY <1>25 DEF TypeOK, CloseFd, sentVars, workerFrame, listenVars,
     lessonVars, fileVars
<1>26. CASE UNCHANGED vars
  BY <1>26 DEF TypeOK, vars, socketVars, listenVars, lessonVars,
     fileVars, apiVars, sentVars
<1> QED
  BY <1>1, <1>2, <1>3, <1>4, <1>5, <1>6, <1>7, <1>8, <1>9, <1>10,
     <1>11, <1>12, <1>13, <1>14, <1>15, <1>16, <1>17, <1>18, <1>19, <1>20,
     <1>21, <1>22, <1>23, <1>24, <1>25, <1>26
     DEF Next, Call, InCall, Worker

(* Every reachable state is well typed: the round robin and the loops over *)
(* the threads never leave the vector (server.cpp:36, 50, 82, 213).        *)
THEOREM TypeCorrect == Spec => []TypeOK
BY TypeInit, TypeNext, PTL DEF Spec
-----------------------------------------------------------------------------
(* The round robin.                                                        *)

(* Every thread up to the last one is one connection ahead of the others.  *)
BalancedInv ==
  \E k \in Nat : \A t \in Threads :
    assigned[t] = IF t <= m_last_thread THEN k + 1 ELSE k

LEMMA BalancedNext == TypeOK /\ BalancedInv /\ [Next]_vars => BalancedInv'
<1> SUFFICES ASSUME TypeOK, BalancedInv, [Next]_vars PROVE BalancedInv'
  OBVIOUS
<1>1. ASSUME NEW fd \in Fds, Accept(fd) PROVE BalancedInv'
  <2> DEFINE cur == NextThread(fd)
  <2>1. PICK k \in Nat : \A t \in Threads :
          assigned[t] = IF t <= m_last_thread THEN k + 1 ELSE k
    BY DEF BalancedInv
  <2>2. m_last_thread \in Threads \cup {-1} /\ assigned \in [Threads -> 0 .. MaxAssign]
    BY DEF TypeOK
  <2>3. /\ cur \in Threads
        /\ m_last_thread < THREAD_NUMB - 1 => cur = m_last_thread + 1
        /\ m_last_thread = THREAD_NUMB - 1 => cur = 0
    BY <2>2, NextThreadInRange DEF NextThread
  <2>4. m_last_thread' = cur /\ assigned' = [assigned EXCEPT ![cur] = @ + 1]
    BY <1>1 DEF Accept
  <2>5. CASE m_last_thread < THREAD_NUMB - 1
    <3>1. \A t \in Threads : assigned'[t] = IF t <= cur THEN k + 1 ELSE k
      BY <2>1, <2>2, <2>3, <2>4, <2>5, ServerAssumption DEF Threads
    <3> QED BY <2>4, <3>1 DEF BalancedInv
  <2>6. CASE m_last_thread = THREAD_NUMB - 1
    <3>1. \A t \in Threads : assigned'[t] = IF t <= cur THEN k + 2 ELSE k + 1
      BY <2>1, <2>2, <2>3, <2>4, <2>6, ServerAssumption DEF Threads
    <3>2. k + 1 \in Nat /\ k + 2 = (k + 1) + 1
      OBVIOUS
    <3> QED BY <2>4, <3>1, <3>2 DEF BalancedInv
  <2> QED BY <2>2, <2>5, <2>6, ServerAssumption DEF Threads
<1>2. CASE UNCHANGED <<m_last_thread, assigned>>
  BY <1>2 DEF BalancedInv
<1>3. (\E fd \in Fds : Accept(fd)) \/ UNCHANGED <<m_last_thread, assigned>>
  BY DEF Next, Call, InCall, Worker, vars, listenVars, apiFrame, deviceFrame, workerFrame,
     PeerClose, Wake, GiveClass, GiveCourse, GiveDone, SendFileType, SendFilePath,
     Broadcast, GetConnectDevice, VisitDevice, VisitStale, NextMap, ReturnDevices,
     Waiting, RecvA, SendA, RecvB, SendB, RecvC, SetBev, Register, ReadCb, EventCb, CloseFd
<1> QED BY <1>1, <1>2, <1>3

(* The threads share the connections evenly (server.cpp:213-214, 415): at  *)
(* any time no thread was dealt two more than another.                     *)
THEOREM BalancedCorrect == Spec => []Balanced
<1>1. Init => BalancedInv
  <2> SUFFICES ASSUME Init PROVE \A t \in Threads :
                 assigned[t] = IF t <= m_last_thread THEN 0 + 1 ELSE 0
    BY DEF BalancedInv
  <2> QED BY DEF Init, Threads
<1>2. BalancedInv => Balanced
  BY DEF BalancedInv, Balanced
<1> QED BY <1>1, <1>2, BalancedNext, TypeCorrect, PTL DEF Spec
-----------------------------------------------------------------------------
(* Queues as sets.                                                         *)

LEMMA AppendElems ==
  ASSUME NEW S, NEW s \in Seq(S), NEW e \in S
  PROVE  /\ ToSet(Append(s, e)) = ToSet(s) \cup {e}
         /\ IsInjective(s) /\ e \notin ToSet(s) => IsInjective(Append(s, e))
<1> DEFINE r == Append(s, e)
<1>1. /\ DOMAIN s = 1 .. Len(s) /\ DOMAIN r = 1 .. Len(s) + 1 /\ Len(s) \in Nat
      /\ \A k \in 1 .. Len(s) : r[k] = s[k]
      /\ r[Len(s) + 1] = e
  OBVIOUS
<1>2. ToSet(r) = ToSet(s) \cup {e}
  <2> HIDE DEF r
  <2>1. \A k \in DOMAIN r : k \in 1 .. Len(s) \/ k = Len(s) + 1
    BY <1>1
  <2>2. 1 .. Len(s) \subseteq DOMAIN r /\ Len(s) + 1 \in DOMAIN r
    BY <1>1
  <2> QED BY <1>1, <2>1, <2>2 DEF ToSet
<1>3. ASSUME IsInjective(s), e \notin ToSet(s) PROVE IsInjective(r)
  <2> HIDE DEF r
  <2> QED BY <1>1, <1>3 DEF IsInjective, ToSet
<1> QED BY <1>2, <1>3

LEMMA TailElems ==
  ASSUME NEW S, NEW s \in Seq(S), s # <<>>
  PROVE  /\ Head(s) \in ToSet(s)
         /\ ToSet(s) = ToSet(Tail(s)) \cup {Head(s)}
         /\ IsInjective(s) => IsInjective(Tail(s)) /\ Head(s) \notin ToSet(Tail(s))
<1> DEFINE r == Tail(s)
           n == Len(s)
<1>1. /\ DOMAIN s = 1 .. n /\ DOMAIN r = 1 .. n - 1 /\ n \in Nat \ {0}
      /\ \A k \in 1 .. n - 1 : r[k] = s[k + 1]
      /\ s[1] = Head(s)
  OBVIOUS
<1> HIDE DEF r, n
<1>2. \A k \in DOMAIN s : k = 1 \/ (k - 1 \in DOMAIN r /\ s[k] = r[k - 1])
  BY <1>1
<1>3. \A k \in DOMAIN r : k + 1 \in DOMAIN s /\ k + 1 # 1 /\ r[k] = s[k + 1]
  BY <1>1
<1>4. 1 \in DOMAIN s
  BY <1>1
<1>5. ToSet(s) = ToSet(r) \cup {Head(s)}
  BY <1>1, <1>2, <1>3, <1>4 DEF ToSet
<1>6. ASSUME IsInjective(s) PROVE IsInjective(r) /\ Head(s) \notin ToSet(r)
  <2>1. \A j, k \in DOMAIN r : j + 1 = k + 1 => j = k
    BY <1>1
  <2> QED BY <1>1, <1>3, <1>4, <1>6, <2>1 DEF IsInjective, ToSet
<1> QED BY <1>5, <1>6 DEF r
-----------------------------------------------------------------------------
(* Who holds a descriptor.                                                 *)

(* A connection being registered already has its entry.                    *)
OwnInv == FdOwnedOnce /\ \A t \in Threads : Registering(t) \subseteq data_map[t]

(* Everything OwnInv looks at stays the same.                              *)
SameOwners ==
  /\ UNCHANGED <<sock, conn_queue, data_map, closing, bevs>>
  /\ \A t \in Threads : Registering(t)' = Registering(t)

LEMMA SameOwnersInv == OwnInv /\ SameOwners => OwnInv'
BY DEF OwnInv, SameOwners, FdOwnedOnce, InOnePlace, Held, Queued

LEMMA OwnNext == TypeOK /\ OwnInv /\ [Next]_vars => OwnInv'
<1> SUFFICES ASSUME TypeOK, OwnInv, [Next]_vars PROVE OwnInv'
  OBVIOUS
<1>0. /\ sock \in [Fds -> {"free", "open", "eof"}]
      /\ conn_queue \in [Threads -> Seq(Fds)]
      /\ data_map \in [Threads -> SUBSET Fds]
      /\ closing \in [Threads -> SUBSET Fds]
      /\ bevs \in [Threads -> SUBSET Fds]
      /\ wk \in [Threads -> HandlerStates]
  BY DEF TypeOK
<1>1. ASSUME NEW fd \in Fds, Accept(fd) PROVE OwnInv'
  <2>1. PICK cur \in Threads : cur = NextThread(fd)
    BY NextThreadInRange DEF NextThread, TypeOK
  <2>2. /\ sock[fd] = "free" /\ sock' = [sock EXCEPT ![fd] = "open"]
        /\ conn_queue' = [conn_queue EXCEPT ![cur] = Append(@, fd)]
        /\ UNCHANGED <<data_map, closing, bevs, wk>>
    BY <1>1, <2>1 DEF Accept
  <2>3. \A t \in Threads : fd \notin Held(t)
    BY <2>2 DEF OwnInv, FdOwnedOnce
  <2>4. /\ Queued(cur)' = Queued(cur) \cup {fd}
        /\ IsInjective(conn_queue[cur])'
        /\ \A t \in Threads \ {cur} : conn_queue'[t] = conn_queue[t] /\ Queued(t)' = Queued(t)
    <3>1. /\ conn_queue[cur] \in Seq(Fds) /\ IsInjective(conn_queue[cur])
          /\ fd \notin ToSet(conn_queue[cur])
      BY <1>0, <2>1, <2>3 DEF OwnInv, FdOwnedOnce, InOnePlace, Held, Queued
    <3>2. /\ ToSet(Append(conn_queue[cur], fd)) = ToSet(conn_queue[cur]) \cup {fd}
          /\ IsInjective(Append(conn_queue[cur], fd))
      BY <3>1, AppendElems
    <3>3. /\ conn_queue'[cur] = Append(conn_queue[cur], fd)
          /\ \A t \in Threads \ {cur} : conn_queue'[t] = conn_queue[t]
      BY <1>0, <2>1, <2>2
    <3> QED BY <3>2, <3>3 DEF Queued
  <2>5. \A t \in Threads : Registering(t)' = Registering(t)
    BY <2>2 DEF Registering
  <2>6. \A t \in Threads : InOnePlace(t)'
    <3> SUFFICES ASSUME NEW t \in Threads PROVE InOnePlace(t)'
      OBVIOUS
    <3>1. InOnePlace(t) /\ fd \notin data_map[t] \cup closing[t]
      BY <2>3 DEF OwnInv, FdOwnedOnce, Held
    <3>2. CASE t = cur
      BY <2>2, <2>4, <2>5, <3>1, <3>2 DEF InOnePlace
    <3>3. CASE t # cur
      BY <2>2, <2>4, <2>5, <3>1, <3>3 DEF InOnePlace
    <3> QED BY <3>2, <3>3
  <2>7. \A t \in Threads : Held(t)' = IF t = cur THEN Held(t) \cup {fd} ELSE Held(t)
    <3> SUFFICES ASSUME NEW t \in Threads
                 PROVE  Held(t)' = IF t = cur THEN Held(t) \cup {fd} ELSE Held(t)
      OBVIOUS
    <3>1. CASE t = cur
      BY <2>2, <2>4, <3>1 DEF Held
    <3>2. CASE t # cur
      BY <2>2, <2>4, <3>2 DEF Held
    <3> QED BY <3>1, <3>2
  <2>8. \A t, u \in Threads : t # u => Held(t)' \cap Held(u)' = {}
    BY <2>3, <2>7 DEF OwnInv, FdOwnedOnce
  <2>9. \A g \in Fds : sock'[g] = "free" <=> \A t \in Threads : g \notin Held(t)'
    <3> SUFFICES ASSUME NEW g \in Fds
                 PROVE  sock'[g] = "free" <=> \A t \in Threads : g \notin Held(t)'
      OBVIOUS
    <3>1. CASE g = fd
      <4>1. sock'[g] = "open" /\ g \in Held(cur)'
        BY <1>0, <2>1, <2>2, <2>7, <3>1
      <4> QED BY <2>1, <4>1
    <3>2. CASE g # fd
      <4>1. sock'[g] = sock[g] /\ \A t \in Threads : g \in Held(t)' <=> g \in Held(t)
        BY <1>0, <2>2, <2>7, <3>2
      <4> QED BY <4>1 DEF OwnInv, FdOwnedOnce
    <3> QED BY <3>1, <3>2
  <2> QED BY <2>2, <2>5, <2>6, <2>8, <2>9 DEF OwnInv, FdOwnedOnce
<1>2. ASSUME NEW fd \in Fds, PeerClose(fd) PROVE OwnInv'
  <2>1. /\ sock[fd] = "open" /\ sock' = [sock EXCEPT ![fd] = "eof"]
        /\ UNCHANGED <<conn_queue, data_map, closing, bevs, wk>>
    BY <1>2 DEF PeerClose
  <2>2. \A g \in Fds : sock'[g] = "free" <=> sock[g] = "free"
    BY <1>0, <2>1
  <2> QED BY <2>1, <2>2 DEF OwnInv, FdOwnedOnce, InOnePlace, Held, Queued, Registering
<1>3. ASSUME NEW t \in Threads, RecvC(t) PROVE OwnInv'
  <2>0. PICK fd : fd = Head(conn_queue[t])
    OBVIOUS
  <2>1. /\ wk[t].pc = "loop" /\ conn_queue[t] # <<>>
        /\ conn_queue' = [conn_queue EXCEPT ![t] = Tail(@)]
        /\ data_map' = [data_map EXCEPT ![t] = @ \cup {fd}]
        /\ wk' = [wk EXCEPT ![t] = [@ EXCEPT !.pc = "setbev", !.fd = fd]]
        /\ UNCHANGED <<sock, closing, bevs>>
    BY <1>3, <2>0 DEF RecvC, socketVars
  <2>2. /\ Queued(t) = Queued(t)' \cup {fd} /\ fd \in Queued(t)
        /\ fd \notin Queued(t)' /\ IsInjective(conn_queue[t])'
        /\ \A u \in Threads \ {t} : conn_queue'[u] = conn_queue[u] /\ Queued(u)' = Queued(u)
    BY <1>0, <2>1, <2>0, TailElems DEF OwnInv, FdOwnedOnce, InOnePlace, Queued
  <2>3. /\ Registering(t) = {} /\ Registering(t)' = {fd}
        /\ \A u \in Threads \ {t} : Registering(u)' = Registering(u)
    BY <1>0, <2>1 DEF Registering, HandlerStates
  <2>4. \A u \in Threads : InOnePlace(u)'
    BY <1>0, <2>1, <2>2, <2>3 DEF OwnInv, FdOwnedOnce, InOnePlace
  <2>5. \A u \in Threads : Held(u)' = Held(u)
    BY <1>0, <2>1, <2>2 DEF Held
  <2> QED BY <1>0, <2>1, <2>3, <2>4, <2>5 DEF OwnInv, FdOwnedOnce
<1>4. ASSUME NEW t \in Threads, Register(t) PROVE OwnInv'
  <2>1. /\ wk[t].pc = "skbj" /\ wk' = [wk EXCEPT ![t] = AtLoop]
        /\ bevs' = [bevs EXCEPT ![t] = @ \cup {wk[t].fd}]
        /\ UNCHANGED <<sock, conn_queue, data_map, closing>>
    BY <1>4 DEF Register
  <2>2. /\ Registering(t) = {wk[t].fd} /\ Registering(t)' = {}
        /\ \A u \in Threads \ {t} : Registering(u)' = Registering(u)
    BY <1>0, <2>1 DEF Registering, AtLoop
  <2>3. \A u \in Threads : Queued(u)' = Queued(u) /\ Held(u)' = Held(u)
    BY <2>1 DEF Held, Queued
  <2>4. wk[t].fd \in data_map[t]
    BY <2>2 DEF OwnInv
  <2>5. \A u \in Threads : InOnePlace(u)'
    BY <1>0, <2>1, <2>2, <2>3, <2>4 DEF OwnInv, FdOwnedOnce, InOnePlace
  <2>6. \A u \in Threads : Registering(u)' \subseteq data_map'[u]
    BY <2>1, <2>2 DEF OwnInv
  <2> QED BY <2>1, <2>3, <2>5, <2>6 DEF OwnInv, FdOwnedOnce
<1>5. ASSUME NEW t \in Threads, NEW fd \in Fds, ReadCb(t, fd) PROVE OwnInv'
  <2>1. fd \in data_map[t]
    BY <1>5 DEF ReadCb, OwnInv, FdOwnedOnce, InOnePlace
  <2>2. SameOwners
    BY <1>0, <1>5, <2>1 DEF ReadCb, SameOwners, socketVars, Registering
  <2> QED BY <2>2, SameOwnersInv
<1>6. ASSUME NEW t \in Threads, NEW fd \in Fds, EventCb(t, fd) PROVE OwnInv'
  <2>1. /\ wk[t].pc = "loop" /\ fd \in bevs[t]
        /\ data_map' = [data_map EXCEPT ![t] = @ \ {fd}]
        /\ bevs' = [bevs EXCEPT ![t] = @ \ {fd}]
        /\ closing' = [closing EXCEPT ![t] = @ \cup {fd}]
        /\ UNCHANGED <<sock, conn_queue, wk>>
    BY <1>6 DEF EventCb, Erase
  <2>2. Registering(t) = {} /\ \A u \in Threads : Registering(u)' = Registering(u)
    BY <2>1 DEF Registering
  <2>3. fd \in data_map[t]
    BY <2>1 DEF OwnInv, FdOwnedOnce, InOnePlace
  <2>4. \A u \in Threads : InOnePlace(u)'
    BY <1>0, <2>1, <2>2, <2>3 DEF OwnInv, FdOwnedOnce, InOnePlace, Queued
  <2>5. \A u \in Threads : Held(u)' = Held(u)
    BY <1>0, <2>1, <2>3 DEF Held, Queued
  <2> QED BY <1>0, <2>1, <2>2, <2>4, <2>5 DEF OwnInv, FdOwnedOnce
<1>7. ASSUME NEW t \in Threads, NEW fd \in Fds, CloseFd(t, fd) PROVE OwnInv'
  <2>1. /\ fd \in closing[t] /\ closing' = [closing EXCEPT ![t] = @ \ {fd}]
        /\ sock' = [sock EXCEPT ![fd] = "free"]
        /\ UNCHANGED <<conn_queue, data_map, bevs, wk>>
    BY <1>7 DEF CloseFd
  <2>2. \A u \in Threads : Registering(u)' = Registering(u) /\ Queued(u)' = Queued(u)
    BY <2>1 DEF Registering, Queued
  <2>3. \A u \in Threads : InOnePlace(u)'
    BY <1>0, <2>1, <2>2 DEF OwnInv, FdOwnedOnce, InOnePlace
  <2>4. \A u \in Threads : Held(u)' = IF u = t THEN Held(u) \ {fd} ELSE Held(u)
    BY <1>0, <2>1, <2>2 DEF Held, OwnInv, FdOwnedOnce, InOnePlace
  <2>5. \A u \in Threads : fd \in Held(u) => u = t
    BY <2>1 DEF OwnInv, FdOwnedOnce, Held
  <2>6. \A g \in Fds : sock'[g] = "free" <=> \A u \in Threads : g \notin Held(u)'
    <3> SUFFICES ASSUME NEW g \in Fds
                 PROVE  sock'[g] = "free" <=> \A u \in Threads : g \notin Held(u)'
      OBVIOUS
    <3>1. CASE g = fd
      BY <1>0, <2>1, <2>4, <2>5, <3>1
    <3>2. CASE g # fd
      <4>1. sock'[g] = sock[g] /\ \A u \in Threads : g \in Held(u)' <=> g \in Held(u)
        BY <1>0, <2>1, <2>4, <3>2
      <4> QED BY <4>1 DEF OwnInv, FdOwnedOnce
    <3> QED BY <3>1, <3>2
  <2> QED BY <2>1, <2>2, <2>3, <2>4, <2>6 DEF OwnInv, FdOwnedOnce
<1>8. ASSUME NEW t \in Threads,
             RecvA(t) \/ SendA(t) \/ RecvB(t) \/ SendB(t) \/ SetBev(t)
      PROVE  OwnInv'
  <2>1. UNCHANGED <<sock, conn_queue, data_map, closing, bevs>>
    BY <1>8 DEF RecvA, SendA, RecvB, SendB, SetBev, socketVars
  <2>2. \A u \in Threads \ {t} : wk'[u] = wk[u]
    BY <1>0, <1>8 DEF RecvA, SendA, RecvB, SendB, SetBev
  <2>3. CASE RecvA(t) \/ SendA(t) \/ RecvB(t) \/ SendB(t)
    <3>1. wk[t].pc \in {"loop", "a", "b"} /\ wk'[t].pc \in {"loop", "a", "b"}
      <4>1. CASE RecvA(t)
        <5>1. PICK c : wk' = [wk EXCEPT ![t] = [wk[t] EXCEPT !.pc = "a", !.cls = c]]
          BY <4>1 DEF RecvA
        <5> QED BY <1>0, <4>1, <5>1 DEF RecvA, HandlerStates
      <4>2. CASE RecvB(t)
        <5>1. PICK n : wk' = [wk EXCEPT ![t] = [wk[t] EXCEPT !.pc = "b", !.name = n]]
          BY <4>2 DEF RecvB
        <5> QED BY <1>0, <4>2, <5>1 DEF RecvB, HandlerStates
      <4>3. CASE SendA(t) \/ SendB(t)
        BY <1>0, <4>3 DEF SendA, SendB, AtLoop
      <4> QED BY <2>3, <4>1, <4>2, <4>3
    <3> QED BY <3>1, <2>1, <2>2, SameOwnersInv DEF SameOwners, Registering
  <2>4. CASE SetBev(t)
    <3>1. PICK c : \/ wk' = [wk EXCEPT ![t] = [wk[t] EXCEPT !.pc = "skbj", !.cls = c]]
                   \/ wk' = [wk EXCEPT ![t] = [wk[t] EXCEPT !.pc = "skbj", !.crs = c]]
      BY <2>4 DEF SetBev
    <3>2. wk[t].pc = "setbev" /\ wk'[t].pc = "skbj" /\ wk'[t].fd = wk[t].fd
      <4>1. /\ [wk[t] EXCEPT !.pc = "skbj", !.cls = c].pc = "skbj"
            /\ [wk[t] EXCEPT !.pc = "skbj", !.cls = c].fd = wk[t].fd
            /\ [wk[t] EXCEPT !.pc = "skbj", !.crs = c].pc = "skbj"
            /\ [wk[t] EXCEPT !.pc = "skbj", !.crs = c].fd = wk[t].fd
        BY <1>0 DEF HandlerStates
      <4>2. wk[t].pc = "setbev"
        BY <2>4 DEF SetBev
      <4> QED BY <1>0, <3>1, <4>1, <4>2
    <3> QED BY <3>2, <2>1, <2>2, SameOwnersInv DEF SameOwners, Registering
  <2> QED BY <1>8, <2>3, <2>4
<1>9. ASSUME Wake \/ Call \/ InCall \/ Waiting \/ UNCHANGED vars PROVE OwnInv'
  <2>1. UNCHANGED <<sock, conn_queue, data_map, closing, bevs, wk>>
    BY <1>9 DEF Wake, Call, InCall, Waiting, vars, socketVars, apiFrame, deviceFrame,
       GiveClass, GiveCourse, GiveDone, SendFileType, SendFilePath, Broadcast,
       GetConnectDevice, VisitDevice, VisitStale, NextMap, ReturnDevices
  <2> QED BY <2>1, SameOwnersInv DEF SameOwners, Registering
<1> QED
  BY <1>1, <1>2, <1>3, <1>4, <1>5, <1>6, <1>7, <1>8, <1>9 DEF Next, Worker

LEMMA OwnInit == Init => OwnInv
<1> SUFFICES ASSUME Init PROVE OwnInv
  OBVIOUS
<1>1. \A t \in Threads : /\ conn_queue[t] = <<>> /\ data_map[t] = {}
                        /\ closing[t] = {} /\ bevs[t] = {} /\ wk[t].pc = "loop"
  BY DEF Init, AtLoop
<1>2. \A t \in Threads : Queued(t) = {} /\ Registering(t) = {}
  BY <1>1 DEF Queued, Registering, ToSet
<1>3. \A t \in Threads : IsInjective(conn_queue[t])
  BY <1>1 DEF IsInjective
<1> QED BY <1>1, <1>2, <1>3 DEF Init, OwnInv, FdOwnedOnce, InOnePlace, Held

(* A descriptor is in one place of one thread, or free: erasing the entry  *)
(* before the bufferevent is freed (server.cpp:403-408) is enough for it   *)
(* to be handed out again.                                                 *)
THEOREM FdOwnedOnceCorrect == Spec => []FdOwnedOnce
<1>1. OwnInv => FdOwnedOnce
  BY DEF OwnInv
<1> QED BY <1>1, OwnInit, OwnNext, TypeCorrect, PTL DEF Spec
-----------------------------------------------------------------------------
(* The lesson every device shows.                                          *)

(* What a worker has read of the lesson is current too, or an update is    *)
(* coming; the loops over the threads start at the first.                  *)
LessonInv ==
  /\ \A t \in Threads : \A fd \in bevs[t] :
       ShowsLesson(fd) \/ LessonComing(t) \/ wk[t].pc = "a"
  /\ \A t \in Threads :
       /\ wk[t].pc = "a" => LessonComing(t) \/ wk[t].cls = m_strClass
       /\ wk[t].pc = "skbj" => \/ LessonComing(t)
                               \/ /\ wk[t].cls \in {Unread, m_strClass}
                                  /\ wk[t].crs \in {Unread, m_strCourse}
       /\ wk[t].pc \in {"loop", "setbev"} => wk[t].cls = Unread /\ wk[t].crs = Unread
  /\ api.pc \notin {"a", "b", "devices"} => api.i = 0

LEMMA NotifyComing ==
  ASSUME TypedNotify, TypedLost, NEW t \in Threads, NEW b \in Bytes, Notify(t, b)
  PROVE  /\ \A u \in Threads : /\ \A c : InChannel(u, c) => InChannel(u, c)'
                               /\ lost[u] \subseteq lost'[u]
         /\ InChannel(t, b)' \/ b \in lost'[t]
<1>1. notify[t] \in Seq(Bytes)
  BY DEF TypedNotify
<1>2. ToSet(Append(notify[t], b)) = ToSet(notify[t]) \cup {b}
  BY <1>1, AppendElems
<1>3. CASE NotifyIsSocket /\ Len(notify[t]) < NotifyCap
  <2>1. notify' = [notify EXCEPT ![t] = Append(notify[t], b)] /\ UNCHANGED lost
    BY <1>3 DEF Notify
  <2>2. /\ notify'[t] = Append(notify[t], b)
        /\ \A u \in Threads \ {t} : notify'[u] = notify[u]
    BY <2>1 DEF TypedNotify
  <2> QED BY <1>2, <2>1, <2>2 DEF InChannel
<1>4. CASE ~ (NotifyIsSocket /\ Len(notify[t]) < NotifyCap)
  BY <1>4 DEF Notify, InChannel, TypedLost
<1> QED BY <1>3, <1>4

LEMMA RecvComing ==
  ASSUME TypedNotify, NEW t \in Threads, NEW b, Recv(t, b)
  PROVE  \A u \in Threads : \A c : u # t \/ b # c => (InChannel(u, c) => InChannel(u, c)')
<1>1. notify[t] \in Seq(Bytes) /\ notify[t] # <<>> /\ Head(notify[t]) = b
  BY DEF TypedNotify, Recv
<1>2. ToSet(notify[t]) = ToSet(Tail(notify[t])) \cup {b}
  BY <1>1, TailElems
<1>3. /\ notify'[t] = Tail(notify[t])
      /\ \A u \in Threads \ {t} : notify'[u] = notify[u]
  BY DEF TypedNotify, Recv
<1> QED BY <1>2, <1>3 DEF InChannel

(* A step that leaves workers and lessons alone and loses no update.       *)
LEMMA LessonSame ==
  ASSUME LessonInv, UNCHANGED <<m_strClass, m_strCourse, shown, wk>>,
         \A t \in Threads : bevs'[t] \subseteq bevs[t],
         \A t \in Threads : LessonComing(t) => LessonComing(t)',
         api'.pc \notin {"a", "b", "devices"} => api'.i = 0
  PROVE  LessonInv'
<1>1. \A fd : ShowsLesson(fd)' <=> ShowsLesson(fd)
  BY DEF ShowsLesson
<1> QED BY <1>1 DEF LessonInv

LEMMA LessonNext == TypeOK /\ OwnInv /\ LessonInv /\ [Next]_vars => LessonInv'
<1> SUFFICES ASSUME TypeOK, OwnInv, LessonInv, [Next]_vars PROVE LessonInv'
  OBVIOUS
<1>0. /\ TypedNotify /\ TypedLost /\ api \in CallStates
      /\ wk \in [Threads -> HandlerStates]
      /\ bevs \in [Threads -> SUBSET Fds]
      /\ shown \in [Fds -> LessonsShown]
  BY DEF TypeOK, TypedNotify, TypedLost
<1>1. ASSUME UNCHANGED <<m_strClass, m_strCourse, shown, wk, notify, lost>>,
             \A t \in Threads : bevs'[t] \subseteq bevs[t],
             api' = api \/ ~ (api.pc \in {"class", "course", "a"}),
             api'.pc \notin {"a", "b", "devices"} => api'.i = 0
      PROVE  LessonInv'
  <2>1. \A t \in Threads : LessonComing(t) => LessonComing(t)'
    BY <1>1 DEF LessonComing, InChannel
  <2> QED BY <1>1, <2>1, LessonSame
<1>2. ASSUME NEW fd \in Fds, Accept(fd) \/ PeerClose(fd) PROVE LessonInv'
  BY <1>1, <1>2 DEF Accept, PeerClose, lessonVars, sentVars, apiVars, LessonInv
<1>3. CASE Wake
  <2>1. Notify(listener, "c") /\ listener \in Threads
    BY <1>3 DEF Wake, TypeOK
  <2>2. \A t \in Threads : /\ InChannel(t, "a") => InChannel(t, "a")'
                          /\ lost[t] \subseteq lost'[t]
    BY <1>0, <2>1, NotifyComing DEF Bytes
  <2>3. \A t \in Threads : LessonComing(t) => LessonComing(t)'
    BY <1>3, <2>2 DEF Wake, apiVars, LessonComing
  <2> QED BY <1>3, <2>3, LessonSame
          DEF Wake, socketVars, lessonVars, sentVars, apiVars, LessonInv
<1>4. CASE GiveClass \/ GiveCourse
  <2>1. api'.pc \in {"class", "course"} /\ api'.i = 0 /\ UNCHANGED <<bevs, wk>>
    BY <1>0, <1>4 DEF GiveClass, GiveCourse, LessonInv, CallStates, apiFrame, socketVars
  <2> QED BY <2>1 DEF LessonInv, LessonComing
<1>5. CASE GiveDone
  <2>1. api'.pc = "a" /\ api'.i = 0 /\ UNCHANGED <<bevs, wk>>
    BY <1>0, <1>5 DEF GiveDone, LessonInv, CallStates, apiFrame, socketVars
  <2>2. \A t \in Threads : LessonComing(t)'
    BY <2>1 DEF LessonComing, Threads
  <2> QED BY <2>1, <2>2 DEF LessonInv
<1>6. CASE SendFileType \/ SendFilePath
  <2>1. /\ ~ (api.pc \in {"class", "course", "a"})
        /\ api'.pc \notin {"a", "b", "devices"} => api'.i = 0
    BY <1>0, <1>6 DEF SendFileType, SendFilePath, LessonInv, CallStates
  <2> QED BY <1>1, <1>6, <2>1 DEF SendFileType, SendFilePath, apiFrame, socketVars,
             lessonVars, sentVars
<1>7. CASE Broadcast
  <2>1. /\ api.i \in Threads /\ api.pc \in {"a", "b"} /\ Notify(api.i, api.pc)
        /\ api' = NextNotified
        /\ UNCHANGED <<m_strClass, m_strCourse, shown, wk, bevs>>
    BY <1>0, <1>7 DEF Broadcast, CallStates, apiFrame, socketVars, lessonVars, sentVars
  <2>2. PICK i \in Threads, b \in Bytes : i = api.i /\ b = api.pc
    BY <2>1 DEF Bytes
  <2>3. /\ \A t \in Threads : /\ InChannel(t, "a") => InChannel(t, "a")'
                              /\ lost[t] \subseteq lost'[t]
        /\ b = "a" => InChannel(i, "a")' \/ "a" \in lost'[i]
    BY <1>0, <2>1, <2>2, NotifyComing
  <2>4. \/ api'.pc = b /\ api'.i = i + 1
        \/ i = THREAD_NUMB - 1 /\ api'.pc = "idle" /\ api'.i = 0
    BY <1>0, <2>1, <2>2, ServerAssumption DEF NextNotified, Idle, CallStates, Threads
  <2>5. \A t \in Threads : LessonComing(t) => LessonComing(t)'
    <3> SUFFICES ASSUME NEW t \in Threads, LessonComing(t) PROVE LessonComing(t)'
      OBVIOUS
    <3>1. CASE InChannel(t, "a") \/ "a" \in lost[t]
      BY <2>3, <3>1 DEF LessonComing
    <3>2. CASE b = "a" /\ i = t
      BY <2>3, <3>2 DEF LessonComing
    <3>3. CASE b = "a" /\ i < t
      <4>1. api'.pc = "a" /\ api'.i <= t
        BY <2>4, <3>3, ServerAssumption DEF Threads
      <4> QED BY <4>1 DEF LessonComing
    <3>4. InChannel(t, "a") \/ "a" \in lost[t] \/ (b = "a" /\ (i = t \/ i < t))
      BY <2>1, <2>2 DEF LessonComing, Threads
    <3> QED BY <3>1, <3>2, <3>3, <3>4
  <2>6. api'.pc \notin {"a", "b", "devices"} => api'.i = 0
    BY <2>1, <2>2, <2>4
  <2>7. \A t \in Threads : bevs'[t] \subseteq bevs[t]
    BY <2>1
  <2> QED BY <2>1, <2>5, <2>6, <2>7, LessonSame
<1>8. CASE GetConnectDevice \/ VisitDevice \/ VisitStale \/ NextMap \/ ReturnDevices
  <2>1. /\ ~ (api.pc \in {"class", "course", "a"})
        /\ api'.pc \notin {"a", "b", "devices"} => api'.i = 0
    <3>1. CASE GetConnectDevice
      BY <1>0, <3>1 DEF GetConnectDevice, CallStates
    <3>2. CASE VisitDevice
      BY <1>0, <3>2 DEF VisitDevice, CallStates
    <3>3. CASE VisitStale
      BY <1>0, <3>3 DEF VisitStale, CallStates
    <3>4. CASE NextMap
      BY <1>0, <3>4 DEF NextMap, CallStates
    <3>5. CASE ReturnDevices
      BY <3>5 DEF ReturnDevices, Idle
    <3> QED BY <1>8, <3>1, <3>2, <3>3, <3>4, <3>5
  <2> QED BY <1>1, <1>8, <2>1 DEF GetConnectDevice, VisitDevice, VisitStale, NextMap,
             ReturnDevices, deviceFrame, apiFrame, socketVars, lessonVars, sentVars
<1>9. CASE Waiting \/ UNCHANGED vars
  BY <1>1, <1>9 DEF Waiting, vars, socketVars, lessonVars, sentVars, apiVars, LessonInv
<1>10. ASSUME NEW t \in Threads, NEW fd \in Fds, ReadCb(t, fd) \/ CloseFd(t, fd)
       PROVE  LessonInv'
  BY <1>1, <1>10 DEF ReadCb, CloseFd, workerFrame, socketVars, lessonVars, sentVars, LessonInv
<1>11. ASSUME NEW t \in Threads, NEW fd \in Fds, EventCb(t, fd) PROVE LessonInv'
  <2>1. \A u \in Threads : bevs'[u] \subseteq bevs[u]
    BY <1>0, <1>11 DEF EventCb
  <2>2. api' = api \/ (api.pc = "devices" /\ api'.pc = "devices")
    BY <1>0, <1>11 DEF EventCb, Erase, MapChanged, CallStates
  <2> QED BY <1>1, <1>11, <2>1, <2>2 DEF EventCb, workerFrame, lessonVars, sentVars, LessonInv
<1>12. ASSUME NEW t \in Threads, RecvA(t) PROVE LessonInv'
  <2>1. /\ UNCHANGED <<m_strClass, m_strCourse, shown, bevs, lost, api>>
        /\ Recv(t, "a") /\ wk[t].pc = "loop"
    BY <1>12 DEF RecvA, workerFrame, socketVars, lessonVars, sentVars
  <2>2. PICK c \in ReadClass : wk' = [wk EXCEPT ![t] = [wk[t] EXCEPT !.pc = "a", !.cls = c]]
    BY <1>12 DEF RecvA
  <2>3. /\ wk'[t].pc = "a" /\ wk'[t].cls = c
        /\ \A u \in Threads \ {t} : wk'[u] = wk[u]
    BY <1>0, <2>2 DEF HandlerStates
  <2>4. \A u \in Threads \ {t} : LessonComing(u) => LessonComing(u)'
    <3>1. \A u \in Threads \ {t} : InChannel(u, "a") => InChannel(u, "a")'
      BY <1>0, <2>1, RecvComing
    <3> QED BY <2>1, <3>1 DEF LessonComing
  <2>5. LessonComing(t)' \/ c = m_strClass
    BY <2>1, <2>2 DEF ReadClass, LessonComing
  <2>6. \A fd : ShowsLesson(fd)' <=> ShowsLesson(fd)
    BY <2>1 DEF ShowsLesson
  <2>7. ASSUME NEW u \in Threads, u # t
        PROVE  /\ wk'[u] = wk[u] /\ bevs'[u] = bevs[u]
               /\ LessonComing(u) => LessonComing(u)'
    BY <2>1, <2>3, <2>4, <2>7
  <2> QED BY <2>1, <2>3, <2>5, <2>6, <2>7 DEF LessonInv
<1>13. ASSUME NEW t \in Threads, SendA(t) PROVE LessonInv'
  <2>1. /\ UNCHANGED <<m_strClass, m_strCourse, bevs, lost, api, notify>>
        /\ wk[t].pc = "a" /\ wk' = [wk EXCEPT ![t] = AtLoop]
    BY <1>13 DEF SendA, workerFrame, socketVars, lessonVars
  <2>2. PICK r \in ReadCourse :
          shown' = [fd \in Fds |-> IF fd \in data_map[t]
                                   THEN [cls |-> wk[t].cls, crs |-> r] ELSE shown[fd]]
    BY <1>13 DEF SendA
  <2>3. \A u \in Threads : LessonComing(u)' <=> LessonComing(u)
    BY <2>1 DEF LessonComing, InChannel
  <2>4. ASSUME NEW fd \in bevs[t] PROVE ShowsLesson(fd)' \/ LessonComing(t)
    <3>1. fd \in Fds /\ fd \in data_map[t]
      BY <1>0 DEF OwnInv, FdOwnedOnce, InOnePlace
    <3>2. LessonComing(t) \/ (r = m_strCourse /\ wk[t].cls = m_strClass)
      BY <2>1, <2>2 DEF LessonInv, LessonComing, ReadCourse
    <3> QED BY <2>1, <2>2, <3>1, <3>2 DEF ShowsLesson
  <2>5. ASSUME NEW u \in Threads, u # t, NEW fd \in bevs[u]
        PROVE  ShowsLesson(fd)' <=> ShowsLesson(fd)
    <3>1. fd \in Fds /\ fd \notin data_map[t]
      BY <1>0, <2>5 DEF OwnInv, FdOwnedOnce, InOnePlace, Held
    <3> QED BY <2>1, <2>2, <3>1 DEF ShowsLesson
  <2>6. /\ wk'[t] = AtLoop /\ \A u \in Threads \ {t} : wk'[u] = wk[u]
    BY <1>0, <2>1
  <2> QED BY <2>1, <2>3, <2>4, <2>5, <2>6 DEF LessonInv, AtLoop
<1>14. ASSUME NEW t \in Threads, RecvB(t) \/ SendB(t) PROVE LessonInv'
  <2>1. UNCHANGED <<m_strClass, m_strCourse, bevs, shown, lost, api>>
    BY <1>14 DEF RecvB, SendB, workerFrame, socketVars, lessonVars, sentVars
  <2>2. \A u \in Threads : LessonComing(u) => LessonComing(u)'
    <3>1. \A u \in Threads : InChannel(u, "a") => InChannel(u, "a")'
      <4>1. CASE RecvB(t)
        BY <1>0, <4>1, RecvComing DEF RecvB
      <4>2. CASE SendB(t)
        BY <4>2 DEF SendB, InChannel
      <4> QED BY <1>14, <4>1, <4>2
    <3> QED BY <2>1, <3>1 DEF LessonComing
  <2>3. \A fd : ShowsLesson(fd)' <=> ShowsLesson(fd)
    BY <2>1 DEF ShowsLesson
  <2>4. /\ \A u \in Threads \ {t} : wk'[u] = wk[u]
        /\ wk[t].pc \in {"loop", "b"}
        /\ wk'[t].pc \in {"loop", "b"}
        /\ wk'[t].pc = "loop" => wk'[t].cls = Unread /\ wk'[t].crs = Unread
    <3>1. CASE RecvB(t)
      <4>1. PICK n : wk' = [wk EXCEPT ![t] = [wk[t] EXCEPT !.pc = "b", !.name = n]]
        BY <3>1 DEF RecvB
      <4> QED BY <1>0, <3>1, <4>1 DEF RecvB, HandlerStates
    <3>2. CASE SendB(t)
      BY <1>0, <3>2 DEF SendB, AtLoop
    <3> QED BY <1>14, <3>1, <3>2
  <2> QED BY <2>1, <2>2, <2>3, <2>4 DEF LessonInv
<1>15. ASSUME NEW t \in Threads, RecvC(t) PROVE LessonInv'
  <2>0. PICK fd : fd = Head(conn_queue[t])
    OBVIOUS
  <2>1. /\ UNCHANGED <<m_strClass, m_strCourse, bevs, lost>>
        /\ Recv(t, "c") /\ wk[t].pc = "loop" /\ conn_queue[t] # <<>>
        /\ wk' = [wk EXCEPT ![t] = [wk[t] EXCEPT !.pc = "setbev", !.fd = fd]]
        /\ shown' = [shown EXCEPT ![fd] = NothingShown]
        /\ MapChanged(t, {})
    BY <1>15, <2>0 DEF RecvC, workerFrame, socketVars, lessonVars
  <2>2. api' = api \/ (api.pc = "devices" /\ api'.pc = "devices")
    BY <1>0, <2>1 DEF MapChanged, CallStates
  <2>3. \A u \in Threads : LessonComing(u) => LessonComing(u)'
    <3>1. \A u \in Threads : InChannel(u, "a") => InChannel(u, "a")'
      BY <1>0, <2>1, RecvComing
    <3> QED BY <2>1, <2>2, <3>1 DEF LessonComing
  <2>4. ASSUME NEW u \in Threads, NEW g \in bevs[u] PROVE ShowsLesson(g)' <=> ShowsLesson(g)
    <3>1. conn_queue[t] \in Seq(Fds)
      BY DEF TypeOK
    <3>2. fd \in Queued(t)
      BY <2>0, <2>1, <3>1, TailElems DEF Queued
    <3>3. g \in data_map[u]
      BY DEF OwnInv, FdOwnedOnce, InOnePlace
    <3>4. g # fd
      BY <3>2, <3>3 DEF OwnInv, FdOwnedOnce, InOnePlace, Held
    <3> QED BY <1>0, <2>1, <3>4 DEF ShowsLesson
  <2>5. /\ \A u \in Threads \ {t} : wk'[u] = wk[u]
        /\ wk'[t].pc = "setbev" /\ wk'[t].cls = wk[t].cls /\ wk'[t].crs = wk[t].crs
    BY <1>0, <2>1 DEF HandlerStates
  <2>6. ASSUME NEW u \in Threads, NEW g \in bevs'[u]
        PROVE  ShowsLesson(g)' \/ LessonComing(u)' \/ wk'[u].pc = "a"
    BY <2>1, <2>3, <2>4, <2>5 DEF LessonInv
  <2>7. api'.pc \notin {"a", "b", "devices"} => api'.i = 0
    BY <2>2 DEF LessonInv
  <2> QED BY <2>1, <2>3, <2>5, <2>6, <2>7 DEF LessonInv
<1>16. ASSUME NEW t \in Threads, SetBev(t) PROVE LessonInv'
  <2>1. /\ UNCHANGED <<m_strClass, m_strCourse, bevs, shown, lost, api, notify>>
        /\ wk[t].pc = "setbev"
    BY <1>16 DEF SetBev, workerFrame, socketVars, lessonVars, sentVars
  <2>2. \A u \in Threads : LessonComing(u)' <=> LessonComing(u)
    BY <2>1 DEF LessonComing, InChannel
  <2>3. \A fd : ShowsLesson(fd)' <=> ShowsLesson(fd)
    BY <2>1 DEF ShowsLesson
  <2>4. wk[t].cls = Unread /\ wk[t].crs = Unread
    BY <2>1 DEF LessonInv
  <2>5. /\ \A u \in Threads \ {t} : wk'[u] = wk[u]
        /\ wk'[t].pc = "skbj"
        /\ \/ wk'[t].cls \in ReadClass /\ wk'[t].crs = Unread
           \/ wk'[t].cls = Unread /\ wk'[t].crs \in ReadCourse
    <3>1. CASE \E c \in ReadClass :
                 wk' = [wk EXCEPT ![t] = [wk[t] EXCEPT !.pc = "skbj", !.cls = c]]
      BY <1>0, <2>4, <3>1 DEF HandlerStates
    <3>2. CASE \E r \in ReadCourse :
                 wk' = [wk EXCEPT ![t] = [wk[t] EXCEPT !.pc = "skbj", !.crs = r]]
      BY <1>0, <2>4, <3>2 DEF HandlerStates
    <3> QED BY <1>16, <3>1, <3>2 DEF SetBev
  <2>6. \/ LessonComing(t)
        \/ wk'[t].cls \in {Unread, m_strClass} /\ wk'[t].crs \in {Unread, m_strCourse}
    BY <2>5 DEF ReadClass, ReadCourse, LessonComing
  <2>7. ASSUME NEW u \in Threads, NEW g \in bevs[u]
        PROVE  ShowsLesson(g)' \/ LessonComing(u)' \/ wk'[u].pc = "a"
    BY <2>1, <2>2, <2>3, <2>5 DEF LessonInv
  <2>8. ASSUME NEW u \in Threads, u # t PROVE wk'[u] = wk[u]
    BY <2>5, <2>8
  <2> QED BY <2>1, <2>2, <2>5, <2>6, <2>7, <2>8 DEF LessonInv
<1>17. ASSUME NEW t \in Threads, Register(t) PROVE LessonInv'
  <2>0. PICK fd \in Fds : fd = wk[t].fd
    BY <1>17 DEF Register, TypeOK
  <2>1. /\ UNCHANGED <<m_strClass, m_strCourse, lost, api, notify>>
        /\ wk[t].pc = "skbj" /\ wk' = [wk EXCEPT ![t] = AtLoop]
        /\ bevs' = [bevs EXCEPT ![t] = @ \cup {fd}]
    BY <1>17, <2>0 DEF Register, workerFrame, lessonVars
  <2>2. PICK c, r : /\ shown' = [shown EXCEPT ![fd] = [cls |-> c, crs |-> r]]
                    /\ IF wk[t].cls = Unread THEN c \in ReadClass ELSE c = wk[t].cls
                    /\ IF wk[t].crs = Unread THEN r \in ReadCourse ELSE r = wk[t].crs
    BY <1>17, <2>0 DEF Register
  <2>3. \A u \in Threads : LessonComing(u)' <=> LessonComing(u)
    BY <2>1 DEF LessonComing, InChannel
  <2>4. LessonComing(t) \/ (c = m_strClass /\ r = m_strCourse)
    BY <2>1, <2>2 DEF LessonInv, ReadClass, ReadCourse, LessonComing
  <2>5. ShowsLesson(fd)' \/ LessonComing(t)
    BY <1>0, <2>1, <2>2, <2>4 DEF ShowsLesson
  <2>6. \A g : g # fd => (ShowsLesson(g)' <=> ShowsLesson(g))
    BY <1>0, <2>1, <2>2 DEF ShowsLesson
  <2>7. /\ wk'[t] = AtLoop /\ \A u \in Threads \ {t} : wk'[u] = wk[u]
        /\ bevs'[t] = bevs[t] \cup {fd} /\ \A u \in Threads \ {t} : bevs'[u] = bevs[u]
    BY <1>0, <2>1
  <2>8. ASSUME NEW u \in Threads, u # t PROVE fd \notin bevs[u]
    <3>1. fd \in data_map[t]
      BY <2>0, <2>1 DEF OwnInv, Registering
    <3> QED BY <2>8, <3>1 DEF OwnInv, FdOwnedOnce, InOnePlace, Held
  <2>9. ASSUME NEW u \in Threads, NEW g \in bevs'[u]
        PROVE  ShowsLesson(g)' \/ LessonComing(u)' \/ wk'[u].pc = "a"
    <3>1. CASE g = fd
      BY <2>3, <2>5, <2>7, <2>8, <3>1
    <3>2. CASE g # fd
      BY <2>1, <2>3, <2>6, <2>7, <3>2 DEF LessonInv
    <3> QED BY <3>1, <3>2
  <2>10. ASSUME NEW u \in Threads, u # t PROVE wk'[u] = wk[u]
    BY <2>7, <2>10
  <2> QED BY <2>1, <2>3, <2>7, <2>9, <2>10 DEF LessonInv, AtLoop
<1> QED
  BY <1>2, <1>3, <1>4, <1>5, <1>6, <1>7, <1>8, <1>9, <1>10, <1>11, <1>12, <1>13,
     <1>14, <1>15, <1>16, <1>17 DEF Next, Call, InCall, Worker

(* However connecting, giving a lesson and copying its unlocked strings    *)
(* interleave, a registered device shows the current lesson or an update   *)
(* is coming to its thread (server.cpp:30-42, 304-314, 364-370).           *)
THEOREM ConvergedLessonCorrect == Spec => []ConvergedLesson
<1>1. Init => LessonInv
  BY DEF Init, LessonInv, AtLoop, Idle
<1>2. LessonInv => ConvergedLesson
  BY DEF LessonInv, ConvergedLesson
<1> QED BY <1>1, <1>2, LessonNext, OwnInit, OwnNext, TypeCorrect, PTL DEF Spec
-----------------------------------------------------------------------------
(* The dispatcher implements HandOff.                                      *)

HeldBar == [t \in Threads |-> data_map[t] \cup closing[t]]
TurnBar == (m_last_thread + 1) % THREAD_NUMB

LEMMA RefinesNext ==
  ASSUME TypeOK, OwnInv, [Next]_vars
  PROVE  [H!HNext]_(H!handOffVars)
<1>0. /\ conn_queue \in [Threads -> Seq(Fds)]
      /\ data_map \in [Threads -> SUBSET Fds]
      /\ closing \in [Threads -> SUBSET Fds]
      /\ H!Workers = Threads
  BY DEF TypeOK, Threads, H!Workers
<1>1. ASSUME NEW fd \in Fds, Accept(fd) PROVE H!Deal(fd)
  <2>1. PICK cur \in Threads : cur = NextThread(fd)
    BY NextThreadInRange DEF NextThread, TypeOK
  <2>2. /\ cur = TurnBar /\ m_last_thread' = cur
        /\ conn_queue' = [conn_queue EXCEPT ![cur] = Append(@, fd)]
        /\ UNCHANGED <<data_map, closing>>
    BY <1>1, <2>1 DEF Accept, NextThread, TurnBar
  <2>3. \A t \in Threads : fd \notin Held(t)
    BY <1>1 DEF Accept, OwnInv, FdOwnedOnce
  <2>4. ~ H!Busy(fd)
    BY <1>0, <2>3 DEF H!Busy, H!ToSet, Held, Queued, ToSet
  <2>5. TurnBar' = (TurnBar + 1) % THREAD_NUMB /\ HeldBar' = HeldBar
    BY <2>2 DEF TurnBar, HeldBar
  <2> QED BY <2>2, <2>4, <2>5 DEF H!Deal, TurnBar, HeldBar
<1>2. ASSUME NEW t \in Threads, RecvC(t) PROVE H!Take(t)
  <2>0. PICK fd : fd = Head(conn_queue[t])
    OBVIOUS
  <2>1. /\ conn_queue[t] # <<>>
        /\ conn_queue' = [conn_queue EXCEPT ![t] = Tail(@)]
        /\ data_map' = [data_map EXCEPT ![t] = @ \cup {fd}]
        /\ UNCHANGED <<closing, m_last_thread>>
    BY <1>2, <2>0 DEF RecvC, socketVars, workerFrame, listenVars
  <2>2. HeldBar' = [HeldBar EXCEPT ![t] = @ \cup {fd}] /\ TurnBar' = TurnBar
    BY <1>0, <2>1 DEF HeldBar, TurnBar
  <2> QED BY <2>0, <2>1, <2>2 DEF H!Take, HeldBar, TurnBar
<1>3. ASSUME NEW t \in Threads, NEW fd \in Fds, CloseFd(t, fd) PROVE H!Release(t, fd)
  <2>1. /\ fd \in closing[t] /\ closing' = [closing EXCEPT ![t] = @ \ {fd}]
        /\ UNCHANGED <<conn_queue, data_map, m_last_thread>>
    BY <1>3 DEF CloseFd, workerFrame, listenVars
  <2>2. fd \notin data_map[t]
    BY <2>1 DEF OwnInv, FdOwnedOnce, InOnePlace
  <2>3. HeldBar' = [HeldBar EXCEPT ![t] = @ \ {fd}] /\ TurnBar' = TurnBar
    BY <1>0, <2>1, <2>2 DEF HeldBar, TurnBar
  <2>4. fd \in HeldBar[t]
    BY <2>1 DEF HeldBar
  <2> QED BY <2>1, <2>3, <2>4 DEF H!Release, HeldBar, TurnBar
<1>4. ASSUME UNCHANGED <<m_last_thread, conn_queue>>, HeldBar' = HeldBar
      PROVE  UNCHANGED H!handOffVars
  BY <1>4 DEF H!handOffVars, HeldBar
<1>5. ASSUME NEW t \in Threads, NEW fd \in Fds, ReadCb(t, fd) PROVE UNCHANGED H!handOffVars
  <2>1. fd \in data_map[t]
    BY <1>5 DEF ReadCb, OwnInv, FdOwnedOnce, InOnePlace
  <2>2. UNCHANGED <<m_last_thread, conn_queue, data_map, closing>>
    BY <1>0, <1>5, <2>1 DEF ReadCb, workerFrame, listenVars, socketVars
  <2> QED BY <1>4, <2>2 DEF HeldBar
<1>6. ASSUME NEW t \in Threads, NEW fd \in Fds, EventCb(t, fd) PROVE UNCHANGED H!handOffVars
  <2>1. /\ fd \in bevs[t] /\ data_map' = [data_map EXCEPT ![t] = @ \ {fd}]
        /\ closing' = [closing EXCEPT ![t] = @ \cup {fd}]
        /\ UNCHANGED <<m_last_thread, conn_queue>>
    BY <1>6 DEF EventCb, Erase, workerFrame, listenVars
  <2>2. fd \in data_map[t]
    BY <2>1 DEF OwnInv, FdOwnedOnce, InOnePlace
  <2>3. \A u \in Threads : data_map'[u] \cup closing'[u] = data_map[u] \cup closing[u]
    BY <1>0, <2>1, <2>2
  <2>4. HeldBar' = HeldBar
    BY <2>3 DEF HeldBar
  <2> QED BY <1>4, <2>1, <2>4
<1>7. ASSUME \/ \E fd \in Fds : PeerClose(fd)
             \/ Wake \/ Call \/ InCall \/ Waiting \/ UNCHANGED vars
             \/ \E t \in Threads : \/ RecvA(t) \/ SendA(t) \/ RecvB(t) \/ SendB(t)
                                   \/ SetBev(t) \/ Register(t)
      PROVE  UNCHANGED H!handOffVars
  <2>1. UNCHANGED <<m_last_thread, conn_queue, data_map, closing>>
    BY <1>7 DEF PeerClose, Wake, Call, InCall, Waiting, vars, listenVars, socketVars,
       apiFrame, deviceFrame, workerFrame, GiveClass, GiveCourse, GiveDone, SendFileType,
       SendFilePath, Broadcast, GetConnectDevice, VisitDevice, VisitStale, NextMap,
       ReturnDevices, RecvA, SendA, RecvB, SendB, SetBev, Register
  <2> QED BY <1>4, <2>1 DEF HeldBar
<1> QED
  BY <1>0, <1>1, <1>2, <1>3, <1>5, <1>6, <1>7 DEF Next, Worker, H!HNext

(* Without fairness the dispatcher implements HandOff: descriptors are     *)
(* dealt in turn, taken in order and exactly once, and have one holder     *)
(* (server.cpp:213-238, 350-370, 393-412).                                 *)
THEOREM HandOffImplemented == Spec => H!HSafeSpec
<1>1. Init => H!HInit
  <2> SUFFICES ASSUME Init PROVE H!HInit
    OBVIOUS
  <2>1. (m_last_thread + 1) % THREAD_NUMB = 0
    BY ServerAssumption DEF Init
  <2> QED BY <2>1 DEF Init, H!HInit, H!Workers, Threads
<1>2. TypeOK /\ OwnInv /\ [Next]_vars => [H!HNext]_(H!handOffVars)
  BY RefinesNext
<1> QED BY <1>1, <1>2, OwnInit, OwnNext, TypeCorrect, PTL DEF Spec, H!HSafeSpec
=============================================================================
