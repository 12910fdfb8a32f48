---------------------------- MODULE Workers_proofs ----------------------------
(***************************************************************************)
(* Proofs about what the worker threads of Server.tla make of notifications*)
(* and of the application's calls, for any number of threads, descriptors  *)
(* and bytes: the bytes "c" match the queues, GetConnectDevice's list and  *)
(* SendFile's file.                                                        *)
(***************************************************************************)
EXTENDS Server_proofs, FiniteSetTheorems

(*                         Queues and wake-ups                             *)


Places(s, b) == {k \in 1 .. Len(s) : s[k] = b}

LEMMA PlacesFinite ==
  ASSUME NEW S, NEW s \in Seq(S), NEW b
  PROVE  /\ IsFiniteSet(Places(s, b)) /\ Cardinality(Places(s, b)) \in Nat
         /\ Count(s, b) = Cardinality(Places(s, b))
<1>1. IsFiniteSet(1 .. Len(s))
  BY FS_Interval
<1>2. Places(s, b) \in SUBSET (1 .. Len(s))
  BY DEF Places
<1>3. IsFiniteSet(Places(s, b))
  BY <1>1, <1>2, FS_Subset
<1>4. Cardinality(Places(s, b)) \in Nat
  BY <1>3, FS_CardinalityType
<1>5. Count(s, b) = Cardinality(Places(s, b))
  BY DEF Count, Places
<1> QED BY <1>3, <1>4, <1>5

(* An appended element counts once more.                                   *)
LEMMA CountAppend ==
  ASSUME NEW S, NEW s \in Seq(S), NEW e \in S, NEW b
  PROVE  Count(Append(s, e), b) = IF e = b THEN Count(s, b) + 1 ELSE Count(s, b)
<1> DEFINE r == Append(s, e)
<1>1. /\ Len(s) \in Nat /\ Len(r) = Len(s) + 1 /\ r[Len(s) + 1] = e
      /\ \A k \in 1 .. Len(s) : r[k] = s[k]
      /\ r \in Seq(S)
  OBVIOUS
<1> HIDE DEF r
<1>2. Places(r, b) = IF e = b THEN Places(s, b) \cup {Len(s) + 1} ELSE Places(s, b)
  BY <1>1 DEF Places
<1>3. Len(s) + 1 \notin Places(s, b)
  BY <1>1 DEF Places
<1>4. Cardinality(Places(s, b) \cup {Len(s) + 1}) = Cardinality(Places(s, b)) + 1
  BY <1>3, PlacesFinite, FS_AddElement
<1>5. Count(r, b) = Cardinality(Places(r, b)) /\ Count(s, b) = Cardinality(Places(s, b))
  BY <1>1, PlacesFinite
<1> QED BY <1>2, <1>4, <1>5 DEF r

(* Taking the head of a sequence away counts it once less.                 *)
LEMMA CountTail ==
  ASSUME NEW S, NEW s \in Seq(S), s # <<>>, NEW b
  PROVE  Count(Tail(s), b) = IF Head(s) = b THEN Count(s, b) - 1 ELSE Count(s, b)
<1> DEFINE r == Tail(s)
           n == Len(s)
           f == [k \in Places(r, b) |-> k + 1]
<1>1. /\ n \in Nat \ {0} /\ Len(r) = n - 1 /\ r \in Seq(S)
      /\ \A k \in 1 .. n - 1 : r[k] = s[k + 1]
      /\ s[1] = Head(s)
  OBVIOUS
<1> HIDE DEF r, n
<1>2. Places(r, b) = {k \in 1 .. n - 1 : s[k + 1] = b}
  BY <1>1 DEF Places
<1>3. Places(s, b) = {k \in 1 .. n : s[k] = b}
  BY DEF Places, n
<1>4. f \in [Places(r, b) -> Places(s, b) \ {1}]
  BY <1>1, <1>2, <1>3
<1>5. \A j, k \in Places(r, b) : f[j] = f[k] => j = k
  BY <1>1, <1>2
<1>6. \A k \in Places(s, b) \ {1} : \E j \in Places(r, b) : f[j] = k
  <2>1. \A k \in Places(s, b) \ {1} : k - 1 \in Places(r, b) /\ (k - 1) + 1 = k
    BY <1>1, <1>2, <1>3
  <2> QED BY <2>1
<1>7. ExistsBijection(Places(r, b), Places(s, b) \ {1})
  <2> HIDE DEF f
  <2>1. f \in Bijection(Places(r, b), Places(s, b) \ {1})
    BY <1>4, <1>5, <1>6 DEF Bijection, Injection, Surjection, IsInjective
  <2> QED BY <2>1 DEF ExistsBijection
<1>8. Cardinality(Places(r, b)) = Cardinality(Places(s, b) \ {1})
  BY <1>1, <1>7, PlacesFinite, FS_Bijection
<1>9. Cardinality(Places(s, b) \ {1}) =
        IF 1 \in Places(s, b) THEN Cardinality(Places(s, b)) - 1 ELSE Cardinality(Places(s, b))
  BY PlacesFinite, FS_RemoveElement
<1>10. 1 \in Places(s, b) <=> Head(s) = b
  BY <1>1, <1>3
<1>11. Count(r, b) = Cardinality(Places(r, b)) /\ Count(s, b) = Cardinality(Places(s, b))
  BY <1>1, PlacesFinite
<1> QED BY <1>8, <1>9, <1>10, <1>11 DEF r
-----------------------------------------------------------------------------
Coming(t) == Count(notify[t], "c") + (IF listener = t THEN 1 ELSE 0)
Matched(t) == /\ Coming(t) <= Len(conn_queue[t])
              /\ "c" \notin lost[t] => Coming(t) = Len(conn_queue[t])

LEMMA CountType ==
  ASSUME TypedNotify
  PROVE  \A t \in Threads : Count(notify[t], "c") \in Nat
BY PlacesFinite DEF TypedNotify

(* A byte other than "c" that comes or goes changes no count of "c".       *)
LEMMA NotifyCount ==
  ASSUME TypedNotify, TypedLost, NEW t \in Threads, NEW b \in Bytes, Notify(t, b)
  PROVE  /\ \A u \in Threads : u # t \/ b # "c" =>
              /\ Count(notify'[u], "c") = Count(notify[u], "c")
              /\ "c" \in lost'[u] <=> "c" \in lost[u]
         /\ b = "c" =>
              \/ Count(notify'[t], "c") = Count(notify[t], "c") + 1 /\ lost' = lost
              \/ Count(notify'[t], "c") = Count(notify[t], "c") /\ "c" \in lost'[t]
<1>1. notify[t] \in Seq(Bytes)
  BY DEF TypedNotify
<1>2. CASE NotifyIsSocket /\ Len(notify[t]) < NotifyCap
  <2>1. notify' = [notify EXCEPT ![t] = Append(notify[t], b)] /\ UNCHANGED lost
    BY <1>2 DEF Notify
  <2>2. /\ notify'[t] = Append(notify[t], b)
        /\ \A u \in Threads \ {t} : notify'[u] = notify[u]
    BY <2>1 DEF TypedNotify
  <2>3. Count(notify'[t], "c") =
          IF b = "c" THEN Count(notify[t], "c") + 1 ELSE Count(notify[t], "c")
    BY <1>1, <2>2, CountAppend
  <2> QED BY <2>1, <2>2, <2>3
<1>3. CASE ~ (NotifyIsSocket /\ Len(notify[t]) < NotifyCap)
  <2>1. notify' = notify /\ lost' = [lost EXCEPT ![t] = @ \cup {b}]
    BY <1>3 DEF Notify
  <2> QED BY <2>1 DEF TypedLost
<1> QED BY <1>2, <1>3

LEMMA RecvCount ==
  ASSUME TypedNotify, NEW t \in Threads, NEW b, Recv(t, b)
  PROVE  /\ \A u \in Threads : u # t \/ b # "c" => Count(notify'[u], "c") = Count(notify[u], "c")
         /\ b = "c" => Count(notify'[t], "c") = Count(notify[t], "c") - 1
<1>1. notify[t] \in Seq(Bytes) /\ notify[t] # <<>> /\ Head(notify[t]) = b
  BY DEF TypedNotify, Recv
<1>2. /\ notify'[t] = Tail(notify[t])
      /\ \A u \in Threads \ {t} : notify'[u] = notify[u]
  BY DEF TypedNotify, Recv
<1>3. Count(notify'[t], "c") =
        IF b = "c" THEN Count(notify[t], "c") - 1 ELSE Count(notify[t], "c")
  BY <1>1, <1>2, CountTail
<1> QED BY <1>2, <1>3

LEMMA MatchedNext ==
  TypeOK /\ (\A t \in Threads : Matched(t)) /\ [Next]_vars => (\A t \in Threads : Matched(t))'
<1> SUFFICES ASSUME TypeOK, \A t \in Threads : Matched(t), [Next]_vars,
                    NEW u \in Threads
             PROVE  Matched(u)'
  OBVIOUS
<1>0. /\ TypedNotify /\ TypedLost
      /\ conn_queue \in [Threads -> Seq(Fds)]
      /\ listener \in Threads \cup {None} /\ None \notin Threads
      /\ Count(notify[u], "c") \in Nat /\ Len(conn_queue[u]) \in Nat
  <2>1. TypedNotify /\ TypedLost /\ conn_queue \in [Threads -> Seq(Fds)]
        /\ listener \in Threads \cup {None} /\ None \notin Threads
    BY ServerAssumption DEF TypeOK, TypedNotify, TypedLost, None, Threads
  <2> QED BY <2>1, CountType
<1>1. ASSUME Count(notify'[u], "c") = Count(notify[u], "c"),
             "c" \in lost'[u] <=> "c" \in lost[u],
             Len(conn_queue'[u]) = Len(conn_queue[u]), listener' = listener
      PROVE  Matched(u)'
  BY <1>1 DEF Matched, Coming
<1>2. CASE UNCHANGED <<notify, lost, conn_queue, listener>>
  BY <1>1, <1>2
<1>3. ASSUME NEW fd \in Fds, Accept(fd) PROVE Matched(u)'
  <2>1. PICK cur \in Threads : cur = NextThread(fd)
    BY NextThreadInRange DEF NextThread, TypeOK
  <2>2. /\ conn_queue' = [conn_queue EXCEPT ![cur] = Append(@, fd)]
        /\ listener = None /\ listener' = cur /\ UNCHANGED <<notify, lost>>
    BY <1>3, <2>1 DEF Accept
  <2>3. /\ Len(conn_queue'[cur]) = Len(conn_queue[cur]) + 1
        /\ u # cur => conn_queue'[u] = conn_queue[u]
    BY <1>0, <2>2
  <2> QED BY <1>0, <2>2, <2>3 DEF Matched, Coming
<1>4. CASE Wake
  <2>1. /\ listener \in Threads /\ Notify(listener, "c") /\ listener' = None
        /\ UNCHANGED conn_queue /\ "c" \in Bytes
    BY <1>0, <1>4 DEF Wake, Bytes
  <2>2. CASE u # listener
    <3>1. /\ Count(notify'[u], "c") = Count(notify[u], "c")
          /\ "c" \in lost'[u] <=> "c" \in lost[u]
      BY <1>0, <2>1, <2>2, NotifyCount
    <3> QED BY <1>0, <2>1, <2>2, <3>1 DEF Matched, Coming
  <2>3. CASE u = listener
    <3>1. \/ Count(notify'[u], "c") = Count(notify[u], "c") + 1 /\ lost' = lost
          \/ Count(notify'[u], "c") = Count(notify[u], "c") /\ "c" \in lost'[u]
      BY <1>0, <2>1, <2>3, NotifyCount
    <3> QED BY <1>0, <2>1, <2>3, <3>1 DEF Matched, Coming
  <2> QED BY <2>2, <2>3
<1>5. CASE Broadcast
  <2>1. /\ api.i \in Threads /\ api.pc \in Bytes \ {"c"} /\ Notify(api.i, api.pc)
        /\ UNCHANGED <<conn_queue, listener>>
    BY <1>5 DEF Broadcast, Bytes, TypeOK, CallStates, apiFrame, listenVars
  <2>2. /\ Count(notify'[u], "c") = Count(notify[u], "c")
        /\ "c" \in lost'[u] <=> "c" \in lost[u]
    BY <1>0, <2>1, NotifyCount
  <2> QED BY <1>1, <2>1, <2>2
<1>6. ASSUME NEW t \in Threads, RecvA(t) \/ RecvB(t) PROVE Matched(u)'
  <2>1. /\ Recv(t, "a") \/ Recv(t, "b")
        /\ UNCHANGED <<lost, conn_queue, listener>>
    BY <1>6 DEF RecvA, RecvB, workerFrame, listenVars
  <2>2. Count(notify'[u], "c") = Count(notify[u], "c")
    BY <1>0, <2>1, RecvCount
  <2> QED BY <1>1, <2>1, <2>2
<1>7. ASSUME NEW t \in Threads, RecvC(t) PROVE Matched(u)'
  <2>1. /\ Recv(t, "c") /\ conn_queue[t] # <<>>
        /\ conn_queue' = [conn_queue EXCEPT ![t] = Tail(@)]
        /\ UNCHANGED <<lost, listener>>
    BY <1>7 DEF RecvC, workerFrame, listenVars
  <2>2. CASE u # t
    <3>1. Count(notify'[u], "c") = Count(notify[u], "c") /\ conn_queue'[u] = conn_queue[u]
      BY <1>0, <2>1, <2>2, RecvCount
    <3> QED BY <1>1, <2>1, <3>1
  <2>3. CASE u = t
    <3>1. Count(notify'[u], "c") = Count(notify[u], "c") - 1
      BY <1>0, <2>1, <2>3, RecvCount
    <3>2. Len(conn_queue'[u]) = Len(conn_queue[u]) - 1
      BY <1>0, <2>1, <2>3
    <3> QED BY <1>0, <2>1, <3>1, <3>2 DEF Matched, Coming
  <2> QED BY <2>2, <2>3
<1>8. CASE \E fd \in Fds : PeerClose(fd)
  BY <1>2, <1>8 DEF PeerClose, listenVars
<1>9. CASE Call \/ InCall
  <2>1. CASE InCall /\ ~ Broadcast
    BY <1>2, <2>1
       DEF InCall, GiveCourse, GiveDone, SendFilePath, VisitDevice, VisitStale, NextMap,
           ReturnDevices, deviceFrame, apiFrame, listenVars
  <2>2. CASE Call
    BY <1>2, <2>2
       DEF Call, GiveClass, SendFileType, GetConnectDevice, deviceFrame, apiFrame, listenVars
  <2> QED BY <1>5, <1>9, <2>1, <2>2
<1>10. ASSUME NEW t \in Threads,
              \/ SendA(t) \/ SendB(t) \/ SetBev(t) \/ Register(t)
              \/ \E fd \in Fds : ReadCb(t, fd) \/ EventCb(t, fd) \/ CloseFd(t, fd)
       PROVE  Matched(u)'
  BY <1>2, <1>10
     DEF SendA, SendB, SetBev, Register, ReadCb, EventCb, CloseFd, workerFrame, listenVars
<1>11. CASE Waiting \/ UNCHANGED vars
  BY <1>2, <1>11 DEF Waiting, vars, listenVars
<1> QED BY <1>3, <1>4, <1>6, <1>7, <1>8, <1>9, <1>10, <1>11 DEF Next, Worker

(* Queue and wake-ups, which two threads change without a common lock,     *)
(* agree at every moment: no "c" finds the queue empty, and while no byte  *)
(* was lost every queued connection has its "c".                           *)
THEOREM WakeupsMatchQueueCorrect == Spec => []WakeupsMatchQueue
<1>1. Init => \A t \in Threads : Matched(t)
  <2> SUFFICES ASSUME Init, NEW t \in Threads PROVE Matched(t)
    OBVIOUS
  <2>1. /\ notify[t] = <<>> /\ conn_queue[t] = <<>> /\ listener # t
    BY ServerAssumption DEF Init, None, Threads
  <2>2. Count(notify[t], "c") = 0
    <3>1. {k \in 1 .. Len(notify[t]) : notify[t][k] = "c"} = {}
      BY <2>1
    <3> QED BY <3>1, FS_EmptySet DEF Count
  <2> QED BY <2>1, <2>2 DEF Matched, Coming
<1>2. (\A t \in Threads : Matched(t)) => WakeupsMatchQueue
  BY DEF Matched, Coming, WakeupsMatchQueue
<1> QED BY <1>1, <1>2, MatchedNext, TypeCorrect, PTL DEF Spec
-----------------------------------------------------------------------------

(*                            GetConnectDevice                             *)

(* A device that stayed connected is in the list or still ahead of the     *)
(* walk: in a later map, or in this one not before the iterator.           *)
Ahead(fd) ==
  \E t \in Threads : /\ fd \in bevs[t]
                     /\ t > api.i \/ (t = api.i /\ api.it # End /\ api.it <= fd)

DeviceInv ==
  api.pc = "devices" /\ ~ dev.tainted =>
    \A fd \in dev.stay : fd \in Fds /\ (fd \in dev.list \/ Ahead(fd))

LEMMA FirstLeast ==
  ASSUME NEW S \in SUBSET Fds, NEW fd \in First(S), NEW g \in S
  PROVE  fd \in S /\ fd # End /\ fd <= g
BY ServerAssumption DEF First, End

(* A step that leaves the connections alone, and api unless no walk is on. *)
LEMMA DeviceSame ==
  ASSUME DeviceInv, UNCHANGED <<bevs, dev>>, api' = api \/ api'.pc # "devices"
  PROVE  DeviceInv'
BY DEF DeviceInv, Ahead

(* A map that changes moves the walk's iterator nowhere, or nowhere valid. *)
LEMMA DeviceMapChanged ==
  ASSUME TypeOK, NEW t, NEW erased, MapChanged(t, erased)
  PROVE  \/ api' = api
         \/ /\ api.pc = "devices" /\ api'.pc = "devices" /\ api'.i = api.i
            /\ api.it # End /\ api'.it = Dangling
BY DEF MapChanged, TypeOK, CallStates

LEMMA DeviceNext == TypeOK /\ OwnInv /\ LessonInv /\ DeviceInv /\ [Next]_vars => DeviceInv'
<1> SUFFICES ASSUME TypeOK, OwnInv, LessonInv, DeviceInv, [Next]_vars PROVE DeviceInv'
  OBVIOUS
<1>0. /\ api \in CallStates /\ dev \in DeviceStates
      /\ bevs \in [Threads -> SUBSET Fds] /\ data_map \in [Threads -> SUBSET Fds]
      /\ \A t \in Threads : bevs[t] \subseteq data_map[t]
  BY DEF TypeOK, OwnInv, FdOwnedOnce, InOnePlace
<1>1. CASE \/ \E fd \in Fds : Accept(fd) \/ PeerClose(fd)
           \/ Wake \/ Waiting \/ UNCHANGED vars
  BY <1>1, DeviceSame DEF Accept, PeerClose, Wake, Waiting, vars, socketVars, apiVars
<1>2. CASE \/ GiveClass \/ SendFileType \/ GiveCourse \/ GiveDone \/ SendFilePath
           \/ Broadcast
  <2>1. api'.pc # "devices"
    <3>1. CASE Broadcast
      BY <1>0, <3>1 DEF Broadcast, NextNotified, Idle, CallStates
    <3>2. CASE GiveClass \/ SendFileType \/ GiveCourse \/ GiveDone \/ SendFilePath
      BY <1>0, <3>2 DEF GiveClass, SendFileType, GiveCourse, GiveDone, SendFilePath,
                        CallStates
    <3> QED BY <1>2, <3>1, <3>2
  <2> QED BY <1>2, <2>1, DeviceSame
          DEF GiveClass, SendFileType, GiveCourse, GiveDone, SendFilePath, Broadcast,
              apiFrame, socketVars
<1>3. CASE GetConnectDevice
  <2>1. PICK it \in First(data_map[0]) : api' = [api EXCEPT !.pc = "devices", !.it = it]
    BY <1>3 DEF GetConnectDevice
  <2>2. api'.i = 0 /\ api'.it = it /\ bevs' = bevs
    BY <1>0, <1>3, <2>1
       DEF GetConnectDevice, LessonInv, deviceFrame, apiFrame, socketVars, CallStates
  <2>3. ASSUME NEW t \in Threads, NEW fd \in bevs[t] PROVE fd \in Fds /\ Ahead(fd)'
    <3>1. fd \in Fds /\ fd \in data_map[t]
      BY <1>0
    <3>2. CASE t = 0
      <4>1. it # End /\ it <= fd
        <5>1. data_map[0] \in SUBSET Fds /\ fd \in data_map[0]
          BY <1>0, <3>1, <3>2
        <5> QED BY <5>1, FirstLeast
      <4>2. api'.it # End /\ api'.it <= fd /\ t = api'.i /\ fd \in bevs'[t]
        BY <2>2, <3>2, <4>1
      <4> QED BY <3>1, <4>2 DEF Ahead
    <3>3. CASE t # 0
      <4>1. t > api'.i /\ fd \in bevs'[t]
        BY <2>2, <3>3, ServerAssumption DEF Threads
      <4> QED BY <3>1, <4>1 DEF Ahead
    <3> QED BY <3>1, <3>2, <3>3
  <2>4. dev'.stay = UNION {bevs[t] : t \in Threads}
    BY <1>3 DEF GetConnectDevice, NoList
  <2> QED BY <2>3, <2>4 DEF DeviceInv
<1>4. CASE VisitDevice
  <2>1. PICK it \in First({g \in data_map[api.i] : g > api.it}) :
          api' = [api EXCEPT !.it = it]
    BY <1>4 DEF VisitDevice
  <2>2. /\ api.pc = "devices" /\ api.it \in data_map[api.i] /\ api.i \in Threads
        /\ api'.pc = "devices" /\ api'.i = api.i /\ api'.it = it
        /\ dev'.stay = dev.stay /\ dev'.tainted = dev.tainted
        /\ dev'.list = dev.list \cup {api.it} /\ UNCHANGED bevs
    BY <1>0, <1>4, <2>1
       DEF VisitDevice, OnDevice, deviceFrame, apiFrame, socketVars, CallStates, DeviceStates
  <2>3. ASSUME NEW fd \in Fds, Ahead(fd), fd # api.it PROVE Ahead(fd)'
    <3>1. PICK t \in Threads : /\ fd \in bevs[t]
                               /\ t > api.i \/ (t = api.i /\ api.it # End /\ api.it <= fd)
      BY <2>3 DEF Ahead
    <3>2. CASE t = api.i
      <4>1. fd \in data_map[api.i] /\ api.it \in Fds /\ fd > api.it
        <5>1. fd \in data_map[api.i] /\ api.it \in Fds /\ api.it <= fd
          <6>1. fd \in bevs[api.i] /\ api.it <= fd
            BY <2>2, <3>1, <3>2, ServerAssumption DEF Threads
          <6> QED BY <1>0, <2>2, <6>1
        <5>2. fd \in Nat /\ api.it \in Nat
          BY <5>1, ServerAssumption
        <5> QED BY <2>3, <5>1, <5>2
      <4>2. it # End /\ it <= fd
        <5>1. {g \in data_map[api.i] : g > api.it} \in SUBSET Fds
          BY <1>0, <2>2
        <5> QED BY <4>1, <5>1, FirstLeast
      <4> QED BY <2>2, <3>1, <3>2, <4>2 DEF Ahead
    <3>3. CASE t # api.i
      BY <2>2, <3>1, <3>3 DEF Ahead
    <3> QED BY <3>2, <3>3
  <2> QED BY <2>2, <2>3 DEF DeviceInv
<1>5. CASE VisitStale
  <2>1. dev'.tainted
    BY <1>0, <1>5 DEF VisitStale, DeviceStates
  <2> QED BY <2>1 DEF DeviceInv
<1>6. CASE NextMap
  <2>1. PICK it \in First(data_map[api.i + 1]) :
          api' = [api EXCEPT !.i = api.i + 1, !.it = it]
    BY <1>6 DEF NextMap
  <2>2. /\ api.pc = "devices" /\ api.it = End
        /\ api.i \in Threads /\ api.i + 1 \in Threads
        /\ api'.pc = "devices" /\ api'.i = api.i + 1 /\ api'.it = it
        /\ UNCHANGED <<dev, bevs>>
    <3>1. api.pc = "devices" /\ api.it = End /\ api.i < THREAD_NUMB - 1 /\ api.i \in Threads
      BY <1>0, <1>6 DEF NextMap, MoreThreads, CallStates
    <3>2. api.i + 1 \in Threads
      BY <3>1, ServerAssumption DEF Threads
    <3>3. UNCHANGED <<dev, bevs>>
      BY <1>6 DEF NextMap, deviceFrame, apiFrame, socketVars
    <3>4. api'.pc = api.pc /\ api'.i = api.i + 1 /\ api'.it = it
      BY <1>0, <2>1 DEF CallStates
    <3> QED BY <3>1, <3>2, <3>3, <3>4
  <2>3. ASSUME NEW fd \in Fds, Ahead(fd) PROVE Ahead(fd)'
    <3>1. PICK t \in Threads : fd \in bevs[t] /\ t > api.i
      BY <2>2, <2>3 DEF Ahead
    <3>2. CASE t = api.i + 1
      <4>1. it # End /\ it <= fd
        BY <1>0, <2>2, <3>1, <3>2, FirstLeast
      <4> QED BY <2>2, <3>1, <3>2, <4>1 DEF Ahead
    <3>3. CASE t # api.i + 1
      BY <2>2, <3>1, <3>3, ServerAssumption DEF Ahead, Threads
    <3> QED BY <3>2, <3>3
  <2> QED BY <2>2, <2>3 DEF DeviceInv
<1>7. CASE ReturnDevices
  BY <1>7, DeviceSame DEF ReturnDevices, Idle, deviceFrame, apiFrame, socketVars
<1>8. ASSUME UNCHANGED dev, \A t \in Threads : bevs[t] \subseteq bevs'[t],
             \/ api' = api
             \/ /\ api.pc = "devices" /\ api'.pc = "devices" /\ api'.i = api.i
                /\ api.it # End /\ api'.it = Dangling
      PROVE  DeviceInv'
  <2>1. ASSUME NEW fd \in Fds, Ahead(fd) PROVE Ahead(fd)'
    <3>1. PICK t \in Threads : /\ fd \in bevs[t]
                               /\ t > api.i \/ (t = api.i /\ api.it # End /\ api.it <= fd)
      BY <2>1 DEF Ahead
    <3>2. Dangling # End /\ Dangling <= fd
      BY ServerAssumption DEF Dangling, End
    <3> QED BY <1>8, <3>1, <3>2 DEF Ahead
  <2> QED BY <1>8, <2>1 DEF DeviceInv
<1>9. ASSUME NEW t \in Threads, RecvC(t) PROVE DeviceInv'
  BY <1>8, <1>9, DeviceMapChanged DEF RecvC, socketVars
<1>10. ASSUME NEW t \in Threads, Register(t) PROVE DeviceInv'
  <2>1. UNCHANGED <<dev, api>> /\ \A u \in Threads : bevs[u] \subseteq bevs'[u]
    BY <1>0, <1>10 DEF Register
  <2> QED BY <1>8, <2>1
<1>11. ASSUME NEW t \in Threads, NEW fd \in Fds, EventCb(t, fd) PROVE DeviceInv'
  <2>1. /\ bevs' = [bevs EXCEPT ![t] = @ \ {fd}]
        /\ dev'.stay = dev.stay \ {fd} /\ dev'.list = dev.list
        /\ dev'.tainted = dev.tainted
        /\ \/ api' = api
           \/ /\ api.pc = "devices" /\ api'.pc = "devices" /\ api'.i = api.i
              /\ api.it # End /\ api'.it = Dangling
    BY <1>0, <1>11, DeviceMapChanged DEF EventCb, Erase, DeviceStates
  <2>2. ASSUME NEW g \in Fds, Ahead(g), g # fd PROVE Ahead(g)'
    <3>1. PICK u \in Threads : /\ g \in bevs[u]
                               /\ u > api.i \/ (u = api.i /\ api.it # End /\ api.it <= g)
      BY <2>2 DEF Ahead
    <3>2. Dangling # End /\ Dangling <= g
      BY ServerAssumption DEF Dangling, End
    <3>3. g \in bevs'[u]
      BY <1>0, <2>1, <2>2, <3>1
    <3> QED BY <2>1, <3>1, <3>2, <3>3 DEF Ahead
  <2> QED BY <2>1, <2>2 DEF DeviceInv
<1>12. ASSUME NEW t \in Threads,
              \/ RecvA(t) \/ SendA(t) \/ RecvB(t) \/ SendB(t) \/ SetBev(t)
              \/ \E fd \in Fds : ReadCb(t, fd) \/ CloseFd(t, fd)
       PROVE  DeviceInv'
  BY <1>12, DeviceSame
     DEF RecvA, SendA, RecvB, SendB, SetBev, ReadCb, CloseFd, socketVars
<1> QED
  BY <1>1, <1>2, <1>3, <1>4, <1>5, <1>6, <1>7, <1>9, <1>10, <1>11, <1>12
     DEF Next, Call, InCall, Worker

(* GetConnectDevice returns every device that stays connected all through  *)
(* the call, if its unlocked walk met no dead entry (server.cpp:79-94).    *)
THEOREM DeviceListCompleteCorrect == Spec => DeviceListComplete
<1>1. Init => LessonInv /\ DeviceInv
  BY DEF Init, LessonInv, DeviceInv, AtLoop, Idle
<1>2. TypeOK /\ DeviceInv /\ [Next]_vars
        => [ReturnDevices /\ ~ dev.tainted => dev.stay \subseteq dev.list]_vars
  <2> SUFFICES ASSUME TypeOK, DeviceInv, ReturnDevices, ~ dev.tainted, NEW fd \in dev.stay
               PROVE  fd \in dev.list
    OBVIOUS
  <2>1. api.pc = "devices" /\ api.it = End /\ ~ (api.i < THREAD_NUMB - 1) /\ api.i \in Threads
    BY DEF ReturnDevices, MoreThreads, TypeOK, CallStates
  <2>2. \A t \in Threads : ~ (t > api.i)
    BY <2>1, ServerAssumption DEF Threads
  <2> QED BY <2>1, <2>2 DEF DeviceInv, Ahead
<1> QED BY <1>1, <1>2, DeviceNext, LessonNext, OwnInit, OwnNext, TypeCorrect, PTL
        DEF Spec, DeviceListComplete
-----------------------------------------------------------------------------
(*                                SendFile                                 *)

(* A worker that is sending has the current file's name, one that is       *)
(* registering a connection of before the file will be notified.           *)
FileInv ==
  /\ \A t \in Threads : \A fd \in bevs[t] :
       joined[fd] < m_strFilePath => HasFile(fd) \/ FileComing(t) \/ wk[t].pc = "b"
  /\ \A t \in Threads :
       /\ wk[t].pc = "b" => FileComing(t) \/ wk[t].name = m_strFilePath
       /\ wk[t].pc \in {"setbev", "skbj"} =>
            FileComing(t) \/ ~ (joined[wk[t].fd] < m_strFilePath)
  /\ api.pc # "path" => m_nType = m_strFilePath

(* A step that sends no file, registers nothing and loses no notification. *)
LEMMA FileSame ==
  ASSUME FileInv, UNCHANGED <<m_strFilePath, m_nType, pushed, joined>>,
         \A t \in Threads : bevs'[t] \subseteq bevs[t],
         \A t \in Threads : FileComing(t) => FileComing(t)',
         \A t \in Threads :
           \/ wk'[t] = wk[t]
           \/ wk[t].pc # "b" /\ wk'[t].pc \in {"loop", "a"}
           \/ wk[t].pc = "setbev" /\ wk'[t].pc = "skbj" /\ wk'[t].fd = wk[t].fd,
         api'.pc # "path" => api.pc # "path"
  PROVE  FileInv'
<1>1. \A fd : HasFile(fd)' <=> HasFile(fd)
  BY DEF HasFile
<1>2. ASSUME NEW t \in Threads, NEW fd \in bevs'[t], joined'[fd] < m_strFilePath'
      PROVE  HasFile(fd)' \/ FileComing(t)' \/ wk'[t].pc = "b"
  BY <1>1, <1>2 DEF FileInv
<1>3. ASSUME NEW t \in Threads
      PROVE  /\ wk'[t].pc = "b" => FileComing(t)' \/ wk'[t].name = m_strFilePath'
             /\ wk'[t].pc \in {"setbev", "skbj"} =>
                  FileComing(t)' \/ ~ (joined'[wk'[t].fd] < m_strFilePath')
  BY <1>3 DEF FileInv
<1>4. api'.pc # "path" => m_nType' = m_strFilePath'
  BY DEF FileInv
<1> QED BY <1>2, <1>3, <1>4 DEF FileInv

LEMMA FileNext == TypeOK /\ OwnInv /\ LessonInv /\ FileInv /\ [Next]_vars => FileInv'
<1> SUFFICES ASSUME TypeOK, OwnInv, LessonInv, FileInv, [Next]_vars PROVE FileInv'
  OBVIOUS
<1>0. /\ TypedNotify /\ TypedLost /\ api \in CallStates
      /\ wk \in [Threads -> HandlerStates]
      /\ bevs \in [Threads -> SUBSET Fds]
      /\ pushed \in [Fds -> FilesPushed]
  BY DEF TypeOK, TypedNotify, TypedLost
<1>1. ASSUME UNCHANGED <<m_strFilePath, m_nType, pushed, joined, wk, notify, lost>>,
             \A t \in Threads : bevs'[t] \subseteq bevs[t],
             api' = api \/ (api.pc \notin {"path", "b"} /\ api'.pc # "path")
      PROVE  FileInv'
  <2>1. \A t \in Threads : FileComing(t) => FileComing(t)'
    BY <1>1 DEF FileComing, InChannel
  <2> QED BY <1>1, <2>1, FileSame
<1>2. ASSUME NEW fd \in Fds, Accept(fd) \/ PeerClose(fd) PROVE FileInv'
  BY <1>1, <1>2 DEF Accept, PeerClose, fileVars, sentVars, apiVars
<1>3. CASE Wake
  <2>1. Notify(listener, "c") /\ listener \in Threads
    BY <1>3 DEF Wake, TypeOK
  <2>2. \A t \in Threads : /\ InChannel(t, "b") => InChannel(t, "b")'
                          /\ lost[t] \subseteq lost'[t]
    BY <1>0, <2>1, NotifyComing DEF Bytes
  <2>3. \A t \in Threads : FileComing(t) => FileComing(t)'
    BY <1>3, <2>2 DEF Wake, apiVars, FileComing
  <2> QED BY <1>3, <2>3, FileSame DEF Wake, socketVars, fileVars, sentVars, apiVars
<1>4. CASE GiveClass \/ GiveCourse \/ GiveDone
  <2>1. api.pc \notin {"path", "b"} /\ api'.pc # "path"
    BY <1>0, <1>4 DEF GiveClass, GiveCourse, GiveDone, CallStates
  <2> QED BY <1>1, <1>4, <2>1 DEF GiveClass, GiveCourse, GiveDone, apiFrame, socketVars,
             fileVars, sentVars
<1>5. CASE SendFileType
  <2>1. api'.pc = "path" /\ UNCHANGED <<bevs, wk>>
    BY <1>0, <1>5 DEF SendFileType, CallStates, apiFrame, socketVars
  <2> QED BY <2>1 DEF FileInv, FileComing
<1>6. CASE SendFilePath
  <2>1. /\ api'.pc = "b" /\ api'.i = 0 /\ m_strFilePath' = m_nType /\ m_nType' = m_nType
        /\ UNCHANGED <<bevs, wk>>
    BY <1>0, <1>6 DEF SendFilePath, LessonInv, CallStates, apiFrame, socketVars
  <2>2. \A t \in Threads : FileComing(t)'
    BY <2>1 DEF FileComing, Threads
  <2> QED BY <2>1, <2>2 DEF FileInv
<1>7. CASE Broadcast
  <2>1. /\ api.i \in Threads /\ api.pc \in {"a", "b"} /\ Notify(api.i, api.pc)
        /\ api' = NextNotified
        /\ UNCHANGED <<m_strFilePath, m_nType, pushed, joined, wk, bevs>>
    BY <1>0, <1>7 DEF Broadcast, CallStates, apiFrame, socketVars, fileVars, sentVars
  <2>2. PICK i \in Threads, b \in Bytes : i = api.i /\ b = api.pc
    BY <2>1 DEF Bytes
  <2>3. /\ \A t \in Threads : /\ InChannel(t, "b") => InChannel(t, "b")'
                              /\ lost[t] \subseteq lost'[t]
        /\ b = "b" => InChannel(i, "b")' \/ "b" \in lost'[i]
    BY <1>0, <2>1, <2>2, NotifyComing
  <2>4. \/ api'.pc = b /\ api'.i = i + 1
        \/ i = THREAD_NUMB - 1 /\ api'.pc = "idle" /\ api'.i = 0
    BY <1>0, <2>1, <2>2, ServerAssumption DEF NextNotified, Idle, CallStates, Threads
  <2>5. \A t \in Threads : FileComing(t) => FileComing(t)'
    <3> SUFFICES ASSUME NEW t \in Threads, FileComing(t) PROVE FileComing(t)'
      OBVIOUS
    <3>1. CASE InChannel(t, "b") \/ "b" \in lost[t]
      BY <2>3, <3>1 DEF FileComing
    <3>2. CASE b = "b" /\ i = t
      BY <2>3, <3>2 DEF FileComing
    <3>3. CASE b = "b" /\ i < t
      <4>1. api'.pc = "b" /\ api'.i <= t
        BY <2>4, <3>3, ServerAssumption DEF Threads
      <4> QED BY <4>1 DEF FileComing
    <3>4. InChannel(t, "b") \/ "b" \in lost[t] \/ (b = "b" /\ (i = t \/ i < t))
      BY <2>1, <2>2 DEF FileComing, Threads
    <3> QED BY <3>1, <3>2, <3>3, <3>4
  <2>6. api.pc # "path"
    BY <2>1
  <2>7. \A t \in Threads : bevs'[t] \subseteq bevs[t] /\ wk'[t] = wk[t]
    BY <2>1
  <2> QED BY <2>1, <2>5, <2>6, <2>7, FileSame
<1>8. CASE GetConnectDevice \/ VisitDevice \/ VisitStale \/ NextMap \/ ReturnDevices
  <2>1. api.pc \notin {"path", "b"} /\ api'.pc # "path"
    <3>1. CASE GetConnectDevice
      BY <1>0, <3>1 DEF GetConnectDevice, CallStates
    <3>2. CASE VisitDevice
      BY <1>0, <3>2 DEF VisitDevice, CallStates
    <3>3. CASE VisitStale
      BY <1>0, <3>3 DEF VisitStale, CallStates
    <3>4. CASE NextMap
      BY <1>0, <3>4 DEF NextMap, CallStates
    <3>5. CASE ReturnDevices
      BY <3>5 DEF ReturnDevices, Idle
    <3> QED BY <1>8, <3>1, <3>2, <3>3, <3>4, <3>5
  <2> QED BY <1>1, <1>8, <2>1 DEF GetConnectDevice, VisitDevice, VisitStale, NextMap,
             ReturnDevices, deviceFrame, apiFrame, socketVars, fileVars, sentVars
<1>9. CASE Waiting \/ UNCHANGED vars
  BY <1>1, <1>9 DEF Waiting, vars, socketVars, fileVars, sentVars, apiVars
<1>10. ASSUME NEW t \in Threads, NEW fd \in Fds, ReadCb(t, fd) \/ CloseFd(t, fd)
       PROVE  FileInv'
  BY <1>1, <1>10 DEF ReadCb, CloseFd, workerFrame, socketVars, fileVars, sentVars
<1>11. ASSUME NEW t \in Threads, NEW fd \in Fds, EventCb(t, fd) PROVE FileInv'
  <2>1. \A u \in Threads : bevs'[u] \subseteq bevs[u]
    BY <1>0, <1>11 DEF EventCb
  <2>2. api' = api \/ (api.pc = "devices" /\ api'.pc = "devices")
    BY <1>0, <1>11 DEF EventCb, Erase, MapChanged, CallStates
  <2> QED BY <1>1, <1>11, <2>1, <2>2 DEF EventCb, workerFrame, fileVars, sentVars
<1>12. ASSUME NEW t \in Threads, RecvA(t) \/ SendA(t) \/ SetBev(t) PROVE FileInv'
  <2>1. /\ UNCHANGED <<m_strFilePath, m_nType, pushed, joined, bevs, lost, api>>
        /\ Recv(t, "a") \/ notify' = notify
    BY <1>12 DEF RecvA, SendA, SetBev, workerFrame, socketVars, fileVars, sentVars
  <2>2. \A u \in Threads : FileComing(u) => FileComing(u)'
    <3>1. \A u \in Threads : InChannel(u, "b") => InChannel(u, "b")'
      BY <1>0, <2>1, RecvComing DEF InChannel
    <3> QED BY <2>1, <3>1 DEF FileComing
  <2>3. /\ \A u \in Threads \ {t} : wk'[u] = wk[u]
        /\ \/ wk[t].pc # "b" /\ wk'[t].pc \in {"loop", "a"}
           \/ wk[t].pc = "setbev" /\ wk'[t].pc = "skbj" /\ wk'[t].fd = wk[t].fd
    <3>1. CASE RecvA(t)
      <4>1. PICK c : wk' = [wk EXCEPT ![t] = [wk[t] EXCEPT !.pc = "a", !.cls = c]]
        BY <3>1 DEF RecvA
      <4> QED BY <1>0, <3>1, <4>1 DEF RecvA, HandlerStates
    <3>2. CASE SendA(t)
      BY <1>0, <3>2 DEF SendA, AtLoop
    <3>3. CASE SetBev(t)
      <4>1. PICK c : \/ wk' = [wk EXCEPT ![t] = [wk[t] EXCEPT !.pc = "skbj", !.cls = c]]
                     \/ wk' = [wk EXCEPT ![t] = [wk[t] EXCEPT !.pc = "skbj", !.crs = c]]
        BY <3>3 DEF SetBev
      <4>2. wk \in [Threads -> HandlerStates] /\ wk[t].pc = "setbev"
        BY <1>0, <3>3 DEF SetBev
      <4>3. \A u \in Threads \ {t} : wk'[u] = wk[u]
        BY <4>1, <4>2
      <4>4. \/ wk'[t] = [wk[t] EXCEPT !.pc = "skbj", !.cls = c]
            \/ wk'[t] = [wk[t] EXCEPT !.pc = "skbj", !.crs = c]
        BY <4>1, <4>2
      <4>5. wk'[t].pc = "skbj" /\ wk'[t].fd = wk[t].fd
        BY <4>2, <4>4 DEF HandlerStates
      <4> QED BY <4>2, <4>3, <4>5
    <3> QED BY <1>12, <3>1, <3>2, <3>3
  <2>4. \A u \in Threads :
          \/ wk'[u] = wk[u]
          \/ wk[u].pc # "b" /\ wk'[u].pc \in {"loop", "a"}
          \/ wk[u].pc = "setbev" /\ wk'[u].pc = "skbj" /\ wk'[u].fd = wk[u].fd
    BY <2>3
  <2>5. \A u \in Threads : bevs'[u] \subseteq bevs[u]
    BY <2>1
  <2> QED BY <2>1, <2>2, <2>4, <2>5, FileSame
<1>13. ASSUME NEW t \in Threads, RecvB(t) PROVE FileInv'
  <2>1. /\ UNCHANGED <<m_strFilePath, m_nType, pushed, joined, bevs, lost, api>>
        /\ Recv(t, "b") /\ wk[t].pc = "loop"
    BY <1>13 DEF RecvB, workerFrame, socketVars, fileVars, sentVars
  <2>2. PICK n \in ReadFile : wk' = [wk EXCEPT ![t] = [wk[t] EXCEPT !.pc = "b", !.name = n]]
    BY <1>13 DEF RecvB
  <2>3. wk'[t].pc = "b" /\ wk'[t].name = n
    BY <1>0, <2>2 DEF HandlerStates
  <2>4. FileComing(t)' \/ n = m_strFilePath
    BY <2>1, <2>2 DEF ReadFile, FileComing
  <2>5. \A fd : HasFile(fd)' <=> HasFile(fd)
    BY <2>1 DEF HasFile
  <2>6. ASSUME NEW u \in Threads, u # t
        PROVE  /\ wk'[u] = wk[u] /\ bevs'[u] = bevs[u]
               /\ FileComing(u) => FileComing(u)'
    <3>1. wk'[u] = wk[u] /\ bevs'[u] = bevs[u]
      BY <1>0, <2>1, <2>2, <2>6
    <3>2. InChannel(u, "b") => InChannel(u, "b")'
      BY <1>0, <2>1, <2>6, RecvComing
    <3> QED BY <2>1, <3>1, <3>2 DEF FileComing
  <2> QED BY <2>1, <2>3, <2>4, <2>5, <2>6 DEF FileInv
<1>14. ASSUME NEW t \in Threads, SendB(t) PROVE FileInv'
  <2>1. /\ UNCHANGED <<m_strFilePath, m_nType, joined, bevs, lost, api, notify>>
        /\ wk[t].pc = "b" /\ wk' = [wk EXCEPT ![t] = AtLoop]
    BY <1>14 DEF SendB, workerFrame, socketVars, fileVars
  <2>2. PICK p \in ReadFile :
          pushed' = [fd \in Fds |->
                       IF fd \in data_map[t] /\ p # Torn
                       THEN [name |-> wk[t].name, path |-> p, type |-> m_nType]
                       ELSE pushed[fd]]
    BY <1>14 DEF SendB
  <2>3. \A u \in Threads : FileComing(u)' <=> FileComing(u)
    BY <2>1 DEF FileComing, InChannel
  <2>4. ASSUME NEW fd \in bevs[t], ~ FileComing(t) PROVE HasFile(fd)'
    <3>1. fd \in Fds /\ fd \in data_map[t]
      BY <1>0 DEF OwnInv, FdOwnedOnce, InOnePlace
    <3>2. wk[t].name = m_strFilePath /\ p = m_strFilePath /\ m_nType = m_strFilePath
      BY <2>1, <2>2, <2>4 DEF FileInv, FileComing, ReadFile
    <3>3. p # Torn
      BY <3>2, ServerAssumption DEF TypeOK, Torn
    <3> QED BY <2>1, <2>2, <3>1, <3>2, <3>3 DEF HasFile
  <2>5. ASSUME NEW u \in Threads, u # t, NEW fd \in bevs[u]
        PROVE  HasFile(fd)' <=> HasFile(fd)
    <3>1. fd \in Fds /\ fd \notin data_map[t]
      BY <1>0, <2>5 DEF OwnInv, FdOwnedOnce, InOnePlace, Held
    <3> QED BY <2>1, <2>2, <3>1 DEF HasFile
  <2>6. /\ wk'[t] = AtLoop /\ \A u \in Threads \ {t} : wk'[u] = wk[u]
    BY <1>0, <2>1
  <2> QED BY <2>1, <2>3, <2>4, <2>5, <2>6 DEF FileInv, AtLoop
<1>15. ASSUME NEW t \in Threads, RecvC(t) PROVE FileInv'
  <2>0. PICK fd \in Fds : fd = Head(conn_queue[t]) /\ fd \in Queued(t)
    <3>1. conn_queue[t] \in Seq(Fds) /\ conn_queue[t] # <<>>
      BY <1>15 DEF TypeOK, RecvC
    <3> QED BY <3>1, TailElems DEF Queued
  <2>1. /\ UNCHANGED <<m_strFilePath, m_nType, bevs, lost>>
        /\ Recv(t, "c") /\ wk[t].pc = "loop"
        /\ wk' = [wk EXCEPT ![t] = [wk[t] EXCEPT !.pc = "setbev", !.fd = fd]]
        /\ pushed' = [pushed EXCEPT ![fd] = NothingPushed]
        /\ joined' = [joined EXCEPT ![fd] = m_strFilePath]
        /\ MapChanged(t, {})
    BY <1>15, <2>0 DEF RecvC, workerFrame, socketVars, fileVars
  <2>2. api' = api \/ (api.pc = "devices" /\ api'.pc = "devices")
    BY <1>0, <2>1 DEF MapChanged, CallStates
  <2>3. \A u \in Threads : FileComing(u) => FileComing(u)'
    <3>1. \A u \in Threads : InChannel(u, "b") => InChannel(u, "b")'
      BY <1>0, <2>1, RecvComing
    <3> QED BY <2>1, <2>2, <3>1 DEF FileComing
  <2>4. ASSUME NEW u \in Threads, NEW g \in data_map[u] PROVE g # fd
    BY <2>0 DEF OwnInv, FdOwnedOnce, InOnePlace, Held
  <2>5. ASSUME NEW g \in Fds, g # fd
        PROVE  (HasFile(g)' <=> HasFile(g)) /\ joined'[g] = joined[g]
    BY <1>0, <2>1, <2>5 DEF HasFile, TypeOK
  <2>6. /\ \A u \in Threads \ {t} : wk'[u] = wk[u]
        /\ wk'[t].pc = "setbev" /\ wk'[t].fd = fd
    BY <1>0, <2>1 DEF HandlerStates
  <2>7. ~ (joined'[fd] < m_strFilePath')
    BY <2>1, ServerAssumption DEF TypeOK
  <2>8. ASSUME NEW u \in Threads, NEW g \in bevs'[u], joined'[g] < m_strFilePath'
        PROVE  HasFile(g)' \/ FileComing(u)' \/ wk'[u].pc = "b"
    <3>1. g \in Fds /\ g # fd
      BY <1>0, <2>1, <2>4, <2>8 DEF OwnInv, FdOwnedOnce, InOnePlace
    <3> QED BY <2>1, <2>3, <2>5, <2>6, <2>8, <3>1 DEF FileInv
  <2>9. ASSUME NEW u \in Threads, u # t, wk'[u].pc \in {"setbev", "skbj"}
        PROVE  FileComing(u)' \/ ~ (joined'[wk'[u].fd] < m_strFilePath')
    <3>1. wk'[u] = wk[u]
      BY <2>6, <2>9
    <3>2. wk[u].fd \in data_map[u]
      BY <2>9, <3>1 DEF OwnInv, Registering
    <3>3. wk[u].fd \in Fds /\ wk[u].fd # fd
      BY <2>4, <3>2 DEF TypeOK
    <3>4. joined'[wk[u].fd] = joined[wk[u].fd]
      BY <2>5, <3>3
    <3> QED BY <2>1, <2>3, <2>9, <3>1, <3>4 DEF FileInv
  <2>10. ASSUME NEW u \in Threads, wk'[u].pc = "b"
         PROVE  FileComing(u)' \/ wk'[u].name = m_strFilePath'
    BY <2>1, <2>3, <2>6, <2>10 DEF FileInv
  <2>11. api'.pc # "path" => m_nType' = m_strFilePath'
    BY <2>1, <2>2 DEF FileInv
  <2> QED BY <2>6, <2>7, <2>8, <2>9, <2>10, <2>11 DEF FileInv
<1>16. ASSUME NEW t \in Threads, Register(t) PROVE FileInv'
  <2>0. PICK fd \in Fds : fd = wk[t].fd
    BY <1>16 DEF Register, TypeOK
  <2>1. /\ UNCHANGED <<m_strFilePath, m_nType, pushed, joined, lost, api, notify>>
        /\ wk[t].pc = "skbj" /\ wk' = [wk EXCEPT ![t] = AtLoop]
        /\ bevs' = [bevs EXCEPT ![t] = @ \cup {fd}]
    BY <1>16, <2>0 DEF Register, workerFrame, fileVars
  <2>2. \A u \in Threads : FileComing(u)' <=> FileComing(u)
    BY <2>1 DEF FileComing, InChannel
  <2>3. \A g : HasFile(g)' <=> HasFile(g)
    BY <2>1 DEF HasFile
  <2>4. FileComing(t) \/ ~ (joined[fd] < m_strFilePath)
    BY <2>0, <2>1 DEF FileInv
  <2>5. /\ wk'[t] = AtLoop /\ \A u \in Threads \ {t} : wk'[u] = wk[u]
        /\ bevs'[t] = bevs[t] \cup {fd} /\ \A u \in Threads \ {t} : bevs'[u] = bevs[u]
    BY <1>0, <2>1
  <2>6. ASSUME NEW u \in Threads, NEW g \in bevs'[u], joined'[g] < m_strFilePath'
        PROVE  HasFile(g)' \/ FileComing(u)' \/ wk'[u].pc = "b"
    <3>1. CASE u = t /\ g = fd
      BY <2>1, <2>2, <2>4, <2>6, <3>1
    <3>2. CASE ~ (u = t /\ g = fd)
      BY <2>1, <2>2, <2>3, <2>5, <2>6, <3>2 DEF FileInv
    <3> QED BY <3>1, <3>2
  <2>7. ASSUME NEW u \in Threads, u # t PROVE wk'[u] = wk[u]
    BY <2>5, <2>7
  <2> QED BY <2>1, <2>2, <2>5, <2>6, <2>7 DEF FileInv, AtLoop
<1> QED
  BY <1>2, <1>3, <1>4, <1>5, <1>6, <1>7, <1>8, <1>9, <1>10, <1>11, <1>12, <1>13,
     <1>14, <1>15, <1>16 DEF Next, Call, InCall, Worker

(* However connecting, sending a file and copying its unlocked path        *)
(* interleave, a connection registered before the file has it, rightly     *)
(* named, or will (server.cpp:44-56, 315-333).                             *)
THEOREM FileReachesCorrect == Spec => []FileReaches
<1>1. Init => LessonInv /\ FileInv
  BY DEF Init, LessonInv, FileInv, AtLoop, Idle
<1>2. FileInv => FileReaches
  BY DEF FileInv, FileReaches
<1> QED BY <1>1, <1>2, FileNext, LessonNext, OwnInit, OwnNext, TypeCorrect, PTL DEF Spec
=============================================================================
