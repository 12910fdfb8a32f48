--------------------------- MODULE Client_proofs ---------------------------
(***************************************************************************)
(* Proofs about Client, for any number of requests, connections, lessons   *)
(* and files: types, that a call returns its own answer, that a file list  *)
(* shows what was uploaded before it.                                      *)
(***************************************************************************)
EXTENDS Client, TLAPS

AppOK ==
  app \in [pc : {"start", "init", "idle", "upload", "reset", "send", "enter", "wait",
                 "return"},
           kind : Kinds, id : 0 .. MaxRequests, worker : 0 .. MaxConns,
           sent : 0 .. MaxConns]

PlacesOK ==
  /\ link \in {"up", "closed", "none"}
  /\ conns \in 0 .. MaxConns /\ pushes \in 0 .. MaxPushes
  /\ lesson \in 0 .. MaxLessons /\ stored \in 0 .. MaxRequests
  /\ m_spWorker \in 0 .. MaxConns /\ m_spWorker = conns
  /\ m_cmdFinishFlag \in {-1, 1}
  /\ received \in [Labels -> Nat]
  /\ listed \in 0 .. MaxRequests /\ uploaded \in 0 .. MaxRequests
  /\ dispatch \in {"none", "running", "leaving", "ended"}
  /\ svc \in {"off", "idle", "connecting", "join", "started"}
  /\ app.pc \in {"upload", "reset", "send", "enter", "wait", "return"} => app.id # 0
  /\ app.worker <= m_spWorker

TroublesOK ==
  /\ fragment \in BOOLEAN /\ (fragment => "long" \in troubles)
  /\ troubles \subseteq {"push", "open", "long", "server"}

RequestSet ==
  [kind : Kinds \cup {"UpperFile"}, id : 1 .. MaxRequests, part : 0 .. MaxPackages - 1]
AnswerSet == [label : Labels, id : Nat, upto : 0 .. MaxRequests, more : BOOLEAN]
WiresOK ==
  /\ toServer \in Seq(RequestSet) /\ toClient \in Seq(AnswerSet)
  /\ inData \in 0 .. Len(toClient) /\ (processing => inData > 0)

FlagsOK ==
  /\ faults \in FaultSets
  /\ m_bConnect \in BOOLEAN /\ bevLive \in BOOLEAN /\ undefined \in BOOLEAN
-----------------------------------------------------------------------------
LEMMA Bounds ==
  /\ MaxPackages \in Nat \ {0} /\ MaxRequests \in Nat /\ MaxConns \in Nat \ {0}
  /\ MaxPushes \in Nat /\ MaxLessons \in Nat
PROOF
  BY ClientAssumption

LEMMA AppendOK ==
  ASSUME NEW S, NEW s \in Seq(S), NEW e \in S
  PROVE  Append(s, e) \in Seq(S) /\ <<e>> \in Seq(S)
PROOF
  OBVIOUS

(* An appended element is the last one, the others keep their places; a    *)
(* tail moves every element one place forward.                             *)
LEMMA AppendPlaces ==
  ASSUME NEW S, NEW s \in Seq(S), NEW e \in S
  PROVE  /\ Len(Append(s, e)) = Len(s) + 1 /\ Append(s, e)[Len(s) + 1] = e
         /\ \A i \in 1 .. Len(s) : Append(s, e)[i] = s[i]
PROOF
  OBVIOUS

LEMMA TailPlaces ==
  ASSUME NEW S, NEW s \in Seq(S), s # <<>>
  PROVE  /\ Len(s) \in Nat \ {0} /\ Head(s) = s[1]
         /\ Len(Tail(s)) = Len(s) - 1
         /\ \A i \in 1 .. Len(Tail(s)) : i + 1 \in 1 .. Len(s) /\ Tail(s)[i] = s[i + 1]
PROOF
  OBVIOUS

LEMMA CutPlaces ==
  ASSUME NEW S, NEW s \in Seq(S), NEW n \in 0 .. Len(s)
  PROVE  /\ SubSeq(s, 1, n) \in Seq(S) /\ Len(SubSeq(s, 1, n)) = n
         /\ \A i \in 1 .. n : i \in 1 .. Len(s) /\ SubSeq(s, 1, n)[i] = s[i]
PROOF
  OBVIOUS

LEMMA PackageOK ==
  ASSUME NEW label \in Labels, NEW id \in Nat, NEW upto \in 0 .. MaxRequests,
         NEW more \in BOOLEAN
  PROVE  Package(label, id, upto, more) \in AnswerSet
PROOF
  BY DEF Package, AnswerSet

(* The lesson a connection begins with is all that is on its way.          *)
LEMMA ConnectionBegins ==
  ASSUME PlacesOK, Connection
  PROVE  \E e \in AnswerSet : e.label = "SKBJ" /\ toClient' = <<e>>
PROOF
  <1>1. PICK more \in Cuts("SKBJ") : toClient' = <<Package("SKBJ", lesson, 0, more)>>
    BY DEF Connection
  <1>2. Package("SKBJ", lesson, 0, more) \in AnswerSet
    BY <1>1, PackageOK, Bounds DEF Cuts, Labels, PlacesOK
  <1> QED
    BY <1>1, <1>2 DEF Package

(* What the server does with the first request: the packages of a file     *)
(* leave it where it is, but for the last; an answer carries its number.   *)
ServeAdds(r, e) ==
  /\ r.kind \in Kinds
  /\ e.label = Label[r.kind] /\ e.id = r.id
  /\ toClient' = Append(toClient, e)

LEMMA ServeSteps ==
  ASSUME AppOK, PlacesOK, WiresOK, Serve, NEW r, r = Head(toServer)
  PROVE  /\ r \in RequestSet /\ troubles \subseteq troubles'
         /\ troubles' \subseteq troubles \cup {"server"}
         /\ \/ /\ toServer' = Tail(toServer)
               /\ \E e \in AnswerSet :
                    /\ ServeAdds(r, e)
                    /\ e.label = "WJLB" /\ "server" \notin troubles' => e.upto = stored
               /\ stored' = stored
            \/ /\ r.part + 1 < MaxPackages
               /\ toServer' = [toServer EXCEPT ![1].part = @ + 1]
               /\ \E e \in AnswerSet : ServeAdds(r, e) /\ e.more
               /\ stored' = stored
            \/ /\ toServer' = Tail(toServer) /\ toClient' = toClient
               /\ r.kind = "UpperFile" \/ r.kind \in Kinds
               /\ \/ stored' = Stored(r)
                  \/ stored' = stored /\ "server" \in troubles'
PROOF
  <1>1. r \in RequestSet
    BY DEF Serve, WiresOK
  <1>2. /\ r.id \in Nat /\ r.kind \in Kinds \cup {"UpperFile"} /\ 0 \in 0 .. MaxRequests
        /\ stored \in 0 .. MaxRequests
    BY <1>1, Bounds DEF RequestSet, PlacesOK
  <1>3. CASE ServeMessage
    <2>1. r.kind \in {"GetFileList", "GetDeviceNum"} /\ toServer' = Tail(toServer)
          /\ stored' = stored
      BY <1>3 DEF ServeMessage
    <2>2. PICK more \in Cuts(Label[r.kind]) :
            \/ /\ toClient' = Append(toClient, Package(Label[r.kind], r.id, stored, more))
               /\ UNCHANGED troubles
            \/ /\ "server" \in faults /\ r.kind = "GetFileList"
               /\ toClient' = Append(toClient, Package("WJLB", r.id, 0, more))
               /\ troubles' = troubles \cup {"server"}
      BY <1>3 DEF ServeMessage
    <2>3. more \in BOOLEAN /\ Label[r.kind] \in Labels /\ r.kind \in Kinds
      BY <2>1, <2>2 DEF Cuts, Label, Labels, Kinds
    <2>4. /\ Package(Label[r.kind], r.id, stored, more) \in AnswerSet
          /\ Package(Label[r.kind], r.id, 0, more) \in AnswerSet
      BY <1>2, <2>3, PackageOK
    <2>5. CASE /\ toClient' = Append(toClient, Package(Label[r.kind], r.id, stored, more))
               /\ UNCHANGED troubles
      BY <1>1, <2>1, <2>3, <2>4, <2>5 DEF ServeAdds, Package
    <2>6. CASE /\ r.kind = "GetFileList"
               /\ toClient' = Append(toClient, Package("WJLB", r.id, 0, more))
               /\ troubles' = troubles \cup {"server"}
      <3>1. Label[r.kind] = "WJLB"
        BY <2>6 DEF Label
      <3> QED
        BY <1>1, <2>1, <2>3, <2>4, <2>6, <3>1 DEF ServeAdds, Package
    <2> QED
      BY <2>2, <2>5, <2>6
  <1>4. CASE ServePackage
    <2>1. r.kind \in Kinds /\ Label[r.kind] = "CXWJ" /\ stored' = stored
          /\ troubles' = troubles
      BY <1>4 DEF ServePackage, Kinds, Label
    <2>2. /\ Package("CXWJ", r.id, 0, TRUE) \in AnswerSet
          /\ Package("CXWJ", r.id, 0, FALSE) \in AnswerSet
      BY <1>2, PackageOK DEF Labels
    <2>3. CASE /\ r.part + 1 < MaxPackages
               /\ toClient' = Append(toClient, Package("CXWJ", r.id, 0, TRUE))
               /\ toServer' = [toServer EXCEPT ![1].part = @ + 1]
      BY <1>1, <2>1, <2>2, <2>3 DEF ServeAdds, Package
    <2>4. CASE /\ toClient' = Append(toClient, Package("CXWJ", r.id, 0, FALSE))
               /\ toServer' = Tail(toServer)
      BY <1>1, <2>1, <2>2, <2>4 DEF ServeAdds, Package
    <2> QED
      BY <1>4, <2>3, <2>4 DEF ServePackage
  <1>5. CASE ServeMissing
    BY <1>1, <1>5 DEF ServeMissing, Stored, Kinds
  <1>6. CASE ServeUpload
    BY <1>1, <1>6 DEF ServeUpload
  <1> QED
    BY <1>3, <1>4, <1>5, <1>6 DEF Serve

(* The server adds to an answer only files and lessons of its own.         *)
LEMMA PushAdds ==
  ASSUME PlacesOK, Push \/ NewLesson, toClient' # toClient
  PROVE  \E e \in AnswerSet : /\ toClient' = Append(toClient, e)
                              /\ e.label = "SKBJ" \/ (e.label = "CXWJ" /\ e.id = 0)
PROOF
  <1>1. CASE Push
    <2>1. PICK more \in BOOLEAN : toClient' = Append(toClient, Package("CXWJ", 0, 0, more))
      BY <1>1 DEF Push
    <2>2. Package("CXWJ", 0, 0, more) \in AnswerSet
      BY PackageOK, Bounds DEF Labels
    <2> QED
      BY <2>1, <2>2 DEF Package
  <1>2. CASE NewLesson
    <2>1. PICK more \in Cuts("SKBJ") :
            toClient' = Append(toClient, Package("SKBJ", lesson', 0, more))
      BY <1>2 DEF NewLesson
    <2>2. lesson' \in Nat
      BY <1>2, Bounds DEF NewLesson, PlacesOK
    <2>3. Package("SKBJ", lesson', 0, more) \in AnswerSet
      BY <2>1, <2>2, PackageOK, Bounds DEF Labels, Cuts
    <2> QED
      BY <2>1, <2>3 DEF Package
  <1> QED
    BY <1>1, <1>2

(* A request of which another package was sent stays what it was.          *)
LEMMA PartPlaces ==
  ASSUME WiresOK, toServer # <<>>, Head(toServer).part + 1 < MaxPackages,
         toServer' = [toServer EXCEPT ![1].part = @ + 1]
  PROVE  /\ toServer' \in Seq(RequestSet) /\ Len(toServer') = Len(toServer)
         /\ \A i \in 1 .. Len(toServer) :
              toServer'[i].id = toServer[i].id /\ toServer'[i].kind = toServer[i].kind
PROOF
  <1>1. /\ toServer \in Seq(RequestSet) /\ Len(toServer) \in Nat
        /\ 1 \in 1 .. Len(toServer) /\ Head(toServer) = toServer[1]
        /\ toServer[1] \in RequestSet
    BY DEF WiresOK
  <1> DEFINE r == [toServer[1] EXCEPT !.part = @ + 1]
  <1>2. r \in RequestSet /\ r.id = toServer[1].id /\ r.kind = toServer[1].kind
    <2>1. ASSUME NEW q \in RequestSet, q.part + 1 < MaxPackages
          PROVE  LET t == [q EXCEPT !.part = @ + 1]
                 IN  t \in RequestSet /\ t.id = q.id /\ t.kind = q.kind
      BY <2>1, Bounds DEF RequestSet
    <2> QED
      BY <1>1, <2>1
  <1>3. toServer' = [toServer EXCEPT ![1] = r]
    OBVIOUS
  <1> HIDE DEF r
  <1> QED
    BY <1>1, <1>2, <1>3

(* A request that begins is a new one.                                     *)
LEMMA RequestBegins ==
  ASSUME AppOK, Request
  PROVE  /\ AppOK'
         /\ app'.pc \in {"idle", "reset", "upload"}
         /\ app'.id = app.id + 1 /\ app'.worker = app.worker
PROOF
  <1> USE Bounds DEF AppOK
  <1>1. app.id + 1 \in 0 .. MaxRequests /\ app.id + 1 # 0 /\ 0 \in 0 .. MaxConns
    <2>1. app.id < MaxRequests
      BY DEF Request
    <2> QED
      BY <2>1
  <1>2. CASE \E kind \in Kinds :
               app' = [app EXCEPT !.pc = "reset", !.kind = kind, !.id = @ + 1]
    BY <1>1, <1>2
  <1>3. CASE app' = [app EXCEPT !.pc = "upload", !.id = @ + 1]
    BY <1>1, <1>3
  <1>4. CASE app' = [app EXCEPT !.id = @ + 1] /\ app.pc = "idle"
    BY <1>1, <1>4
  <1> QED
    BY <1>2, <1>3, <1>4 DEF Request

LEMMA AppInductive ==
  ASSUME AppOK, PlacesOK, [Next]_vars
  PROVE  AppOK'
PROOF
  <1> USE Bounds DEF AppOK, PlacesOK, Kinds
  <1>1. CASE InitConnects \/ InitDone
    BY <1>1 DEF InitConnects, InitDone
  <1>2. CASE Request
    BY <1>2, RequestBegins DEF AppOK
  <1>3. CASE Upload \/ Reset \/ Send \/ Enter
    BY <1>3 DEF Upload, Reset, Send, Enter
  <1>4. CASE Wake \/ WakeStale
    BY <1>4 DEF Wake, WakeStale
  <1>5. CASE UNCHANGED app
    BY <1>5
  <1>6. CASE Return
    <2>1. 0 \in 0 .. MaxConns
      OBVIOUS
    <2>2. app' = [app EXCEPT !.pc = "idle", !.kind = "GetFileList", !.worker = 0, !.sent = 0]
      BY <1>6 DEF Return
    <2> QED
      BY <2>1, <2>2
  <1> QED
    BY <1>1, <1>2, <1>3, <1>4, <1>5, <1>6
       DEF Next, InCall, Serve, Push, NewLesson, Drop, Dispatch, Receive, Process, EventCb,
           DispatchEnds, Svc, Heartbeat, FreeOld, ConnectFails, ConnectSucceeds, Restart,
           SetConnected, vars

LEMMA PlacesInductive ==
  ASSUME AppOK, PlacesOK, WiresOK, [Next]_vars
  PROVE  PlacesOK'
PROOF
  <1> USE Bounds
      DEF AppOK, PlacesOK, Kinds, netVars, workerVars, dataVars, answerVars
  <1>1. ASSUME Connection PROVE m_spWorker' \in 0 .. MaxConns /\ m_spWorker' = conns'
    BY <1>1 DEF Connection
  <1>2. CASE InitConnects \/ ConnectSucceeds
    BY <1>2 DEF InitConnects, ConnectSucceeds, Connection, Nothing, Labels
  <1>3. CASE InitDone
    BY <1>3 DEF InitDone
  <1>4. CASE Request
    <2>1. UNCHANGED <<netVars, workerVars, dispatch, svc>>
      BY <1>4 DEF Request
    <2> QED
      BY <1>4, <2>1, RequestBegins
  <1>5. CASE Upload
    BY <1>5 DEF Upload
  <1>6. CASE Reset
    BY <1>6 DEF Reset, FlagReset
  <1>7. CASE Send
    BY <1>7 DEF Send
  <1>8. CASE Enter
    BY <1>8 DEF Enter
  <1>9. CASE Wake \/ WakeStale
    BY <1>9 DEF Wake, WakeStale
  <1>19. CASE Return
    <2>1. app'.pc = "idle" /\ app'.worker = 0 /\ UNCHANGED <<netVars, workerVars, dispatch, svc>>
      BY <1>19 DEF Return
    <2> QED
      BY <2>1
  <1>10. CASE Serve
    <2> DEFINE r == Head(toServer)
    <2>1. /\ UNCHANGED <<app, link, conns, pushes, lesson, m_spWorker, dispatch, svc>>
          /\ UNCHANGED <<m_cmdFinishFlag, received, listed, uploaded>>
      BY <1>10 DEF Serve
    <2>2. /\ r \in RequestSet
          /\ stored' = stored \/ stored' = Stored(r)
      BY <1>10, ServeSteps
    <2>3. stored' \in 0 .. MaxRequests
      BY <2>2 DEF Stored, RequestSet
    <2> HIDE DEF r
    <2> QED
      BY <2>1, <2>2, <2>3
  <1>11. CASE Push
    BY <1>11 DEF Push
  <1>12. CASE NewLesson
    BY <1>12 DEF NewLesson
  <1>13. CASE Drop
    BY <1>13 DEF Drop
  <1>14. CASE Receive
    BY <1>14 DEF Receive
  <1>18. CASE Process
    <2> DEFINE e == Head(toClient)
    <2>1. e \in AnswerSet
      BY <1>18 DEF Process, WiresOK
    <2>2. /\ UNCHANGED <<app, link, conns, pushes, lesson, stored, m_spWorker, dispatch, svc>>
          /\ UNCHANGED uploaded
      BY <1>18 DEF Process
    <2>3. CASE Keep
      BY <2>2, <2>3 DEF Keep
    <2>4. CASE Execute
      <3>1. /\ m_cmdFinishFlag' \in {m_cmdFinishFlag, 1}
            /\ listed' \in {listed, e.upto}
            /\ received' = [received EXCEPT ![e.label] = e.id]
        BY <2>4 DEF Execute, ReceivedAfter, ListAfter, FlagAfter
      <3>2. e.label \in Labels /\ e.id \in Nat /\ e.upto \in 0 .. MaxRequests
        BY <2>1 DEF AnswerSet
      <3> HIDE DEF e
      <3> QED
        BY <2>2, <3>1, <3>2
    <2>5. CASE ExecuteSpoiled
      <3>1. /\ m_cmdFinishFlag' \in {m_cmdFinishFlag, 1}
            /\ listed' \in {listed, 0}
            /\ received' \in {received, [received EXCEPT ![e.label] = 0]}
        BY <2>5 DEF ExecuteSpoiled, FlagAfter
      <3>2. e.label \in Labels /\ 0 \in Nat /\ 0 \in 0 .. MaxRequests
        BY <2>1 DEF AnswerSet
      <3> HIDE DEF e
      <3> QED
        BY <2>2, <3>1, <3>2
    <2>6. CASE OpenFails
      BY <2>2, <2>6 DEF OpenFails
    <2> QED
      BY <1>18, <2>3, <2>4, <2>5, <2>6 DEF Process
  <1>15. CASE EventCb \/ DispatchEnds
    BY <1>15 DEF EventCb, DispatchEnds
  <1>16. CASE Heartbeat \/ FreeOld \/ ConnectFails \/ Restart \/ SetConnected
    BY <1>16, ZenonT(40) DEF Heartbeat, FreeOld, ConnectFails, Restart, SetConnected, vars
  <1>17. CASE UNCHANGED vars
    BY <1>17 DEF vars
  <1> QED
    BY <1>2, <1>3, <1>4, <1>5, <1>6, <1>7, <1>8, <1>9, <1>10, <1>11, <1>12, <1>13,
       <1>14, <1>15, <1>16, <1>17, <1>18, <1>19
       DEF Next, InCall, Dispatch, Svc

(* What is kept of a message came in the first package of one that was too *)
(* long.                                                                   *)
LEMMA TroublesInductive ==
  ASSUME AppOK, PlacesOK, WiresOK, TroublesOK, [Next]_vars
  PROVE  TroublesOK'
PROOF
  <1> USE DEF TroublesOK
  <1>1. CASE InitConnects \/ ConnectSucceeds
    BY <1>1 DEF InitConnects, ConnectSucceeds, Connection
  <1>2. CASE Serve
    <2>1. /\ troubles \subseteq troubles' /\ troubles' \subseteq troubles \cup {"server"}
      BY <1>2, ServeSteps
    <2>2. fragment' = fragment
      BY <1>2 DEF Serve, dataVars
    <2> QED
      BY <2>1, <2>2
  <1>3. CASE Process
    <2>1. /\ fragment' \in {fragment, TRUE, FALSE}
          /\ fragment' => fragment \/ "long" \in troubles'
          /\ \/ troubles' = troubles
             \/ \E t \in {"long", "push", "open"} : troubles' = troubles \cup {t}
      <3>1. CASE Keep
        BY <3>1 DEF Keep
      <3>2. CASE Execute
        BY <3>2 DEF Execute
      <3>3. CASE ExecuteSpoiled
        BY <3>3 DEF ExecuteSpoiled
      <3>4. CASE OpenFails
        BY <3>4 DEF OpenFails
      <3> QED
        BY <1>3, <3>1, <3>2, <3>3, <3>4 DEF Process
    <2> QED
      BY <2>1
  <1>4. CASE UNCHANGED <<fragment, troubles>>
    BY <1>4
  <1> QED
    BY <1>1, <1>2, <1>3, <1>4
       DEF Next, InCall, InitDone, Request, Upload, Reset, Send, Enter, Wake, WakeStale,
           Return, Push, NewLesson, Drop, Dispatch, Receive, EventCb, DispatchEnds, Svc,
           Heartbeat, FreeOld, ConnectFails, Restart, SetConnected, vars, workerVars,
           dataVars, answerVars

LEMMA WiresInductive ==
  ASSUME AppOK, PlacesOK, WiresOK, [Next]_vars
  PROVE  WiresOK'
PROOF
  <1> USE Bounds DEF WiresOK, netVars
  <1>1. CASE InitConnects \/ ConnectSucceeds
    <2>1. toServer' = toServer /\ inData' = 0 /\ processing' = FALSE
      BY <1>1 DEF InitConnects, ConnectSucceeds, Connection
    <2>2. PICK e \in AnswerSet : toClient' = <<e>>
      BY <1>1, ConnectionBegins DEF InitConnects, ConnectSucceeds
    <2> QED
      BY <2>1, <2>2
  <1>2. CASE Upload \/ Send
    <2> DEFINE u == [kind |-> "UpperFile", id |-> app.id, part |-> 0]
               e == [kind |-> app.kind, id |-> app.id, part |-> 0]
    <2>1. app.pc \in {"upload", "send"}
      BY <1>2 DEF Upload, Send
    <2>2. u \in RequestSet /\ e \in RequestSet
      BY <2>1 DEF RequestSet, AppOK, PlacesOK
    <2>3. Append(toServer, u) \in Seq(RequestSet) /\ Append(toServer, e) \in Seq(RequestSet)
      BY <2>2, AppendOK
    <2>4. UNCHANGED <<toClient, inData, processing>>
      BY <1>2 DEF Upload, Send, workerVars, dataVars
    <2>5. toServer' \in {toServer, Append(toServer, u), Append(toServer, e)}
      BY <1>2 DEF Upload, Send
    <2> HIDE DEF u, e
    <2> QED
      BY <2>3, <2>4, <2>5
  <1>12. ASSUME NEW e \in AnswerSet, toClient' = Append(toClient, e),
                UNCHANGED <<inData, processing>>
         PROVE  /\ toClient' \in Seq(AnswerSet) /\ inData' \in 0 .. Len(toClient')
                /\ (processing' => inData' > 0)
    BY <1>12, AppendPlaces, AppendOK
  <1>3. CASE Serve
    <2>1. UNCHANGED <<inData, processing>> /\ toServer # <<>>
      BY <1>3 DEF Serve, dataVars
    <2>2. toServer' \in Seq(RequestSet)
      <3>1. \/ toServer' = Tail(toServer)
            \/ /\ Head(toServer).part + 1 < MaxPackages
               /\ toServer' = [toServer EXCEPT ![1].part = @ + 1]
        BY <1>3, ServeSteps
      <3>2. Tail(toServer) \in Seq(RequestSet)
        BY <2>1
      <3> QED
        BY <2>1, <3>1, <3>2, PartPlaces
    <2>3. toClient' = toClient \/ \E e \in AnswerSet : toClient' = Append(toClient, e)
      BY <1>3, ServeSteps DEF ServeAdds
    <2> QED
      BY <1>12, <2>1, <2>2, <2>3
  <1>4. CASE Push \/ NewLesson
    <2>1. UNCHANGED <<toServer, inData, processing>>
      BY <1>4 DEF Push, NewLesson, workerVars, dataVars
    <2>2. CASE toClient' # toClient
      BY <1>4, <1>12, <2>1, <2>2, PushAdds
    <2> QED
      BY <2>1, <2>2
  <1>6. CASE Drop
    <2>1. PICK n \in inData .. Len(toClient) : toClient' = SubSeq(toClient, 1, n)
      BY <1>6 DEF Drop
    <2>2. toServer' = <<>> /\ UNCHANGED <<inData, processing>>
      BY <1>6 DEF Drop, workerVars, dataVars
    <2> QED
      BY <2>1, <2>2, CutPlaces
  <1>7. CASE Receive
    BY <1>7 DEF Receive
  <1>8. CASE Process
    <2>1. /\ toServer' = toServer /\ toClient' = Tail(toClient)
          /\ inData' = inData - 1 /\ processing
          /\ processing' => inData > 1
      BY <1>8 DEF Process, Keep, Execute, ExecuteSpoiled, OpenFails
    <2>2. toClient # <<>>
      BY <2>1
    <2>3. Tail(toClient) \in Seq(AnswerSet) /\ Len(Tail(toClient)) = Len(toClient) - 1
      BY <2>2
    <2> QED
      BY <2>1, <2>3
  <1>9. CASE FreeOld
    BY <1>9 DEF FreeOld
  <1>10. CASE UNCHANGED <<toServer, toClient, inData, processing>>
    BY <1>10
  <1> QED
    BY <1>1, <1>2, <1>3, <1>4, <1>6, <1>7, <1>8, <1>9, <1>10
       DEF Next, InCall, InitDone, Request, Reset, Enter, Wake, WakeStale, Return,
           Dispatch, EventCb, DispatchEnds, Svc, Heartbeat, ConnectFails, Restart,
           SetConnected, vars, workerVars, dataVars

LEMMA FlagsInductive ==
  ASSUME FlagsOK, [Next]_vars
  PROVE  FlagsOK'
PROOF
  <1> USE DEF FlagsOK, netVars, workerVars, dataVars, answerVars, vars, Next, InitConnects,
              Connection, InitDone, Connected, Request, InCall, Upload, Reset, Send, Enter,
              Wake, WakeStale, Return, Serve, Push, NewLesson, Drop, Dispatch, Receive,
              Process, EventCb, DispatchEnds, Svc, Heartbeat, FreeOld, ConnectFails,
              ConnectSucceeds, Restart, SetConnected
  <1>1. m_bConnect' \in BOOLEAN
    OBVIOUS
  <1>2. bevLive' \in BOOLEAN
    OBVIOUS
  <1>3. faults' \in FaultSets
    OBVIOUS
  <1>4. undefined' \in BOOLEAN
    OBVIOUS
  <1> QED
    BY <1>1, <1>2, <1>3, <1>4

LEMMA PlacesAlways == Spec => [](AppOK /\ PlacesOK /\ WiresOK /\ TroublesOK)
PROOF
  <1>1. Init => AppOK /\ PlacesOK /\ WiresOK /\ TroublesOK
    <2> SUFFICES ASSUME Init PROVE AppOK /\ PlacesOK /\ WiresOK /\ TroublesOK
      OBVIOUS
    <2>1. AppOK
      BY Bounds DEF Init, AppOK, Kinds
    <2>2. PlacesOK
      BY Bounds DEF Init, PlacesOK, Labels, Nothing
    <2>3. WiresOK
      BY DEF Init, WiresOK
    <2>4. TroublesOK
      BY DEF Init, TroublesOK
    <2> QED
      BY <2>1, <2>2, <2>3, <2>4
  <1>2. AppOK /\ PlacesOK /\ WiresOK /\ TroublesOK /\ [Next]_vars
          => (AppOK /\ PlacesOK /\ WiresOK /\ TroublesOK)'
    BY AppInductive, PlacesInductive, WiresInductive, TroublesInductive
  <1> QED
    BY <1>1, <1>2, PTL DEF Spec

(* Every reachable state is well typed: the wait flag is "reset" or "set", *)
(* a call waits in a worker that was made, and what the dispatch thread    *)
(* takes is there.                                                         *)
THEOREM TypeCorrect == Spec => []TypeOK
PROOF
  <1>1. Init => FlagsOK
    BY DEF Init, FlagsOK
  <1>2. FlagsOK /\ [Next]_vars => FlagsOK'
    BY FlagsInductive
  <1>3. AppOK /\ PlacesOK /\ WiresOK /\ TroublesOK /\ FlagsOK => TypeOK
    BY DEF AppOK, PlacesOK, WiresOK, TroublesOK, FlagsOK, TypeOK, RequestSet, AnswerSet
  <1> QED
    BY <1>1, <1>2, <1>3, PlacesAlways, PTL DEF Spec
-----------------------------------------------------------------------------
(* Without a connection nothing is on its way; it stays so until the next  *)
(* one is made.                                                            *)
LinkInv ==
  /\ link = "none" => toServer = <<>> /\ toClient = <<>>
  /\ link = "closed" => toServer = <<>>
  /\ svc = "connecting" \/ app.pc = "start" => link = "none" /\ ~ bevLive
  /\ app.pc = "start" => svc = "off"

(* Places of requests that will be answered, and of packages that end an   *)
(* answer to a request: those set the flag.                                *)
Asked(i) == i \in 1 .. Len(toServer) /\ toServer[i].kind # "UpperFile"
Answering(i) ==
  /\ i \in 1 .. Len(toClient)
  /\ toClient[i].label # "SKBJ" /\ toClient[i].id # 0 /\ ~ toClient[i].more
Waiting == app.pc \in {"enter", "wait"}

(* There is one answer at most on its way or to come, and it is the one    *)
(* that is waited for.                                                     *)
OneAnswer ==
  /\ \A i \in Nat : Asked(i) =>
       toServer[i].id = app.id /\ toServer[i].kind = app.kind /\ Waiting /\ m_cmdFinishFlag = -1
  /\ \A i \in Nat : Answering(i) =>
       toClient[i].id = app.id /\ toClient[i].label = Label[app.kind] /\ Waiting
         /\ m_cmdFinishFlag = -1
  /\ \A i, k \in Nat : Asked(i) /\ Asked(k) => i = k
  /\ \A i, k \in Nat : Answering(i) /\ Answering(k) => i = k
  /\ \A i, k \in Nat : ~ (Asked(i) /\ Answering(k))

OwnFlag ==
  /\ app.pc = "send" => m_cmdFinishFlag = -1
  /\ Waiting /\ m_cmdFinishFlag = 1 /\ (app.pc = "wait" => app.worker = m_spWorker) =>
       received[Label[app.kind]] = app.id
  /\ app.pc = "return" /\ app.worker = m_spWorker => received[Label[app.kind]] = app.id

Numbered ==
  \A i \in 1 .. Len(toClient) : toClient[i].label \in {"WJLB", "SBBH"} => toClient[i].id # 0

(* Nothing has come in that excuses a wrong answer.                        *)
Undisturbed == troubles \subseteq {"server"}

OwnInv == ~ undefined /\ Undisturbed => OneAnswer /\ OwnFlag

LEMMA LinkInductive ==
  ASSUME AppOK, PlacesOK, WiresOK, LinkInv, [Next]_vars
  PROVE  LinkInv'
PROOF
  <1> USE DEF LinkInv, netVars, workerVars, dataVars, answerVars
  <1>1. CASE InitConnects
    BY <1>1 DEF InitConnects, Connection, AppOK
  <1>2. CASE ConnectSucceeds
    BY <1>2 DEF ConnectSucceeds, Connection
  <1>3. CASE InitDone
    BY <1>3 DEF InitDone, AppOK
  <1>4. CASE Reset \/ Enter
    <2>1. app'.pc # "start" /\ UNCHANGED <<link, toServer, toClient, bevLive, svc>>
      BY <1>4 DEF Reset, Enter, AppOK
    <2>2. svc = "connecting" => link = "none" /\ ~ bevLive
      OBVIOUS
    <2> QED
      BY <2>1, <2>2
  <1>5. CASE Request
    <2>1. app'.pc # "start" /\ app.pc # "start"
      BY <1>5, RequestBegins DEF Request
    <2> QED
      BY <1>5, <2>1 DEF Request
  <1>6. CASE Upload \/ Send
    <2>1. app'.pc # "start"
      BY <1>6 DEF Upload, Send, AppOK
    <2>2. CASE link = "up"
      BY <1>6, <2>1, <2>2 DEF Upload, Send
    <2>3. CASE link # "up"
      BY <1>6, <2>1, <2>3 DEF Upload, Send
    <2> QED
      BY <2>2, <2>3
  <1>7. CASE Wake \/ WakeStale \/ Return
    <2>1. app'.pc # "start" /\ UNCHANGED <<link, toServer, toClient, bevLive, svc>>
      BY <1>7 DEF Wake, WakeStale, Return, AppOK
    <2>2. app.pc # "start"
      BY <1>7 DEF Wake, WakeStale, Return
    <2> QED
      BY <2>1, <2>2
  <1>8. CASE Serve
    BY <1>8 DEF Serve
  <1>9. CASE Push
    BY <1>9 DEF Push
  <1>10. CASE NewLesson
    BY <1>10 DEF NewLesson
  <1>11. CASE Drop
    BY <1>11 DEF Drop
  <1>12. CASE Receive
    BY <1>12 DEF Receive
  <1>16. CASE Process
    <2>1. toClient' = Tail(toClient) /\ toClient # <<>>
      BY <1>16 DEF Process, WiresOK
    <2> QED
      BY <1>16, <2>1 DEF Process
  <1>13. CASE EventCb \/ DispatchEnds
    BY <1>13 DEF EventCb, DispatchEnds
  <1>14. CASE FreeOld
    BY <1>14 DEF FreeOld
  <1>15. CASE Heartbeat \/ ConnectFails \/ Restart \/ SetConnected \/ UNCHANGED vars
    BY <1>15 DEF Heartbeat, ConnectFails, Restart, SetConnected, vars
  <1> QED
    BY <1>1, <1>2, <1>3, <1>4, <1>5, <1>6, <1>7, <1>8, <1>9, <1>10, <1>11, <1>12,
       <1>13, <1>14, <1>15, <1>16
       DEF Next, InCall, Dispatch, Svc

LEMMA NumberedInductive ==
  ASSUME AppOK, PlacesOK, WiresOK, LinkInv, Numbered, [Next]_vars
  PROVE  Numbered'
PROOF
  <1> USE DEF Numbered, WiresOK, netVars
  <1>1. CASE InitConnects \/ ConnectSucceeds
    <2>1. PICK e \in AnswerSet : e.label = "SKBJ" /\ toClient' = <<e>>
      BY <1>1, ConnectionBegins DEF InitConnects, ConnectSucceeds
    <2> QED
      BY <2>1
  <1>2. ASSUME NEW e \in AnswerSet, toClient' = Append(toClient, e),
               e.label \in {"WJLB", "SBBH"} => e.id # 0
        PROVE  Numbered'
    <2> SUFFICES ASSUME NEW i \in 1 .. Len(toClient'),
                        toClient'[i].label \in {"WJLB", "SBBH"}
                 PROVE  toClient'[i].id # 0
      OBVIOUS
    <2>1. i \in 1 .. Len(toClient) \/ i = Len(toClient) + 1
      BY <1>2, AppendPlaces
    <2> QED
      BY <1>2, <2>1, AppendPlaces
  <1>3. CASE Serve
    <2>1. CASE UNCHANGED toClient
      BY <2>1
    <2>2. CASE \E e \in AnswerSet : ServeAdds(Head(toServer), e)
      <3>1. PICK e \in AnswerSet : ServeAdds(Head(toServer), e)
        BY <2>2
      <3>2. e.id # 0
        <4>1. Head(toServer) \in RequestSet
          BY <1>3, ServeSteps
        <4>2. e.id = Head(toServer).id /\ e.id \in 1 .. MaxRequests
          BY <3>1, <4>1 DEF ServeAdds, RequestSet
        <4> QED
          BY <4>2, Bounds
      <3> QED
        BY <1>2, <3>1, <3>2 DEF ServeAdds
    <2> QED
      BY <1>3, <2>1, <2>2, ServeSteps
  <1>4. CASE Push \/ NewLesson
    <2>1. CASE UNCHANGED toClient
      BY <2>1
    <2>2. CASE toClient' # toClient
      <3>1. PICK e \in AnswerSet : toClient' = Append(toClient, e)
                                   /\ e.label \in {"CXWJ", "SKBJ"}
        BY <1>4, <2>2, PushAdds
      <3> QED
        BY <1>2, <3>1
    <2> QED
      BY <2>1, <2>2
  <1>6. CASE Drop
    <2>1. PICK n \in inData .. Len(toClient) : toClient' = SubSeq(toClient, 1, n)
      BY <1>6 DEF Drop
    <2> QED
      BY <2>1, CutPlaces
  <1>7. CASE Process
    <2>1. toClient' = Tail(toClient) /\ toClient # <<>>
      BY <1>7 DEF Process
    <2> QED
      BY <2>1, TailPlaces
  <1>8. CASE FreeOld
    BY <1>8 DEF FreeOld
  <1>9. CASE UNCHANGED toClient
    BY <1>9
  <1> QED
    BY <1>1, <1>3, <1>4, <1>6, <1>7, <1>8, <1>9
       DEF Next, InCall, InitDone, Request, Upload, Reset, Send, Enter, Wake, WakeStale,
           Return, Dispatch, Receive, EventCb, DispatchEnds, Svc, Heartbeat, ConnectFails,
           Restart, SetConnected, vars

(* With nothing on its way OneAnswer says nothing.                         *)
LEMMA NothingOnItsWay ==
  ASSUME \A i \in Nat : ~ Asked(i)', \A i \in Nat : ~ Answering(i)'
  PROVE  OneAnswer'
PROOF
  BY DEF OneAnswer

(* Whoever is not waiting has nothing on its way.                          *)
LEMMA NotWaiting ==
  ASSUME OneAnswer, ~ Waiting
  PROVE  \A i \in Nat : ~ Asked(i) /\ ~ Answering(i)
PROOF
  BY DEF OneAnswer

(* A new connection carries a lesson only, and nobody is in its worker.    *)
LEMMA OwnConnection ==
  ASSUME AppOK, PlacesOK, LinkInv, InitConnects \/ ConnectSucceeds
  PROVE  OneAnswer' /\ OwnFlag'
PROOF
  <1>1. toServer' = <<>> /\ m_cmdFinishFlag' = -1 /\ m_spWorker' = m_spWorker + 1
    BY DEF InitConnects, ConnectSucceeds, Connection, LinkInv
  <1>6. PICK e \in AnswerSet : e.label = "SKBJ" /\ toClient' = <<e>>
    BY ConnectionBegins DEF InitConnects, ConnectSucceeds
  <1>2. app' = app \/ app'.pc = "init"
    BY DEF InitConnects, ConnectSucceeds, AppOK
  <1>3. \A i \in Nat : ~ Asked(i)'
    BY <1>1 DEF Asked
  <1>4. \A i \in Nat : ~ Answering(i)'
    BY <1>6 DEF Answering
  <1>5. OwnFlag'
    <2>1. CASE app'.pc = "init"
      BY <2>1 DEF OwnFlag, Waiting
    <2>2. CASE app' = app
      BY <1>1, <2>2, Bounds DEF OwnFlag, Waiting, PlacesOK, AppOK
    <2> QED
      BY <1>2, <2>1, <2>2
  <1> QED
    BY <1>3, <1>4, <1>5, NothingOnItsWay

(* Steps of the application's thread that start outside a wait and send no *)
(* request that is answered.                                               *)
LEMMA OwnOutside ==
  ASSUME AppOK, PlacesOK, WiresOK, OneAnswer, OwnFlag,
         InitDone \/ Request \/ Upload \/ Reset \/ Return
  PROVE  OneAnswer' /\ OwnFlag'
PROOF
  <1>1. ~ Waiting
    BY DEF Waiting, InitDone, Request, Upload, Reset, Return
  <1>2. \A i \in Nat : ~ Asked(i) /\ ~ Answering(i)
    BY <1>1, NotWaiting
  <1>3. toClient' = toClient
    BY DEF InitDone, Request, Upload, Reset, Return, netVars
  <1>4. \A i \in Nat : ~ Asked(i)'
    <2>1. CASE toServer' = toServer
      BY <1>2, <2>1 DEF Asked
    <2>2. CASE Upload /\ toServer' # toServer
      <3> DEFINE e == [kind |-> "UpperFile", id |-> app.id, part |-> 0]
      <3>1. toServer' = Append(toServer, e) /\ app.pc = "upload"
        BY <2>2 DEF Upload
      <3>2. e \in RequestSet
        BY <3>1, Bounds DEF RequestSet, AppOK, PlacesOK
      <3>3. /\ toServer \in Seq(RequestSet) /\ Len(toServer) \in Nat
            /\ Len(toServer') = Len(toServer) + 1 /\ toServer'[Len(toServer) + 1] = e
            /\ \A i \in 1 .. Len(toServer) : toServer'[i] = toServer[i]
        BY <3>1, <3>2, AppendPlaces DEF WiresOK
      <3> HIDE DEF e
      <3>4. e.kind = "UpperFile"
        BY DEF e
      <3> QED
        BY <1>2, <3>3, <3>4 DEF Asked
    <2> QED
      BY <2>1, <2>2 DEF InitDone, Request, Reset, Return, netVars
  <1>5. \A i \in Nat : ~ Answering(i)'
    BY <1>2, <1>3 DEF Answering
  <1>6. OwnFlag'
    <2>1. CASE Request
      BY <2>1, RequestBegins DEF OwnFlag, Waiting
    <2>2. CASE Reset
      BY <2>2 DEF Reset, FlagReset, OwnFlag, Waiting, AppOK
    <2>3. CASE InitDone \/ Upload \/ Return
      BY <2>3 DEF InitDone, Upload, Return, OwnFlag, Waiting, AppOK
    <2> QED
      BY <2>1, <2>2, <2>3
  <1> QED
    BY <1>4, <1>5, <1>6, NothingOnItsWay

(* The request that is sent is the only one on its way.                    *)
LEMMA OwnSend ==
  ASSUME AppOK, PlacesOK, WiresOK, OneAnswer, OwnFlag, Send
  PROVE  OneAnswer' /\ OwnFlag'
PROOF
  <1> DEFINE e == [kind |-> app.kind, id |-> app.id, part |-> 0]
  <1>1. \A i \in Nat : ~ Asked(i) /\ ~ Answering(i)
    BY NotWaiting DEF Waiting, Send
  <1>2. /\ app.pc = "send" /\ app'.pc = "enter" /\ app'.id = app.id
        /\ app'.kind = app.kind /\ m_cmdFinishFlag = -1
        /\ UNCHANGED <<toClient, m_cmdFinishFlag, received, m_spWorker>>
        /\ toServer' = toServer \/ toServer' = Append(toServer, e)
    BY DEF Send, AppOK, OwnFlag, workerVars, dataVars, answerVars
  <1>3. \A i \in Nat : ~ Answering(i)'
    BY <1>1, <1>2 DEF Answering
  <1>4. OwnFlag'
    BY <1>2 DEF OwnFlag, Waiting
  <1>5. CASE toServer' = toServer
    BY <1>1, <1>3, <1>4, <1>5, NothingOnItsWay DEF Asked
  <1>6. CASE toServer' = Append(toServer, e)
    <2>1. e \in RequestSet
      BY <1>2, Bounds DEF RequestSet, AppOK, PlacesOK
    <2>2. /\ Len(toServer) \in Nat
          /\ Len(toServer') = Len(toServer) + 1 /\ toServer'[Len(toServer) + 1] = e
          /\ \A i \in 1 .. Len(toServer) : toServer'[i] = toServer[i]
      BY <1>6, <2>1, AppendPlaces DEF WiresOK
    <2>3. \A i \in Nat : Asked(i)' => i = Len(toServer) + 1
      BY <1>1, <2>2 DEF Asked
    <2>4. \A i \in Nat : Asked(i)' => toServer'[i].id = app.id /\ toServer'[i].kind = app.kind
      BY <2>2, <2>3
    <2>5. Waiting' /\ m_cmdFinishFlag' = -1
      BY <1>2 DEF Waiting
    <2>6. OneAnswer'
      BY <1>2, <1>3, <2>3, <2>4, <2>5 DEF OneAnswer
    <2> QED
      BY <1>4, <2>6
  <1> QED
    BY <1>2, <1>5, <1>6

(* The wait ends only when the answer is there, if its worker is there.    *)
LEMMA OwnWait ==
  ASSUME AppOK, PlacesOK, OneAnswer, OwnFlag, Enter \/ Wake
  PROVE  OneAnswer' /\ OwnFlag'
PROOF
  <1>1. UNCHANGED <<toServer, toClient, m_cmdFinishFlag, received, m_spWorker>>
    BY DEF Enter, Wake, netVars, workerVars, dataVars, answerVars
  <1>2. /\ app'.id = app.id /\ app'.kind = app.kind /\ Waiting
        /\ Enter => app'.pc = "wait"
        /\ Wake => app'.pc = "return" /\ app'.worker = app.worker
    BY DEF Enter, Wake, AppOK, Waiting
  <1>3. CASE Enter
    <2>1. Waiting' /\ app.pc = "enter" /\ app'.pc = "wait"
      BY <1>2, <1>3 DEF Waiting, Enter
    <2>2. OneAnswer'
      BY <1>1, <1>2, <2>1 DEF OneAnswer, Asked, Answering
    <2>3. OwnFlag'
      BY <1>1, <1>2, <2>1 DEF OwnFlag
    <2> QED
      BY <2>2, <2>3
  <1>4. CASE Wake
    <2>1. m_cmdFinishFlag = 1 /\ app.pc = "wait" /\ app.worker = m_spWorker
      BY <1>4 DEF Wake, PlacesOK
    <2>2. \A i \in Nat : ~ Asked(i) /\ ~ Answering(i)
      BY <2>1 DEF OneAnswer
    <2>3. OneAnswer'
      BY <1>1, <2>2, NothingOnItsWay DEF Asked, Answering
    <2>4. OwnFlag'
      BY <1>1, <1>2, <1>4, <2>1 DEF OwnFlag, Waiting
    <2> QED
      BY <2>3, <2>4
  <1> QED
    BY <1>3, <1>4

(* The server answers the one request that is asked, once.                 *)
LEMMA OwnServe ==
  ASSUME AppOK, PlacesOK, WiresOK, OneAnswer, OwnFlag, Serve
  PROVE  OneAnswer' /\ OwnFlag'
PROOF
  <1>1. PICK r : r = Head(toServer)
    OBVIOUS
  <1>2. /\ UNCHANGED <<app, m_cmdFinishFlag, received, m_spWorker>>
        /\ toServer # <<>> /\ toServer \in Seq(RequestSet)
    BY DEF Serve, WiresOK
  <1>3. OwnFlag' /\ Waiting' = Waiting
    BY <1>2 DEF OwnFlag, Waiting
  <1>4. Len(toServer) \in Nat \ {0} /\ r = toServer[1] /\ r \in RequestSet
    BY <1>1, <1>2, TailPlaces
  <1>5. ASSUME toServer' = Tail(toServer)
        PROVE  \A i \in Nat : Asked(i)' => i + 1 \in Nat /\ Asked(i + 1) /\ i + 1 # 1
                                           /\ toServer'[i] = toServer[i + 1]
    <2>1. /\ Len(toServer') = Len(toServer) - 1
          /\ \A i \in 1 .. Len(toServer') : i + 1 \in 1 .. Len(toServer)
                                            /\ toServer'[i] = toServer[i + 1]
      BY <1>2, <1>5, TailPlaces
    <2> QED
      BY <1>4, <2>1 DEF Asked
  <1>6. CASE toServer' = Tail(toServer) /\ toClient' = toClient
    <2>1. \A i \in Nat : Answering(i)' => Answering(i) /\ toClient'[i] = toClient[i]
      BY <1>6 DEF Answering
    <2>6. \A i \in Nat : Asked(i)' => i + 1 \in Nat /\ Asked(i + 1)
                                     /\ toServer'[i] = toServer[i + 1]
      BY <1>5, <1>6
    <2>2. \A i, k \in Nat : Asked(i)' /\ Asked(k)' => i = k
      BY <2>6 DEF OneAnswer
    <2>3. \A i \in Nat : Asked(i)' =>
            toServer'[i].id = app.id /\ toServer'[i].kind = app.kind /\ Waiting
              /\ m_cmdFinishFlag = -1
      BY <2>6 DEF OneAnswer
    <2>4. \A i, k \in Nat : ~ (Asked(i)' /\ Answering(k)')
      BY <2>6, <2>1 DEF OneAnswer
    <2>5. OneAnswer'
      BY <1>2, <1>3, <2>1, <2>2, <2>3, <2>4 DEF OneAnswer
    <2> QED
      BY <1>3, <2>5
  <1>7. ASSUME NEW e \in AnswerSet, ServeAdds(r, e)
        PROVE  /\ Asked(1) /\ 1 \in Nat
               /\ e.id = app.id /\ e.label = Label[app.kind] /\ Waiting
               /\ m_cmdFinishFlag = -1
               /\ \A i \in Nat : ~ Answering(i)
               /\ \A i \in Nat : Answering(i)' =>
                    i = Len(toClient) + 1 /\ toClient'[i] = e /\ ~ e.more
    <2>1. Asked(1) /\ 1 \in Nat
      BY <1>4, <1>7 DEF Asked, Kinds, ServeAdds
    <2>2. r.id = app.id /\ r.kind = app.kind /\ Waiting /\ m_cmdFinishFlag = -1
      BY <1>4, <2>1 DEF OneAnswer
    <2>3. \A i \in Nat : ~ Answering(i)
      BY <2>1 DEF OneAnswer
    <2>4. e.id = app.id /\ e.label = Label[app.kind]
      BY <1>7, <2>2 DEF ServeAdds
    <2>5. /\ Len(toClient) \in Nat
          /\ Len(toClient') = Len(toClient) + 1 /\ toClient'[Len(toClient) + 1] = e
          /\ \A i \in 1 .. Len(toClient) : toClient'[i] = toClient[i]
      BY <1>7, AppendPlaces DEF WiresOK, ServeAdds
    <2>6. \A i \in Nat : Answering(i)' =>
            i = Len(toClient) + 1 /\ toClient'[i] = e /\ ~ e.more
      BY <2>3, <2>5 DEF Answering
    <2> QED
      BY <2>1, <2>2, <2>3, <2>4, <2>6
  <1>8. CASE toServer' = Tail(toServer) /\ \E e \in AnswerSet : ServeAdds(r, e)
    <2>1. PICK e \in AnswerSet : ServeAdds(r, e)
      BY <1>8
    <2>2. /\ Asked(1) /\ 1 \in Nat
          /\ e.id = app.id /\ e.label = Label[app.kind] /\ Waiting
          /\ m_cmdFinishFlag = -1
          /\ \A i \in Nat : Answering(i)' => i = Len(toClient) + 1 /\ toClient'[i] = e
      BY <1>7, <2>1
    <2>3. \A i \in Nat : ~ Asked(i)'
      BY <1>5, <1>8, <2>2 DEF OneAnswer
    <2>4. OneAnswer'
      BY <1>2, <1>3, <2>2, <2>3 DEF OneAnswer
    <2> QED
      BY <1>3, <2>4
  <1>9. CASE /\ r.part + 1 < MaxPackages
             /\ toServer' = [toServer EXCEPT ![1].part = @ + 1]
             /\ \E e \in AnswerSet : ServeAdds(r, e) /\ e.more
    <2>1. PICK e \in AnswerSet : ServeAdds(r, e) /\ e.more
      BY <1>9
    <2>2. \A i \in Nat : ~ Answering(i)'
      BY <1>7, <2>1
    <2>3. /\ Len(toServer') = Len(toServer)
          /\ \A i \in 1 .. Len(toServer) :
               toServer'[i].id = toServer[i].id /\ toServer'[i].kind = toServer[i].kind
      BY <1>1, <1>2, <1>9, PartPlaces
    <2>4. \A i \in Nat : Asked(i)' =>
            /\ Asked(i)
            /\ toServer'[i].id = toServer[i].id /\ toServer'[i].kind = toServer[i].kind
      BY <2>3 DEF Asked
    <2>5. OneAnswer'
      BY <1>2, <1>3, <2>2, <2>4 DEF OneAnswer
    <2> QED
      BY <1>3, <2>5
  <1> QED
    BY <1>1, <1>6, <1>8, <1>9, ServeSteps

(* What the server sends on its own, and what the network loses, adds no   *)
(* answer.                                                                 *)
LEMMA NoAnswerAdded ==
  ASSUME PlacesOK, WiresOK, Push \/ NewLesson \/ Drop \/ FreeOld
  PROVE  \A i \in Nat : Answering(i)' => Answering(i) /\ toClient'[i] = toClient[i]
PROOF
  <1>1. ASSUME NEW e \in AnswerSet, e.label = "SKBJ" \/ e.id = 0,
               toClient' = Append(toClient, e)
        PROVE  \A i \in Nat : Answering(i)' => Answering(i) /\ toClient'[i] = toClient[i]
    <2>1. /\ Len(toClient) \in Nat
          /\ Len(toClient') = Len(toClient) + 1 /\ toClient'[Len(toClient) + 1] = e
          /\ \A i \in 1 .. Len(toClient) : toClient'[i] = toClient[i]
      BY <1>1, AppendPlaces DEF WiresOK
    <2> QED
      BY <1>1, <2>1 DEF Answering
  <1>2. CASE Push \/ NewLesson
    <2>1. CASE toClient' = toClient
      BY <2>1 DEF Answering
    <2>2. CASE toClient' # toClient
      BY <1>1, <1>2, <2>2, PushAdds
    <2> QED
      BY <2>1, <2>2
  <1>4. CASE Drop
    <2>1. PICK n \in 0 .. Len(toClient) : toClient' = SubSeq(toClient, 1, n)
      BY <1>4 DEF Drop, WiresOK
    <2>2. /\ Len(toClient') = n
          /\ \A i \in 1 .. n : i \in 1 .. Len(toClient) /\ toClient'[i] = toClient[i]
      BY <2>1, CutPlaces DEF WiresOK
    <2> QED
      BY <2>2 DEF Answering
  <1>5. CASE FreeOld
    BY <1>5 DEF FreeOld, Answering
  <1> QED
    BY <1>2, <1>4, <1>5

LEMMA OwnServer ==
  ASSUME PlacesOK, WiresOK, OneAnswer, OwnFlag,
         Push \/ NewLesson \/ Drop \/ FreeOld
  PROVE  OneAnswer' /\ OwnFlag'
PROOF
  <1>1. /\ UNCHANGED <<app, m_cmdFinishFlag, received, m_spWorker>>
        /\ toServer' = toServer \/ toServer' = <<>>
    BY DEF Push, NewLesson, Drop, FreeOld, workerVars, dataVars, answerVars
  <1>2. OwnFlag' /\ Waiting' = Waiting
    BY <1>1 DEF OwnFlag, Waiting
  <1>3. \A i \in Nat : Asked(i)' => Asked(i) /\ toServer'[i] = toServer[i]
    BY <1>1 DEF Asked
  <1>4. \A i \in Nat : Answering(i)' => Answering(i) /\ toClient'[i] = toClient[i]
    BY NoAnswerAdded
  <1>5. OneAnswer'
    BY <1>1, <1>2, <1>3, <1>4 DEF OneAnswer
  <1> QED
    BY <1>2, <1>5

(* While nothing excuses a wrong answer, Process keeps a file's package or *)
(* executes one that was asked for, or a lesson.                           *)
LEMMA ProcessSteps ==
  ASSUME WiresOK, TroublesOK, Numbered, Process, Undisturbed', NEW e, e = Head(toClient)
  PROVE  /\ Undisturbed /\ e \in AnswerSet
         /\ toClient # <<>> /\ toClient' = Tail(toClient)
         /\ UNCHANGED <<app, toServer, m_spWorker, uploaded>>
         /\ \/ e.more /\ UNCHANGED <<m_cmdFinishFlag, received, listed>>
            \/ /\ ~ e.more /\ e.label = "SKBJ"
               /\ UNCHANGED <<m_cmdFinishFlag, listed>>
               /\ received' = [received EXCEPT !["SKBJ"] = e.id]
            \/ /\ ~ e.more /\ e.label # "SKBJ" /\ e.id # 0
               /\ m_cmdFinishFlag' = 1 /\ listed' = ListAfter(e)
               /\ received' = [received EXCEPT ![e.label] = e.id]
PROOF
  <1>1. /\ UNCHANGED <<app, toServer, m_spWorker, uploaded>>
        /\ toClient \in Seq(AnswerSet) /\ toClient' = Tail(toClient) /\ toClient # <<>>
    BY DEF Process, WiresOK
  <1>2. /\ Len(toClient) \in Nat \ {0} /\ e = toClient[1] /\ e \in AnswerSet
    BY <1>1, TailPlaces
  <1>3. CASE Keep
    BY <1>1, <1>2, <1>3 DEF Keep, Undisturbed
  <1>4. CASE Execute
    <2>1. /\ ~ e.more
          /\ received' = [received EXCEPT ![e.label] = e.id]
          /\ listed' = ListAfter(e)
          /\ m_cmdFinishFlag' = FlagAfter(e.label)
          /\ troubles' = IF e.label = "CXWJ" /\ e.id = 0
                         THEN troubles \cup {"push"} ELSE troubles
      BY <1>4 DEF Execute, ReceivedAfter
    <2>2. Undisturbed /\ ~ (e.label = "CXWJ" /\ e.id = 0)
      BY <2>1 DEF Undisturbed
    <2>3. CASE e.label = "SKBJ"
      BY <1>1, <1>2, <2>1, <2>2, <2>3 DEF FlagAfter, ListAfter
    <2>4. CASE e.label # "SKBJ"
      <3>1. e.id # 0
        <4>1. e.label \in {"CXWJ", "WJLB", "SBBH"}
          BY <1>2, <2>4 DEF AnswerSet, Labels
        <4> QED
          BY <1>2, <2>2, <4>1 DEF Numbered
      <3> QED
        BY <1>1, <1>2, <2>1, <2>2, <2>4, <3>1 DEF FlagAfter
    <2> QED
      BY <2>3, <2>4
  <1>5. ~ ExecuteSpoiled
    BY DEF ExecuteSpoiled, TroublesOK, Undisturbed
  <1>6. ~ OpenFails
    BY DEF OpenFails, Undisturbed
  <1> QED
    BY <1>3, <1>4, <1>5, <1>6 DEF Process

(* The answer that sets the flag is the one that is waited for.            *)
LEMMA OwnProcess ==
  ASSUME AppOK, PlacesOK, WiresOK, TroublesOK, Numbered, OneAnswer, OwnFlag, Process,
         Undisturbed'
  PROVE  OneAnswer' /\ OwnFlag'
PROOF
  <1>1. PICK e : e = Head(toClient)
    OBVIOUS
  <1>2. /\ e \in AnswerSet /\ toClient # <<>> /\ toClient' = Tail(toClient)
        /\ UNCHANGED <<app, toServer, m_spWorker>>
    BY <1>1, ProcessSteps
  <1>3. /\ Len(toClient) \in Nat \ {0} /\ e = toClient[1]
        /\ Len(toClient') = Len(toClient) - 1
        /\ \A i \in 1 .. Len(toClient') : i + 1 \in 1 .. Len(toClient)
                                          /\ toClient'[i] = toClient[i + 1]
    BY <1>1, <1>2, TailPlaces DEF WiresOK
  <1>4. \A i \in Nat : Answering(i)' => i + 1 \in Nat /\ Answering(i + 1) /\ i + 1 # 1
                                        /\ toClient'[i] = toClient[i + 1]
    BY <1>3 DEF Answering
  <1>5. \A i \in Nat : Asked(i)' => Asked(i) /\ toServer'[i] = toServer[i]
    BY <1>2 DEF Asked
  <1>6. Waiting' = Waiting
    BY <1>2 DEF Waiting
  <1>7. Label[app.kind] \in Labels \ {"SKBJ"} /\ received \in [Labels -> Nat]
    BY DEF AppOK, Kinds, Label, Labels, PlacesOK
  <1>8. CASE UNCHANGED m_cmdFinishFlag
             /\ received'[Label[app.kind]] = received[Label[app.kind]]
    <2>1. OwnFlag'
      BY <1>2, <1>6, <1>8 DEF OwnFlag, Waiting
    <2>2. \A i, k \in Nat : Answering(i)' /\ Answering(k)' => i = k
      BY <1>4 DEF OneAnswer
    <2>3. \A i \in Nat : Answering(i)' =>
            toClient'[i].id = app.id /\ toClient'[i].label = Label[app.kind] /\ Waiting
              /\ m_cmdFinishFlag = -1
      BY <1>4 DEF OneAnswer
    <2>4. \A i, k \in Nat : ~ (Asked(i)' /\ Answering(k)')
      BY <1>4, <1>5 DEF OneAnswer
    <2>5. OneAnswer'
      BY <1>2, <1>5, <1>6, <1>8, <2>2, <2>3, <2>4 DEF OneAnswer
    <2> QED
      BY <2>1, <2>5
  <1>9. CASE /\ ~ e.more /\ e.label # "SKBJ" /\ e.id # 0
             /\ received' = [received EXCEPT ![e.label] = e.id]
    <2>1. Answering(1) /\ 1 \in Nat
      BY <1>3, <1>9 DEF Answering
    <2>2. e.id = app.id /\ e.label = Label[app.kind] /\ Waiting
      BY <1>3, <2>1 DEF OneAnswer
    <2>3. received'[Label[app.kind]] = app.id
      BY <1>7, <1>9, <2>2
    <2>4. OwnFlag'
      BY <1>2, <2>2, <2>3 DEF OwnFlag, Waiting
    <2>5. \A i \in Nat : ~ Asked(i)'
      BY <1>5, <2>1 DEF OneAnswer
    <2>6. \A i \in Nat : ~ Answering(i)'
      BY <1>4, <2>1 DEF OneAnswer
    <2> QED
      BY <2>4, <2>5, <2>6, NothingOnItsWay
  <1> QED
    <2>1. \/ e.more /\ UNCHANGED <<m_cmdFinishFlag, received, listed>>
          \/ /\ ~ e.more /\ e.label = "SKBJ"
             /\ UNCHANGED <<m_cmdFinishFlag, listed>>
             /\ received' = [received EXCEPT !["SKBJ"] = e.id]
          \/ /\ ~ e.more /\ e.label # "SKBJ" /\ e.id # 0
             /\ received' = [received EXCEPT ![e.label] = e.id]
      BY <1>1, ProcessSteps
    <2>2. [received EXCEPT !["SKBJ"] = e.id][Label[app.kind]] = received[Label[app.kind]]
      BY <1>7
    <2> QED
      BY <1>8, <1>9, <2>1, <2>2

(* Other steps leave a connection as disturbed as it was.                  *)
LEMMA StaysUndisturbed ==
  ASSUME WiresOK, AppOK, PlacesOK, [Next]_vars, ~ InitConnects, ~ ConnectSucceeds, ~ Process
  PROVE  /\ Undisturbed' => Undisturbed
         /\ troubles' = {} => troubles = {}
         /\ ~ undefined' => ~ undefined
PROOF
  <1>1. CASE Serve
    <2>1. troubles \subseteq troubles' /\ troubles' \subseteq troubles \cup {"server"}
      BY <1>1, ServeSteps
    <2> QED
      BY <1>1, <2>1 DEF Serve, Undisturbed
  <1>2. CASE UNCHANGED troubles /\ (~ undefined' => ~ undefined)
    BY <1>2 DEF Undisturbed
  <1>3. CASE Upload \/ Send \/ FreeOld
    <2>1. UNCHANGED troubles
      BY <1>3 DEF Upload, Send, FreeOld, workerVars, answerVars
    <2>2. ~ undefined' => ~ undefined
      BY <1>3, Zenon DEF Upload, Send, FreeOld
    <2> QED
      BY <1>2, <2>1, <2>2
  <1>4. CASE WakeStale
    <2>1. UNCHANGED troubles /\ undefined'
      BY <1>4 DEF WakeStale, workerVars, answerVars
    <2> QED
      BY <1>2, <2>1
  <1>5. CASE UNCHANGED <<troubles, undefined>>
    BY <1>2, <1>5
  <1> QED
    BY <1>1, <1>3, <1>4, <1>5
       DEF Next, InCall, InitDone, Request, Reset, Enter, Wake, Return, Push, NewLesson,
           Drop, Dispatch, Receive, EventCb, DispatchEnds, Svc, Heartbeat, ConnectFails,
           Restart, SetConnected, vars, workerVars, answerVars

LEMMA OwnInductive ==
  ASSUME AppOK, PlacesOK, WiresOK, TroublesOK, LinkInv, Numbered, OwnInv, [Next]_vars
  PROVE  OwnInv'
PROOF
  <1> SUFFICES ASSUME ~ undefined', Undisturbed'
               PROVE  OneAnswer' /\ OwnFlag'
    BY DEF OwnInv
  <1>1. CASE InitConnects \/ ConnectSucceeds
    BY <1>1, OwnConnection
  <1>2. CASE Process
    <2>1. ~ undefined /\ Undisturbed
      BY <1>2, ProcessSteps DEF Process
    <2> QED
      BY <1>2, <2>1, OwnProcess DEF OwnInv
  <1>3. CASE ~ InitConnects /\ ~ ConnectSucceeds /\ ~ Process
    <2> USE <1>3
    <2>1. OneAnswer /\ OwnFlag
      BY StaysUndisturbed DEF OwnInv
    <2>2. CASE InitDone \/ Request \/ Upload \/ Reset \/ Return
      BY <2>1, <2>2, OwnOutside
    <2>3. CASE Send
      BY <2>1, <2>3, OwnSend
    <2>4. CASE Enter \/ Wake
      BY <2>1, <2>4, OwnWait
    <2>5. CASE WakeStale
      BY <2>5 DEF WakeStale
    <2>6. CASE Serve
      BY <2>1, <2>6, OwnServe
    <2>7. CASE Push \/ NewLesson \/ Drop \/ FreeOld
      BY <2>1, <2>7, OwnServer
    <2>8. CASE Receive \/ EventCb \/ DispatchEnds \/ Heartbeat \/ ConnectFails \/ Restart
               \/ SetConnected \/ UNCHANGED vars
      <3>1. UNCHANGED <<app, toServer, toClient, m_cmdFinishFlag, received, m_spWorker>>
        BY <2>8 DEF Receive, EventCb, DispatchEnds, Heartbeat, ConnectFails, Restart,
                    SetConnected, vars, netVars, workerVars, answerVars
      <3> QED
        BY <2>1, <3>1 DEF OneAnswer, OwnFlag, Asked, Answering, Waiting
    <2> QED
      BY <2>2, <2>3, <2>4, <2>5, <2>6, <2>7, <2>8 DEF Next, InCall, Dispatch, Svc
  <1> QED
    BY <1>1, <1>2, <1>3

(* A call returns the answer to its own request: from the flag's reset to  *)
(* the call's return one answer at most is on its way or to come, and no   *)
(* other sets the flag.                                                    *)
THEOREM AnswerOwnCorrect == Spec => AnswerOwn
PROOF
  <1>1. Init => LinkInv /\ Numbered /\ OwnInv
    BY DEF Init, LinkInv, Numbered, OwnInv, OneAnswer, OwnFlag, Asked, Answering, Waiting
  <1>2. AppOK /\ PlacesOK /\ WiresOK /\ TroublesOK /\ LinkInv /\ Numbered /\ OwnInv
          /\ [Next]_vars
          => (LinkInv /\ Numbered /\ OwnInv)'
    BY LinkInductive, NumberedInductive, OwnInductive
  <1>3. OwnInv /\ [Next]_vars
          => [Return /\ ~ undefined /\ troubles \subseteq {"server"}
                /\ app.worker = m_spWorker => received[Label[app.kind]] = app.id]_vars
    BY DEF OwnInv, OwnFlag, Undisturbed, Return
  <1> QED
    BY <1>1, <1>2, <1>3, PlacesAlways, PTL DEF Spec, AnswerOwn
-----------------------------------------------------------------------------
(* Requests are stored and executed in the order of their numbers, and     *)
(* what a living connection uploaded is stored or still on its way, unless *)
(* the server failed.                                                      *)
Pending ==
  \E i \in 1 .. Len(toServer) :
    toServer[i].kind = "UpperFile" /\ toServer[i].id = uploaded

InTurn ==
  /\ stored <= app.id
  /\ \A i \in 1 .. Len(toServer) : stored <= toServer[i].id /\ toServer[i].id <= app.id
  /\ \A i, k \in 1 .. Len(toServer) : i <= k => toServer[i].id <= toServer[k].id
  /\ link = "up" /\ "server" \notin troubles => uploaded <= stored \/ Pending

(* Nothing is sent behind a request that is waited for; the list that comes*)
(* back, and the one that came, show the last upload.                      *)
ListOK ==
  /\ \A i \in Nat : Asked(i) => i = Len(toServer)
  /\ \A i \in Nat : Answering(i) /\ toClient[i].label = "WJLB" => toClient[i].upto >= uploaded
  /\ app.kind = "GetFileList" =>
       /\ Waiting /\ m_cmdFinishFlag = 1 /\ (app.pc = "wait" => app.worker = m_spWorker)
            => listed >= uploaded
       /\ app.pc = "return" /\ app.worker = m_spWorker => listed >= uploaded

ListInv == ~ undefined /\ troubles = {} => ListOK

LEMMA RequestNumbers ==
  ASSUME WiresOK
  PROVE  \A i \in 1 .. Len(toServer) : toServer[i].id \in Nat
PROOF
  <1> TAKE i \in 1 .. Len(toServer)
  <1>1. toServer[i] \in RequestSet
    BY DEF WiresOK
  <1>2. \A r \in RequestSet : r.id \in Nat
    BY Bounds DEF RequestSet
  <1> QED
    BY <1>1, <1>2

(* A request with the call's number may be appended.                       *)
LEMMA TurnAppend ==
  ASSUME AppOK, PlacesOK, WiresOK, InTurn, NEW e \in RequestSet, e.id = app.id,
         app'.id = app.id, toServer' = Append(toServer, e), UNCHANGED <<stored, link, troubles>>,
         \/ uploaded' = uploaded
         \/ e.kind = "UpperFile" /\ uploaded' = e.id
  PROVE  InTurn'
PROOF
  <1>1. /\ Len(toServer) \in Nat
        /\ Len(toServer') = Len(toServer) + 1 /\ toServer'[Len(toServer) + 1] = e
        /\ \A i \in 1 .. Len(toServer) : toServer'[i] = toServer[i]
    BY AppendPlaces DEF WiresOK
  <1>2. \A i \in 1 .. Len(toServer') : i \in 1 .. Len(toServer) \/ i = Len(toServer) + 1
    BY <1>1
  <1>3. \A i \in 1 .. Len(toServer') :
          /\ stored <= toServer'[i].id /\ toServer'[i].id <= app.id
          /\ toServer'[i].id \in Nat
    <2>1. \A i \in 1 .. Len(toServer) : toServer[i].id \in Nat
      BY RequestNumbers
    <2>2. app.id \in Nat /\ stored \in Nat
      BY Bounds DEF AppOK, PlacesOK
    <2> QED
      BY <1>1, <1>2, <2>1, <2>2 DEF InTurn
  <1>4. ASSUME NEW i \in 1 .. Len(toServer'), NEW k \in 1 .. Len(toServer'), i <= k
        PROVE  toServer'[i].id <= toServer'[k].id
    <2>1. CASE k = Len(toServer) + 1
      BY <1>1, <1>3, <2>1
    <2>2. CASE k # Len(toServer) + 1
      BY <1>1, <1>2, <1>4, <2>2 DEF InTurn
    <2> QED
      BY <2>1, <2>2
  <1>5. link' = "up" /\ "server" \notin troubles' => uploaded' <= stored' \/ Pending'
    <2>1. CASE uploaded' = uploaded
      <3>1. Pending => Pending'
        BY <1>1, <2>1 DEF Pending
      <3> QED
        BY <2>1, <3>1 DEF InTurn
    <2>2. CASE e.kind = "UpperFile" /\ uploaded' = e.id
      BY <1>1, <2>2 DEF Pending
    <2> QED
      BY <2>1, <2>2
  <1> QED
    BY <1>3, <1>4, <1>5 DEF InTurn

LEMMA TurnServe ==
  ASSUME AppOK, PlacesOK, WiresOK, InTurn, Serve
  PROVE  InTurn'
PROOF
  <1>1. PICK r : r = Head(toServer)
    OBVIOUS
  <1>2. /\ UNCHANGED <<app, uploaded>> /\ link = "up"
        /\ toServer # <<>> /\ toServer \in Seq(RequestSet)
    BY DEF Serve, WiresOK
  <1>3. /\ Len(toServer) \in Nat \ {0} /\ r = toServer[1] /\ r \in RequestSet
    BY <1>1, <1>2, TailPlaces
  <1>4. troubles \subseteq troubles'
    BY ServeSteps
  <1>5. CASE /\ toServer' = [toServer EXCEPT ![1].part = @ + 1]
             /\ r.part + 1 < MaxPackages /\ stored' = stored
    <2>1. /\ Len(toServer') = Len(toServer)
          /\ \A i \in 1 .. Len(toServer) :
               toServer'[i].id = toServer[i].id /\ toServer'[i].kind = toServer[i].kind
      BY <1>1, <1>2, <1>5, PartPlaces
    <2>2. Pending => Pending'
      BY <1>2, <2>1 DEF Pending
    <2> QED
      BY <1>2, <1>4, <1>5, <2>1, <2>2 DEF InTurn
  <1>6. CASE /\ toServer' = Tail(toServer)
             /\ \/ stored' = stored /\ (r.kind # "UpperFile" \/ "server" \in troubles')
                \/ r.kind = "UpperFile" /\ stored' = r.id
    <2>1. /\ Len(toServer') = Len(toServer) - 1
          /\ \A i \in 1 .. Len(toServer') : i + 1 \in 1 .. Len(toServer)
                                            /\ toServer'[i] = toServer[i + 1]
      BY <1>2, <1>6, TailPlaces
    <2>2. stored \in Nat /\ uploaded \in Nat /\ r.id \in Nat /\ stored <= r.id
      BY <1>3, Bounds DEF InTurn, RequestSet, PlacesOK
    <2>3. stored' <= app.id /\ stored <= stored'
      BY <1>3, <1>6, <2>2 DEF InTurn
    <2>4. \A i \in 1 .. Len(toServer') :
            stored' <= toServer'[i].id /\ toServer'[i].id <= app.id
      <3>1. 1 \in 1 .. Len(toServer) /\ \A i \in 1 .. Len(toServer') : 1 <= i + 1
        BY <1>3, <2>1
      <3>2. \A i \in 1 .. Len(toServer') : r.id <= toServer'[i].id
        BY <1>3, <2>1, <3>1 DEF InTurn
      <3> QED
        BY <1>6, <2>1, <3>2 DEF InTurn
    <2>5. \A i, k \in 1 .. Len(toServer') : i <= k => toServer'[i].id <= toServer'[k].id
      BY <2>1 DEF InTurn
    <2>6. ASSUME "server" \notin troubles'
          PROVE  uploaded' <= stored' \/ Pending'
      <3>1. CASE uploaded <= stored
        <4>1. stored' \in Nat
          BY <1>6, <2>2
        <4> QED
          BY <1>2, <2>2, <2>3, <3>1, <4>1
      <3>2. CASE Pending
        <4>1. PICK i \in 1 .. Len(toServer) :
                toServer[i].kind = "UpperFile" /\ toServer[i].id = uploaded
          BY <3>2 DEF Pending
        <4>2. CASE i = 1
          <5>1. stored' = uploaded
            BY <1>3, <1>6, <2>6, <4>1, <4>2
          <5> QED
            BY <1>2, <2>2, <5>1
        <4>3. CASE i # 1
          <5>1. i - 1 \in 1 .. Len(toServer') /\ toServer'[i - 1] = toServer[i]
            BY <1>3, <2>1, <4>3
          <5> QED
            BY <1>2, <4>1, <5>1 DEF Pending
        <4> QED
          BY <4>2, <4>3
      <3> QED
        BY <1>2, <1>4, <2>6, <3>1, <3>2 DEF InTurn
    <2> QED
      BY <1>2, <2>3, <2>4, <2>5, <2>6 DEF InTurn
  <1> QED
    <2>1. \A q \in RequestSet : q.kind \in Kinds => q.kind # "UpperFile"
      BY DEF Kinds
    <2> QED
      BY <1>1, <1>3, <1>5, <1>6, <2>1, ServeSteps DEF ServeAdds, Stored

LEMMA TurnInductive ==
  ASSUME AppOK, PlacesOK, WiresOK, LinkInv, InTurn, [Next]_vars
  PROVE  InTurn'
PROOF
  <1> USE DEF netVars, workerVars, dataVars, answerVars
  <1>1. CASE InitConnects \/ ConnectSucceeds
    <2>1. /\ toServer' = <<>> /\ stored' = stored /\ uploaded' = 0 /\ app'.id = app.id
      BY <1>1 DEF InitConnects, ConnectSucceeds, Connection, LinkInv, AppOK
    <2>2. 0 <= stored
      BY Bounds DEF PlacesOK
    <2> QED
      BY <2>1, <2>2 DEF InTurn
  <1>2. CASE Request
    <2>1. app'.id = app.id + 1 /\ UNCHANGED <<toServer, stored, link, uploaded, troubles>>
      BY <1>2, RequestBegins DEF Request
    <2>2. app.id \in Nat /\ stored \in Nat
      BY Bounds DEF AppOK, PlacesOK
    <2>3. \A i \in 1 .. Len(toServer) : toServer[i].id \in Nat
      BY RequestNumbers
    <2>4. stored' <= app'.id /\ \A i \in 1 .. Len(toServer) : toServer[i].id <= app'.id
      BY <2>1, <2>2, <2>3 DEF InTurn
    <2>5. Pending' = Pending
      BY <2>1 DEF Pending
    <2> QED
      BY <2>1, <2>4, <2>5 DEF InTurn
  <1>3. CASE Upload
    <2> DEFINE e == [kind |-> "UpperFile", id |-> app.id, part |-> 0]
    <2>1. e \in RequestSet
      BY <1>3, Bounds, SMTT(40) DEF Upload, RequestSet, AppOK, PlacesOK
    <2>2. app'.id = app.id /\ UNCHANGED <<stored, link, troubles>>
      BY <1>3 DEF Upload, AppOK
    <2>3. CASE toServer' = Append(toServer, e) /\ uploaded' = app.id
      BY <2>1, <2>2, <2>3, TurnAppend
    <2>4. CASE UNCHANGED <<toServer, uploaded>>
      BY <2>2, <2>4 DEF InTurn, Pending
    <2> QED
      BY <1>3, <2>3, <2>4 DEF Upload
  <1>4. CASE Send
    <2> DEFINE e == [kind |-> app.kind, id |-> app.id, part |-> 0]
    <2>1. e \in RequestSet
      BY <1>4, Bounds, SMTT(40) DEF Send, RequestSet, AppOK, PlacesOK
    <2>2. app'.id = app.id /\ UNCHANGED <<stored, link, uploaded, troubles>>
      BY <1>4 DEF Send, AppOK
    <2>3. CASE toServer' = Append(toServer, e)
      BY <2>1, <2>2, <2>3, TurnAppend
    <2>4. CASE toServer' = toServer
      BY <2>2, <2>4 DEF InTurn, Pending
    <2> QED
      BY <1>4, <2>3, <2>4 DEF Send
  <1>5. CASE Serve
    BY <1>5, TurnServe
  <1>6. CASE Drop \/ FreeOld
    <2>1. toServer' = <<>> /\ link' # "up" /\ UNCHANGED <<app, stored>>
      BY <1>6 DEF Drop, FreeOld
    <2> QED
      BY <2>1 DEF InTurn
  <1>7. CASE app'.id = app.id /\ UNCHANGED <<toServer, stored, link, uploaded, troubles>>
    BY <1>7 DEF InTurn, Pending
  <1>8. CASE InitDone \/ Reset \/ Enter \/ Wake \/ WakeStale \/ Return
    BY <1>7, <1>8 DEF InitDone, Reset, Enter, Wake, WakeStale, Return, AppOK
  <1>10. CASE Process
    <2>1. UNCHANGED <<app, toServer, stored, link, uploaded>>
      BY <1>10 DEF Process
    <2>2. "server" \notin troubles' => "server" \notin troubles
      <3>1. CASE Keep
        BY <3>1 DEF Keep
      <3>2. CASE Execute
        BY <3>2 DEF Execute
      <3>3. CASE ExecuteSpoiled \/ OpenFails
        BY <3>3 DEF ExecuteSpoiled, OpenFails
      <3> QED
        BY <1>10, <3>1, <3>2, <3>3 DEF Process
    <2> QED
      BY <2>1, <2>2 DEF InTurn, Pending
  <1>9. CASE Push \/ NewLesson \/ Receive \/ EventCb \/ DispatchEnds \/ Heartbeat
             \/ ConnectFails \/ Restart \/ SetConnected \/ UNCHANGED vars
    BY <1>7, <1>9
       DEF Push, NewLesson, Receive, EventCb, DispatchEnds, Heartbeat, ConnectFails,
           Restart, SetConnected, vars
  <1> QED
    BY <1>1, <1>2, <1>3, <1>4, <1>5, <1>6, <1>8, <1>9, <1>10
       DEF Next, InCall, Dispatch, Svc

(* Steps outside a wait find nothing on its way, and leave nothing.        *)
LEMMA ListOutside ==
  ASSUME AppOK, PlacesOK, WiresOK, OneAnswer, OwnFlag,
         InitDone \/ Request \/ Upload \/ Reset \/ Return
  PROVE  ListOK'
PROOF
  <1>1. ~ Waiting' /\ app'.pc # "return"
    <2>1. CASE Request
      BY <2>1, RequestBegins DEF Waiting
    <2>2. CASE InitDone \/ Upload \/ Reset \/ Return
      BY <2>2 DEF InitDone, Upload, Reset, Return, Waiting, AppOK
    <2> QED
      BY <2>1, <2>2
  <1>2. \A i \in Nat : ~ Asked(i)' /\ ~ Answering(i)'
    <2>1. OneAnswer'
      BY OwnOutside
    <2> QED
      BY <1>1, <2>1 DEF OneAnswer
  <1> QED
    BY <1>1, <1>2 DEF ListOK

(* What is sent is the last in the queue.                                  *)
LEMMA ListSend ==
  ASSUME AppOK, PlacesOK, WiresOK, OneAnswer, OwnFlag, Send
  PROVE  ListOK'
PROOF
  <1> DEFINE e == [kind |-> app.kind, id |-> app.id, part |-> 0]
  <1>1. \A i \in Nat : ~ Asked(i) /\ ~ Answering(i)
    BY NotWaiting DEF Waiting, Send
  <1>2. /\ app.pc = "send" /\ app'.pc = "enter" /\ m_cmdFinishFlag' = -1
        /\ toClient' = toClient
        /\ toServer' = toServer \/ toServer' = Append(toServer, e)
    BY DEF Send, AppOK, OwnFlag, workerVars, dataVars, answerVars
  <1>3. \A i \in Nat : ~ Answering(i)'
    BY <1>1, <1>2 DEF Answering
  <1>4. \A i \in Nat : Asked(i)' => i = Len(toServer')
    <2>1. CASE toServer' = toServer
      BY <1>1, <2>1 DEF Asked
    <2>2. CASE toServer' = Append(toServer, e)
      <3>1. e \in RequestSet
        BY <1>2, Bounds DEF RequestSet, AppOK, PlacesOK
      <3>2. /\ Len(toServer) \in Nat /\ Len(toServer') = Len(toServer) + 1
            /\ \A i \in 1 .. Len(toServer) : toServer'[i] = toServer[i]
        BY <2>2, <3>1, AppendPlaces DEF WiresOK
      <3> QED
        BY <1>1, <3>2 DEF Asked
    <2> QED
      BY <1>2, <2>1, <2>2
  <1> QED
    BY <1>2, <1>3, <1>4 DEF ListOK

LEMMA ListWait ==
  ASSUME AppOK, PlacesOK, ListOK, Enter \/ Wake
  PROVE  ListOK'
PROOF
  <1>1. /\ UNCHANGED <<toServer, toClient, m_cmdFinishFlag, listed, uploaded, m_spWorker>>
        /\ app'.kind = app.kind
    BY DEF Enter, Wake, netVars, workerVars, dataVars, answerVars, AppOK
  <1>2. /\ \A i \in Nat : Asked(i)' => i = Len(toServer')
        /\ \A i \in Nat : Answering(i)' /\ toClient'[i].label = "WJLB" =>
             toClient'[i].upto >= uploaded'
    BY <1>1 DEF ListOK, Asked, Answering
  <1>3. CASE Enter
    <2>1. app.pc = "enter" /\ app'.pc = "wait"
      BY <1>3 DEF Enter, AppOK
    <2> QED
      BY <1>1, <1>2, <2>1 DEF ListOK, Waiting
  <1>4. CASE Wake
    <2>1. /\ app.pc = "wait" /\ app.worker = m_spWorker /\ m_cmdFinishFlag = 1
          /\ app'.pc = "return"
      BY <1>4 DEF Wake, AppOK, PlacesOK
    <2> QED
      BY <1>1, <1>2, <2>1 DEF ListOK, Waiting
  <1> QED
    BY <1>3, <1>4

(* The request that is answered is alone in the queue: what was uploaded   *)
(* before it is stored, and the list shows it.                             *)
LEMMA ListServe ==
  ASSUME AppOK, PlacesOK, WiresOK, OneAnswer, InTurn, ListOK, Serve, troubles' = {}
  PROVE  ListOK'
PROOF
  <1>1. PICK r : r = Head(toServer)
    OBVIOUS
  <1>2. /\ UNCHANGED <<app, m_cmdFinishFlag, listed, uploaded, m_spWorker>>
        /\ link = "up" /\ toServer # <<>>
    BY DEF Serve
  <1>3. /\ Len(toServer) \in Nat \ {0} /\ r = toServer[1] /\ r \in RequestSet
    BY <1>1, <1>2, TailPlaces DEF WiresOK
  <1>4. /\ troubles = {}
        /\ \/ /\ toServer' = Tail(toServer)
              /\ \E e \in AnswerSet :
                   /\ ServeAdds(r, e)
                   /\ e.label = "WJLB" => e.upto = stored
           \/ /\ r.part + 1 < MaxPackages
              /\ toServer' = [toServer EXCEPT ![1].part = @ + 1]
              /\ \E e \in AnswerSet : ServeAdds(r, e) /\ e.more
           \/ toServer' = Tail(toServer) /\ toClient' = toClient
    BY <1>1, ServeSteps
  <1>5. \A i \in Nat : Asked(i)' => i = Len(toServer')
    <2>1. CASE toServer' = Tail(toServer)
      <3>1. /\ Len(toServer') = Len(toServer) - 1
            /\ \A i \in 1 .. Len(toServer') : i + 1 \in 1 .. Len(toServer)
                                              /\ toServer'[i] = toServer[i + 1]
        BY <1>2, <2>1, TailPlaces DEF WiresOK
      <3>2. \A i \in Nat : Asked(i)' => i + 1 \in Nat /\ Asked(i + 1)
        BY <3>1 DEF Asked
      <3> QED
        BY <1>3, <3>1, <3>2 DEF ListOK
    <2>2. CASE /\ r.part + 1 < MaxPackages
               /\ toServer' = [toServer EXCEPT ![1].part = @ + 1]
      <3>1. /\ Len(toServer') = Len(toServer)
            /\ \A i \in 1 .. Len(toServer) : toServer'[i].kind = toServer[i].kind
        BY <1>1, <1>2, <2>2, PartPlaces
      <3>2. \A i \in Nat : Asked(i)' => Asked(i)
        BY <3>1 DEF Asked
      <3> QED
        BY <3>1, <3>2 DEF ListOK
    <2> QED
      BY <1>4, <2>1, <2>2
  <1>6. ASSUME NEW e \in AnswerSet, ServeAdds(r, e), e.label = "WJLB" => e.upto = stored \/ e.more
        PROVE  \A i \in Nat : Answering(i)' /\ toClient'[i].label = "WJLB" =>
                 toClient'[i].upto >= uploaded'
    <2>1. Asked(1) /\ 1 \in Nat
      BY <1>3, <1>6 DEF Asked, Kinds, ServeAdds
    <2>2. \A i \in Nat : ~ Answering(i)
      BY <2>1 DEF OneAnswer
    <2>3. Len(toServer) = 1
      BY <2>1 DEF ListOK
    <2>4. ~ Pending
      <3>1. toServer[1].kind # "UpperFile"
        BY <2>1 DEF Asked
      <3>2. \A i \in 1 .. Len(toServer) : i = 1
        BY <2>3
      <3> QED
        BY <3>1, <3>2 DEF Pending
    <2>5. stored >= uploaded
      BY <1>2, <1>4, <2>4, Bounds DEF InTurn, PlacesOK
    <2>6. /\ Len(toClient) \in Nat
          /\ Len(toClient') = Len(toClient) + 1 /\ toClient'[Len(toClient) + 1] = e
          /\ \A i \in 1 .. Len(toClient) : toClient'[i] = toClient[i]
      BY <1>6, AppendPlaces DEF WiresOK, ServeAdds
    <2>7. \A i \in Nat : Answering(i)' => toClient'[i] = e /\ ~ e.more
      BY <2>2, <2>6 DEF Answering
    <2> QED
      BY <1>2, <1>6, <2>5, <2>7
  <1>7. \A i \in Nat : Answering(i)' /\ toClient'[i].label = "WJLB" =>
          toClient'[i].upto >= uploaded'
    <2>1. CASE toClient' = toClient
      BY <1>2, <2>1 DEF ListOK, Answering
    <2> QED
      BY <1>4, <1>6, <2>1
  <1> QED
    BY <1>2, <1>5, <1>7 DEF ListOK, Waiting

LEMMA ListServer ==
  ASSUME PlacesOK, WiresOK, ListOK, Push \/ NewLesson \/ Drop \/ FreeOld
  PROVE  ListOK'
PROOF
  <1>1. /\ UNCHANGED <<app, m_cmdFinishFlag, listed, uploaded, m_spWorker>>
        /\ toServer' = toServer \/ toServer' = <<>>
    BY DEF Push, NewLesson, Drop, FreeOld, workerVars, dataVars, answerVars
  <1>2. \A i \in Nat : Asked(i)' => i = Len(toServer')
    BY <1>1 DEF Asked, ListOK
  <1>3. \A i \in Nat : Answering(i)' => Answering(i) /\ toClient'[i] = toClient[i]
    BY NoAnswerAdded
  <1> QED
    BY <1>1, <1>2, <1>3 DEF ListOK, Waiting

(* The list that sets the flag is the one that was asked for.              *)
LEMMA ListProcess ==
  ASSUME AppOK, PlacesOK, WiresOK, TroublesOK, Numbered, OneAnswer, ListOK, Process,
         Undisturbed'
  PROVE  ListOK'
PROOF
  <1>1. PICK e : e = Head(toClient)
    OBVIOUS
  <1>2. /\ e \in AnswerSet /\ toClient # <<>> /\ toClient' = Tail(toClient)
        /\ UNCHANGED <<app, toServer, m_spWorker, uploaded>>
    BY <1>1, ProcessSteps
  <1>3. /\ Len(toClient) \in Nat \ {0} /\ e = toClient[1]
        /\ Len(toClient') = Len(toClient) - 1
        /\ \A i \in 1 .. Len(toClient') : i + 1 \in 1 .. Len(toClient)
                                          /\ toClient'[i] = toClient[i + 1]
    BY <1>1, <1>2, TailPlaces DEF WiresOK
  <1>4. \A i \in Nat : Answering(i)' => i + 1 \in Nat /\ Answering(i + 1)
                                        /\ toClient'[i] = toClient[i + 1]
    BY <1>3 DEF Answering
  <1>5. /\ \A i \in Nat : Asked(i)' => i = Len(toServer')
        /\ \A i \in Nat : Answering(i)' /\ toClient'[i].label = "WJLB" =>
             toClient'[i].upto >= uploaded'
    BY <1>2, <1>4 DEF ListOK, Asked
  <1>6. CASE UNCHANGED <<m_cmdFinishFlag, listed>>
    BY <1>2, <1>5, <1>6 DEF ListOK, Waiting
  <1>7. CASE ~ e.more /\ e.label # "SKBJ" /\ e.id # 0 /\ listed' = ListAfter(e)
    <2>1. Answering(1) /\ 1 \in Nat
      BY <1>3, <1>7 DEF Answering
    <2>2. e.label = Label[app.kind] /\ Waiting
      BY <1>3, <2>1 DEF OneAnswer
    <2>3. app.kind = "GetFileList" => listed' >= uploaded'
      <3>1. SUFFICES ASSUME app.kind = "GetFileList" PROVE listed' >= uploaded'
        OBVIOUS
      <3>2. e.label = "WJLB"
        BY <2>2, <3>1 DEF Label
      <3>3. listed' = e.upto /\ e.upto >= uploaded
        BY <1>3, <1>7, <2>1, <3>2 DEF ListAfter, ListOK
      <3> QED
        BY <1>2, <3>3
    <2> QED
      BY <1>2, <1>5, <2>3 DEF ListOK
  <1> QED
    BY <1>1, <1>6, <1>7, ProcessSteps

LEMMA ListInductive ==
  ASSUME AppOK, PlacesOK, WiresOK, TroublesOK, LinkInv, Numbered, OwnInv, InTurn, ListInv,
         [Next]_vars
  PROVE  ListInv'
PROOF
  <1> SUFFICES ASSUME ~ undefined', troubles' = {}
               PROVE  ListOK'
    BY DEF ListInv
  <1>1. CASE InitConnects \/ ConnectSucceeds
    <2>1. toServer' = <<>> /\ listed' = 0 /\ uploaded' = 0
      BY <1>1 DEF InitConnects, ConnectSucceeds, Connection, LinkInv
    <2>2. PICK e \in AnswerSet : e.label = "SKBJ" /\ toClient' = <<e>>
      BY <1>1, ConnectionBegins DEF InitConnects, ConnectSucceeds
    <2> QED
      BY <2>1, <2>2 DEF ListOK, Asked, Answering
  <1>2. CASE Process
    <2>1. ~ undefined /\ troubles = {}
      <3>1. troubles \subseteq troubles'
        BY <1>2 DEF Process, Keep, Execute, ExecuteSpoiled, OpenFails
      <3> QED
        BY <1>2, <3>1 DEF Process
    <2>2. Undisturbed /\ Undisturbed'
      BY <2>1 DEF Undisturbed
    <2> QED
      BY <1>2, <2>1, <2>2, ListProcess DEF OwnInv, ListInv
  <1>3. CASE ~ InitConnects /\ ~ ConnectSucceeds /\ ~ Process
    <2> USE <1>3
    <2>1. ListOK /\ OneAnswer /\ OwnFlag
      BY StaysUndisturbed DEF OwnInv, ListInv, Undisturbed
    <2>2. CASE InitDone \/ Request \/ Upload \/ Reset \/ Return
      BY <2>1, <2>2, ListOutside
    <2>3. CASE Send
      BY <2>1, <2>3, ListSend
    <2>4. CASE Enter \/ Wake
      BY <2>1, <2>4, ListWait
    <2>5. CASE WakeStale
      BY <2>5 DEF WakeStale
    <2>6. CASE Serve
      BY <2>1, <2>6, ListServe
    <2>7. CASE Push \/ NewLesson \/ Drop \/ FreeOld
      BY <2>1, <2>7, ListServer
    <2>8. CASE Receive \/ EventCb \/ DispatchEnds \/ Heartbeat \/ ConnectFails \/ Restart
               \/ SetConnected \/ UNCHANGED vars
      <3>1. UNCHANGED <<app, toServer, toClient, m_cmdFinishFlag, listed, uploaded, m_spWorker>>
        BY <2>8 DEF Receive, EventCb, DispatchEnds, Heartbeat, ConnectFails, Restart,
                    SetConnected, vars, netVars, workerVars, answerVars
      <3> QED
        BY <2>1, <3>1 DEF ListOK, Asked, Answering, Waiting
    <2> QED
      BY <2>2, <2>3, <2>4, <2>5, <2>6, <2>7, <2>8 DEF Next, InCall, Dispatch, Svc
  <1> QED
    BY <1>1, <1>2, <1>3

(* A file list shows what was uploaded before it over the same connection: *)
(* the requests keep their order, and nothing is sent behind the one that  *)
(* is waited for.                                                          *)
THEOREM ListShowsUploadCorrect == Spec => ListShowsUpload
PROOF
  <1>1. Init => LinkInv /\ Numbered /\ OwnInv /\ InTurn /\ ListInv
    BY DEF Init, LinkInv, Numbered, OwnInv, OneAnswer, OwnFlag, Asked, Answering, Waiting,
           InTurn, ListInv, ListOK
  <1>2. AppOK /\ PlacesOK /\ WiresOK /\ TroublesOK /\ LinkInv /\ Numbered /\ OwnInv
          /\ InTurn /\ ListInv /\ [Next]_vars
          => (LinkInv /\ Numbered /\ OwnInv /\ InTurn /\ ListInv)'
    BY LinkInductive, NumberedInductive, OwnInductive, TurnInductive, ListInductive
  <1>3. ListInv /\ [Next]_vars
          => [Return /\ ~ undefined /\ troubles = {} /\ app.worker = m_spWorker
                /\ app.kind = "GetFileList" => listed >= uploaded]_vars
    BY DEF ListInv, ListOK, Return
  <1> QED
    BY <1>1, <1>2, <1>3, PlacesAlways, PTL DEF Spec, ListShowsUpload
=============================================================================
