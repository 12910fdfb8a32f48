------------------------------- MODULE Client -------------------------------
(***************************************************************************)
(* A session of LibEvtClient (client/client.cpp, client/work.cpp) with the *)
(* commands of CServerWorker (server/work.cpp): the application's thread   *)
(* sends a request and waits for a flag, the dispatch thread runs the      *)
(* callbacks and sets it, the heartbeat task notices a lost connection and *)
(* replaces bufferevent, base and worker under the other two.              *)
(*                                                                         *)
(* The k-th request is the number k; an answer carries the number of its   *)
(* request.  On its own the server sends files, with number 0, and the     *)
(* lesson, with the lesson's number: when it changes and to every new      *)
(* connection (module Server).  A file comes package by package, among     *)
(* which other answers may come; of a message that does not fit one        *)
(* package only the first is sent, and stays in m_strMsgContent.  Requests *)
(* fit one package, and socket buffers take every package: module Wire has *)
(* those that do not.  Worker objects are numbered; the current one is     *)
(* m_spWorker, 0 while there is none.  InitSystem is called again only     *)
(* when it failed, which changes nothing the other threads see.            *)
(***************************************************************************)
EXTENDS Integers, Sequences

CONSTANTS
  FaultSets,    \* which of these may go wrong together: "missing", a file that is to be
                \* sent; "push", the server sends files on its own; "open", the client
                \* cannot open a received file; "long", a message does not fit a package;
                \* "server", an upload cannot be opened or recorded there, or a list read
  MaxPackages,  \* bound: packages of a file that is asked for
  MaxRequests,  \* bound: requests
  MaxConns,     \* bound: connections made
  MaxPushes,    \* bound: packages of files the server sends on its own
  MaxLessons    \* bound: changes of the lesson

ASSUME ClientAssumption ==
  /\ FaultSets \subseteq SUBSET {"missing", "push", "open", "long", "server"}
  /\ MaxPackages \in Nat \ {0}
  /\ MaxRequests \in Nat
  /\ MaxConns \in Nat \ {0}
  /\ MaxPushes \in Nat
  /\ MaxLessons \in Nat

(* What the application asks for, and the label of the answer; an upload   *)
(* has none.                                                               *)
Label == [DownloadFile |-> "CXWJ", GetFileList |-> "WJLB", GetDeviceNum |-> "SBBH"]
Kinds == {"DownloadFile", "GetFileList", "GetDeviceNum"}
Labels == {"CXWJ", "WJLB", "SBBH", "SKBJ"}

VARIABLES
  faults,           \* what may go wrong in this behaviour
  m_bConnect,       \* the client's flag
  link,             \* TCP: "up", "closed" by the server or the network, or "none"
  conns,            \* connections made
  toServer,         \* requests on their way, the first may be being answered
  toClient,         \* packages on their way or in m_strData
  pushes,           \* packages of files sent by the server on its own
  lesson,           \* the server's lesson
  stored,           \* the last upload the server stored
  m_spWorker,       \* the number of the current worker
  bevLive,          \* is the current worker's m_bev allocated?
  inData,           \* of the current worker, the packages in m_strData, the first of toClient
  processing,       \* of the current worker, is Process taking them?
  fragment,         \* of the current worker, does m_strMsgContent hold a part of a message?
  m_cmdFinishFlag,  \* of the current worker
  received,         \* of the current worker, per label the last answer
  listed,           \* of the current worker, the last upload in its file list
  uploaded,         \* history: the last upload the current worker sent
  troubles,         \* history: what the current connection met of "push", a file nobody
                    \* asked for, "open", "long" and "server" (see FaultSets)
  dispatch,         \* dispatch thread: "none", "running", "leaving" its loop, "ended"
  svc,              \* heartbeat task: "off", "idle", "connecting", "join", "started"
  app,              \* the application's call
  undefined         \* history: did a thread use freed memory?

netVars == <<link, conns, toServer, toClient, pushes, lesson, stored>>
dataVars == <<inData, processing, fragment>>
answerVars == <<received, listed, troubles>>
workerVars == <<m_spWorker, bevLive, dataVars, m_cmdFinishFlag, answerVars, uploaded>>
vars == <<faults, m_bConnect, netVars, workerVars, dispatch, svc, app, undefined>>

Nothing == [l \in Labels |-> 0]

(* May a message with this label not fit one package?  The device's number *)
(* does.                                                                   *)
Cuts(label) == {more \in BOOLEAN : more => "long" \in faults /\ label # "SBBH"}

(* A package of a message or a file; more says that it is not the last.    *)
Package(label, id, upto, more) ==
  [label |-> label, id |-> id, upto |-> upto, more |-> more]

Init ==
  /\ faults \in FaultSets
  /\ m_bConnect = FALSE
  /\ link = "none" /\ conns = 0 /\ toServer = <<>> /\ toClient = <<>>
  /\ pushes = 0 /\ lesson = 0 /\ stored = 0
  /\ m_spWorker = 0 /\ bevLive = FALSE
  /\ inData = 0 /\ processing = FALSE /\ fragment = FALSE
  /\ m_cmdFinishFlag = -1
  /\ received = Nothing /\ listed = 0 /\ uploaded = 0 /\ troubles = {}
  /\ dispatch = "none"
  /\ svc = "off"
  /\ app = [pc |-> "start", kind |-> "GetFileList", id |-> 0, worker |-> 0, sent |-> 0]
  /\ undefined = FALSE

(* A connection, with a new worker; the server registers it and sends the  *)
(* lesson.                                                                 *)
Connection ==
  /\ conns < MaxConns
  /\ conns' = conns + 1
  /\ link' = "up"
  /\ \E more \in Cuts("SKBJ") : toClient' = <<Package("SKBJ", lesson, 0, more)>>
  /\ m_spWorker' = m_spWorker + 1
  /\ bevLive' = TRUE
  /\ inData' = 0 /\ processing' = FALSE /\ fragment' = FALSE
  /\ m_cmdFinishFlag' = -1
  /\ received' = Nothing /\ listed' = 0 /\ uploaded' = 0 /\ troubles' = {}
  /\ UNCHANGED <<toServer, pushes, lesson, stored>>
-----------------------------------------------------------------------------
(*                         The application's thread                        *)

(* InitSystem up to the start of the dispatch thread ...                   *)
InitConnects ==
  /\ app.pc = "start"
  /\ Connection
  /\ dispatch' = "running"
  /\ app' = [app EXCEPT !.pc = "init"]
  /\ UNCHANGED <<faults, m_bConnect, svc, undefined>>

(* Mutant: the flag is not set.                                            *)
ConnectedNot == m_bConnect

Connected == TRUE

(* ... and its last statements, which start the heartbeat task.            *)
InitDone ==
  /\ app.pc = "init"
  /\ m_bConnect' = Connected
  /\ svc' = "idle"
  /\ app' = [app EXCEPT !.pc = "idle"]
  /\ UNCHANGED <<faults, netVars, workerVars, dispatch, undefined>>

(* DownloadFile, GetFileList, GetDeviceNum or UpperFile; it fails when not *)
(* connected.                                                              *)
Request ==
  /\ app.pc = "idle" /\ app.id < MaxRequests
  /\ \/ /\ m_bConnect
        /\ \/ \E kind \in Kinds :
                app' = [app EXCEPT !.pc = "reset", !.kind = kind, !.id = @ + 1]
           \/ app' = [app EXCEPT !.pc = "upload", !.id = @ + 1]
     \/ /\ ~ m_bConnect
        /\ app' = [app EXCEPT !.id = @ + 1]
  /\ UNCHANGED <<faults, m_bConnect, netVars, workerVars, dispatch, svc, undefined>>

(* SendFileToServer: nobody waits for an upload, nor hears of a file that  *)
(* is not there.                                                           *)
Upload ==
  /\ app.pc = "upload"
  /\ app' = [app EXCEPT !.pc = "idle"]
  /\ \/ /\ bevLive /\ link = "up"
        /\ toServer' = Append(toServer, [kind |-> "UpperFile", id |-> app.id, part |-> 0])
        /\ uploaded' = app.id
     \/ /\ ~ (bevLive /\ link = "up") \/ "missing" \in faults
        /\ UNCHANGED <<toServer, uploaded>>
  /\ undefined' = (undefined \/ ~ bevLive)
  /\ UNCHANGED <<faults, m_bConnect, link, conns, toClient, pushes, lesson, stored,
                 m_spWorker, bevLive, dataVars, m_cmdFinishFlag, answerVars, dispatch,
                 svc>>

(* Mutant: the flag of the last request is not reset.                      *)
FlagResetNone == m_cmdFinishFlag

FlagReset == -1

Reset ==
  /\ app.pc = "reset"
  /\ m_cmdFinishFlag' = FlagReset
  /\ app' = [app EXCEPT !.pc = "send"]
  /\ UNCHANGED <<faults, m_bConnect, netVars, m_spWorker, bevLive, dataVars,
                 answerVars, uploaded, dispatch, svc, undefined>>

(* SendXZWJ, SendWJLB or SendSBBH.  SendMsgTo answers -1 whether it sent   *)
(* or not, so the caller waits in any case.                                *)
Send ==
  /\ app.pc = "send"
  /\ IF bevLive /\ link = "up"
     THEN /\ toServer' = Append(toServer, [kind |-> app.kind, id |-> app.id, part |-> 0])
          /\ app' = [app EXCEPT !.pc = "enter", !.sent = m_spWorker]
     ELSE /\ app' = [app EXCEPT !.pc = "enter"]
          /\ UNCHANGED toServer
  /\ undefined' = (undefined \/ ~ bevLive)
  /\ UNCHANGED <<faults, m_bConnect, link, conns, toClient, pushes, lesson, stored,
                 workerVars, dispatch, svc>>

(* waitCMDFinishFlag of the worker that is current now.                    *)
Enter ==
  /\ app.pc = "enter"
  /\ app' = [app EXCEPT !.pc = "wait", !.worker = m_spWorker]
  /\ UNCHANGED <<faults, m_bConnect, netVars, workerVars, dispatch, svc, undefined>>

Wake ==
  /\ app.pc = "wait" /\ app.worker = m_spWorker
  /\ m_cmdFinishFlag >= 0
  /\ app' = [app EXCEPT !.pc = "return"]
  /\ UNCHANGED <<faults, m_bConnect, netVars, workerVars, dispatch, svc, undefined>>

(* The worker was replaced: the loop reads freed memory, and may end.      *)
WakeStale ==
  /\ app.pc = "wait" /\ app.worker # m_spWorker
  /\ undefined' = TRUE
  /\ app' \in {app, [app EXCEPT !.pc = "return"]}
  /\ UNCHANGED <<faults, m_bConnect, netVars, workerVars, dispatch, svc>>

(* The call returns what the current worker received last.                 *)
Return ==
  /\ app.pc = "return"
  /\ app' = [app EXCEPT !.pc = "idle", !.kind = "GetFileList", !.worker = 0, !.sent = 0]
  /\ UNCHANGED <<faults, m_bConnect, netVars, workerVars, dispatch, svc, undefined>>
-----------------------------------------------------------------------------
(*                         The server and the network                      *)

(* Mutant: an upload is stored only if nothing waits behind it.            *)
StoredLate(r) == IF r.kind = "UpperFile" /\ Len(toServer) = 1 THEN r.id ELSE stored

(* CommanCXWJ has stored the upload when the next package is executed.     *)
Stored(r) == IF r.kind = "UpperFile" THEN r.id ELSE stored

(* CommanWJLB and CommanSBBH answer with one message; a list that could    *)
(* not be read is empty.                                                   *)
ServeMessage ==
  /\ Head(toServer).kind \in {"GetFileList", "GetDeviceNum"}
  /\ LET r == Head(toServer)
     IN  \E more \in Cuts(Label[r.kind]) :
           \/ /\ toClient' = Append(toClient, Package(Label[r.kind], r.id, stored, more))
              /\ UNCHANGED troubles
           \/ /\ "server" \in faults /\ r.kind = "GetFileList"
              /\ toClient' = Append(toClient, Package("WJLB", r.id, 0, more))
              /\ troubles' = troubles \cup {"server"}
  /\ toServer' = Tail(toServer)
  /\ UNCHANGED stored

(* CommanXZWJ sends the file package by package ...                        *)
ServePackage ==
  /\ Head(toServer).kind = "DownloadFile"
  /\ LET r == Head(toServer)
     IN  \/ /\ r.part + 1 < MaxPackages
            /\ toClient' = Append(toClient, Package("CXWJ", r.id, 0, TRUE))
            /\ toServer' = [toServer EXCEPT ![1].part = @ + 1]
         \/ /\ toClient' = Append(toClient, Package("CXWJ", r.id, 0, FALSE))
            /\ toServer' = Tail(toServer)
  /\ UNCHANGED <<stored, troubles>>

(* ... and nothing when it is missing.                                     *)
ServeMissing ==
  /\ "missing" \in faults
  /\ Head(toServer).kind = "DownloadFile" /\ Head(toServer).part = 0
  /\ toServer' = Tail(toServer)
  /\ UNCHANGED <<toClient, stored, troubles>>

(* An upload is stored, or its failure only logged, and not answered.      *)
ServeUpload ==
  /\ Head(toServer).kind = "UpperFile"
  /\ \/ /\ stored' = Stored(Head(toServer))
        /\ UNCHANGED troubles
     \/ /\ "server" \in faults
        /\ troubles' = troubles \cup {"server"}
        /\ UNCHANGED stored
  /\ toServer' = Tail(toServer)
  /\ UNCHANGED toClient

Serve ==
  /\ link = "up" /\ toServer # <<>>
  /\ ServeMessage \/ ServePackage \/ ServeMissing \/ ServeUpload
  /\ UNCHANGED <<faults, m_bConnect, link, conns, pushes, lesson, m_spWorker, bevLive,
                 dataVars, m_cmdFinishFlag, received, listed, uploaded, dispatch, svc,
                 app, undefined>>

(* A package of LibEvtServer::SendFile reaches this connection.            *)
Push ==
  /\ "push" \in faults /\ link = "up" /\ pushes < MaxPushes
  /\ pushes' = pushes + 1
  /\ \E more \in BOOLEAN : toClient' = Append(toClient, Package("CXWJ", 0, 0, more))
  /\ UNCHANGED <<faults, m_bConnect, link, conns, toServer, lesson, stored, workerVars,
                 dispatch, svc, app, undefined>>

(* Give_A_Class, which reaches a connection that is there.  SKBJ holds the *)
(* students of the class, and may not fit one package.                     *)
NewLesson ==
  /\ lesson < MaxLessons
  /\ lesson' = lesson + 1
  /\ \/ /\ link = "up"
        /\ \E more \in Cuts("SKBJ") :
             toClient' = Append(toClient, Package("SKBJ", lesson', 0, more))
     \/ /\ link # "up"
        /\ UNCHANGED toClient
  /\ UNCHANGED <<faults, m_bConnect, link, conns, toServer, pushes, stored, workerVars,
                 dispatch, svc, app, undefined>>

(* The connection breaks; what was not received may be lost with it.       *)
Drop ==
  /\ link = "up"
  /\ link' = "closed"
  /\ toServer' = <<>>
  /\ \E n \in inData .. Len(toClient) : toClient' = SubSeq(toClient, 1, n)
  /\ UNCHANGED <<faults, m_bConnect, conns, pushes, lesson, stored, workerVars,
                 dispatch, svc, app, undefined>>
-----------------------------------------------------------------------------
(*                           The dispatch thread                           *)

(* Mutant: CommanSBBH stores the number and does not set the flag.         *)
FlagAfterNoSBBH(label) ==
  IF label \in {"SBBH", "SKBJ"} THEN m_cmdFinishFlag ELSE 1

(* Mutant: the flag counts the answers.                                    *)
FlagAfterCount(label) ==
  IF label = "SKBJ" THEN m_cmdFinishFlag ELSE m_cmdFinishFlag + 1

(* CommanWJLB, CommanSBBH and CommanCXWJ all set the one flag, CommanSKBJ  *)
(* does not.                                                               *)
FlagAfter(label) == IF label = "SKBJ" THEN m_cmdFinishFlag ELSE 1

(* Mutant: the lesson is not kept while a call waits.                      *)
ReceivedIdle(answer) ==
  IF answer.label = "SKBJ" /\ app.pc = "wait" THEN received
  ELSE [received EXCEPT ![answer.label] = answer.id]

(* The worker keeps the last answer of each kind.                          *)
ReceivedAfter(answer) == [received EXCEPT ![answer.label] = answer.id]

(* The last upload the file list shows.                                    *)
ListAfter(answer) == IF answer.label = "WJLB" THEN answer.upto ELSE listed

(* server_msg_cb hands what was received to Process.                       *)
Receive ==
  /\ dispatch = "running" /\ ~ processing
  /\ \E n \in inData + 1 .. Len(toClient) : inData' = n
  /\ processing' = TRUE
  /\ UNCHANGED <<faults, m_bConnect, netVars, m_spWorker, bevLive, fragment,
                 m_cmdFinishFlag, answerVars, uploaded, dispatch, svc, app, undefined>>

(* Process and a package of which more is to come: a file's is written, a  *)
(* message's is kept.                                                      *)
Keep ==
  /\ Head(toClient).more
  /\ processing' = (inData > 1)
  /\ IF Head(toClient).label = "CXWJ"
     THEN UNCHANGED <<fragment, troubles>>
     ELSE fragment' = TRUE /\ troubles' = troubles \cup {"long"}
  /\ UNCHANGED <<m_cmdFinishFlag, received, listed>>

(* The last package of a file, or a message.                               *)
Execute ==
  /\ ~ Head(toClient).more
  /\ Head(toClient).label = "CXWJ" \/ ~ fragment
  /\ processing' = (inData > 1)
  /\ LET answer == Head(toClient)
     IN  /\ received' = ReceivedAfter(answer)
         /\ listed' = ListAfter(answer)
         /\ m_cmdFinishFlag' = FlagAfter(answer.label)
         /\ troubles' = IF answer.label = "CXWJ" /\ answer.id = 0
                        THEN troubles \cup {"push"} ELSE troubles
  /\ UNCHANGED fragment

(* A message behind a part of another: nothing is understood of both, or   *)
(* something that answers no request; the flag is set all the same.        *)
ExecuteSpoiled ==
  /\ ~ Head(toClient).more
  /\ Head(toClient).label # "CXWJ" /\ fragment
  /\ processing' = (inData > 1)
  /\ fragment' = FALSE
  /\ m_cmdFinishFlag' = FlagAfter(Head(toClient).label)
  /\ \/ UNCHANGED <<received, listed>>
     \/ /\ received' = [received EXCEPT ![Head(toClient).label] = 0]
        /\ listed' = IF Head(toClient).label = "WJLB" THEN 0 ELSE listed
  /\ UNCHANGED troubles

(* The file cannot be opened: the flag is set, and Process ends; what      *)
(* m_strData still holds waits for the next data.                          *)
OpenFails ==
  /\ "open" \in faults
  /\ Head(toClient).label = "CXWJ"
  /\ processing' = FALSE
  /\ m_cmdFinishFlag' = 1
  /\ troubles' = troubles \cup {"open"}
  /\ UNCHANGED <<fragment, received, listed>>

Process ==
  /\ dispatch = "running" /\ processing
  /\ Keep \/ Execute \/ ExecuteSpoiled \/ OpenFails
  /\ toClient' = Tail(toClient) /\ inData' = inData - 1
  /\ UNCHANGED <<faults, m_bConnect, link, conns, toServer, pushes, lesson, stored,
                 m_spWorker, bevLive, uploaded, dispatch, svc, app, undefined>>

(* event_cb on EOF or an error; the base has no event left and its loop    *)
(* will end.                                                               *)
EventCb ==
  /\ dispatch = "running" /\ link = "closed"
  /\ ~ processing /\ inData = Len(toClient)
  /\ m_bConnect' = FALSE
  /\ dispatch' = "leaving"
  /\ UNCHANGED <<faults, netVars, workerVars, svc, app, undefined>>

DispatchEnds ==
  /\ dispatch = "leaving"
  /\ dispatch' = "ended"
  /\ UNCHANGED <<faults, m_bConnect, netVars, workerVars, svc, app, undefined>>
-----------------------------------------------------------------------------
(*                    The heartbeat task: Svc, TryConnect                  *)

(* A heartbeat while m_bConnect is set; when it cannot be sent TryConnect  *)
(* returns at once, because m_bConnect is set.                             *)
Heartbeat == svc = "idle" /\ m_bConnect /\ UNCHANGED vars

(* TryConnect frees bufferevent and base, though the dispatch thread may   *)
(* still be in the base's loop.                                            *)
FreeOld ==
  /\ svc = "idle" /\ ~ m_bConnect
  /\ bevLive' = FALSE
  /\ link' = "none" /\ toServer' = <<>> /\ toClient' = <<>>
  /\ inData' = 0 /\ processing' = FALSE
  /\ undefined' = (undefined \/ dispatch # "ended")
  /\ svc' = "connecting"
  /\ UNCHANGED <<faults, m_bConnect, conns, pushes, lesson, stored, m_spWorker,
                 fragment, m_cmdFinishFlag, answerVars, uploaded, dispatch, app>>

ConnectFails ==
  /\ svc = "connecting"
  /\ svc' = "idle"
  /\ UNCHANGED <<faults, m_bConnect, netVars, workerVars, dispatch, app, undefined>>

ConnectSucceeds ==
  /\ svc = "connecting"
  /\ Connection
  /\ svc' = "join"
  /\ UNCHANGED <<faults, m_bConnect, dispatch, app, undefined>>

(* The old dispatch thread is joined, a new one started.                   *)
Restart ==
  /\ svc = "join" /\ dispatch = "ended"
  /\ dispatch' = "running"
  /\ svc' = "started"
  /\ UNCHANGED <<faults, m_bConnect, netVars, workerVars, app, undefined>>

(* m_bConnect = TRUE, at the end of TryConnect.                            *)
SetConnected ==
  /\ svc = "started"
  /\ m_bConnect' = Connected
  /\ svc' = "idle"
  /\ UNCHANGED <<faults, netVars, workerVars, dispatch, app, undefined>>
-----------------------------------------------------------------------------
InCall == InitDone \/ Upload \/ Reset \/ Send \/ Enter \/ Wake \/ WakeStale \/ Return
Dispatch == Receive \/ Process \/ EventCb \/ DispatchEnds
Svc == Heartbeat \/ FreeOld \/ ConnectFails \/ ConnectSucceeds \/ Restart \/ SetConnected

Next == InitConnects \/ Request \/ InCall \/ Serve \/ Push \/ NewLesson \/ Drop
        \/ Dispatch \/ Svc

Spec == Init /\ [][Next]_vars

(* The threads and the server go on, and a server that is tried again and  *)
(* again is reached at last.                                               *)
FairSpec ==
  /\ Spec
  /\ WF_vars(InCall) /\ WF_vars(Serve) /\ WF_vars(Dispatch) /\ WF_vars(Svc)
  /\ SF_vars(ConnectSucceeds)
-----------------------------------------------------------------------------
(*                               Properties                                *)

(* The calls, threads and flags of a session keep to their states; the wait *)
(* flag is only "reset" or "set" (function.cpp:401-413, client/work.cpp:53).*)
TypeOK ==
  /\ faults \in FaultSets
  /\ m_bConnect \in BOOLEAN
  /\ link \in {"up", "closed", "none"}
  /\ conns \in 0 .. MaxConns /\ pushes \in 0 .. MaxPushes
  /\ lesson \in 0 .. MaxLessons /\ stored \in 0 .. MaxRequests
  /\ toServer \in Seq([kind : Kinds \cup {"UpperFile"}, id : 1 .. MaxRequests,
                       part : 0 .. MaxPackages - 1])
  /\ toClient \in Seq([label : Labels, id : Nat, upto : 0 .. MaxRequests, more : BOOLEAN])
  /\ inData \in 0 .. Len(toClient) /\ (processing => inData > 0)
  /\ fragment \in BOOLEAN /\ (fragment => "long" \in troubles)
  /\ m_spWorker \in 0 .. MaxConns /\ bevLive \in BOOLEAN
  /\ m_cmdFinishFlag \in {-1, 1}
  /\ received \in [Labels -> Nat]
  /\ troubles \subseteq {"push", "open", "long", "server"}
  /\ listed \in 0 .. MaxRequests /\ uploaded \in 0 .. MaxRequests
  /\ dispatch \in {"none", "running", "leaving", "ended"}
  /\ svc \in {"off", "idle", "connecting", "join", "started"}
  /\ app \in [pc : {"start", "init", "idle", "upload", "reset", "send", "enter", "wait",
                    "return"},
              kind : Kinds, id : 0 .. MaxRequests, worker : 0 .. MaxConns,
              sent : 0 .. MaxConns]
  /\ undefined \in BOOLEAN

(* "Wait for the command's return" (function.h:36): although every answer  *)
(* sets the same flag, a call returns the answer to its own request, and   *)
(* never an older one that was late, until the worker it waited in is      *)
(* replaced or one of three things happened to the connection: a file      *)
(* nobody asked for came in, a received file could not be opened, which    *)
(* sets the flag (function.cpp:133) and lets the file's last package set   *)
(* it again in a later call, or a message came that did not fit one        *)
(* package (function.cpp:341) (client.cpp:299-339).                        *)
AnswerOwn ==
  [][Return /\ ~ undefined /\ troubles \subseteq {"server"} /\ app.worker = m_spWorker
       => received[Label[app.kind]] = app.id]_vars

(* A file list shows what was uploaded before it over the same connection: *)
(* the server executes the packages of a connection in turn, and stores an *)
(* upload before it takes the next one.  Excepted are the cases of         *)
(* AnswerOwn, and a server that failed to store an upload or to read the   *)
(* list (client.cpp:242-263, 305-325, server/work.cpp:62-73, 112-124).     *)
ListShowsUpload ==
  [][Return /\ ~ undefined /\ troubles = {} /\ app.worker = m_spWorker
       /\ app.kind = "GetFileList" => listed >= uploaded]_vars

(* A request the current connection took is answered and its caller        *)
(* returns, unless the connection breaks; a download may find no file.     *)
(* After a message of 1024 bytes or more nobody may rely on it: its second *)
(* package is never sent (function.cpp:341), so the caller it was for      *)
(* waits for ever; nor after a received file that could not be opened,     *)
(* which leaves the rest in m_strData (client.cpp:305-339,                 *)
(* server/work.cpp:112-133).                                               *)
Answered ==
  (app.pc = "wait" /\ app.sent = m_spWorker /\ app.kind # "DownloadFile" /\ link = "up")
    ~> (app.pc = "idle" \/ link # "up" \/ {"open", "long"} \cap troubles # {})

(* A lost connection that event_cb has reported is replaced, while the     *)
(* threads touch no freed memory (client.cpp:398-419, 451-455).            *)
NoticedReconnects ==
  (svc = "idle" /\ ~ m_bConnect /\ conns < MaxConns) ~> (m_bConnect \/ undefined)

(* While a connection lives its client is shown the current lesson,        *)
(* whatever it is waiting for, among whatever answers and files, on a      *)
(* replaced connection too, as long as the lesson and every other message  *)
(* fits one package and received files can be opened (client/work.cpp:     *)
(* 82-91, client.cpp:84-96, function.cpp:130-136, 341).                    *)
LessonShown ==
  (link = "up" /\ received["SKBJ"] # lesson)
    ~> (link # "up" \/ received["SKBJ"] = lesson \/ {"open", "long"} \cap troubles # {})

(* "Connection lost, trying to reconnect" (client.cpp:447): a connection   *)
(* that broke is replaced.                                                 *)
Reconnects ==
  (link = "closed" /\ conns < MaxConns) ~> (link = "up" \/ undefined)
=============================================================================
