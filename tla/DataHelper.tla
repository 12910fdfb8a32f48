----------------------------- MODULE DataHelper -----------------------------
(***************************************************************************)
(* DataHelper (Src/DataHelp.cpp), the process-wide singleton through which *)
(* every worker thread and the host application reach MySQL: one handle,   *)
(* one flag, one mutex.  Connect and the two statements that call it test  *)
(* the flag without the mutex, IsExistData does not test it at all, close  *)
(* takes no mutex.                                                         *)
(*                                                                         *)
(* The handle is what the client library makes of the calls: initialised,  *)
(* connected, cut off by the server without having noticed it, cut off and *)
(* noticed, or closed.                                                     *)
(***************************************************************************)
EXTENDS Integers

CONSTANTS
  Callers,    \* threads that call the singleton, numbered from 1
  Ops,        \* the methods they call
  DbFails,    \* may the database refuse a connection?
  DbDrops     \* may the database cut the connection?

AllOps == {"Connect", "excuteSql", "Display", "IsExistData", "close"}

ASSUME DataAssumption ==
  /\ Callers \subseteq Nat \ {0}
  /\ Ops \subseteq AllOps
  /\ DbFails \in BOOLEAN
  /\ DbDrops \in BOOLEAN

Nobody == 0        \* no caller

VARIABLES
  m_bConnect,   \* the flag
  m_mydata,     \* the handle: "init", "up", "lost", "down" or "closed"
  refused,      \* history: did the database refuse or cut a connection?
  crashed,      \* has the process died of a result that is not there?
  m_data_mtx,   \* the caller that holds the mutex
  resultOf,     \* the caller whose statement's result the connection holds
  pc,           \* per caller, where its call stands
  op,           \* per caller, the method it calls
  stored,       \* per caller, whose result its last call stored
  ok,           \* per caller, did its last call do what it is for?
  rt            \* per caller, what its last call returned

dbVars == <<m_bConnect, m_mydata, refused, crashed>>
callVars == <<pc, op, stored, ok, rt>>
vars == <<dbVars, m_data_mtx, resultOf, callVars>>

Init ==
  /\ m_bConnect = FALSE
  /\ m_mydata = "init"
  /\ refused = FALSE
  /\ crashed = FALSE
  /\ m_data_mtx = Nobody
  /\ resultOf = Nobody
  /\ pc = [t \in Callers |-> "idle"]
  /\ op = [t \in Callers |-> "Connect"]
  /\ stored = [t \in Callers |-> t]
  /\ ok = [t \in Callers |-> TRUE]
  /\ rt = [t \in Callers |-> 0]

IsStatement(o) == o \in {"excuteSql", "Display", "IsExistData"}

GoTo(t, where) == pc' = [pc EXCEPT ![t] = where]

(* A statement goes on to its query, any other call returns value.         *)
ConnectReturns(t, value) ==
  IF IsStatement(op[t])
  THEN GoTo(t, "query") /\ UNCHANGED <<ok, rt>>
  ELSE /\ GoTo(t, "idle")
       /\ ok' = [ok EXCEPT ![t] = value = 0]
       /\ rt' = [rt EXCEPT ![t] = value]

(* Where a method begins: excuteSql and Display with IsConnect, Connect    *)
(* with its own, IsExistData with the query.                               *)
Entry(o) == CASE o \in {"excuteSql", "Display"} -> "test"
              [] o = "Connect" -> "connect"
              [] o = "IsExistData" -> "query"
              [] o = "close" -> "close"

Call(t, o) ==
  /\ pc[t] = "idle"
  /\ op' = [op EXCEPT ![t] = o]
  /\ GoTo(t, Entry(o))
  /\ UNCHANGED <<dbVars, m_data_mtx, resultOf, stored, ok, rt>>

Begin(t) == \E o \in Ops : Call(t, o)

(* if (!IsConnect()) Connect(), in excuteSql and Display.                  *)
Test(t) ==
  /\ pc[t] = "test"
  /\ GoTo(t, IF m_bConnect THEN "query" ELSE "connect")
  /\ UNCHANGED <<dbVars, m_data_mtx, resultOf, op, stored, ok, rt>>

(* Mutant: Connect does not ask whether it is connected.                   *)
ConnectedNever == FALSE

Connected == m_bConnect

(* Connect: if (IsConnect()) return 0, and the configuration is read.      *)
ConnectTest(t) ==
  /\ pc[t] = "connect"
  /\ IF Connected THEN ConnectReturns(t, 0)
                   ELSE GoTo(t, "real_connect") /\ UNCHANGED <<ok, rt>>
  /\ UNCHANGED <<dbVars, m_data_mtx, resultOf, op, stored>>

(* mysql_real_connect: an initialised handle connects when the database    *)
(* lets it, a connected one refuses to connect again, and with a handle    *)
(* that was closed and not initialised again anything may come out.        *)
MayConnect == m_mydata \in {"init", "down", "closed"}
MayFail == DbFails \/ m_mydata \in {"up", "lost", "closed"}

(* The flag after mysql_real_connect: untouched when it failed.            *)
FlagAfter(connected) == connected \/ m_bConnect

(* Connect under the mutex: a failure closes the handle.                   *)
RealConnect(t) ==
  /\ pc[t] = "real_connect" /\ m_data_mtx = Nobody
  /\ \E connected \in BOOLEAN :
       /\ connected => MayConnect
       /\ ~ connected => MayFail
       /\ m_mydata' = IF connected THEN "up" ELSE "closed"
       /\ m_bConnect' = FlagAfter(connected)
       /\ refused' = (refused \/ (~ connected /\ m_mydata \in {"init", "down"}))
       /\ ConnectReturns(t, IF connected THEN 0 ELSE -1)
  /\ UNCHANGED <<crashed, m_data_mtx, resultOf, op, stored>>

(* Mutant: the statements take no lock.                                    *)
UnlockedNever == TRUE

Unlocked == m_data_mtx = Nobody

(* Mutant: the failure is returned as MySQL's positive error code.         *)
FailedQueryCode(o) == IF o = "IsExistData" THEN 0 ELSE 2006

(* What a method returns after a failed query; false in IsExistData, as if *)
(* the query had found no row.                                             *)
FailedQuery(o) == IF o = "IsExistData" THEN 0 ELSE -1

(* mysql_query, under the mutex: it succeeds on a connected handle.  A     *)
(* failed query ends the call.                                             *)
Query(t) ==
  /\ pc[t] = "query" /\ Unlocked
  /\ IF m_mydata = "up"
     THEN /\ resultOf' = t
          /\ m_data_mtx' = t
          /\ GoTo(t, "result")
          /\ UNCHANGED <<m_mydata, ok, rt>>
     ELSE /\ m_mydata' = IF m_mydata = "lost" THEN "down" ELSE m_mydata
          /\ GoTo(t, "idle")
          /\ ok' = [ok EXCEPT ![t] = FALSE]
          /\ rt' = [rt EXCEPT ![t] = FailedQuery(op[t])]
          /\ UNCHANGED <<m_data_mtx, resultOf>>
  /\ UNCHANGED <<m_bConnect, refused, crashed, op, stored>>

(* What a method returns after a good query.  Display runs off its end     *)
(* without a return: any value.                                            *)
Returned(o) == IF o = "Display" THEN {-1, 0} ELSE {0}

(* mysql_store_result and the rows, except in excuteSql; the mutex is      *)
(* released.  On a connection cut since the query the result may still     *)
(* have arrived.                                                           *)
StoreResult(t) ==
  /\ pc[t] = "result"
  /\ op[t] = "excuteSql" \/ m_mydata \in {"up", "lost"}
  /\ stored' = [stored EXCEPT ![t] = IF op[t] = "excuteSql" THEN t ELSE resultOf]
  /\ resultOf' = Nobody
  /\ m_data_mtx' = Nobody
  /\ GoTo(t, "idle")
  /\ ok' = [ok EXCEPT ![t] = TRUE]
  /\ \E value \in Returned(op[t]) : rt' = [rt EXCEPT ![t] = value]
  /\ UNCHANGED <<dbVars, op>>

(* The connection was cut, or another thread closed the handle, since the  *)
(* query: mysql_store_result returns NULL, mysql_num_rows reads through it *)
(* and the process dies.                                                   *)
NullResult(t) ==
  /\ pc[t] = "result"
  /\ op[t] # "excuteSql" /\ m_mydata # "up"
  /\ crashed' = TRUE
  /\ UNCHANGED <<m_bConnect, m_mydata, refused, m_data_mtx, resultOf, callVars>>

(* close: the flag first ...                                               *)
CloseFlag(t) ==
  /\ pc[t] = "close"
  /\ m_bConnect' = FALSE
  /\ GoTo(t, "mysql_close")
  /\ UNCHANGED <<m_mydata, refused, crashed, m_data_mtx, resultOf, op, stored, ok, rt>>

(* ... then mysql_close.                                                   *)
MysqlClose(t) ==
  /\ pc[t] = "mysql_close"
  /\ m_mydata' = "closed"
  /\ ConnectReturns(t, 0)
  /\ UNCHANGED <<m_bConnect, refused, crashed, m_data_mtx, resultOf, op, stored>>

(* The database cuts the connection, between a query and its result too.   *)
Dropped ==
  /\ DbDrops /\ m_mydata = "up"
  /\ m_mydata' = "lost"
  /\ refused' = TRUE
  /\ UNCHANGED <<m_bConnect, crashed, m_data_mtx, resultOf, callVars>>

(* Nobody calls, or the process is gone.                                   *)
Uncalled == (crashed \/ \A t \in Callers : pc[t] = "idle") /\ UNCHANGED vars
-----------------------------------------------------------------------------
Step(t) == \/ Test(t) \/ ConnectTest(t) \/ RealConnect(t)
           \/ Query(t) \/ StoreResult(t) \/ NullResult(t)
           \/ CloseFlag(t) \/ MysqlClose(t)

Next == \/ ~ crashed /\ ((\E t \in Callers : Begin(t) \/ Step(t)) \/ Dropped)
        \/ Uncalled

Spec == Init /\ [][Next]_vars
-----------------------------------------------------------------------------
(*                               Properties                                *)

TypeOK ==
  /\ m_bConnect \in BOOLEAN
  /\ m_mydata \in {"init", "up", "lost", "down", "closed"}
  /\ refused \in BOOLEAN
  /\ crashed \in BOOLEAN
  /\ m_data_mtx \in Callers \cup {Nobody}
  /\ resultOf \in Callers \cup {Nobody}
  /\ pc \in [Callers -> {"idle", "test", "connect", "real_connect", "query",
                        "result", "close", "mysql_close"}]
  /\ op \in [Callers -> AllOps]
  /\ stored \in [Callers -> Callers]
  /\ ok \in [Callers -> BOOLEAN]
  /\ rt \in [Callers -> {-1, 0}]

(* One connection carries the statements of all threads, and still nobody  *)
(* is given the result of another's query: mysql_query and                 *)
(* mysql_store_result are under one hold of m_data_mtx                     *)
(* (DataHelp.cpp:102-104, 142-144).                                        *)
OwnResult == \A t \in Callers : stored[t] = t

Quiet ==
  /\ m_bConnect /\ m_mydata = "up"
  /\ \A t \in Callers : pc[t] \notin {"real_connect", "close", "mysql_close"}

(* The test of the flag without the mutex hurts only while the first       *)
(* connection is made: once connected, with nobody past the test, callers  *)
(* never reconnect or close the handle behind each other's back.  Only a   *)
(* call of close or the database ends that (DataHelp.cpp:45-68, 76-79,     *)
(* 95-98, 155-160).                                                        *)
QuietForGood ==
  [][Quiet => Quiet' \/ Dropped \/ \E t \in Callers : pc'[t] = "close"]_vars

(* "High-concurrency connections, providing database access" (ReadMe.txt:9)*)
(* while the database accepts every connection and drops none, the         *)
(* statements of concurrent threads run.                                   *)
StatementsRun ==
  \A t \in Callers :
    op[t] \in {"excuteSql", "Display"} /\ ~ refused => ok[t]
=============================================================================
