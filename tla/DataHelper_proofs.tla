------------------------- MODULE DataHelper_proofs -------------------------
(***************************************************************************)
(* Proofs about DataHelper, for any number of callers: types, nobody is    *)
(* given another's result, and a quiet connection stays quiet.             *)
(***************************************************************************)
EXTENDS DataHelper, TLAPS

PlacesOK ==
  /\ m_mydata \in {"init", "up", "lost", "down", "closed"}
  /\ m_data_mtx \in Callers \cup {Nobody}
  /\ resultOf \in Callers \cup {Nobody}
  /\ pc \in [Callers -> {"idle", "test", "connect", "real_connect", "query",
                        "result", "close", "mysql_close"}]
  /\ op \in [Callers -> AllOps]
  /\ rt \in [Callers -> {-1, 0}]

FlagsOK ==
  /\ m_bConnect \in BOOLEAN
  /\ refused \in BOOLEAN
  /\ crashed \in BOOLEAN
  /\ ok \in [Callers -> BOOLEAN]

(* Who holds the mutex holds the connection's result.                      *)
Locked ==
  \A t \in Callers :
    /\ pc[t] = "result" <=> m_data_mtx = t
    /\ pc[t] = "result" => resultOf = t

StoredOK == stored \in [Callers -> Callers] /\ OwnResult
-----------------------------------------------------------------------------
LEMMA PlacesInductive ==
  ASSUME PlacesOK, [Next]_vars
  PROVE  PlacesOK'
PROOF
  <1> USE DataAssumption
      DEF PlacesOK, AllOps, GoTo, ConnectReturns, IsStatement, Nobody, dbVars, callVars
  <1>1. ASSUME NEW t \in Callers, NEW o \in Ops, Call(t, o) PROVE PlacesOK'
    BY <1>1 DEF Call, Entry
  <1>2. ASSUME NEW t \in Callers, Test(t) PROVE PlacesOK'
    BY <1>2 DEF Test
  <1>3. ASSUME NEW t \in Callers, ConnectTest(t) PROVE PlacesOK'
    BY <1>3 DEF ConnectTest
  <1>4. ASSUME NEW t \in Callers, RealConnect(t) PROVE PlacesOK'
    BY <1>4 DEF RealConnect
  <1>5. ASSUME NEW t \in Callers, Query(t) PROVE PlacesOK'
    BY <1>5 DEF Query, FailedQuery
  <1>6. ASSUME NEW t \in Callers, StoreResult(t) \/ NullResult(t) PROVE PlacesOK'
    BY <1>6 DEF StoreResult, NullResult, Returned
  <1>7. ASSUME NEW t \in Callers, CloseFlag(t) \/ MysqlClose(t) PROVE PlacesOK'
    BY <1>7 DEF CloseFlag, MysqlClose
  <1>8. CASE Dropped
    BY <1>8 DEF Dropped
  <1>9. CASE UNCHANGED vars
    BY <1>9 DEF vars
  <1> QED
    BY <1>1, <1>2, <1>3, <1>4, <1>5, <1>6, <1>7, <1>8, <1>9
       DEF Next, Begin, Step, Uncalled

LEMMA FlagsInductive ==
  ASSUME FlagsOK, [Next]_vars
  PROVE  FlagsOK'
PROOF
  <1> USE DEF FlagsOK, dbVars, callVars
  <1>1. m_bConnect' \in BOOLEAN
    BY DEF Next, Begin, Step, Uncalled, vars, Call, Test, ConnectTest, RealConnect,
           FlagAfter, Query, StoreResult, NullResult, CloseFlag, MysqlClose, Dropped
  <1>2. refused' \in BOOLEAN
    BY DEF Next, Begin, Step, Uncalled, vars, Call, Test, ConnectTest, RealConnect,
           Query, StoreResult, NullResult, CloseFlag, MysqlClose, Dropped
  <1>3. crashed' \in BOOLEAN
    BY DEF Next, Begin, Step, Uncalled, vars, Call, Test, ConnectTest, RealConnect,
           Query, StoreResult, NullResult, CloseFlag, MysqlClose, Dropped
  <1>4. ok' \in [Callers -> BOOLEAN]
    BY DEF Next, Begin, Step, Uncalled, vars, Call, Test, ConnectTest, RealConnect,
           ConnectReturns, Query, StoreResult, NullResult, CloseFlag, MysqlClose, Dropped
  <1> QED
    BY <1>1, <1>2, <1>3, <1>4

LEMMA LockedInductive ==
  ASSUME PlacesOK, Locked, [Next]_vars
  PROVE  Locked'
PROOF
  <1> USE DataAssumption
      DEF PlacesOK, Locked, GoTo, ConnectReturns, IsStatement, Nobody, dbVars, callVars
  <1>1. ASSUME NEW t \in Callers, NEW o \in Ops, Call(t, o) PROVE Locked'
    BY <1>1 DEF Call, Entry, AllOps
  <1>2. ASSUME NEW t \in Callers, Test(t) PROVE Locked'
    BY <1>2 DEF Test
  <1>3. ASSUME NEW t \in Callers, ConnectTest(t) PROVE Locked'
    BY <1>3 DEF ConnectTest
  <1>4. ASSUME NEW t \in Callers, RealConnect(t) PROVE Locked'
    BY <1>4 DEF RealConnect
  <1>5. ASSUME NEW t \in Callers, Query(t) PROVE Locked'
    BY <1>5 DEF Query, Unlocked
  <1>6. ASSUME NEW t \in Callers, StoreResult(t) \/ NullResult(t) PROVE Locked'
    BY <1>6 DEF StoreResult, NullResult
  <1>7. ASSUME NEW t \in Callers, CloseFlag(t) \/ MysqlClose(t) PROVE Locked'
    BY <1>7 DEF CloseFlag, MysqlClose
  <1>8. CASE Dropped
    BY <1>8 DEF Dropped
  <1>9. CASE UNCHANGED vars
    BY <1>9 DEF vars
  <1> QED
    BY <1>1, <1>2, <1>3, <1>4, <1>5, <1>6, <1>7, <1>8, <1>9
       DEF Next, Begin, Step, Uncalled

LEMMA StoredInductive ==
  ASSUME PlacesOK, Locked, StoredOK, [Next]_vars
  PROVE  StoredOK'
PROOF
  <1> USE DEF StoredOK, OwnResult, dbVars, callVars
  <1>1. ASSUME NEW t \in Callers, StoreResult(t) PROVE StoredOK'
    BY <1>1 DEF StoreResult, Locked
  <1>2. CASE UNCHANGED stored
    BY <1>2
  <1> QED
    BY <1>1, <1>2
       DEF Next, Begin, Step, Uncalled, vars, Call, Test, ConnectTest, RealConnect,
           Query, NullResult, CloseFlag, MysqlClose, Dropped
-----------------------------------------------------------------------------
LEMMA PlacesAndLock == Spec => [](PlacesOK /\ Locked /\ StoredOK)
PROOF
  <1>1. Init => PlacesOK /\ Locked /\ StoredOK
    BY DataAssumption
       DEF Init, PlacesOK, Locked, StoredOK, OwnResult, AllOps, Nobody
  <1>2. PlacesOK /\ Locked /\ StoredOK /\ [Next]_vars => (PlacesOK /\ Locked /\ StoredOK)'
    BY PlacesInductive, LockedInductive, StoredInductive
  <1> QED
    BY <1>1, <1>2, PTL DEF Spec

(* Every reachable state is well typed, for any number of callers: a call  *)
(* returns 0 or -1 and no other value.                                     *)
THEOREM TypeCorrect == Spec => []TypeOK
PROOF
  <1>1. Init => FlagsOK
    BY DEF Init, FlagsOK
  <1>2. FlagsOK /\ [Next]_vars => FlagsOK'
    BY FlagsInductive
  <1>3. PlacesOK /\ StoredOK /\ FlagsOK => TypeOK
    BY DEF PlacesOK, StoredOK, FlagsOK, TypeOK
  <1> QED
    BY <1>1, <1>2, <1>3, PlacesAndLock, PTL DEF Spec

(* Nobody is given the result of another's query: who holds m_data_mtx     *)
(* between query and result owns the result the connection holds.          *)
THEOREM OwnResultCorrect == Spec => []OwnResult
PROOF
  <1>1. StoredOK => OwnResult
    BY DEF StoredOK
  <1> QED
    BY <1>1, PlacesAndLock, PTL

(* Once connected, with nobody past Connect's test, only a call of close   *)
(* or the database takes the connection away.                              *)
THEOREM QuietForGoodCorrect == Spec => QuietForGood
PROOF
  <1> DEFINE Stays == Quiet' \/ Dropped \/ \E t \in Callers : pc'[t] = "close"
  <1>1. ASSUME PlacesOK, Quiet, [Next]_vars PROVE Stays
    <2> USE <1>1 DEF PlacesOK, Quiet, GoTo, ConnectReturns, dbVars, callVars
    <2>1. ASSUME NEW t \in Callers, NEW o \in Ops, Call(t, o) PROVE Stays
      <3>1. Entry(o) = "close" \/ Entry(o) \in {"test", "connect", "query"}
        BY DataAssumption DEF Entry, AllOps
      <3> QED
        BY <2>1, <3>1 DEF Call
    <2>2. ASSUME NEW t \in Callers, Test(t) PROVE Stays
      BY <2>2 DEF Test
    <2>3. ASSUME NEW t \in Callers, ConnectTest(t) PROVE Stays
      BY <2>3 DEF ConnectTest, Connected
    <2>4. ASSUME NEW t \in Callers, RealConnect(t) \/ CloseFlag(t) \/ MysqlClose(t)
          PROVE  Stays
      BY <2>4 DEF RealConnect, CloseFlag, MysqlClose
    <2>5. ASSUME NEW t \in Callers, Query(t) PROVE Stays
      BY <2>5 DEF Query
    <2>6. ASSUME NEW t \in Callers, StoreResult(t) \/ NullResult(t) PROVE Stays
      BY <2>6 DEF StoreResult, NullResult
    <2>7. CASE Dropped
      BY <2>7
    <2>8. CASE UNCHANGED vars
      BY <2>8 DEF vars
    <2> QED
      BY <2>1, <2>2, <2>3, <2>4, <2>5, <2>6, <2>7, <2>8 DEF Next, Begin, Step, Uncalled
  <1>2. PlacesOK /\ [Next]_vars => [Quiet => Stays]_vars
    BY <1>1
  <1> QED
    BY <1>2, PlacesAndLock, PTL DEF Spec, QuietForGood
=============================================================================
