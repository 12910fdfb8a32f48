-------------------------- MODULE Registry_proofs --------------------------
(***************************************************************************)
(* Proofs about Registry, for any number of callers and any rows: its      *)
(* operations use DataHelper as DataHelper allows, so that what is proved  *)
(* there holds here, and a look that nobody's write has overtaken still    *)
(* holds when the operation writes.                                        *)
(***************************************************************************)
EXTENDS Registry, DataHelper_proofs

allVars == <<vars, regVars>>

JobsOK ==
  /\ job \in [Callers -> Jobs \cup {NoJob}]
  /\ stage \in [Callers -> {"none", "check", "device", "write", "missing"}]
  /\ \A t \in Callers : stage[t] # "none" => job[t] \in Jobs

AnswersOK ==
  /\ found \in [Callers -> BOOLEAN]
  /\ known \in [Callers -> BOOLEAN]
  /\ clean \in [Callers -> BOOLEAN]
-----------------------------------------------------------------------------
(* The methods the operations call are DataHelper's.                       *)
LEMMA MethodInOps == ASSUME NEW j, NEW s PROVE j \in Jobs => Method(j, s) \in Ops
PROOF
  BY RegistryAssumption DEF Method, AllOps

LEMMA StepRefines ==
  ASSUME JobsOK, [RegNext]_allVars
  PROVE  [Next]_vars
PROOF
  <1>1. ASSUME NEW t \in Callers, ~ crashed, Start(t) PROVE Next
    BY <1>1, MethodInOps DEF Start, Next, Begin
  <1>2. ASSUME NEW t \in Callers, ~ crashed, Proceed(t) PROVE Next
    <2>1. job[t] \in Jobs
      BY <1>2 DEF JobsOK, Proceed, Back
    <2> QED
      BY <1>2, <2>1, MethodInOps DEF Proceed, Next, Begin
  <1>3. ASSUME NEW t \in Callers, ~ crashed, Check(t) \/ Write(t) \/ Inside(t) PROVE Next
    BY <1>3 DEF Check, Write, Inside, Next, Step
  <1>4. ASSUME NEW t \in Callers, Finish(t) \/ StartMissing(t) PROVE UNCHANGED vars
    BY <1>4 DEF Finish, StartMissing
  <1>5. CASE ~ crashed /\ RegDropped
    BY <1>5 DEF RegDropped, Next
  <1>6. CASE NoOperation \/ UNCHANGED allVars
    BY <1>6 DEF NoOperation, allVars
  <1> QED
    BY <1>1, <1>2, <1>3, <1>4, <1>5, <1>6 DEF RegNext

LEMMA JobsInductive ==
  ASSUME JobsOK, [RegNext]_allVars
  PROVE  JobsOK'
PROOF
  <1> USE DEF JobsOK, regVars, jobVars
  <1>1. ASSUME NEW t \in Callers, Start(t) PROVE JobsOK'
    BY <1>1 DEF Start, FirstStage
  <1>6. ASSUME NEW t \in Callers, StartMissing(t) PROVE JobsOK'
    <2>1. PICK path \in Paths :
            job' = [job EXCEPT ![t] = [proc |-> "UpFileAdd", key |-> path, val |-> 0]]
      BY <1>6 DEF StartMissing
    <2>2. [proc |-> "UpFileAdd", key |-> path, val |-> 0] \in Jobs
      BY DEF Jobs
    <2> QED
      BY <1>6, <2>1, <2>2 DEF StartMissing
  <1>2. ASSUME NEW t \in Callers, Proceed(t) PROVE JobsOK'
    BY <1>2 DEF Proceed, Back, NextStage
  <1>3. ASSUME NEW t \in Callers, Check(t) \/ Write(t) \/ Inside(t) PROVE JobsOK'
    BY <1>3 DEF Check, Write, Inside
  <1>4. ASSUME NEW t \in Callers, Finish(t) PROVE JobsOK'
    BY <1>4 DEF Finish
  <1>5. CASE RegDropped \/ NoOperation \/ UNCHANGED allVars
    BY <1>5 DEF RegDropped, NoOperation, allVars
  <1> QED
    BY <1>1, <1>2, <1>3, <1>4, <1>5, <1>6 DEF RegNext

LEMMA JobsAlways == RegSpec => []JobsOK
PROOF
  <1>1. RegInit => JobsOK
    BY DEF RegInit, JobsOK
  <1>2. JobsOK /\ [RegNext]_allVars => JobsOK'
    BY JobsInductive
  <1> QED
    BY <1>1, <1>2, PTL DEF RegSpec, allVars

(* The operations of StudentManager, in any number of threads, drive       *)
(* DataHelper only through its methods: every behaviour of Registry is one *)
(* of DataHelper.                                                          *)
THEOREM UsesDataHelper == RegSpec => Spec
PROOF
  <1>1. RegInit => Init
    BY DEF RegInit
  <1>2. JobsOK /\ [RegNext]_allVars => [Next]_vars
    BY StepRefines
  <1> QED
    BY <1>1, <1>2, JobsAlways, PTL DEF RegSpec, Spec, allVars

(* No operation reads the rows of another thread's statement, and none     *)
(* takes a quiet connection away but a call of close.                      *)
THEOREM DataHelperKeeps == RegSpec => []OwnResult /\ QuietForGood
PROOF
  BY UsesDataHelper, OwnResultCorrect, QuietForGoodCorrect, PTL
-----------------------------------------------------------------------------
Asked(t) == pc[t] # "query"

(* What an operation that nobody's write has overtaken may rely on.        *)
Looked(t) ==
  LET j == job[t]
  IN  clean[t] =>
        /\ stage[t] = "check" /\ Asked(t) =>
             /\ found[t] => Matching(j) # {}
             /\ known[t] /\ ~ found[t] => Matching(j) = {}
        /\ stage[t] = "device" =>
             /\ j.proc = "StudentAdd"
             /\ known[t] => Matching(j) = {}
             /\ Asked(t) /\ found[t] => \E d \in db.devices : d.ip = j.val \/ d.numble = 0
        /\ stage[t] = "write" /\ pc[t] # "idle" /\ pc[t] # "result" =>
             /\ known[t] /\ j.proc \in Checked /\ Adds(j, found[t]) => Matching(j) = {}
             /\ j.proc \in Checked /\ Deletes(j) => Matching(j) # {}
             /\ j.proc = "UpFileAdd" /\ found[t] => Matching(j) # {}
             /\ j.proc = "StudentAdd" =>
                  \E d \in db.devices : d.ip = j.val \/ d.numble = 0

LookInv ==
  \A t \in Callers :
    /\ stage[t] \in {"check", "device"} => pc[t] \in {"query", "result", "idle"}
    /\ Looked(t)

LEMMA LookInductive ==
  ASSUME PlacesOK, JobsOK, AnswersOK, LookInv, [RegNext]_allVars
  PROVE  LookInv'
PROOF
  <1> USE DEF PlacesOK, JobsOK, AnswersOK, LookInv, Looked, Asked, Matching, GoTo,
              regVars, jobVars, callVars
  <1>1. ASSUME NEW t \in Callers, Start(t) PROVE LookInv'
    <2>1. PICK j \in Jobs : /\ job' = [job EXCEPT ![t] = j]
                            /\ stage' = [stage EXCEPT ![t] = FirstStage(j)]
                            /\ Call(t, Method(j, FirstStage(j)))
      BY <1>1 DEF Start
    <2>2. UNCHANGED <<db, found, known, clean>>
      BY <1>1 DEF Start
    <2>3. CASE j.proc \in Checked
      <3>1. stage'[t] = "check" /\ pc'[t] = "query"
        BY <2>1, <2>3 DEF FirstStage, Method, Call, Entry
      <3> QED
        BY <2>1, <2>2, <3>1 DEF Call
    <2>4. CASE j.proc \notin Checked
      <3>1. stage'[t] = "write"
        BY <2>1, <2>4 DEF FirstStage
      <3> QED
        BY <2>1, <2>2, <2>4, <3>1 DEF Call, Checked
    <2> QED
      BY <2>3, <2>4
  <1>2. ASSUME NEW t \in Callers, Check(t) PROVE LookInv'
    <2>1. UNCHANGED <<db, job, stage, clean>>
      BY <1>2 DEF Check
    <2>2. \A u \in Callers \ {t} : pc'[u] = pc[u] /\ found'[u] = found[u] /\ known'[u] = known[u]
      BY <1>2 DEF Check, Query
    <2>3. pc'[t] \in {"result", "idle"}
      BY <1>2 DEF Check, Query
    <2>4. CASE pc'[t] = "result"
      <3>1. known'[t] = known[t] /\ found'[t] \in Finds(job[t], stage[t])
        BY <1>2, <2>4 DEF Check
      <3>2. stage[t] = "check" => (found'[t] <=> Matching(job[t]) # {})
        BY <3>1 DEF Finds
      <3>3. stage[t] = "device" /\ found'[t] =>
              \E d \in db.devices : d.ip = job[t].val \/ d.numble = 0
        BY <3>1 DEF Finds
      <3>4. stage[t] \in {"check", "device"}
        BY <1>2 DEF Check
      <3> QED
        BY <2>1, <2>2, <2>3, <3>1, <3>2, <3>3, <3>4
    <2>5. CASE pc'[t] # "result"
      <3>1. ~ found'[t] /\ ~ known'[t] /\ stage[t] \in {"check", "device"}
        BY <1>2, <2>5 DEF Check
      <3> QED
        BY <2>1, <2>2, <2>3, <3>1
    <2> QED
      BY <2>4, <2>5
  <1>3. ASSUME NEW t \in Callers, Write(t) PROVE LookInv'
    <2>1. UNCHANGED <<job, stage, found, known>> /\ stage[t] = "write"
      BY <1>3 DEF Write
    <2>2. pc'[t] \in {"result", "idle"} /\ \A u \in Callers \ {t} : pc'[u] = pc[u]
      BY <1>3 DEF Write, Query
    <2>3. CASE UNCHANGED <<db, clean>>
      BY <2>1, <2>2, <2>3
    <2>4. CASE \A u \in Callers \ {t} : clean'[u] => stage[u] = "none"
      BY <2>1, <2>2, <2>4
    <2> QED
      BY <1>3, <2>3, <2>4, ZenonT(40) DEF Write
  <1>4. ASSUME NEW t \in Callers, Inside(t) PROVE LookInv'
    BY <1>4 DEF Inside, Test, ConnectTest, ConnectReturns, IsStatement, RealConnect,
                StoreResult, NullResult, CloseFlag, MysqlClose
  <1>5. ASSUME NEW t \in Callers, Proceed(t) PROVE LookInv'
    BY <1>5 DEF Proceed, Back, NextStage, GoesOn, Adds, Deletes, Checked, Call, Method, Entry
  <1>6. ASSUME NEW t \in Callers, Finish(t) \/ StartMissing(t) PROVE LookInv'
    BY <1>6 DEF Finish, StartMissing, vars
  <1>7. CASE RegDropped \/ NoOperation \/ UNCHANGED allVars
    BY <1>7 DEF RegDropped, Dropped, NoOperation, allVars, vars
  <1> QED
    BY <1>1, <1>2, <1>3, <1>4, <1>5, <1>6, <1>7 DEF RegNext

LEMMA AnswersInductive ==
  ASSUME AnswersOK, [RegNext]_allVars
  PROVE  AnswersOK'
PROOF
  <1> USE DEF AnswersOK, regVars, jobVars
  <1>1. ASSUME NEW t \in Callers, Check(t) PROVE AnswersOK'
    <2>1. ASSUME NEW answer \in Finds(job[t], stage[t]) PROVE answer \in BOOLEAN
      BY DEF Finds
    <2> QED
      BY <1>1, <2>1 DEF Check
  <1>2. ASSUME NEW t \in Callers, Write(t) PROVE AnswersOK'
    BY <1>2 DEF Write
  <1>3. ASSUME NEW t \in Callers, Finish(t) PROVE AnswersOK'
    BY <1>3 DEF Finish
  <1>4. ASSUME NEW t \in Callers,
               Start(t) \/ StartMissing(t) \/ Inside(t) \/ Proceed(t)
        PROVE  AnswersOK'
    BY <1>4 DEF Start, StartMissing, Inside, Proceed
  <1>5. CASE RegDropped \/ NoOperation \/ UNCHANGED allVars
    BY <1>5 DEF RegDropped, NoOperation, allVars
  <1> QED
    BY <1>1, <1>2, <1>3, <1>4, <1>5 DEF RegNext

(* Looking and writing are two holds of the mutex; while nobody else       *)
(* writes in between and the look did not fail, the write finds what was   *)
(* looked for, whatever the tables hold and however many threads there are.*)
THEOREM CheckHoldsCorrect == RegSpec => []CheckHolds
PROOF
  <1>1. RegInit => AnswersOK /\ LookInv
    BY DEF RegInit, AnswersOK, LookInv, Looked
  <1>2. AnswersOK /\ [RegNext]_allVars => AnswersOK'
    BY AnswersInductive
  <1>3. PlacesOK /\ JobsOK /\ AnswersOK /\ LookInv /\ [RegNext]_allVars => LookInv'
    BY LookInductive
  <1>4. LookInv => CheckHolds
    BY DEF LookInv, Looked, CheckHolds
  <1>5. RegSpec => []PlacesOK
    BY UsesDataHelper, PlacesAndLock, PTL
  <1> QED
    BY <1>1, <1>2, <1>3, <1>4, <1>5, JobsAlways, PTL DEF RegSpec, allVars
-----------------------------------------------------------------------------
Tables == {"devices", "students", "classes", "upfile", "downfile"}
RowsOf(name) ==
  CASE name = "devices" -> Devices [] name = "students" -> Students
    [] name = "classes" -> Names [] name = "upfile" -> Uploads [] OTHER -> Paths

DbOK ==
  /\ db = [name \in Tables |-> db[name]]
  /\ \A name \in Tables : db[name] \subseteq RowsOf(name)

LEMMA WrittenOK ==
  ASSUME NEW j \in Jobs, NEW t \in Callers, NEW exists \in BOOLEAN, DbOK, ~ Reads(j)
  PROVE  Table(j) \in Tables /\ Written(j, t, exists) \subseteq RowsOf(Table(j))
PROOF
  <1> USE DEF DbOK, Tables
  <1>1. CASE j.proc \in {"DeviceAdd", "DeviceDel", "DeviceModify", "DeviceReset"}
    <2>1. Table(j) = "devices" /\ RowsOf("devices") = Devices
      BY <1>1 DEF Table, RowsOf
    <2>2. j.key \in Ips /\ (j.proc # "DeviceDel" => j.val \in Numbers)
      BY <1>1 DEF Jobs
    <2>3. NewRow(j, t) \in Devices \/ ~ Adds(j, exists)
      BY <1>1, <2>2 DEF NewRow, Adds, Devices
    <2>4. ASSUME NEW row \in Devices, ~ Deletes(j) PROVE Updated(j, t, row) \in Devices
      BY <1>1, <2>2, <2>4 DEF Updated, Deletes, Devices
    <2> QED
      BY <2>1, <2>3, <2>4 DEF Written, Matching
  <1>2. CASE j.proc \in {"StudentAdd", "StudentDel", "StudentModify"}
    <2>1. Table(j) = "students" /\ RowsOf("students") = Students
      BY <1>2 DEF Table, RowsOf
    <2>2. j.key \in Names /\ (j.proc # "StudentDel" => j.val \in Ips)
      BY <1>2 DEF Jobs
    <2>3. NewRow(j, t) \in Students \/ ~ Adds(j, exists)
      BY <1>2, <2>2 DEF NewRow, Adds, Students
    <2>4. ASSUME NEW row \in Students, ~ Deletes(j) PROVE Updated(j, t, row) \in Students
      BY <1>2, <2>2, <2>4 DEF Updated, Deletes, Students
    <2> QED
      BY <2>1, <2>3, <2>4 DEF Written, Matching
  <1>3. CASE j.proc \in {"ClassAdd", "ClassDel", "ClassRename"}
    <2>1. Table(j) = "classes" /\ RowsOf("classes") = Names
      BY <1>3 DEF Table, RowsOf
    <2>2. j.key \in Names /\ (j.proc = "ClassRename" => j.val \in Names)
      BY <1>3 DEF Jobs
    <2> QED
      BY <1>3, <2>1, <2>2 DEF Written, Adds, Deletes, NewRow, Updated, Matching
  <1>4. CASE j.proc \in {"UpFileAdd", "UpFileDel", "UpFileModify"}
    <2>1. Table(j) = "upfile" /\ RowsOf("upfile") = Uploads
      BY <1>4 DEF Table, RowsOf
    <2>2. j.key \in Paths
      BY <1>4 DEF Jobs
    <2>3. NewRow(j, t) \in Uploads \/ ~ Adds(j, exists)
      BY <1>4, <2>2 DEF NewRow, Adds, Uploads
    <2>4. ASSUME NEW row \in Uploads, ~ Deletes(j) PROVE Updated(j, t, row) \in Uploads
      BY <1>4, <2>2, <2>4 DEF Updated, Deletes, Uploads
    <2> QED
      BY <2>1, <2>3, <2>4 DEF Written, Matching
  <1>5. CASE j.proc \in {"DownFileAdd", "DownFileDel", "DownFileModify"}
    <2>1. Table(j) = "downfile" /\ RowsOf("downfile") = Paths
      BY <1>5 DEF Table, RowsOf
    <2>2. j.key \in Paths
      BY <1>5 DEF Jobs
    <2> QED
      BY <1>5, <2>1, <2>2 DEF Written, Adds, Deletes, NewRow, Updated, Matching
  <1> QED
    BY <1>1, <1>2, <1>3, <1>4, <1>5 DEF Jobs, Reads

LEMMA DbInductive ==
  ASSUME JobsOK, AnswersOK, DbOK, [RegNext]_allVars
  PROVE  DbOK'
PROOF
  <1>1. ASSUME NEW t \in Callers, Write(t), ~ UNCHANGED db PROVE DbOK'
    <2> DEFINE j == job[t]
               rows == Written(j, t, found[t])
    <2>1. j \in Jobs /\ found[t] \in BOOLEAN /\ ~ Reads(j)
      BY <1>1 DEF Write, JobsOK, AnswersOK
    <2>2. db' = [db EXCEPT ![Table(j)] = rows]
      BY <1>1 DEF Write
    <2>3. Table(j) \in Tables /\ rows \subseteq RowsOf(Table(j))
      BY <2>1, WrittenOK
    <2>4. \A name \in Tables : db'[name] = IF name = Table(j) THEN rows ELSE db[name]
      BY <2>2, <2>3 DEF DbOK
    <2>5. \A name \in Tables : db'[name] \subseteq RowsOf(name)
      BY <2>3, <2>4 DEF DbOK
    <2>6. db' = [name \in Tables |-> db'[name]]
      BY <2>2, <2>3 DEF DbOK
    <2> QED
      BY <2>5, <2>6 DEF DbOK
  <1>2. CASE UNCHANGED db
    BY <1>2 DEF DbOK
  <1> QED
    BY <1>1, <1>2
       DEF RegNext, regVars, allVars, Start, StartMissing, Check, Inside, Proceed,
           Finish, RegDropped, NoOperation

LEMMA DbAlways == RegSpec => [](JobsOK /\ AnswersOK /\ DbOK)
PROOF
  <1>1. RegInit => AnswersOK /\ DbOK
    BY DEF RegInit, AnswersOK, DbOK, Tables
  <1>2. AnswersOK /\ [RegNext]_allVars => AnswersOK'
    BY AnswersInductive
  <1>3. JobsOK /\ AnswersOK /\ DbOK /\ [RegNext]_allVars => DbOK'
    BY DbInductive
  <1> QED
    BY <1>1, <1>2, <1>3, JobsAlways, PTL DEF RegSpec, allVars

(* Every reachable state is well typed: the tables hold only rows of their *)
(* own kind, whatever operations overlap.                                  *)
THEOREM RegTypeCorrect == RegSpec => []RegTypeOK
PROOF
  <1>1. RegInit => jobs \in 0 .. MaxJobs
    BY RegistryAssumption DEF RegInit
  <1>2. jobs \in 0 .. MaxJobs /\ [RegNext]_allVars => (jobs \in 0 .. MaxJobs)'
    BY RegistryAssumption
       DEF RegNext, regVars, allVars, Start, StartMissing, Check, Write, Inside,
           Proceed, Finish, RegDropped, NoOperation
  <1>3. JobsOK /\ AnswersOK /\ DbOK /\ TypeOK /\ jobs \in 0 .. MaxJobs => RegTypeOK
    <2> SUFFICES ASSUME JobsOK, AnswersOK, DbOK, TypeOK, jobs \in 0 .. MaxJobs
                 PROVE  RegTypeOK
      OBVIOUS
    <2>1. db \in [devices : SUBSET Devices, students : SUBSET Students,
                  classes : SUBSET Names, upfile : SUBSET Uploads,
                  downfile : SUBSET Paths]
      BY DEF DbOK, Tables, RowsOf
    <2> QED
      BY <2>1 DEF JobsOK, AnswersOK, RegTypeOK
  <1> QED
    BY <1>1, <1>2, <1>3, DbAlways, UsesDataHelper, TypeCorrect, PTL DEF RegSpec, allVars
-----------------------------------------------------------------------------
(* What WorkDone promises of an operation that wrote.                      *)
Achieved(j, t) ==
  /\ j.proc \in {"DeviceAdd", "StudentAdd", "ClassAdd", "UpFileAdd", "DownFileAdd"}
       => NewRow(j, t) \in db[Table(j)]
  /\ Deletes(j) /\ ~ (j.proc = "UpFileDel" /\ j.key \in Backslashed) => Matching(j) = {}
  /\ j.proc = "ClassRename" /\ j.key # j.val => Matching(j) = {}

DoneInv ==
  \A t \in Callers :
    /\ stage[t] \notin {"none", "missing"} => op[t] = Method(job[t], stage[t])
    /\ stage[t] = "missing" => job[t].proc = "UpFileAdd"
    /\ stage[t] = "write" /\ clean[t] /\ (pc[t] = "result" \/ (pc[t] = "idle" /\ ok[t]))
         => Achieved(job[t], t)

LEMMA WriteAchieves ==
  ASSUME JobsOK, AnswersOK, DbOK, LookInv, NEW t \in Callers, Write(t), clean[t],
         pc'[t] = "result"
  PROVE  Achieved(job[t], t)'
PROOF
  <1> DEFINE j == job[t]
             rows == db[Table(j)]
             hit == Matching(j)
  <1>1. j \in Jobs /\ job'[t] = j /\ found[t] \in BOOLEAN
    BY DEF Write, JobsOK, AnswersOK, jobVars
  <1>2. CASE Reads(j)
    BY <1>1, <1>2 DEF Reads, Achieved, Deletes
  <1>3. CASE ~ Reads(j)
    <2>1. db' = [db EXCEPT ![Table(j)] = Written(j, t, found[t])]
      BY <1>3 DEF Write
    <2>2. Table(j) \in Tables /\ rows \subseteq RowsOf(Table(j))
      BY <1>1, <1>3, WrittenOK DEF DbOK
    <2>3. db'[Table(j)] = Written(j, t, found[t])
      BY <2>1, <2>2 DEF DbOK
    <2>4. Matching(j)' = {row \in Written(j, t, found[t]) : HasKey(j, row)}
      BY <1>1, <2>3 DEF Matching
    <2>5. CASE Adds(j, found[t])
      <3>1. ~ Deletes(j) /\ j.proc # "ClassRename"
        BY <2>5 DEF Adds, Deletes
      <3>2. NewRow(j, t) \in Written(j, t, found[t])
        BY <2>5, <3>1 DEF Written
      <3> QED
        BY <1>1, <2>3, <3>1, <3>2 DEF Achieved
    <2>6. CASE Deletes(j)
      <3>1. Written(j, t, found[t]) = rows \ hit
        BY <2>6 DEF Written, Adds, Deletes
      <3>2. Matching(j)' = {}
        BY <2>4, <3>1 DEF Matching
      <3>3. j.proc \notin {"DeviceAdd", "StudentAdd", "ClassAdd", "UpFileAdd",
                         "DownFileAdd", "ClassRename"}
        BY <2>6 DEF Deletes
      <3> QED
        BY <1>1, <3>2, <3>3 DEF Achieved
    <2>7. CASE ~ Adds(j, found[t]) /\ ~ Deletes(j)
      <3>1. Written(j, t, found[t]) = (rows \ hit) \cup {Updated(j, t, row) : row \in hit}
        BY <2>7 DEF Written
      <3>2. CASE j.proc = "UpFileAdd"
        <4>1. found[t]
          BY <1>1, <2>7, <3>2 DEF Adds
        <4>2. PICK row \in hit : TRUE
          BY <3>2, <4>1 DEF LookInv, Looked, Write, Query
        <4>3. row \in Uploads /\ row.path = j.key
          BY <2>2, <3>2, <4>2 DEF Matching, HasKey, Table, RowsOf
        <4>4. Updated(j, t, row) = NewRow(j, t)
          BY <3>2, <4>3 DEF Updated, NewRow, Uploads
        <4>5. NewRow(j, t) \in Written(j, t, found[t])
          BY <3>1, <4>2, <4>4
        <4> QED
          BY <1>1, <2>3, <2>7, <3>2, <4>5 DEF Achieved
      <3>3. CASE j.proc = "ClassRename" /\ j.key # j.val
        <4>1. \A row : HasKey(j, row) <=> row = j.key
          BY <3>3 DEF HasKey
        <4>2. \A row : Updated(j, t, row) = j.val
          BY <3>3 DEF Updated
        <4>3. Matching(j)' = {}
          BY <2>4, <3>1, <3>3, <4>1, <4>2 DEF Matching
        <4> QED
          BY <1>1, <2>7, <3>3, <4>3 DEF Achieved
      <3>4. CASE j.proc # "UpFileAdd" /\ ~ (j.proc = "ClassRename" /\ j.key # j.val)
        <4>1. j.proc \notin {"DeviceAdd", "StudentAdd", "ClassAdd", "DownFileAdd"}
          BY <2>7 DEF Adds
        <4> QED
          BY <1>1, <2>7, <3>4, <4>1 DEF Achieved
      <3> QED
        BY <3>2, <3>3, <3>4
    <2> QED
      BY <2>5, <2>6, <2>7
  <1> QED
    BY <1>2, <1>3

LEMMA DoneInductive ==
  ASSUME PlacesOK, FlagsOK, JobsOK, AnswersOK, DbOK, LookInv, DoneInv, [RegNext]_allVars
  PROVE  DoneInv'
PROOF
  <1> USE DEF PlacesOK, FlagsOK, JobsOK, AnswersOK, GoTo, regVars, jobVars, callVars
  <1>1. ASSUME UNCHANGED db PROVE \A j, t : Achieved(j, t)' <=> Achieved(j, t)
    BY <1>1 DEF Achieved, Matching
  <1>2. ASSUME NEW t \in Callers, Start(t) PROVE DoneInv'
    <2>1. PICK j \in Jobs : /\ job' = [job EXCEPT ![t] = j]
                            /\ stage' = [stage EXCEPT ![t] = FirstStage(j)]
                            /\ Call(t, Method(j, FirstStage(j)))
      BY <1>2 DEF Start
    <2>2. UNCHANGED <<db, clean>>
      BY <1>2 DEF Start
    <2>3. /\ op'[t] = Method(job'[t], stage'[t])
          /\ pc'[t] \notin {"idle", "result"} /\ stage'[t] # "missing"
      BY <2>1, MethodInOps, DataAssumption DEF Call, Entry, AllOps, FirstStage
    <2>4. \A u \in Callers \ {t} :
            /\ job'[u] = job[u] /\ stage'[u] = stage[u] /\ pc'[u] = pc[u]
            /\ op'[u] = op[u] /\ ok'[u] = ok[u]
      BY <2>1 DEF Call
    <2> QED
      BY <1>1, <2>2, <2>3, <2>4 DEF DoneInv
  <1>3. ASSUME NEW t \in Callers, Proceed(t) PROVE DoneInv'
    <2>1. UNCHANGED <<db, clean, job>>
      BY <1>3 DEF Proceed
    <2>2. /\ op'[t] = Method(job'[t], stage'[t])
          /\ pc'[t] \notin {"idle", "result"} /\ stage'[t] # "missing"
      BY <1>3, MethodInOps, DataAssumption
         DEF Proceed, Back, NextStage, Call, Entry, AllOps
    <2>3. \A u \in Callers \ {t} :
            /\ stage'[u] = stage[u] /\ pc'[u] = pc[u]
            /\ op'[u] = op[u] /\ ok'[u] = ok[u]
      BY <1>3 DEF Proceed, Call
    <2> QED
      BY <1>1, <2>1, <2>2, <2>3 DEF DoneInv
  <1>4. ASSUME NEW t \in Callers, Check(t) PROVE DoneInv'
    <2>1. UNCHANGED <<db, clean, job, stage, op>> /\ stage[t] # "write"
      BY <1>4 DEF Check, Query
    <2>2. \A u \in Callers \ {t} : pc'[u] = pc[u] /\ (stage[u] = "write" => ok'[u] = ok[u])
      BY <1>4 DEF Check, Query
    <2> QED
      BY <1>1, <2>1, <2>2 DEF DoneInv
  <1>5. ASSUME NEW t \in Callers, Write(t) PROVE DoneInv'
    <2>1. UNCHANGED <<job, stage, op>> /\ stage[t] = "write" /\ pc[t] = "query"
      BY <1>5 DEF Write, Query
    <2>2. \A u \in Callers \ {t} : pc'[u] = pc[u] /\ (pc[u] = "idle" => ok'[u] = ok[u])
      BY <1>5 DEF Write, Query
    <2>3. CASE pc'[t] = "result"
      <3>1. clean'[t] => clean[t]
        BY <1>5 DEF Write
      <3>2. clean[t] => Achieved(job[t], t)'
        BY <1>5, <2>3, WriteAchieves
      <3>3. ASSUME NEW u \in Callers \ {t}, clean'[u], stage[u] # "none" PROVE UNCHANGED db /\ clean[u]
        BY <1>5, <3>3 DEF Write
      <3> QED
        BY <1>1, <2>1, <2>2, <2>3, <3>1, <3>2, <3>3 DEF DoneInv
    <2>4. CASE pc'[t] # "result"
      <3>1. pc'[t] = "idle" /\ ~ ok'[t]
        BY <1>5, <2>4 DEF Write, Query
      <3>2. UNCHANGED <<db, clean>>
        BY <1>5, <2>4 DEF Write
      <3> QED
        BY <1>1, <2>1, <2>2, <3>1, <3>2 DEF DoneInv
    <2> QED
      BY <2>3, <2>4
  <1>6. ASSUME NEW t \in Callers, Inside(t) PROVE DoneInv'
    <2>1. UNCHANGED <<db, clean, job, stage, op>>
      BY <1>6 DEF Inside, Test, ConnectTest, RealConnect, StoreResult, NullResult,
                  CloseFlag, MysqlClose
    <2>2. \A u \in Callers \ {t} : pc'[u] = pc[u] /\ ok'[u] = ok[u]
      BY <1>6 DEF Inside, Test, ConnectTest, RealConnect, StoreResult, NullResult,
                  CloseFlag, MysqlClose, ConnectReturns
    <2>3. pc'[t] = "idle" => pc[t] = "result" \/ ~ IsStatement(op[t])
      BY <1>6 DEF Inside, Test, ConnectTest, RealConnect, StoreResult, NullResult,
                  CloseFlag, MysqlClose, ConnectReturns
    <2>4. pc'[t] = "result" => pc[t] = "result"
      BY <1>6 DEF Inside, Test, ConnectTest, RealConnect, StoreResult, NullResult,
                  CloseFlag, MysqlClose, ConnectReturns
    <2>5. stage[t] = "write" /\ ~ IsStatement(op[t]) => Achieved(job[t], t)
      BY DEF DoneInv, IsStatement, Method, Achieved, Deletes
    <2> QED
      BY <1>1, <2>1, <2>2, <2>3, <2>4, <2>5 DEF DoneInv
  <1>7. ASSUME NEW t \in Callers, Finish(t) PROVE DoneInv'
    <2>1. UNCHANGED <<vars, db>> /\ stage' = [stage EXCEPT ![t] = "none"]
      BY <1>7 DEF Finish
    <2>2. \A u \in Callers \ {t} : job'[u] = job[u] /\ clean'[u] = clean[u]
      BY <1>7 DEF Finish
    <2> QED
      BY <1>1, <2>1, <2>2 DEF DoneInv, vars
  <1>9. ASSUME NEW t \in Callers, StartMissing(t) PROVE DoneInv'
    <2>1. UNCHANGED <<vars, db, clean>> /\ stage' = [stage EXCEPT ![t] = "missing"]
      BY <1>9 DEF StartMissing
    <2>2. job'[t].proc = "UpFileAdd" /\ \A u \in Callers \ {t} : job'[u] = job[u]
      BY <1>9 DEF StartMissing
    <2> QED
      BY <1>1, <2>1, <2>2 DEF DoneInv, vars
  <1>8. CASE RegDropped \/ NoOperation \/ UNCHANGED allVars
    <2>1. UNCHANGED <<callVars, regVars>>
      BY <1>8 DEF RegDropped, Dropped, NoOperation, allVars, vars
    <2> QED
      BY <1>1, <2>1 DEF DoneInv
  <1> QED
    BY <1>2, <1>3, <1>4, <1>5, <1>6, <1>7, <1>8, <1>9 DEF RegNext

(* An operation that returned success, with nobody else writing meanwhile, *)
(* did what it is for: through lost connections and the races for a new    *)
(* one, for any number of threads; but for the add of an upload without a  *)
(* file and the delete of one whose path has a backslash.                  *)
THEOREM WorkDoneCorrect == RegSpec => WorkDone
PROOF
  <1> DEFINE AllInv == PlacesOK /\ FlagsOK /\ JobsOK /\ AnswersOK /\ DbOK /\ LookInv
             Works == \A t \in Callers :
                        LET j == job[t]
                        IN  Finish(t) /\ Succeeded(t) /\ clean[t] =>
                              /\ j.proc \in {"DeviceAdd", "StudentAdd", "ClassAdd",
                                             "UpFileAdd", "DownFileAdd"}
                                   => stage[t] = "missing" \/ NewRow(j, t) \in db[Table(j)]
                              /\ Deletes(j) /\ ~ (j.proc = "UpFileDel" /\ j.key \in Backslashed)
                                   => Matching(j) = {}
                              /\ j.proc = "ClassRename" /\ j.key # j.val => Matching(j) = {}
  <1>1. RegInit => DoneInv
    BY DEF RegInit, DoneInv
  <1>2. AllInv /\ DoneInv /\ [RegNext]_allVars => DoneInv'
    BY DoneInductive
  <1>3. AllInv /\ DoneInv /\ [RegNext]_allVars => [Works]_allVars
    <2> SUFFICES ASSUME DoneInv PROVE Works
      OBVIOUS
    <2> SUFFICES ASSUME NEW t \in Callers, Finish(t), Succeeded(t), clean[t]
                 PROVE  \/ Achieved(job[t], t)
                        \/ stage[t] = "missing" /\ job[t].proc = "UpFileAdd"
      BY DEF Achieved, Deletes
    <2> QED
      BY DEF DoneInv, Finish, Back, Succeeded
  <1>4. RegSpec => []AllInv
    <2>1. RegInit => LookInv
      BY DEF RegInit, LookInv, Looked
    <2>2. PlacesOK /\ JobsOK /\ AnswersOK /\ LookInv /\ [RegNext]_allVars => LookInv'
      BY LookInductive
    <2>3. RegSpec => [](PlacesOK /\ TypeOK)
      BY UsesDataHelper, PlacesAndLock, TypeCorrect, PTL
    <2>4. TypeOK => FlagsOK
      BY DEF TypeOK, FlagsOK
    <2> QED
      BY <2>1, <2>2, <2>3, <2>4, DbAlways, PTL DEF RegSpec, allVars
  <1> QED
    BY <1>1, <1>2, <1>3, <1>4, PTL DEF RegSpec, WorkDone, allVars
=============================================================================
