------------------------------ MODULE Registry ------------------------------
(***************************************************************************)
(* StudentManager (Src/StudentManager.cpp) over DataHelper: several threads*)
(* add, delete, modify and view devices, students, classes and files.  An  *)
(* operation looks for a row with one statement and writes with another;   *)
(* the mutex is released in between.  Each statement goes through the      *)
(* steps of DataHelper, which may find no connection, a broken one, or     *)
(* lose the race for the first one.                                        *)
(*                                                                         *)
(* Tables are sets of rows: no statement tells equal rows apart.  A row is *)
(* its key and what another operation looks at.  Arguments that cannot be  *)
(* parsed, and empty names, touch no table and are left out.               *)
(***************************************************************************)
EXTENDS DataHelper

CONSTANTS
  Ips, Numbers,   \* of devices
  Names,          \* of classes and of students
  Paths,          \* of files
  Backslashed,    \* the paths with a backslash
  MaxJobs         \* bound: operations begun

ASSUME RegistryAssumption ==
  /\ Backslashed \subseteq Paths
  /\ MaxJobs \in Nat
  /\ Ops = AllOps

VARIABLES
  db,        \* the tables
  job,       \* per caller, the operation and its arguments
  stage,     \* per caller, which statement of it runs
  found,     \* per caller, what its last IsExistData returned
  known,     \* history: did the queries of its checks all run?
  clean,     \* history: has nobody else written since it began?
  jobs       \* operations begun

jobVars == <<job, stage, found, known>>
regVars == <<db, jobVars, clean, jobs>>

(* The operations, their arguments as key and val.  DeviceReset is Device's*)
(* modify without the argument "number".  View stands for every other op 2,*)
(* GetFiles and the excuteSql with a result, Sql for the one without;      *)
(* Connect and close are called directly (main.cpp).                       *)
Jobs ==
  [proc : {"DeviceAdd", "DeviceModify", "DeviceReset"}, key : Ips, val : Numbers]
  \cup [proc : {"DeviceDel"}, key : Ips, val : {0}]
  \cup [proc : {"StudentAdd", "StudentModify"}, key : Names, val : Ips]
  \cup [proc : {"StudentDel", "ClassAdd", "ClassDel", "ClassView"}, key : Names, val : {0}]
  \cup [proc : {"ClassRename"}, key : Names, val : Names]
  \cup [proc : {"UpFileAdd", "UpFileModify", "UpFileDel", "DownFileAdd",
                "DownFileModify", "DownFileDel"}, key : Paths, val : {0}]
  \cup [proc : {"View", "Sql", "Connect", "close"}, key : {0}, val : {0}]

NoJob == [proc |-> "none", key |-> 0, val |-> 0]

RegInit ==
  /\ Init
  /\ db = [devices |-> {}, students |-> {}, classes |-> {}, upfile |-> {}, downfile |-> {}]
  /\ job = [t \in Callers |-> NoJob]
  /\ stage = [t \in Callers |-> "none"]
  /\ found = [t \in Callers |-> FALSE]
  /\ known = [t \in Callers |-> TRUE]
  /\ clean = [t \in Callers |-> TRUE]
  /\ jobs = 0
-----------------------------------------------------------------------------
(* Operations that begin with IsExistData.                                 *)
Checked == {"DeviceAdd", "StudentAdd", "StudentDel", "StudentModify",
            "ClassAdd", "ClassDel", "ClassView", "UpFileAdd"}

FirstStage(j) == IF j.proc \in Checked THEN "check" ELSE "write"

(* The method of DataHelper a stage calls.                                 *)
Method(j, s) == IF s # "write" THEN "IsExistData"
                ELSE IF j.proc \in {"View", "ClassView"} THEN "Display"
                ELSE IF j.proc \in {"Connect", "close"} THEN j.proc ELSE "excuteSql"

(* Does a row match the operation's key?  The path in UpFile's delete is   *)
(* not escaped, its backslashes are read as escapes, and it matches none.  *)
HasKey(j, row) ==
  CASE j.proc = "DeviceAdd" -> row.ip = j.key \/ row.number = j.val
    [] j.proc = "DeviceDel" -> row.ip = j.key
    [] j.proc \in {"DeviceModify", "DeviceReset"} -> row.number = j.val
    [] j.proc \in {"StudentAdd", "StudentDel", "StudentModify"} -> row.name = j.key
    [] j.proc \in {"UpFileAdd", "UpFileModify"} -> row.path = j.key
    [] j.proc = "UpFileDel" -> row.path = j.key /\ row.path \notin Backslashed
    [] OTHER -> row = j.key

Table(j) ==
  CASE j.proc \in {"DeviceAdd", "DeviceDel", "DeviceModify", "DeviceReset"} -> "devices"
    [] j.proc \in {"StudentAdd", "StudentDel", "StudentModify"} -> "students"
    [] j.proc \in {"ClassAdd", "ClassDel", "ClassView", "ClassRename"} -> "classes"
    [] j.proc \in {"UpFileAdd", "UpFileDel", "UpFileModify"} -> "upfile"
    [] OTHER -> "downfile"

Matching(j) == {row \in db[Table(j)] : HasKey(j, row)}

(* Mutant: a device is looked for under both its address and its number.   *)
FindsBoth(j, s) ==
  IF j.proc = "DeviceAdd"
  THEN {\E row \in db.devices : row.ip = j.key /\ row.number = j.val}
  ELSE {Matching(j) # {}}

(* What IsExistData may find.  StudentAdd's second check compares the      *)
(* column numble, 0 after a reset, with the student's device number: the  *)
(* column's type decides whether they are equal.                           *)
Finds(j, s) ==
  IF s = "device"
  THEN {\E row \in db.devices : row.ip = j.val}
       \cup {TRUE : row \in {r \in db.devices : r.numble = 0}}
  ELSE {Matching(j) # {}}

(* The row an add inserts, for caller t.                                   *)
NewRow(j, t) ==
  CASE j.proc = "DeviceAdd" -> [ip |-> j.key, number |-> j.val, numble |-> -1]
    [] j.proc = "StudentAdd" -> [name |-> j.key, ip |-> j.val]
    [] j.proc = "UpFileAdd" -> [path |-> j.key, by |-> t]
    [] OTHER -> j.key

(* Mutant: the update of an upload keeps the former student.               *)
UpdatedKeepsStudent(j, t, row) ==
  CASE j.proc = "DeviceModify" -> [row EXCEPT !.ip = j.key]
    [] j.proc = "DeviceReset" -> [row EXCEPT !.ip = j.key, !.numble = 0]
    [] j.proc = "StudentModify" -> [row EXCEPT !.ip = j.val]
    [] j.proc = "ClassRename" -> j.val
    [] OTHER -> row

(* What an update makes of a row that matches.  The test of "number" is the*)
(* wrong way round: given, it is not read and the column left alone; absent*)
(* it reads as 0, which is written.                                        *)
Updated(j, t, row) ==
  CASE j.proc = "DeviceModify" -> [row EXCEPT !.ip = j.key]
    [] j.proc = "DeviceReset" -> [row EXCEPT !.ip = j.key, !.numble = 0]
    [] j.proc = "StudentModify" -> [row EXCEPT !.ip = j.val]
    [] j.proc \in {"UpFileAdd", "UpFileModify"} -> [row EXCEPT !.by = t]
    [] j.proc = "ClassRename" -> j.val
    [] OTHER -> row

Adds(j, exists) ==
  \/ j.proc \in {"DeviceAdd", "StudentAdd", "ClassAdd", "DownFileAdd"}
  \/ j.proc = "UpFileAdd" /\ ~ exists

Deletes(j) == j.proc \in {"DeviceDel", "StudentDel", "ClassDel", "UpFileDel", "DownFileDel"}

Reads(j) == j.proc \in {"View", "ClassView", "Sql", "Connect", "close"}

(* The operation's table after its write.                                  *)
Written(j, t, exists) ==
  LET rows == db[Table(j)]
      hit == Matching(j)
  IN  CASE Adds(j, exists) -> rows \cup {NewRow(j, t)}
        [] Deletes(j) -> rows \ hit
        [] OTHER -> (rows \ hit) \cup {Updated(j, t, row) : row \in hit}

(* Does the operation go on to its write after its first check?            *)
GoesOn(j, exists) ==
  CASE j.proc \in {"DeviceAdd", "StudentAdd", "ClassAdd"} -> ~ exists
    [] j.proc \in {"StudentDel", "ClassDel"} -> exists
    [] OTHER -> TRUE
-----------------------------------------------------------------------------
(* An operation begins.                                                    *)
Start(t) ==
  /\ stage[t] = "none" /\ jobs < MaxJobs
  /\ jobs' = jobs + 1
  /\ \E j \in Jobs :
       /\ job' = [job EXCEPT ![t] = j]
       /\ stage' = [stage EXCEPT ![t] = FirstStage(j)]
       /\ Call(t, Method(j, FirstStage(j)))
  /\ UNCHANGED <<db, found, known, clean>>

(* UpFile's add of a file that is not on disk returns 0 at once.           *)
StartMissing(t) ==
  /\ stage[t] = "none" /\ jobs < MaxJobs
  /\ jobs' = jobs + 1
  /\ \E path \in Paths :
       job' = [job EXCEPT ![t] = [proc |-> "UpFileAdd", key |-> path, val |-> 0]]
  /\ stage' = [stage EXCEPT ![t] = "missing"]
  /\ UNCHANGED <<vars, db, found, known, clean>>

(* The statement runs in the database, or fails: IsExistData returns false *)
(* then, as if no row matched.                                             *)
Check(t) ==
  /\ stage[t] \in {"check", "device"} /\ Query(t)
  /\ IF pc'[t] = "result"
     THEN /\ \E answer \in Finds(job[t], stage[t]) : found' = [found EXCEPT ![t] = answer]
          /\ UNCHANGED known
     ELSE /\ found' = [found EXCEPT ![t] = FALSE]
          /\ known' = [known EXCEPT ![t] = FALSE]
  /\ UNCHANGED <<db, job, stage, clean, jobs>>

Write(t) ==
  /\ stage[t] = "write" /\ Query(t)
  /\ IF pc'[t] = "result" /\ ~ Reads(job[t])
     THEN /\ db' = [db EXCEPT ![Table(job[t])] = Written(job[t], t, found[t])]
          /\ clean' = [u \in Callers |-> clean[u] /\ (u = t \/ stage[u] = "none")]
     ELSE UNCHANGED <<db, clean>>
  /\ UNCHANGED <<jobVars, jobs>>

(* The other steps of the methods of DataHelper.                           *)
Inside(t) ==
  /\ Test(t) \/ ConnectTest(t) \/ RealConnect(t) \/ StoreResult(t)
     \/ NullResult(t) \/ CloseFlag(t) \/ MysqlClose(t)
  /\ UNCHANGED regVars

(* A method has returned to the operation.                                 *)
Back(t) == stage[t] # "none" /\ pc[t] = "idle"

NextStage(t) ==
  IF stage[t] = "check" /\ GoesOn(job[t], found[t])
  THEN IF job[t].proc = "StudentAdd" THEN "device" ELSE "write"
  ELSE IF stage[t] = "device" /\ found[t] THEN "write" ELSE "none"

Proceed(t) ==
  /\ Back(t) /\ NextStage(t) # "none"
  /\ stage' = [stage EXCEPT ![t] = NextStage(t)]
  /\ Call(t, Method(job[t], NextStage(t)))
  /\ UNCHANGED <<db, job, found, known, clean, jobs>>

Finish(t) ==
  /\ Back(t) /\ NextStage(t) = "none"
  /\ stage' = [stage EXCEPT ![t] = "none"]
  /\ job' = [job EXCEPT ![t] = NoJob]
  /\ found' = [found EXCEPT ![t] = FALSE]
  /\ known' = [known EXCEPT ![t] = TRUE]
  /\ clean' = [clean EXCEPT ![t] = TRUE]
  /\ UNCHANGED <<vars, db, jobs>>

RegDropped == Dropped /\ UNCHANGED regVars

(* No operation runs, or the process is gone.                              *)
NoOperation ==
  (crashed \/ \A t \in Callers : stage[t] = "none") /\ UNCHANGED <<vars, regVars>>

RegNext ==
  \/ /\ ~ crashed
     /\ \/ \E t \in Callers : Start(t) \/ StartMissing(t) \/ Check(t) \/ Write(t)
                              \/ Inside(t) \/ Proceed(t) \/ Finish(t)
        \/ RegDropped
  \/ NoOperation

RegSpec == RegInit /\ [][RegNext]_<<vars, regVars>>
-----------------------------------------------------------------------------
(*                               Properties                                *)

Devices == [ip : Ips, number : Numbers, numble : {-1, 0}]
Students == [name : Names, ip : Ips]
Uploads == [path : Paths, by : Callers]

(* Types; the tables hold only rows the operations may write.              *)
RegTypeOK ==
  /\ TypeOK
  /\ db \in [devices : SUBSET Devices, students : SUBSET Students,
             classes : SUBSET Names, upfile : SUBSET Uploads,
             downfile : SUBSET Paths]
  /\ job \in [Callers -> Jobs \cup {NoJob}]
  /\ stage \in [Callers -> {"none", "check", "device", "write", "missing"}]
  /\ found \in [Callers -> BOOLEAN]
  /\ known \in [Callers -> BOOLEAN]
  /\ clean \in [Callers -> BOOLEAN]
  /\ jobs \in 0 .. MaxJobs
  /\ \A t \in Callers : stage[t] # "none" => job[t] \in Jobs

(* Looking for a row and writing are two holds of the mutex.  As long as   *)
(* nobody else wrote in between and the look did not fail, the write finds *)
(* what was looked for: an add no row of its key, so that keys stay        *)
(* unique, a delete or an update of an upload its row, and a new student's *)
(* device (StudentManager.cpp:47, 140, 157, 234, 291).                     *)
CheckHolds ==
  \A t \in Callers :
    (stage[t] = "write" /\ pc[t] # "idle" /\ pc[t] # "result" /\ clean[t] /\ known[t])
      => LET j == job[t]
         IN  /\ j.proc \in Checked /\ Adds(j, found[t]) => Matching(j) = {}
             /\ j.proc \in Checked /\ Deletes(j) => Matching(j) # {}
             /\ j.proc = "UpFileAdd" /\ found[t] => Matching(j) # {}
             /\ j.proc = "StudentAdd" =>
                  \E d \in db.devices : d.ip = j.val \/ d.numble = 0

Succeeded(t) == stage[t] = "missing" \/ (stage[t] = "write" /\ ok[t])

(* An operation that returned success with nobody else writing meanwhile   *)
(* did what it is for, connection lost and found again or not: what was    *)
(* added is there, an upload under its last uploader, what was deleted or  *)
(* renamed is gone (StudentManager.cpp:15-471).  Two exceptions are the    *)
(* code's: the add of an upload whose file is not on disk returns success  *)
(* and writes nothing (284-287), and the delete of an upload whose path has*)
(* a backslash deletes nothing (310).                                      *)
WorkDone ==
  [][\A t \in Callers :
       LET j == job[t]
       IN  Finish(t) /\ Succeeded(t) /\ clean[t] =>
             /\ j.proc \in {"DeviceAdd", "StudentAdd", "ClassAdd", "UpFileAdd", "DownFileAdd"}
                  => stage[t] = "missing" \/ NewRow(j, t) \in db[Table(j)]
             /\ Deletes(j) /\ ~ (j.proc = "UpFileDel" /\ j.key \in Backslashed)
                  => Matching(j) = {}
             /\ j.proc = "ClassRename" /\ j.key # j.val => Matching(j) = {}]_<<vars, regVars>>
=============================================================================
