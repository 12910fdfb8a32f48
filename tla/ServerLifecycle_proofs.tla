---------------------- MODULE ServerLifecycle_proofs ----------------------
(***************************************************************************)
(* Proofs about ServerLifecycle, for any number of worker threads: types,  *)
(* the safety of a server that is up, what a clean destruction leaves, and *)
(* the order of the destructor.                                            *)
(***************************************************************************)
EXTENDS ServerLifecycle, TLAPS

Ready(t) == entry[t] = "set" /\ base[t] = "live"
Done(t) == entry[t] = "deleted" /\ base[t] = "freed" /\ thread[t] = "joined"
Runs(l) == thread[l] \in {"created", "looping", "left"}

(* What start has built, phase by phase.                                   *)
StartInv ==
  ~ failed /\ ~ stopping =>
    /\ ~ undefined
    /\ at \in StartPhases \cup {"up"}
    /\ ~ At("base") => base[Listener] = "live"
    /\ At("channels") => \A t \in Workers : t < i => Ready(t)
    /\ at \in {"threads", "listen", "up"} => \A t \in Workers : Ready(t)
    /\ at \in {"base", "channels"} => \A l \in Loops : thread[l] = "none"
    /\ At("threads") => \A t \in Workers : t < i => Runs(t)
    /\ at \in {"listen", "up"} => \A t \in Workers : Runs(t)
    /\ At("up") => Runs(Listener)
    /\ thread[Listener] # "none" => At("up") /\ m_listener = "live"

(* How far start has come, whatever went wrong.                            *)
Shape ==
  /\ at \in StartPhases => m_listener = "unset"
  /\ at \in {"base", "channels", "threads"} => ~ failed \/ undefined
  /\ (At("channels") /\ i > 0) \/ at \in {"threads", "listen"} =>
       \A t \in Workers : entry[t] # "none"
  /\ At("up") => m_listener = "unset" \/ \A t \in Workers : entry[t] # "none"

LastNull == entry[THREAD_NUMB - 1] = "null"
NotListening == m_listener \in {"unset", "null"} /\ at \notin StartPhases

(* What destruction without undefined behaviour has dismantled; a server   *)
(* that failed to start has nothing to free at one of its ends.            *)
StopInv ==
  ~ undefined =>
    /\ failed => LastNull \/ NotListening
    /\ At("free") => entry[i] = "set"
    /\ At("join") => entry[i] = "set" /\ base[i] = "freed"
    /\ At("delete") => entry[i] = "set" /\ base[i] = "freed"
                       /\ thread[i] = "joined"
    /\ at \in {"break", "free", "join", "delete"} =>
         \A t \in Workers : t < i => Done(t)
    /\ At("listener") => m_listener = "unset" \/ \A t \in Workers : Done(t)
    /\ at \in {"breakBase", "freeBase", "joinListener", "gone"} =>
         m_listener = "freed" /\ \A t \in Workers : Done(t)
    /\ at \in {"joinListener", "gone"} => base[Listener] = "freed"
    /\ At("gone") => thread[Listener] = "joined"

(* What the destructor of a whole server finds while neither race happens. *)
OrderInv ==
  stopping /\ ~ failed /\ ~ hasty /\ ~ late =>
    /\ ~ undefined
    /\ at \in {"break", "free", "join", "delete"} =>
         \A t \in Workers : /\ t > i => Ready(t) /\ Runs(t)
                            /\ t < i => thread[t] = "joined"
    /\ at \in {"break", "free"} => Ready(i) /\ Runs(i)
    /\ At("join") => entry[i] = "set" /\ thread[i] = "left"
    /\ At("delete") => entry[i] = "set" /\ thread[i] = "joined"
    /\ at \in {"listener", "breakBase", "freeBase", "joinListener", "gone"} =>
         \A t \in Workers : thread[t] = "joined"
    /\ at \in {"break", "free", "join", "delete", "listener"} => m_listener = "live"
    /\ at \notin {"joinListener", "gone"} => base[Listener] = "live" /\ Runs(Listener)
    /\ At("joinListener") => thread[Listener] = "left"
    /\ At("gone") => thread[Listener] = "joined"
-----------------------------------------------------------------------------
PlacesOK ==
  /\ at \in StartPhases \cup StopPhases \cup {"up", "gone", "exited"}
  /\ i \in 0 .. THREAD_NUMB
  /\ at \in StopPhases => i \in Workers
  /\ entry \in [Workers -> {"none", "null", "set", "deleted"}]
  /\ base \in [Loops -> {"none", "live", "freed"}]
  /\ thread \in [Loops -> {"none", "created", "looping", "left", "joined"}]
  /\ m_listener \in {"unset", "null", "live", "freed"}
  /\ turn \in Workers
  /\ queued \in [Workers -> Nat]
  /\ conns \in 0 .. MaxConns

FlagsOK ==
  /\ broken \in [Loops -> BOOLEAN]
  /\ failed \in BOOLEAN
  /\ hasty \in BOOLEAN
  /\ late \in BOOLEAN
  /\ undefined \in BOOLEAN

LEMMA PlacesInductive ==
  ASSUME PlacesOK, [Next]_vars
  PROVE  PlacesOK'
PROOF
  <1> USE LifecycleAssumption
      DEF PlacesOK, Workers, Loops, Listener, StartPhases, StopPhases,
          At, Go, Turn, On, connVars, raceVars, loopVars
  <1>1. CASE NewBase
    BY <1>1 DEF NewBase, After
  <1>2. CASE NewChannel \/ NoThreadBase \/ NoChannel
    BY <1>2 DEF NewChannel, NoThreadBase, NoChannel, Entered
  <1>3. CASE AllChannels \/ AllThreads
    BY <1>3 DEF AllChannels, AllThreads, After
  <1>4. CASE NewThread
    BY <1>4 DEF NewThread
  <1>5. CASE Listen
    BY <1>5 DEF Listen, After
  <1>6. CASE Announce
    BY <1>6 DEF Announce
  <1>7. CASE Stop
    BY <1>7 DEF Stop, NextStop
  <1>8. CASE Break \/ Free \/ Join
    BY <1>8 DEF Break, Free, Join, NextStop
  <1>9. CASE Delete
    BY <1>9 DEF Delete, LastWorker, NextStop
  <1>10. CASE FreeListener \/ BreakBase \/ FreeBase \/ JoinListener
    BY <1>10 DEF FreeListener, BreakBase, FreeBase, JoinListener
  <1>11. CASE Deal
    BY <1>11 DEF Deal, NextTurn
  <1>12. ASSUME NEW l \in Loops, Loop(l) PROVE PlacesOK'
    <2>1. CASE EnterLoop(l) \/ LeaveLoop(l)
      BY <2>1 DEF EnterLoop, LeaveLoop
    <2>2. CASE l \in Workers /\ Take(l)
      BY <2>2 DEF Take
    <2> QED
      BY <1>12, <2>1, <2>2 DEF Loop
  <1>13. CASE UNCHANGED vars
    BY <1>13 DEF vars
  <1> QED
    BY <1>1, <1>2, <1>3, <1>4, <1>5, <1>6, <1>7, <1>8,
       <1>9, <1>10, <1>11, <1>12, <1>13 DEF Next, Starting, Stopping

LEMMA FlagsInductive ==
  ASSUME FlagsOK, [Next]_vars
  PROVE  FlagsOK'
PROOF
  <1> USE DEF FlagsOK, Uses, connVars, raceVars, loopVars
  <1>1. broken' \in [Loops -> BOOLEAN]
    BY DEF Next, Starting, Stopping, Loop, vars, NewBase, NewChannel, NoThreadBase,
           NoChannel, AllChannels, NewThread, AllThreads, Listen, Announce, EnterLoop, LeaveLoop, Deal, Take,
           Stop, Break, Free, Join, Delete, FreeListener, BreakBase, FreeBase, JoinListener
  <1>2. failed' \in BOOLEAN
    BY DEF Next, Starting, Stopping, Loop, vars, NewBase, NewChannel, NoThreadBase,
           NoChannel, AllChannels, NewThread, AllThreads, Listen, Announce, EnterLoop, LeaveLoop, Deal, Take,
           Stop, Break, Free, Join, Delete, FreeListener, BreakBase, FreeBase, JoinListener
  <1>3. hasty' \in BOOLEAN
    BY DEF Next, Starting, Stopping, Loop, vars, NewBase, NewChannel, NoThreadBase,
           NoChannel, AllChannels, NewThread, AllThreads, Listen, Announce, EnterLoop, LeaveLoop, Deal, Take,
           Stop, Break, Free, Join, Delete, FreeListener, BreakBase, FreeBase, JoinListener
  <1>4. late' \in BOOLEAN
    BY DEF Next, Starting, Stopping, Loop, vars, NewBase, NewChannel, NoThreadBase,
           NoChannel, AllChannels, NewThread, AllThreads, Listen, Announce, EnterLoop, LeaveLoop, Deal, Take,
           Stop, Break, Free, Join, Delete, FreeListener, BreakBase, FreeBase, JoinListener
  <1>5. undefined' \in BOOLEAN
    BY DEF Next, Starting, Stopping, Loop, vars, NewBase, NewChannel, NoThreadBase,
           NoChannel, AllChannels, NewThread, AllThreads, Listen, Announce, EnterLoop, LeaveLoop, Deal, Take,
           Stop, Break, Free, Join, Delete, FreeListener, BreakBase, FreeBase, JoinListener
  <1> QED
    BY <1>1, <1>2, <1>3, <1>4, <1>5

(* Every reachable state is well typed: the loops of init_threads and of   *)
(* the destructor stay inside the vector.                                  *)
THEOREM TypeCorrect == Spec => []TypeOK
PROOF
  <1>1. Init => PlacesOK
    BY LifecycleAssumption
       DEF Init, PlacesOK, Workers, Loops, Listener, StartPhases, StopPhases
  <1>2. Init => FlagsOK
    BY DEF Init, FlagsOK
  <1>3. PlacesOK /\ [Next]_vars => PlacesOK'
    BY PlacesInductive
  <1>4. FlagsOK /\ [Next]_vars => FlagsOK'
    BY FlagsInductive
  <1>5. PlacesOK /\ FlagsOK => TypeOK
    BY DEF PlacesOK, FlagsOK, TypeOK
  <1> QED
    BY <1>1, <1>2, <1>3, <1>4, <1>5, PTL DEF Spec
-----------------------------------------------------------------------------
LEMMA StartInductive ==
  ASSUME TypeOK, StartInv, [Next]_vars
  PROVE  StartInv'
PROOF
  <1> USE LifecycleAssumption
      DEF TypeOK, Workers, Loops, Listener, StartPhases, StopPhases, StartInv, Ready, Runs,
          At, Go, Turn, On, Uses, stopping, connVars, raceVars, loopVars
  <1>1. CASE NewBase
    BY <1>1 DEF NewBase, After
  <1>2. CASE NewChannel \/ NoThreadBase \/ NoChannel
    BY <1>2 DEF NewChannel, NoThreadBase, NoChannel, Entered
  <1>3. CASE AllChannels
    BY <1>3 DEF AllChannels, After
  <1>4. CASE NewThread
    BY <1>4 DEF NewThread
  <1>5. CASE AllThreads
    BY <1>5 DEF AllThreads, After
  <1>6. CASE Listen
    BY <1>6 DEF Listen, After
  <1>7. CASE Announce
    BY <1>7 DEF Announce
  <1>8. CASE Stop
    BY <1>8 DEF Stop, NextStop
  <1>9. CASE Break \/ Free \/ Join \/ Delete
    BY <1>9 DEF Break, Free, Join, Delete, LastWorker, NextStop
  <1>10. CASE FreeListener \/ BreakBase \/ FreeBase \/ JoinListener
    BY <1>10 DEF FreeListener, BreakBase, FreeBase, JoinListener
  <1>11. CASE Deal
    BY <1>11 DEF Deal, NextTurn
  <1>12. ASSUME NEW l \in Loops, Loop(l) PROVE StartInv'
    <2>1. CASE EnterLoop(l)
      BY <2>1 DEF EnterLoop
    <2>2. CASE LeaveLoop(l)
      BY <2>2 DEF LeaveLoop
    <2>3. CASE l \in Workers /\ Take(l)
      BY <2>3 DEF Take
    <2> QED
      BY <1>12, <2>1, <2>2, <2>3 DEF Loop
  <1>13. CASE UNCHANGED vars
    BY <1>13 DEF vars
  <1> QED
    BY <1>1, <1>2, <1>3, <1>4, <1>5, <1>6, <1>7, <1>8, <1>9, <1>10, <1>11,
       <1>12, <1>13 DEF Next, Starting, Stopping

(* While the server is up no thread uses an object that is not there,      *)
(* unless a part of init failed.                                           *)
THEOREM SafeWhileUpCorrect == Spec => []SafeWhileUp
PROOF
  <1>1. Init => StartInv
    BY LifecycleAssumption
       DEF Init, StartInv, At, stopping, StartPhases, StopPhases, Loops, Listener, Workers
  <1>2. TypeOK /\ StartInv /\ [Next]_vars => StartInv'
    BY StartInductive
  <1>3. StartInv => SafeWhileUp
    BY DEF StartInv, SafeWhileUp
  <1> QED
    BY <1>1, <1>2, <1>3, TypeCorrect, PTL DEF Spec
-----------------------------------------------------------------------------
LEMMA ShapeInductive ==
  ASSUME TypeOK, Shape, [Next]_vars
  PROVE  Shape'
PROOF
  <1> USE LifecycleAssumption
      DEF TypeOK, Workers, Loops, Listener, StartPhases, StopPhases, Shape,
          At, Go, Turn, On, Uses, connVars, raceVars, loopVars
  <1>1. CASE NewBase
    BY <1>1 DEF NewBase, After
  <1>2. CASE NewChannel \/ NoThreadBase \/ NoChannel
    BY <1>2 DEF NewChannel, NoThreadBase, NoChannel, Entered
  <1>3. CASE AllChannels \/ AllThreads
    BY <1>3 DEF AllChannels, AllThreads, After
  <1>4. CASE NewThread
    BY <1>4 DEF NewThread
  <1>5. CASE Listen
    BY <1>5 DEF Listen, After
  <1>6. CASE Announce
    BY <1>6 DEF Announce
  <1>7. CASE Stop \/ Stopping
    BY <1>7 DEF Stop, Stopping, Break, Free, Join, Delete, FreeListener, BreakBase,
                FreeBase, JoinListener, NextStop
  <1>8. CASE Deal
    BY <1>8 DEF Deal
  <1>9. ASSUME NEW l \in Loops, Loop(l) PROVE Shape'
    BY <1>9 DEF Loop, EnterLoop, LeaveLoop, Take
  <1>10. CASE UNCHANGED vars
    BY <1>10 DEF vars
  <1> QED
    BY <1>1, <1>2, <1>3, <1>4, <1>5, <1>6, <1>7, <1>8, <1>9, <1>10 DEF Next, Starting

LEMMA StopInductive ==
  ASSUME TypeOK, Shape, StopInv, [Next]_vars
  PROVE  StopInv'
PROOF
  <1> USE LifecycleAssumption
      DEF TypeOK, Workers, Loops, Listener, StartPhases, StopPhases, Shape, StopInv, Done,
          LastNull, NotListening, Away, At, Go, Turn, On, Uses, connVars, raceVars, loopVars
  <1>1. CASE NewBase
    BY <1>1 DEF NewBase, After
  <1>2. CASE NewChannel \/ NoThreadBase \/ NoChannel
    BY <1>2 DEF NewChannel, NoThreadBase, NoChannel, Entered
  <1>3. CASE AllChannels
    BY <1>3 DEF AllChannels, After
  <1>4. CASE NewThread
    BY <1>4 DEF NewThread
  <1>5. CASE AllThreads
    BY <1>5 DEF AllThreads, After
  <1>6. CASE Listen
    BY <1>6 DEF Listen, After
  <1>7. CASE Announce
    BY <1>7 DEF Announce
  <1>8. CASE Stop
    BY <1>8 DEF Stop, NextStop
  <1>9. CASE Break
    BY <1>9 DEF Break, NextStop
  <1>10. CASE Free
    BY <1>10 DEF Free, NextStop
  <1>11. CASE Join
    <2>1. thread' = [thread EXCEPT ![i] = IF thread[i] = "left" THEN "joined" ELSE thread[i]]
      BY <1>11 DEF Join
    <2>2. /\ \A l \in Loops \ {i} : thread'[l] = thread[l]
          /\ ~ undefined' => thread'[i] = "joined"
      BY <1>11, <2>1 DEF Join
    <2> QED
      BY <1>11, <2>2 DEF Join, NextStop
  <1>12. CASE Delete
    BY <1>12 DEF Delete, LastWorker, NextStop
  <1>13. CASE FreeListener
    BY <1>13 DEF FreeListener
  <1>14. CASE BreakBase
    BY <1>14 DEF BreakBase
  <1>15. CASE FreeBase
    BY <1>15 DEF FreeBase
  <1>16. CASE JoinListener
    <2> DEFINE last == IF thread[Listener] = "left" THEN "joined" ELSE thread[Listener]
    <2>1. thread' = [thread EXCEPT ![Listener] = last]
      BY <1>16 DEF JoinListener
    <2>2. ~ undefined' => last = "joined"
      BY <1>16 DEF JoinListener
    <2>3. /\ \A t \in Workers : thread'[t] = thread[t]
          /\ ~ undefined' => thread'[Listener] = "joined"
      <3> HIDE DEF last
      <3> QED
        BY <2>1, <2>2
    <2>4. /\ at = "joinListener" /\ at' = "gone"
          /\ UNCHANGED <<entry, base, m_listener, failed>> /\ (undefined => undefined')
      BY <1>16 DEF JoinListener
    <2> QED
      BY <2>3, <2>4
  <1>17. CASE Deal
    BY <1>17 DEF Deal, NextTurn
  <1>18. ASSUME NEW l \in Loops, Loop(l) PROVE StopInv'
    <2>1. CASE EnterLoop(l)
      BY <2>1 DEF EnterLoop
    <2>2. CASE LeaveLoop(l)
      BY <2>2 DEF LeaveLoop
    <2>3. CASE l \in Workers /\ Take(l)
      BY <2>3 DEF Take
    <2> QED
      BY <1>18, <2>1, <2>2, <2>3 DEF Loop
  <1>19. CASE UNCHANGED vars
    BY <1>19 DEF vars
  <1> QED
    BY <1>1, <1>2, <1>3, <1>4, <1>5, <1>6, <1>7, <1>8, <1>9, <1>10, <1>11,
       <1>12, <1>13, <1>14, <1>15, <1>16, <1>17, <1>18, <1>19 DEF Next, Starting, Stopping

(* A destructor that met no object in use destroyed a whole server, and    *)
(* left no thread, base or worker behind.                                  *)
THEOREM CleanEndCorrect == Spec => []CleanEnd
PROOF
  <1>1. Init => StopInv
    BY DEF Init, StopInv, At
  <1>2. Init => Shape
    BY DEF Init, Shape, At
  <1>3. TypeOK /\ Shape /\ [Next]_vars => Shape'
    BY ShapeInductive
  <1>4. TypeOK /\ Shape /\ StopInv /\ [Next]_vars => StopInv'
    BY StopInductive
  <1>5. TypeOK /\ StopInv => CleanEnd
    <2> SUFFICES ASSUME TypeOK, StopInv, At("gone"), ~ undefined
                 PROVE  CleanEnd
      BY DEF CleanEnd
    <2>1. /\ \A t \in Workers : Done(t)
          /\ m_listener = "freed" /\ base[Listener] = "freed" /\ thread[Listener] = "joined"
      BY DEF StopInv, At
    <2>2. ~ failed
      BY <2>1, LifecycleAssumption
         DEF StopInv, LastNull, NotListening, Done, Workers, At
    <2> QED
      BY <2>1, <2>2, LifecycleAssumption DEF CleanEnd, Done, Loops, Workers, Listener
  <1> QED
    BY <1>1, <1>2, <1>3, <1>4, <1>5, TypeCorrect, PTL DEF Spec
-----------------------------------------------------------------------------
LEMMA OrderInductive ==
  ASSUME TypeOK, StartInv, Shape, OrderInv, [Next]_vars
  PROVE  OrderInv'
PROOF
  <1> USE LifecycleAssumption
      DEF TypeOK, Workers, Loops, Listener, StartPhases, StopPhases, OrderInv,
          Ready, Runs, Away, stopping, At, Go, Turn, On, Uses, connVars, raceVars, loopVars
  <1>1. CASE NewBase
    BY <1>1 DEF NewBase, After
  <1>2. CASE NewChannel \/ NoThreadBase \/ NoChannel
    BY <1>2 DEF NewChannel, NoThreadBase, NoChannel, Entered
  <1>3. CASE AllChannels
    BY <1>3 DEF AllChannels, After
  <1>4. CASE NewThread
    BY <1>4 DEF NewThread
  <1>5. CASE AllThreads
    BY <1>5 DEF AllThreads, After
  <1>6. CASE Listen
    BY <1>6 DEF Listen, After
  <1>7. CASE Announce
    BY <1>7 DEF Announce
  <1>8. CASE Stop
    BY <1>8, SMTT(40) DEF Stop, NextStop, StartInv, Shape
  <1>9. CASE Break
    BY <1>9 DEF Break, NextStop
  <1>10. CASE Free
    <2>1. /\ at = "free" /\ at' = "join"
          /\ UNCHANGED <<i, entry, thread, m_listener, failed, late>>
      BY <1>10 DEF Free, NextStop
    <2>2. \A l \in Loops \ {i} : base'[l] = base[l]
      BY <1>10 DEF Free
    <2>3. ~ hasty' => ~ hasty /\ thread[i] \in {"none", "left"}
      BY <1>10 DEF Free
    <2>4. undefined' => undefined \/ entry[i] # "set" \/ base[i] # "live" \/ hasty'
      BY <1>10 DEF Free
    <2> QED
      BY <2>1, <2>2, <2>3, <2>4
  <1>11. CASE Join
    <2>1. thread' = [thread EXCEPT ![i] = IF thread[i] = "left" THEN "joined" ELSE thread[i]]
      BY <1>11 DEF Join
    <2>2. /\ \A l \in Loops \ {i} : thread'[l] = thread[l]
          /\ ~ undefined' => thread'[i] = "joined"
      BY <1>11, <2>1 DEF Join
    <2> QED
      BY <1>11, <2>2 DEF Join, NextStop
  <1>12. CASE Delete
    BY <1>12 DEF Delete, LastWorker, NextStop
  <1>13. CASE FreeListener
    BY <1>13 DEF FreeListener
  <1>14. CASE BreakBase
    BY <1>14 DEF BreakBase
  <1>15. CASE FreeBase
    BY <1>15 DEF FreeBase
  <1>16. CASE JoinListener
    <2>1. /\ \A t \in Workers : thread'[t] = thread[t]
          /\ ~ undefined' => thread'[Listener] = "joined"
      BY <1>16 DEF JoinListener
    <2> QED
      BY <1>16, <2>1 DEF JoinListener
  <1>17. CASE Deal
    BY <1>17 DEF Deal, NextTurn
  <1>18. ASSUME NEW l \in Loops, Loop(l) PROVE OrderInv'
    <2>1. CASE EnterLoop(l)
      BY <2>1 DEF EnterLoop
    <2>2. CASE LeaveLoop(l)
      BY <2>2 DEF LeaveLoop
    <2>3. CASE l \in Workers /\ Take(l)
      BY <2>3 DEF Take
    <2> QED
      BY <1>18, <2>1, <2>2, <2>3 DEF Loop
  <1>19. CASE UNCHANGED vars
    BY <1>19 DEF vars
  <1> QED
    BY <1>1, <1>2, <1>3, <1>4, <1>5, <1>6, <1>7, <1>8, <1>9, <1>10, <1>11,
       <1>12, <1>13, <1>14, <1>15, <1>16, <1>17, <1>18, <1>19 DEF Next, Starting, Stopping

(* Nothing failed at the start, no base was freed under its thread and no  *)
(* connection was dealt during the destruction: then the destructor breaks,*)
(* frees, joins and deletes only what is there, for any number of workers. *)
THEOREM SafeStopCorrect == Spec => []SafeStop
PROOF
  <1>1. Init => StartInv
    BY LifecycleAssumption
       DEF Init, StartInv, At, stopping, StartPhases, StopPhases, Loops, Listener, Workers
  <1>2. Init => Shape /\ OrderInv
    BY DEF Init, Shape, OrderInv, At, stopping, StopPhases
  <1>3. TypeOK /\ StartInv /\ [Next]_vars => StartInv'
    BY StartInductive
  <1>4. TypeOK /\ Shape /\ [Next]_vars => Shape'
    BY ShapeInductive
  <1>5. TypeOK /\ StartInv /\ Shape /\ OrderInv /\ [Next]_vars => OrderInv'
    BY OrderInductive
  <1>6. OrderInv => SafeStop
    BY DEF OrderInv, SafeStop
  <1> QED
    BY <1>1, <1>2, <1>3, <1>4, <1>5, <1>6, TypeCorrect, PTL DEF Spec
=============================================================================
