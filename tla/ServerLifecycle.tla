-------------------------- MODULE ServerLifecycle --------------------------
(***************************************************************************)
(* Start and stop of LibEvtServer (server/server.cpp:12-27, 96-197,        *)
(* 260-293): the owner's thread creates THREAD_NUMB channels and bases,    *)
(* starts a thread on each, then the listener on m_base; the destructor    *)
(* breaks, frees, joins and deletes them one after the other while the     *)
(* threads, and the listener that deals them connections, still run.       *)
(*                                                                         *)
(* Loop number THREAD_NUMB is the listener's.  Module Server is about what *)
(* happens between start and stop; here a connection is a count.           *)
(***************************************************************************)
EXTENDS Integers

CONSTANTS
  THREAD_NUMB,   \* number of worker threads (server.h:12)
  IsWin32,       \* the build: socket pairs, or pipes
  MayFail,       \* what may fail: "base", "channel", "bind"
  MaxConns       \* bound: connections accepted

ASSUME LifecycleAssumption ==
  /\ THREAD_NUMB \in Nat \ {0}
  /\ IsWin32 \in BOOLEAN
  /\ MayFail \subseteq {"base", "channel", "bind"}
  /\ MaxConns \in Nat

Workers == 0 .. THREAD_NUMB - 1
Listener == THREAD_NUMB
Loops == 0 .. THREAD_NUMB

VARIABLES
  at, i,       \* the owner's thread: the phase it is in, its loop index
  entry,       \* per worker, its pointer in m_libevent_threads
  base,        \* per loop, its event_base
  thread,      \* per loop, its thread
  broken,      \* per loop, the base's break flag
  m_listener,  \* "unset", "null", "live" or "freed"
  turn,        \* the worker the next connection is dealt to
  queued,      \* per worker, connections it has not taken
  conns,       \* connections accepted
  failed,      \* history: did a part of init fail?
  hasty,       \* history: was a base freed before its thread left its loop?
  late,        \* history: was a connection dealt during the destruction?
  undefined    \* history: was a null, freed or unset object used?

loopVars == <<entry, base, thread, broken, m_listener>>
connVars == <<turn, queued, conns>>
raceVars == <<hasty, late>>
vars == <<at, i, loopVars, connVars, failed, raceVars, undefined>>

Init ==
  /\ at = "base"
  /\ i = 0
  /\ entry = [t \in Workers |-> "none"]
  /\ base = [l \in Loops |-> "none"]
  /\ thread = [l \in Loops |-> "none"]
  /\ broken = [l \in Loops |-> FALSE]
  /\ m_listener = "unset"
  /\ turn = 0
  /\ queued = [t \in Workers |-> 0]
  /\ conns = 0
  /\ failed = FALSE
  /\ hasty = FALSE
  /\ late = FALSE
  /\ undefined = FALSE

StartPhases == {"base", "channels", "threads", "listen"}
StopPhases == {"break", "free", "join", "delete", "listener", "breakBase",
               "freeBase", "joinListener"}
stopping == at \in StopPhases \cup {"gone"}

At(phase) == at = phase
Go(phase) == at' = phase /\ i' = 0
Turn(phase) == at' = phase /\ i' = i + 1
On(phase) == at' = phase /\ i' = i
Uses(good) == undefined' = (undefined \/ ~ good)
-----------------------------------------------------------------------------
(*                                  Start                                  *)

(* Mutant: init listens before it starts the workers.                      *)
AfterListenFirst(phase) ==
  CASE phase = "base" -> "listen" [] phase = "listen" -> "channels"
    [] phase = "channels" -> "threads" [] phase = "threads" -> "up"

(* The order of init and init_threads.                                     *)
After(phase) ==
  CASE phase = "base" -> "channels" [] phase = "channels" -> "threads"
    [] phase = "threads" -> "listen" [] phase = "listen" -> "up"

(* Without m_base init returns, and the constructor with it; the vector is *)
(* empty.                                                                  *)
NewBase ==
  /\ At("base")
  /\ \/ /\ base' = [base EXCEPT ![Listener] = "live"]
        /\ Go(After("base"))
        /\ UNCHANGED failed
     \/ /\ "base" \in MayFail
        /\ failed' = TRUE
        /\ Go("up")
        /\ UNCHANGED base
  /\ UNCHANGED <<entry, thread, broken, m_listener, connVars, raceVars, undefined>>

(* init_threads, first loop: the vector is as long as it will be from the  *)
(* start, its entries are null until they are set.                         *)
Entered ==
  entry' = [t \in Workers |-> IF t = i THEN "set" ELSE IF t > i THEN "null" ELSE entry[t]]

NewChannel ==
  /\ At("channels") /\ i < THREAD_NUMB
  /\ Entered
  /\ base' = [base EXCEPT ![i] = "live"]
  /\ Turn("channels")
  /\ UNCHANGED <<thread, broken, m_listener, connVars, failed, raceVars, undefined>>

(* Nobody looks whether event_base_new failed: event_base_set reads through*)
(* the null base.                                                          *)
NoThreadBase ==
  /\ At("channels") /\ i < THREAD_NUMB /\ "base" \in MayFail
  /\ Entered
  /\ failed' = TRUE
  /\ undefined' = TRUE
  /\ Turn("channels")
  /\ UNCHANGED <<base, thread, broken, m_listener, connVars, raceVars>>

(* After a failed socket pair init_threads returns and init, which ignores *)
(* the result, goes on; a failed pipe ends the process.                    *)
NoChannel ==
  /\ At("channels") /\ i < THREAD_NUMB /\ "channel" \in MayFail
  /\ entry' = [t \in Workers |-> IF t >= i THEN "null" ELSE entry[t]]
  /\ failed' = TRUE
  /\ Go(IF IsWin32 THEN "listen" ELSE "exited")
  /\ UNCHANGED <<base, thread, broken, m_listener, connVars, raceVars, undefined>>

AllChannels ==
  /\ At("channels") /\ i = THREAD_NUMB
  /\ Go(After("channels"))
  /\ UNCHANGED <<loopVars, connVars, failed, raceVars, undefined>>

(* init_threads, second loop.                                              *)
NewThread ==
  /\ At("threads") /\ i < THREAD_NUMB
  /\ thread' = [thread EXCEPT ![i] = "created"]
  /\ Turn("threads")
  /\ UNCHANGED <<entry, base, broken, m_listener, connVars, failed, raceVars, undefined>>

AllThreads ==
  /\ At("threads") /\ i = THREAD_NUMB
  /\ Go(After("threads"))
  /\ UNCHANGED <<loopVars, connVars, failed, raceVars, undefined>>

Listen ==
  /\ At("listen")
  /\ \/ /\ m_listener' = "live"
        /\ thread' = [thread EXCEPT ![Listener] = "created"]
        /\ UNCHANGED failed
     \/ /\ "bind" \in MayFail
        /\ m_listener' = "null"
        /\ failed' = TRUE
        /\ UNCHANGED thread
  /\ Go(After("listen"))
  /\ UNCHANGED <<entry, base, broken, connVars, raceVars, undefined>>

(* Give_A_Class or SendFile, on every entry of the vector.                 *)
Announce ==
  /\ At("up")
  /\ Uses(\A t \in Workers : entry[t] # "null")
  /\ UNCHANGED <<at, i, loopVars, connVars, failed, raceVars>>
-----------------------------------------------------------------------------
(*                          Workers and listener                           *)

(* event_base_loop forgets a break that came before it.                    *)
EnterLoop(l) ==
  /\ thread[l] = "created"
  /\ thread' = [thread EXCEPT ![l] = "looping"]
  /\ broken' = [broken EXCEPT ![l] = FALSE]
  /\ Uses(base[l] = "live")
  /\ UNCHANGED <<at, i, entry, base, m_listener, connVars, failed, raceVars>>

(* A loop without an event of its own ends: the listener's, once it is     *)
(* freed.  A worker's has its notify event.                                *)
Ended(l) == broken[l] \/ (l = Listener /\ m_listener = "freed")

(* The loop ends after the callback that runs.                             *)
LeaveLoop(l) ==
  /\ thread[l] = "looping" /\ Ended(l)
  /\ thread' = [thread EXCEPT ![l] = "left"]
  /\ Uses(base[l] = "live")
  /\ UNCHANGED <<at, i, entry, base, broken, m_listener, connVars, failed, raceVars>>

(* Mutant: one worker too many.                                            *)
NextTurnPast == (turn + 1) % (THREAD_NUMB + 1)

NextTurn == (turn + 1) % THREAD_NUMB

(* listener_cb.                                                            *)
Deal ==
  /\ thread[Listener] = "looping" /\ conns < MaxConns
  /\ conns' = conns + 1
  /\ turn' = NextTurn
  /\ Uses(entry[turn] = "set" /\ m_listener = "live")
  /\ queued' = [queued EXCEPT ![turn] = IF entry[turn] = "set" THEN @ + 1 ELSE @]
  /\ late' = (late \/ stopping)
  /\ UNCHANGED <<at, i, loopVars, failed, hasty>>

(* notify_cb.                                                              *)
Take(t) ==
  /\ thread[t] = "looping" /\ queued[t] > 0
  /\ queued' = [queued EXCEPT ![t] = @ - 1]
  /\ Uses(base[t] = "live" /\ entry[t] = "set")
  /\ UNCHANGED <<at, i, loopVars, turn, conns, failed, raceVars>>
-----------------------------------------------------------------------------
(*                                  Stop                                   *)

(* Mutant: a worker is deleted without being joined.                       *)
NextStopUnjoined(phase) ==
  CASE phase = "stop" -> "break" [] phase = "break" -> "free"
    [] phase = "free" -> "delete" [] phase = "join" -> "delete"

(* The order of the destructor's loop over the workers.                    *)
NextStop(phase) ==
  CASE phase = "stop" -> "break" [] phase = "break" -> "free"
    [] phase = "free" -> "join" [] phase = "join" -> "delete"

(* With no worker in the vector the destructor goes on to the listener.    *)
Stop ==
  /\ At("up")
  /\ Go(IF \E t \in Workers : entry[t] # "none" THEN NextStop("stop") ELSE "listener")
  /\ UNCHANGED <<loopVars, connVars, failed, raceVars, undefined>>

Break ==
  /\ At("break")
  /\ broken' = [broken EXCEPT ![i] = TRUE]
  /\ Uses(entry[i] = "set" /\ base[i] = "live")
  /\ On(NextStop("break"))
  /\ UNCHANGED <<entry, base, thread, m_listener, connVars, failed, raceVars>>

(* A thread that is not in its loop, nor about to enter it.                *)
Away(l) == thread[l] \in {"none", "left"}

(* event_base_free, whether the thread is away or not.                     *)
Free ==
  /\ At("free")
  /\ base' = [base EXCEPT ![i] = "freed"]
  /\ hasty' = (hasty \/ ~ Away(i))
  /\ Uses(entry[i] = "set" /\ base[i] = "live" /\ Away(i))
  /\ On(NextStop("free"))
  /\ UNCHANGED <<entry, thread, broken, m_listener, connVars, failed, late>>

(* join returns when the thread has ended; there may be none to join.      *)
Join ==
  /\ At("join") /\ Away(i)
  /\ thread' = [thread EXCEPT ![i] = IF @ = "left" THEN "joined" ELSE @]
  /\ Uses(entry[i] = "set" /\ thread[i] = "left")
  /\ On(NextStop("join"))
  /\ UNCHANGED <<entry, base, broken, m_listener, connVars, failed, raceVars>>

(* Mutant: the loop ends one worker early.                                 *)
LastButOne == i >= THREAD_NUMB - 2

LastWorker == i = THREAD_NUMB - 1

(* delete: the destructor of a thread that was not joined ends the process.*)
Delete ==
  /\ At("delete")
  /\ Uses(entry[i] = "set" /\ thread[i] = "joined")
  /\ entry' = [entry EXCEPT ![i] = "deleted"]
  /\ IF ~ LastWorker
     THEN Turn(NextStop("stop"))
     ELSE Go("listener")
  /\ UNCHANGED <<base, thread, broken, m_listener, connVars, failed, raceVars>>

(* evconnlistener_free, while listener_cb may run; m_listener is null or   *)
(* was never set when init failed.                                         *)
FreeListener ==
  /\ At("listener")
  /\ m_listener' = "freed"
  /\ Uses(m_listener = "live")
  /\ Go("breakBase")
  /\ UNCHANGED <<entry, base, thread, broken, connVars, failed, raceVars>>

BreakBase ==
  /\ At("breakBase")
  /\ broken' = [broken EXCEPT ![Listener] = TRUE]
  /\ Uses(base[Listener] = "live")
  /\ Go("freeBase")
  /\ UNCHANGED <<entry, base, thread, m_listener, connVars, failed, raceVars>>

FreeBase ==
  /\ At("freeBase")
  /\ base' = [base EXCEPT ![Listener] = "freed"]
  /\ hasty' = (hasty \/ ~ Away(Listener))
  /\ Uses(base[Listener] = "live" /\ Away(Listener))
  /\ Go("joinListener")
  /\ UNCHANGED <<entry, thread, broken, m_listener, connVars, failed, late>>

JoinListener ==
  /\ At("joinListener") /\ Away(Listener)
  /\ thread' = [thread EXCEPT ![Listener] = IF @ = "left" THEN "joined" ELSE @]
  /\ Uses(thread[Listener] = "left")
  /\ Go("gone")
  /\ UNCHANGED <<entry, base, broken, m_listener, connVars, failed, raceVars>>
-----------------------------------------------------------------------------
Starting == NewBase \/ NewChannel \/ NoThreadBase \/ NoChannel \/ AllChannels
            \/ NewThread \/ AllThreads \/ Listen
Stopping == Break \/ Free \/ Join \/ Delete \/ FreeListener \/ BreakBase
            \/ FreeBase \/ JoinListener
Loop(l) == EnterLoop(l) \/ LeaveLoop(l) \/ (l \in Workers /\ Take(l))

Next ==
  \/ Starting \/ Announce \/ Stop \/ Stopping \/ Deal
  \/ \E l \in Loops : Loop(l)

Spec == Init /\ [][Next]_vars
-----------------------------------------------------------------------------
(*                               Properties                                *)

(* Types; the destructor's loop index stays inside the vector.             *)
TypeOK ==
  /\ at \in StartPhases \cup StopPhases \cup {"up", "gone", "exited"}
  /\ i \in 0 .. THREAD_NUMB
  /\ at \in StopPhases => i \in Workers
  /\ entry \in [Workers -> {"none", "null", "set", "deleted"}]
  /\ base \in [Loops -> {"none", "live", "freed"}]
  /\ thread \in [Loops -> {"none", "created", "looping", "left", "joined"}]
  /\ broken \in [Loops -> BOOLEAN]
  /\ m_listener \in {"unset", "null", "live", "freed"}
  /\ turn \in Workers
  /\ queued \in [Workers -> Nat]
  /\ conns \in 0 .. MaxConns
  /\ failed \in BOOLEAN
  /\ hasty \in BOOLEAN
  /\ late \in BOOLEAN
  /\ undefined \in BOOLEAN

(* While the server is up, from the first thread's first step to the       *)
(* destructor's, no thread uses an entry, a base or a listener that is not *)
(* there, unless a part of init failed: init's order gives the listener    *)
(* and the workers all they use before they run.                           *)
SafeWhileUp == undefined => failed \/ stopping

(* A destructor that met no object in use has ended every thread and freed *)
(* every base and worker; the server it destroyed had started whole.       *)
CleanEnd ==
  At("gone") /\ ~ undefined =>
    /\ ~ failed
    /\ \A l \in Loops : thread[l] = "joined" /\ base[l] = "freed"
    /\ \A t \in Workers : entry[t] = "deleted"

(* The destructor's order is right but for two races: it frees a base      *)
(* without waiting for the base's thread to leave its loop, which is what  *)
(* the sleep commented out at server.cpp:18 is for, and it deletes the     *)
(* workers while the listener still deals connections (server.cpp:12-27).  *)
(* Without them, and with nothing failed at the start, it breaks, frees,   *)
(* joins and deletes only what is there, and no thread uses what it has    *)
(* freed.                                                                  *)
SafeStop == stopping /\ undefined => failed \/ hasty \/ late
=============================================================================
