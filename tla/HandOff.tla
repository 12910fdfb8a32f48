------------------------------ MODULE HandOff ------------------------------
(***************************************************************************)
(* What the dispatching half of LibEvtServer promises, whatever it is      *)
(* built from: connections are dealt to the worker threads in turn, each   *)
(* worker takes the connections dealt to it in the order they arrived and  *)
(* exactly once, a descriptor has one holder at a time, and a connection   *)
(* that waits is eventually taken.  There is no socket pair, no lock and   *)
(* no notification byte here: Server.tla has them, and implements this.    *)
(***************************************************************************)
EXTENDS Naturals, SequencesExt

CONSTANTS N,      \* number of worker threads
          Conns   \* identities of connections, reused once released

Workers == 0 .. N-1

VARIABLES turn,     \* the worker the next connection is dealt to
          waiting,  \* per worker, the connections dealt and not yet taken
          held      \* per worker, the connections it serves

handOffVars == <<turn, waiting, held>>

Busy(c) == \E w \in Workers : c \in held[w] \cup ToSet(waiting[w])

HInit == /\ turn = 0
         /\ waiting = [w \in Workers |-> <<>>]
         /\ held = [w \in Workers |-> {}]

Deal(c) == /\ ~ Busy(c)
           /\ waiting' = [waiting EXCEPT ![turn] = Append(@, c)]
           /\ turn' = (turn + 1) % N
           /\ UNCHANGED held

Take(w) == /\ waiting[w] # <<>>
           /\ held' = [held EXCEPT ![w] = @ \cup {Head(waiting[w])}]
           /\ waiting' = [waiting EXCEPT ![w] = Tail(@)]
           /\ UNCHANGED turn

Release(w, c) == /\ c \in held[w]
                 /\ held' = [held EXCEPT ![w] = @ \ {c}]
                 /\ UNCHANGED <<turn, waiting>>

HNext == \/ \E c \in Conns : Deal(c)
         \/ \E w \in Workers : Take(w)
         \/ \E w \in Workers, c \in Conns : Release(w, c)

HSafeSpec == HInit /\ [][HNext]_handOffVars

HSpec == HSafeSpec /\ \A w \in Workers : WF_handOffVars(Take(w))
=============================================================================
