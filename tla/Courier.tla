------------------------------ MODULE Courier ------------------------------
(***************************************************************************)
(* What CWorker's two ends promise each other: on each connection every    *)
(* message and file handed to the sender is executed by the receiver, once,*)
(* whole and in the order sent.  No packages, markers or buffers.          *)
(***************************************************************************)
EXTENDS Naturals, Sequences

CONSTANTS Links,     \* connections, one direction each
          Items      \* what can be sent

VARIABLES handed,    \* per link, the items handed to the sender
          delivered  \* per link, the items executed by the receiver

courierVars == <<handed, delivered>>

CInit == /\ handed = [l \in Links |-> <<>>]
         /\ delivered = [l \in Links |-> <<>>]

Hand(l, item) == /\ handed' = [handed EXCEPT ![l] = Append(@, item)]
                 /\ UNCHANGED delivered

Deliver(l) ==
  /\ Len(delivered[l]) < Len(handed[l])
  /\ delivered' = [delivered EXCEPT ![l] = Append(@, handed[l][Len(@) + 1])]
  /\ UNCHANGED handed

CNext == \E l \in Links : Deliver(l) \/ \E item \in Items : Hand(l, item)

CSafeSpec == CInit /\ [][CNext]_courierVars

CSpec == CSafeSpec /\ \A l \in Links : WF_courierVars(Deliver(l))
=============================================================================
