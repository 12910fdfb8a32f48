----------------------------- MODULE MCRegistry -----------------------------
(***************************************************************************)
(* Registry for TLC: no statement tells two addresses, or two names, apart *)
(* but by equality, so the sets are symmetric.                             *)
(***************************************************************************)
EXTENDS Registry, TLC

RowSymmetry == Permutations(Ips) \cup Permutations(Names)
=============================================================================
