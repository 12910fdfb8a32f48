------------------------------- MODULE MCWire -------------------------------
(* Wire on small instances: how much each connection sends.                *)
EXTENDS Wire

SendThree == [c \in Conns |-> 3]
SendTwo == [c \in Conns |-> 2]

(* Connection 1 sends two messages or files, any other one.                *)
SendTwoAndOne == [c \in Conns |-> IF c = 1 THEN 2 ELSE 1]

NoBeats == [c \in Conns |-> 0]
BeatOnOne == [c \in Conns |-> IF c = 1 THEN 1 ELSE 0]
=============================================================================
