------------------------------ MODULE MCReplay ------------------------------
(* Three payload types: t1 advances the projection; t2 is registered twice, *)
(* first as a no-op, then as the handler that answers None on projection 1 *)
(* and swaps 0 and 2; t3 has no sourcing handler.                          *)
EXTENDS Replay

CONSTANTS t1, t2, t3

MCRegistrations ==
  << [type |-> t1, fold |-> [p \in 0..2 |-> (p + 1) % 3]],
     [type |-> t2, fold |-> [p \in 0..2 |-> p]],
     [type |-> t2, fold |-> [p \in 0..2 |-> IF p = 1 THEN None ELSE 2 - p]] >>
=============================================================================
