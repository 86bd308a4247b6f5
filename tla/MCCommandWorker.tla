-------------------------- MODULE MCCommandWorker --------------------------
(* Twelve commands of two names and the code's batch size of 3: the third *)
(* response is the first to trigger a top-up, the server can use up its   *)
(* six initial permits before any response arrives, and the commands      *)
(* outlast the initial grant plus two top-ups.                            *)
EXTENDS CommandWorker

CONSTANTS n1, n2

MCNames == {n1, n2}
MCCmdName == [i \in 1..N |-> IF i % 2 = 1 THEN n1 ELSE n2]
MCCommandVec == <<n1, n2>>
=============================================================================
