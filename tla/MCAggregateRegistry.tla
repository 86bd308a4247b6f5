------------------------ MODULE MCAggregateRegistry ------------------------
(* Four definitions under three names: d2 replaces d1 under name A, and   *)
(* c1, c2 and c3 each belong to more than one live aggregate.            *)
EXTENDS AggregateRegistry

CONSTANTS d1, d2, d3, d4, A, B, C, c1, c2, c3

MCDefName == (d1 :> A) @@ (d2 :> A) @@ (d3 :> B) @@ (d4 :> C)
MCDefCmds == (d1 :> {c1, c2}) @@ (d2 :> {c1, c3}) @@ (d3 :> {c1, c2, c3}) @@ (d4 :> {c2})
MCInsertOrder == <<d1, d2, d3, d4>>
=============================================================================
