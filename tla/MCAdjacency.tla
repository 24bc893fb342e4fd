----------------------------- MODULE MCAdjacency -----------------------------
(* Adjacency on two LSAs: each router starts with both, one of them stale.   *)
EXTENDS Adjacency, TLC

CONSTANTS a, b

MCKeys == {a, b}
MCHashOrder == <<(a :> 1) @@ (b :> 2), (a :> 2) @@ (b :> 1)>>
SlaveHasBoth == <<(a :> 1) @@ (b :> 1), (a :> 0) @@ (b :> 0)>>
MasterHasBoth == <<(a :> 0) @@ (b :> 0), (a :> 1) @@ (b :> 1)>>
OneNewer == <<(a :> 1) @@ (b :> 0), (a :> 2) @@ (b :> 1)>>
OneEach == <<(a :> 0) @@ (b :> 1), (a :> 1) @@ (b :> 0)>>
=============================================================================
