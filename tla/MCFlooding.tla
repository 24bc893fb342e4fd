----------------------------- MODULE MCFlooding -----------------------------
(* Flooding on a LAN and along a chain.                                      *)
EXTENDS Flooding, TLC

CONSTANTS A, B, C, x, y, k

\* One network: A is DR, B is BDR, the others are DROthers.
Lan == x :> Router
LanDR == x :> A
LanBDR == x :> B

\* A -x- B -y- C, B is designated on both.
Chain == (x :> {A, B}) @@ (y :> {B, C})
ChainDR == (x :> B) @@ (y :> B)
ChainBDR == (x :> A) @@ (y :> C)

OriginA == k :> A
OriginC == k :> C
Order1 == k :> 1
=============================================================================
