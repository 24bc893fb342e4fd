---------------------------- MODULE MCDrElection ----------------------------
(* DR election among two or three routers.                                 *)
EXTENDS DrElection, TLC

Even == [r \in Router |-> 1]
\* A newcomer has a higher priority than those that came before it, or a lower.
Rising == [r \in Router |-> r]
=============================================================================
