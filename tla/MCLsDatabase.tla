---------------------------- MODULE MCLsDatabase ----------------------------
(* The router's own LSA and one of another router. *)
EXTENDS LsDatabase

CONSTANTS own, other

MCKeys == {own, other}
MCContents == {1, 2}
\* The other's LSA in two instances, young, about to end, or at its end; the
\* own one from an earlier life or echoed, young or at its end.
MCArrivals ==
  {other} \X [seq : {1, 2}, sum : {1}, age : {0, MaxAge - 1, MaxAge}]
    \cup {own} \X [seq : {1, 2}, sum : MCContents, age : {0, MaxAge}]
=============================================================================
