------------------------------ MODULE LsaOrder ------------------------------
(***************************************************************************)
(* Which of two instances of one LSA is newer: Ord of LsaHeader            *)
(* (ospf-packet/src/lsa.rs).  A header is reduced to what cmp reads.       *)
(* Newer and Older are the ways through cmp that return Greater and Less,  *)
(* each written down from the code, so that "a is newer than b exactly     *)
(* when b is older than a" is a fact to be proved, not a definition.       *)
(***************************************************************************)
EXTENDS Integers

CONSTANTS MaxAge,       \* lifetime of an LSA, 3600 s
          MaxAgeDiff    \* ages this far apart belong to two instances, 900 s

ASSUME AgeAssumption == /\ MaxAge \in Nat
                        /\ MaxAgeDiff \in Nat \ {0}

LsaHeader == [seq : Int, sum : Int, age : 0..MaxAge]

AbsDiff(m, n) == IF m < n THEN n - m ELSE m - n

SameButAge(a, b) == a.seq = b.seq /\ a.sum = b.sum

FarApart(a, b) == AbsDiff(a.age, b.age) >= MaxAgeDiff

Newer(a, b) ==
  \/ a.seq > b.seq
  \/ a.seq = b.seq /\ a.sum > b.sum
  \/ /\ SameButAge(a, b)
     /\ a.age # b.age
     /\ \/ a.age = MaxAge
        \/ b.age # MaxAge /\ FarApart(a, b) /\ a.age < b.age

Older(a, b) ==
  \/ a.seq < b.seq
  \/ a.seq = b.seq /\ a.sum < b.sum
  \/ /\ SameButAge(a, b)
     /\ a.age # b.age
     /\ a.age # MaxAge
     /\ b.age = MaxAge \/ (FarApart(a, b) /\ a.age > b.age)

\* eq, which Rust also uses for contains and remove on lists of headers
Same(a, b) == ~Newer(a, b) /\ ~Older(a, b)

\* The header after n seconds in a database (area/lsa.rs)
Aged(a, n) ==
  [seq |-> a.seq, sum |-> a.sum,
   age |-> IF a.age + n < MaxAge THEN a.age + n ELSE MaxAge]
=============================================================================
