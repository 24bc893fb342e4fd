------------------------- MODULE RoutingTableProofs -------------------------
(***************************************************************************)
(* Invariants of module RoutingTable, for any networks, routers, offers,   *)
(* and faults.                                                             *)
(***************************************************************************)
EXTENDS RoutingTable, WellFoundedInduction, TLAPS

-----------------------------------------------------------------------------
(* One entry                                                               *)

\* Putting an item changes its own destination at most, and only for a better
\* one: path types never get worse.
LEMMA PutBetters ==
  ASSUME table \in [Dests -> Item \cup {none}], NEW i \in Item, Put(i)
  PROVE  /\ table' \in [Dests -> Item \cup {none}]
         /\ \A d \in Dests : table'[d] \in {table[d], i}
         /\ \A d \in Dests : table[d] # none =>
              table'[d] # none /\ table'[d].type <= table[d].type
         /\ table'[i.dest] # none /\ table'[i.dest].type <= i.type
  <1>1. i.dest \in Dests /\ i.type \in 1..4 /\ i # none
    BY RoutingAssumption DEF Item
  <1>2. \A d \in Dests : table[d] # none => table[d].type \in 1..4
    BY DEF Item
  <1>3. CASE table[i.dest] = none \/ BetterThan(i, table[i.dest])
    <2>1. table' = [table EXCEPT ![i.dest] = i]
      BY <1>3 DEF Put
    <2> QED BY <1>1, <1>2, <1>3, <2>1 DEF BetterThan
  <1>4. CASE ~(table[i.dest] = none \/ BetterThan(i, table[i.dest]))
    <2>1. table' = table /\ table[i.dest] # none
      BY <1>4 DEF Put
    <2>2. table[i.dest].type \in 1..4 /\ ~(i.type < table[i.dest].type)
      BY <1>1, <1>2, <1>4, <2>1 DEF BetterThan
    <2>3. \A d \in Dests : table[d] # none => table[d].type <= table[d].type
      BY <1>2
    <2>4. table'[i.dest] # none /\ table'[i.dest].type <= i.type
      BY <1>1, <2>1, <2>2
    <2>5. \A d \in Dests : table[d] # none =>
            table'[d] # none /\ table'[d].type <= table[d].type
      BY <2>1, <2>3
    <2>6. table' \in [Dests -> Item \cup {none}]
      BY <2>1
    <2>7. \A d \in Dests : table'[d] \in {table[d], i}
      BY <2>1
    <2> QED BY <2>4, <2>5, <2>6, <2>7
  <1> QED BY <1>3, <1>4

\* Among networks, one has the longest mask.
LEMMA LongestExists ==
  ASSUME NEW S \in SUBSET Nets, S # {}
  PROVE  Longest(S) \in S
  <1> DEFINE below == OpToRel(<, Nat)
             gaps == {32 - Length[d] : d \in S}
  <1>1. \A d \in S : Length[d] \in 0..32
    BY RoutingAssumption
  <1>2. gaps \subseteq Nat /\ gaps # {}
    BY <1>1
  <1>3. PICK i \in gaps : \A j \in gaps : <<j, i>> \notin below
    <2> HIDE DEF gaps
    <2> QED BY <1>2, NatLessThanWellFounded, WFMin
  <1>4. \A j \in gaps : ~ (j < i)
    <2> HIDE DEF gaps
    <2> QED BY <1>2, <1>3 DEF OpToRel
  <1>5. PICK d \in S : i = 32 - Length[d]
    BY <1>3
  <1>6. \A e \in S : Length[e] <= Length[d]
    <2> SUFFICES ASSUME NEW e \in S PROVE Length[e] <= Length[d]
      OBVIOUS
    <2>1. ~ (32 - Length[e] < 32 - Length[d])
      BY <1>4, <1>5
    <2> QED BY <1>1, <2>1
  <1> QED BY <1>6 DEF Longest

\* What an AS-external LSA is reached by is an entry of the table.
LEMMA ForwardingIsEntry ==
  ASSUME table \in [Dests -> Item \cup {none}], NEW l \in ExternalLSA,
         Forwarding(l) # none
  PROVE  \E d \in Dests : table[d] # none /\ Forwarding(l) = table[d]
  <1>1. l.asbr \in Dests /\ l.forward \in Addresses \cup {none}
    BY DEF ExternalLSA, Dests
  <1>2. CASE l.forward = none \/ table[l.asbr] = none
    BY <1>1, <1>2 DEF Forwarding
  <1>3. CASE ~(l.forward = none \/ table[l.asbr] = none)
    <2> DEFINE a == l.forward
    <2>1. a \in Addresses /\ Forwarding(l) = GetRouting(a)
      BY <1>1, <1>3 DEF Forwarding
    <2>2. Matching(a) # {} /\ GetRouting(a) = table[Longest(Matching(a))]
      BY <2>1 DEF GetRouting
    <2>3. Matching(a) \in SUBSET Nets
      BY DEF Matching
    <2>4. Longest(Matching(a)) \in Matching(a)
      BY <2>2, <2>3, LongestExists
    <2> QED BY <2>1, <2>2, <2>4 DEF Matching, Dests
  <1> QED BY <1>2, <1>3

-----------------------------------------------------------------------------
(* Types                                                                   *)

LEMMA TypeInit == Init => TypeOK
  <1> SUFFICES ASSUME Init PROVE TypeOK
    OBVIOUS
  <1>1. table \in [Dests -> Item \cup {none}] /\ old \in [Dests -> Item \cup {none}]
    BY DEF Init, Empty
  <1>2. kernel \in [Nets -> Hops \cup {none}]
    BY DEF Init
  <1>3. bounds \in [calculations : Nat, faults : Nat]
    BY DEF Init
  <1> QED BY <1>1, <1>2, <1>3 DEF Init, TypeOK, Merging, Applying

\* The item made for an AS-external LSA is one.
LEMMA ExternalItemType ==
  ASSUME NEW l \in ExternalLSA, NEW f \in Item
  PROVE  /\ ExternalItem(l, f) \in Item
         /\ ExternalItem(l, f).type \in {AsExternalT1, AsExternalT2}
         /\ ExternalItem(l, f).hop = f.hop
  <1>1. l.net \in Nets /\ Masked(l.net) \in Nets
    BY RoutingAssumption DEF ExternalLSA, Masked
  <1> QED BY <1>1 DEF ExternalItem, ExternalLSA, Item, Dests, AsExternalT1, AsExternalT2

\* A step of the external loop puts an item reached like one in the table, or
\* leaves the table alone.
LEMMA ImportPuts ==
  ASSUME TypeOK, NEW l, Import(l)
  PROVE  \/ table' = table
         \/ \E i \in Item, d \in Dests :
              /\ Put(i)
              /\ i.type \in {AsExternalT1, AsExternalT2}
              /\ table[d] # none /\ i.hop = table[d].hop
  <1>1. l \in ExternalLSA
    BY RoutingAssumption DEF Import, TypeOK
  <1>2. CASE Reachable(l)
    <2>1. PICK d \in Dests : table[d] # none /\ Forwarding(l) = table[d]
      BY <1>1, <1>2, ForwardingIsEntry DEF Reachable, TypeOK
    <2>2. Forwarding(l) \in Item
      BY <2>1 DEF TypeOK
    <2>3. Put(ExternalItem(l, Forwarding(l)))
      BY <1>2 DEF Import
    <2> QED BY <1>1, <2>1, <2>2, <2>3, ExternalItemType
  <1>3. CASE ~Reachable(l)
    BY <1>3 DEF Import
  <1> QED BY <1>2, <1>3

\* Routes that are called for have a gateway.
LEMMA RouteType ==
  ASSUME NEW t \in [Dests -> Item \cup {none}], NEW d \in Nets
  PROVE  /\ Route(t, d) \in Hops \cup {none}
         /\ Route(t, d) # none => /\ t[d] # none /\ t[d].hop = Route(t, d)
                                  /\ t[d].hop \in Hops
         /\ Route(t, d) = none => t[d] = none \/ t[d].hop = Direct
  <1>1. d \in Dests
    BY DEF Dests
  <1> QED BY <1>1, RoutingAssumption DEF Route, Item

LEMMA LoopType ==
  ASSUME TypeOK, Loop
  PROVE  TypeOK'
  <1>1. ASSUME NEW i \in todo, Merge(i) PROVE TypeOK'
    <2>1. i \in Item
      BY <1>1, RoutingAssumption DEF Merge, TypeOK
    <2>2. table' \in [Dests -> Item \cup {none}]
      BY <1>1, <2>1, PutBetters DEF Merge, TypeOK
    <2> QED BY <1>1, <2>2 DEF Merge, TypeOK, Merging, Applying
  <1>2. ASSUME NEW l \in todo, Import(l) PROVE TypeOK'
    <2>1. table' \in [Dests -> Item \cup {none}]
      BY <1>2, ImportPuts, PutBetters DEF TypeOK
    <2> QED BY <1>2, <2>1 DEF Import, TypeOK, Merging, Applying
  <1>3. CASE Proceed
    <2>1. Gone \subseteq Nets /\ Added \subseteq Nets
      BY DEF Gone, Added
    <2> QED BY <1>3, <2>1 DEF Proceed, TypeOK, Merging, Applying, Gone, Added, Route
  <1>4. ASSUME NEW d \in todo, DeleteRoute(d) \/ AddRoute(d) PROVE TypeOK'
    <2>1. d \in Nets /\ phase' = phase /\ todo' \subseteq todo /\ phase \in Applying
      BY <1>4 DEF DeleteRoute, AddRoute, TypeOK, Applying, Gone, Added
    <2>2. AddRoute(d) => table[d].hop \in Hops
      <3> SUFFICES ASSUME AddRoute(d) PROVE table[d].hop \in Hops
        OBVIOUS
      <3>1. Route(table, d) # none
        BY <1>4 DEF AddRoute, TypeOK, Added
      <3> QED BY <2>1, <3>1, RouteType DEF TypeOK
    <2>3. kernel' \in [Nets -> Hops \cup {none}]
      BY <1>4, <2>1, <2>2 DEF DeleteRoute, AddRoute, TypeOK
    <2>4. suspect' \subseteq Nets /\ bounds' \in [calculations : Nat, faults : Nat]
      BY <1>4, <2>1 DEF DeleteRoute, AddRoute, Succeeds, Fails, TypeOK
    <2> QED
      BY <1>4, <2>1, <2>3, <2>4
      DEF DeleteRoute, AddRoute, TypeOK, Merging, Applying, Gone, Added, Route
  <1>5. ASSUME NEW l \in todo, Overflow(l) PROVE TypeOK'
    BY <1>5 DEF Overflow, TypeOK, Empty, Merging, Applying
  <1> QED BY <1>1, <1>2, <1>3, <1>4, <1>5 DEF Loop

LEMMA TypeStep == TypeOK /\ [Next]_vars => TypeOK'
  <1> SUFFICES ASSUME TypeOK, [Next]_vars PROVE TypeOK'
    OBVIOUS
  <1>1. ASSUME NEW v \in Views, Recalculate(v) PROVE TypeOK'
    BY <1>1 DEF Recalculate, TypeOK, Empty, Merging, Applying
  <1>2. ASSUME NEW h \in Hops, LinkFlap(h) PROVE TypeOK'
    <2>1. kernel' \in [Nets -> Hops \cup {none}] /\ suspect' \subseteq Nets
      BY <1>2 DEF LinkFlap, TypeOK
    <2>2. bounds' \in [calculations : Nat, faults : Nat]
      BY <1>2 DEF LinkFlap, TypeOK
    <2> QED BY <1>2, <2>1, <2>2 DEF LinkFlap, TypeOK, Gone, Added, Route
  <1>3. CASE Restart
    <2>1. kernel' \in [Nets -> Hops \cup {none}] /\ suspect' \subseteq Nets
      BY <1>3 DEF Restart, TypeOK
    <2>2. bounds' \in [calculations : Nat, faults : Nat]
      BY <1>3 DEF Restart, TypeOK
    <2> QED BY <1>3, <2>1, <2>2 DEF Restart, TypeOK, Empty, Merging, Applying
  <1>4. CASE UNCHANGED vars
    BY <1>4 DEF vars, TypeOK, Gone, Added, Route
  <1> QED BY <1>1, <1>2, <1>3, <1>4, LoopType DEF Next

\* The tables stay well formed, no next hop 0.0.0.0 is sent to the kernel, and
\* the loops over the difference visit only what differs.
THEOREM TypeCorrect == Spec => []TypeOK
  BY TypeInit, TypeStep, PTL DEF Spec

-----------------------------------------------------------------------------
(* The kernel                                                              *)

\* What the kernel has, in the middle of a recalculation, where every call
\* has gone well: before the calls the old routes, then less what was deleted,
\* and at last the new ones but those not yet added.
Expected(d) ==
  IF phase \in Merging THEN Route(old, d)
  ELSE IF phase = "delete"
       THEN IF d \in Gone \ todo THEN none ELSE Route(old, d)
  ELSE IF phase = "add"
       THEN IF d \in todo THEN none ELSE Route(table, d)
  ELSE Route(table, d)

AsExpected == \A d \in Nets \ suspect : kernel[d] = Expected(d)

\* Deleting all that is gone leaves the routes that stay.
LEMMA DifferenceIsComplete ==
  ASSUME TypeOK, NEW d \in Nets
  PROVE  (IF d \in Gone THEN none ELSE Route(old, d))
           = (IF d \in Added THEN none ELSE Route(table, d))
  <1>1. d \in Dests
    BY DEF Dests
  <1> QED BY <1>1, RoutingAssumption DEF Gone, Added, Route, TypeOK, Item

LEMMA KernelStep == TypeOK /\ AsExpected /\ [Next]_vars => AsExpected'
  <1> SUFFICES ASSUME TypeOK, AsExpected, [Next]_vars PROVE AsExpected'
    OBVIOUS
  <1>1. ASSUME NEW v \in Views, Recalculate(v) PROVE AsExpected'
    BY <1>1 DEF Recalculate, AsExpected, Expected, Merging, Route
  <1>2. ASSUME NEW x \in todo, Merge(x) \/ Import(x) PROVE AsExpected'
    BY <1>2 DEF Merge, Import, AsExpected, Expected, Merging, Route
  <1>3. CASE Proceed
    <2>1. ASSUME NEW d \in Nets PROVE Expected(d)' = Expected(d)
      <3>1. CASE phase \in {"intra", "inter"}
        BY <1>3, <3>1 DEF Proceed, Expected, Merging, Route
      <3>2. CASE phase = "external"
        BY <1>3, <3>2 DEF Proceed, Expected, Merging, Route, Gone
      <3>3. CASE phase = "delete"
        <4>1. Expected(d) = IF d \in Gone THEN none ELSE Route(old, d)
          BY <1>3, <3>3 DEF Proceed, Expected, Merging
        <4>2. Expected(d)' = IF d \in Added THEN none ELSE Route(table, d)
          BY <1>3, <3>3 DEF Proceed, Expected, Merging, Route
        <4> QED BY <4>1, <4>2, DifferenceIsComplete
      <3>4. CASE phase = "add"
        BY <1>3, <3>4 DEF Proceed, Expected, Merging, Route
      <3> QED BY <1>3, <3>1, <3>2, <3>3, <3>4 DEF Proceed, TypeOK, Merging, Applying
    <2> QED BY <1>3, <2>1 DEF Proceed, AsExpected
  <1>4. ASSUME NEW d \in todo, DeleteRoute(d) PROVE AsExpected'
    <2>1. d \in Gone /\ d \in Nets
      BY <1>4 DEF DeleteRoute, TypeOK, Gone
    <2>2. \A e \in Nets : e # d => Expected(e)' = Expected(e) /\ kernel'[e] = kernel[e]
      BY <1>4 DEF DeleteRoute, Expected, Merging, Gone, Route, TypeOK
    <2>3. Expected(d)' = none
      BY <1>4, <2>1 DEF DeleteRoute, Expected, Merging, Gone, Route
    <2>4. d \notin suspect' => kernel'[d] = none
      BY <1>4, <2>1 DEF DeleteRoute, Fails, TypeOK
    <2>5. suspect \ {d} \subseteq suspect'
      BY <1>4 DEF DeleteRoute, Succeeds, Fails
    <2> QED BY <2>2, <2>3, <2>4, <2>5 DEF AsExpected
  <1>5. ASSUME NEW d \in todo, AddRoute(d) PROVE AsExpected'
    <2>1. d \in Added /\ d \in Nets
      BY <1>5 DEF AddRoute, TypeOK, Added
    <2>2. \A e \in Nets : e # d => Expected(e)' = Expected(e) /\ kernel'[e] = kernel[e]
      BY <1>5 DEF AddRoute, Expected, Merging, Added, Route, TypeOK
    <2>3. Expected(d)' = Route(table, d)
      BY <1>5, <2>1 DEF AddRoute, Expected, Merging, Added, Route
    <2>4. d \notin suspect' => kernel'[d] = Route(table, d)
      BY <1>5, <2>1 DEF AddRoute, Fails, TypeOK, Added, Route
    <2>5. suspect \ {d} \subseteq suspect'
      BY <1>5 DEF AddRoute, Succeeds, Fails
    <2> QED BY <2>2, <2>3, <2>4, <2>5 DEF AsExpected
  <1>6. ASSUME NEW h \in Hops, LinkFlap(h) PROVE AsExpected'
    BY <1>6 DEF LinkFlap, AsExpected, Expected, Merging, Gone, Route, TypeOK
  <1>7. CASE Restart
    <2>1. \A d \in Nets : Expected(d)' = none
      BY <1>7 DEF Restart, Expected, Merging, Route, Empty, Dests
    <2> QED BY <1>7, <2>1 DEF Restart, AsExpected
  <1>8. CASE UNCHANGED vars
    BY <1>8 DEF vars, AsExpected, Expected, Merging, Gone, Route
  <1>9. ASSUME NEW l \in todo, Overflow(l) PROVE AsExpected'
    BY <1>9 DEF Overflow, AsExpected, Expected, Merging, Route
  <1> QED
    BY <1>1, <1>2, <1>3, <1>4, <1>5, <1>6, <1>7, <1>8, <1>9 DEF Next, Loop

\* Between recalculations the kernel has exactly the routes of the table, but
\* for networks with a failed call, a dropped route, or a route of before.
THEOREM KernelFollows == Spec => []Mirrored
  <1>1. Init => AsExpected
    BY DEF Init, AsExpected, Expected, Route, Empty, Dests, Merging
  <1>2. AsExpected => Mirrored
    BY DEF AsExpected, Mirrored, Expected, Merging
  <1> QED BY <1>1, <1>2, KernelStep, TypeCorrect, PTL DEF Spec

\* No call of a recalculation touches a route that stays as it is.
THEOREM StableRoutesStay == Spec => Undisturbed
  <1>1. ASSUME TypeOK, [Next]_vars, NEW d \in Nets,
               phase \in Applying, todo' # todo, phase' = phase,
               Route(old, d) = Route(table, d)
        PROVE  kernel'[d] = kernel[d]
    <2>1. d \in Dests
      BY DEF Dests
    <2>2. d \notin Gone /\ d \notin Added
      BY <1>1, <2>1, RoutingAssumption DEF Gone, Added, Route, TypeOK, Item
    <2>3. \E e \in todo : DeleteRoute(e) \/ AddRoute(e)
      BY <1>1
      DEF Next, Loop, vars, Recalculate, Merge, Import, Overflow, Proceed, LinkFlap, Restart,
          Applying
    <2> QED BY <1>1, <2>2, <2>3 DEF DeleteRoute, AddRoute, TypeOK
  <1>2. TypeOK /\ [Next]_vars =>
          [\A d \in Nets : (/\ phase \in Applying /\ todo' # todo /\ phase' = phase
                            /\ Route(old, d) = Route(table, d))
                              => kernel'[d] = kernel[d]]_vars
    BY <1>1
  <1> QED BY <1>2, TypeCorrect, PTL DEF Spec, Undisturbed

-----------------------------------------------------------------------------
(* The table                                                               *)

\* What has been offered so far has found its place.
Placed(S) == \A i \in S : table[i.dest] # none /\ table[i.dest].type <= i.type

OffersPlaced ==
  /\ phase = "intra" => Placed(view.intra \ todo)
  /\ phase = "inter" => Placed(view.intra \cup (view.inter \ todo))
  /\ phase \in {"external"} \cup Applying => Placed(view.intra \cup view.inter)
  /\ phase = "idle" => BestType

\* Up to the external loop there are no external routes, and from then on each
\* of them goes where an internal one does.
Internal(d) == table[d] # none /\ table[d].type <= AreaExternal
Rooted(d) == \E e \in Dests : Internal(e) /\ table[e].hop = table[d].hop

ExternalsRooted ==
  IF phase \in {"intra", "inter"}
  THEN \A d \in Dests : table[d] # none => Internal(d)
  ELSE \A d \in Dests : table[d] # none => Rooted(d)

\* Putting an item keeps the place of those that were put before.
LEMMA PutKeeps ==
  ASSUME table \in [Dests -> Item \cup {none}], NEW i \in Item, Put(i),
         NEW S \in SUBSET Item, Placed(S)
  PROVE  \A j \in S \cup {i} : table'[j.dest] # none /\ table'[j.dest].type <= j.type
  <1>1. \A j \in S : table'[j.dest] # none /\ table'[j.dest].type <= j.type
    <2> SUFFICES ASSUME NEW j \in S
                 PROVE  table'[j.dest] # none /\ table'[j.dest].type <= j.type
      OBVIOUS
    <2>1. j.dest \in Dests /\ j.type \in Int
      BY DEF Item
    <2>2. table[j.dest] # none /\ table[j.dest].type <= j.type
      BY DEF Placed
    <2>3. table'[j.dest] # none /\ table'[j.dest].type <= table[j.dest].type
      BY <2>1, <2>2, PutBetters
    <2>4. table[j.dest].type \in Int /\ table'[j.dest].type \in Int
      BY <2>1, <2>2, <2>3, PutBetters DEF Item
    <2> QED BY <2>1, <2>2, <2>3, <2>4
  <1>2. table'[i.dest] # none /\ table'[i.dest].type <= i.type
    BY PutBetters
  <1> QED BY <1>1, <1>2 DEF Placed

LEMMA OffersStep == TypeOK /\ OffersPlaced /\ [Next]_vars => OffersPlaced'
  <1> SUFFICES ASSUME TypeOK, OffersPlaced, [Next]_vars PROVE OffersPlaced'
    OBVIOUS
  <1>0. view.intra \subseteq Item /\ view.inter \subseteq Item
    BY RoutingAssumption DEF TypeOK
  <1>1. ASSUME NEW v \in Views, Recalculate(v) PROVE OffersPlaced'
    BY <1>1 DEF Recalculate, OffersPlaced, Placed, Applying
  <1>2. ASSUME NEW i \in todo, Merge(i) PROVE OffersPlaced'
    <2>1. CASE phase = "intra"
      <3> DEFINE S == view.intra \ todo
      <3>1. i \in Item /\ S \in SUBSET Item /\ Placed(S) /\ Put(i)
        BY <1>0, <1>2, <2>1 DEF Merge, OffersPlaced, TypeOK
      <3>2. \A j \in S \cup {i} : /\ table'[j.dest] # none
                                   /\ table'[j.dest].type <= j.type
        <4> HIDE DEF S
        <4> QED BY <3>1, PutKeeps DEF TypeOK
      <3>3. view'.intra \ todo' \subseteq S \cup {i} /\ phase' = "intra"
        BY <1>2, <2>1 DEF Merge
      <3>4. Placed(view.intra \ todo)'
        BY <1>2, <3>2, <3>3 DEF Merge, Placed
      <3> QED BY <3>3, <3>4 DEF OffersPlaced, Applying
    <2>2. CASE phase = "inter"
      <3> DEFINE S == view.intra \cup (view.inter \ todo)
      <3>1. i \in Item /\ S \in SUBSET Item /\ Placed(S) /\ Put(i)
        BY <1>0, <1>2, <2>2 DEF Merge, OffersPlaced, TypeOK
      <3>2. \A j \in S \cup {i} : /\ table'[j.dest] # none
                                   /\ table'[j.dest].type <= j.type
        <4> HIDE DEF S
        <4> QED BY <3>1, PutKeeps DEF TypeOK
      <3>3. /\ view'.intra \cup (view'.inter \ todo') \subseteq S \cup {i}
            /\ phase' = "inter"
        BY <1>2, <2>2 DEF Merge
      <3>4. Placed(view.intra \cup (view.inter \ todo))'
        BY <1>2, <3>2, <3>3 DEF Merge, Placed
      <3> QED BY <3>3, <3>4 DEF OffersPlaced, Applying
    <2> QED BY <1>2, <2>1, <2>2 DEF Merge
  <1>3. ASSUME NEW l \in todo, Import(l) PROVE OffersPlaced'
    <2> DEFINE S == view.intra \cup view.inter
    <2>1. S \in SUBSET Item /\ Placed(S)
      BY <1>0, <1>3 DEF Import, OffersPlaced
    <2>2. \A j \in S : table'[j.dest] # none /\ table'[j.dest].type <= j.type
      <3>1. CASE table' = table
        BY <1>3, <2>1, <3>1 DEF Import, Placed
      <3>2. CASE \E i \in Item : Put(i)
        <4> HIDE DEF S
        <4> QED BY <2>1, <3>2, PutKeeps DEF TypeOK
      <3> QED BY <1>3, <3>1, <3>2, ImportPuts
    <2> QED BY <1>3, <2>2 DEF Import, OffersPlaced, Placed, Applying
  <1>4. CASE Proceed
    BY <1>4 DEF Proceed, OffersPlaced, Placed, BestType, Applying
  <1>5. ASSUME NEW d \in todo, DeleteRoute(d) \/ AddRoute(d) PROVE OffersPlaced'
    BY <1>5 DEF DeleteRoute, AddRoute, OffersPlaced, Placed, Applying
  <1>6. ASSUME NEW h \in Hops, LinkFlap(h) PROVE OffersPlaced'
    BY <1>6 DEF LinkFlap, OffersPlaced, Placed, BestType, Applying
  <1>7. CASE Restart
    BY <1>7 DEF Restart, OffersPlaced, BestType, Applying
  <1>8. CASE UNCHANGED vars
    BY <1>8 DEF vars, OffersPlaced, Placed, BestType, Applying
  <1>9. ASSUME NEW l \in todo, Overflow(l) PROVE OffersPlaced'
    <2>1. Placed(view.intra \cup view.inter)'
      BY <1>9 DEF Overflow, OffersPlaced, Placed
    <2> QED BY <1>9, <2>1 DEF Overflow, OffersPlaced, Placed, BestType, Applying
  <1> QED
    BY <1>1, <1>2, <1>3, <1>4, <1>5, <1>6, <1>7, <1>8, <1>9 DEF Next, Loop

\* In whatever order maps are iterated, every offer of the areas is met by an
\* entry whose path type is as good.
THEOREM BestTypeWins == Spec => []BestType
  <1>1. Init => OffersPlaced
    BY DEF Init, OffersPlaced, BestType, Applying
  <1>2. TypeOK /\ OffersPlaced => BestType
    BY DEF OffersPlaced, BestType
  <1> QED BY <1>1, <1>2, OffersStep, TypeCorrect, PTL DEF Spec

LEMMA RootedStep == TypeOK /\ ExternalsRooted /\ [Next]_vars => ExternalsRooted'
  <1> SUFFICES ASSUME TypeOK, ExternalsRooted, [Next]_vars PROVE ExternalsRooted'
    OBVIOUS
  <1>1. ASSUME NEW v \in Views, Recalculate(v) PROVE ExternalsRooted'
    BY <1>1 DEF Recalculate, ExternalsRooted, Empty
  <1>2. ASSUME NEW i \in todo, Merge(i) PROVE ExternalsRooted'
    <2>1. i \in Item /\ i.type <= AreaExternal
      BY <1>2, RoutingAssumption DEF Merge, TypeOK, AreaInternal, AreaExternal
    <2>2. \A d \in Dests : table'[d] \in {table[d], i}
      BY <1>2, <2>1, PutBetters DEF Merge, TypeOK
    <2> QED BY <1>2, <2>1, <2>2 DEF Merge, ExternalsRooted, Internal
  <1>3. ASSUME NEW l \in todo, Import(l) PROVE ExternalsRooted'
    <2>1. phase = "external" /\ phase' = "external"
      BY <1>3 DEF Import
    <2>2. CASE table' = table
      BY <2>1, <2>2 DEF ExternalsRooted, Rooted, Internal
    <2>3. ASSUME NEW i \in Item, NEW d \in Dests, Put(i),
                 i.type \in {AsExternalT1, AsExternalT2},
                 table[d] # none, i.hop = table[d].hop
          PROVE  ExternalsRooted'
      <3>1. \A e \in Dests : Internal(e) => table'[e] = table[e]
        <4> SUFFICES ASSUME NEW e \in Dests, Internal(e) PROVE table'[e] = table[e]
          OBVIOUS
        <4>1. table[e] # none /\ table[e].type \in 1..2
          BY DEF Internal, TypeOK, Item, AreaExternal
        <4>2. table'[e] \in {table[e], i} /\ table'[e].type <= table[e].type
          BY <2>3, <4>1, PutBetters DEF TypeOK
        <4> QED BY <2>3, <4>1, <4>2 DEF AsExternalT1, AsExternalT2
      <3>2. \A e \in Dests : Rooted(e) =>
              \E f \in Dests : Internal(f)' /\ table'[f].hop = table[e].hop
        BY <3>1 DEF Rooted, Internal
      <3>3. \A e \in Dests : table'[e] \in {table[e], i}
        BY <2>3, PutBetters DEF TypeOK
      <3>4. \A e \in Dests : table'[e] # none => Rooted(e)'
        <4> SUFFICES ASSUME NEW e \in Dests, table'[e] # none PROVE Rooted(e)'
          OBVIOUS
        <4>1. CASE table'[e] = table[e]
          BY <2>1, <3>2, <4>1 DEF ExternalsRooted, Rooted
        <4>2. CASE table'[e] = i
          BY <2>1, <2>3, <3>2, <4>2 DEF ExternalsRooted, Rooted
        <4> QED BY <3>3, <4>1, <4>2
      <3> QED BY <2>1, <3>4 DEF ExternalsRooted
    <2> QED BY <1>3, <2>2, <2>3, ImportPuts
  <1>4. CASE Proceed
    <2>1. (\A d \in Dests : table[d] # none => Internal(d)) =>
            (\A d \in Dests : table[d] # none => Rooted(d))
      BY DEF Rooted
    <2>2. phase \notin {"intra", "inter"} => phase' \notin {"intra", "inter"}
      BY <1>4 DEF Proceed
    <2> QED BY <1>4, <2>1, <2>2 DEF Proceed, ExternalsRooted, Rooted, Internal
  <1>5. ASSUME NEW d \in todo, DeleteRoute(d) \/ AddRoute(d) PROVE ExternalsRooted'
    BY <1>5 DEF DeleteRoute, AddRoute, ExternalsRooted, Rooted, Internal
  <1>6. ASSUME NEW h \in Hops, LinkFlap(h) PROVE ExternalsRooted'
    BY <1>6 DEF LinkFlap, ExternalsRooted, Rooted, Internal
  <1>7. CASE Restart
    BY <1>7 DEF Restart, ExternalsRooted, Empty
  <1>8. CASE UNCHANGED vars
    BY <1>8 DEF vars, ExternalsRooted, Rooted, Internal
  <1>9. ASSUME NEW l \in todo, Overflow(l) PROVE ExternalsRooted'
    BY <1>9 DEF Overflow, ExternalsRooted, Rooted, Internal
  <1> QED
    BY <1>1, <1>2, <1>3, <1>4, <1>5, <1>6, <1>7, <1>8, <1>9 DEF Next, Loop

\* An AS-external route has the next hop of some route inside the AS, although
\* the loop that makes it reads the table it is changing.
THEOREM ExternalsFollow == Spec => []ExternalHops
  <1>1. Init => ExternalsRooted
    BY DEF Init, ExternalsRooted, Empty
  <1>2. TypeOK /\ ExternalsRooted => ExternalHops
    <2> SUFFICES ASSUME ExternalsRooted,
                        phase \in {"idle"} \cup Applying, NEW d \in Nets,
                        table[d] # none
                 PROVE  \E e \in Dests : Internal(e) /\ table[e].hop = table[d].hop
      BY DEF ExternalHops, Internal
    <2>1. d \in Dests
      BY DEF Dests
    <2> QED BY <2>1 DEF ExternalsRooted, Rooted, Applying
  <1> QED BY <1>1, <1>2, RootedStep, TypeCorrect, PTL DEF Spec
=============================================================================
