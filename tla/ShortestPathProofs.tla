------------------------- MODULE ShortestPathProofs -------------------------
(***************************************************************************)
(* Invariants of module ShortestPath, for any routers, networks, costs and *)
(* any set of databases.                                                   *)
(***************************************************************************)
EXTENDS ShortestPath, WellFoundedInduction, FiniteSetTheorems, TLAPS

---------------------------------------------------------------------------
(* The first and the last of some links exist.                             *)

\* A set of numbers that is not empty has a smallest one.
LEMMA SmallestExists ==
  ASSUME NEW S \in SUBSET Nat, S # {}
  PROVE  \E i \in S : \A j \in S : i <= j
  <1> DEFINE less == OpToRel(<, Nat)
  <1>1. PICK i \in S : \A j \in S : <<j, i>> \notin less
    BY NatLessThanWellFounded, WFMin
  <1>2. \A j \in S : ~ (j < i)
    BY <1>1 DEF OpToRel
  <1> QED BY <1>2

\* Distances from a bound reverse the order.
LEMMA ComplementReverses ==
  ASSUME NEW n \in Nat, NEW i \in 1..n, NEW j \in 1..n, n - i <= n - j
  PROVE  i >= j
  OBVIOUS

\* One with a bound also has a largest one.
LEMMA LargestExists ==
  ASSUME NEW n \in Nat, NEW S \in SUBSET (1..n), S # {}
  PROVE  \E i \in S : \A j \in S : i >= j
  <1> DEFINE C == {n - i : i \in S}
  <1>1. C \in SUBSET Nat /\ C # {}
    <2>1. \A i \in 1..n : n - i \in Nat
      OBVIOUS
    <2>2. \A i \in S : n - i \in Nat
      BY <2>1
    <2> QED BY <2>2
  <1>2. PICK c \in C : \A d \in C : c <= d
    BY <1>1, SmallestExists
  <1>3. PICK i \in S : n - i = c
    BY <1>2
  <1>4. ASSUME NEW j \in S PROVE i >= j
    <2>1. n - j \in C
      OBVIOUS
    <2>2. n - i <= n - j
      BY <1>2, <1>3, <2>1
    <2> HIDE DEF C
    <2> QED BY <2>2, ComplementReverses
  <1> QED BY <1>4

\* Max and Min choose an element.
LEMMA MaxMinIn ==
  ASSUME NEW n \in Nat, NEW S \in SUBSET (1..n), S # {}
  PROVE  Max(S) \in S /\ Min(S) \in S
  <1>1. Max(S) \in S
    BY LargestExists DEF Max
  <1>2. S \in SUBSET Nat
    OBVIOUS
  <1>3. Min(S) \in S
    BY <1>2, SmallestExists DEF Min
  <1> QED BY <1>1, <1>3

---------------------------------------------------------------------------
(* The graph of a database.                                                *)

\* The router that has a link to n has a first and a last link to it.
LEMMA LinkExists ==
  ASSUME IsDatabase(db), NEW r \in DOMAIN db.links, NEW n \in Children(r)
  PROVE  /\ Max(LinksTo(r, n)) \in DOMAIN db.links[r]
         /\ Min(LinksTo(r, n)) \in DOMAIN db.links[r]
  <1>1. db.links[r] \in Seq(Link)
    BY DEF IsDatabase
  <1>2. DOMAIN db.links[r] = 1..Len(db.links[r]) /\ Len(db.links[r]) \in Nat
    BY <1>1
  <1>3. LinksTo(r, n) \in SUBSET (1..Len(db.links[r]))
    BY <1>2 DEF LinksTo
  <1>4. LinksTo(r, n) # {}
    <2>1. n \in {db.links[r][i].to : i \in DOMAIN db.links[r]}
      BY DEF Children
    <2>2. PICK i \in DOMAIN db.links[r] : n = db.links[r][i].to
      BY <2>1
    <2> QED BY <2>2 DEF LinksTo
  <1>5. Max(LinksTo(r, n)) \in LinksTo(r, n) /\ Min(LinksTo(r, n)) \in LinksTo(r, n)
    BY <1>2, <1>3, <1>4, MaxMinIn
  <1> QED BY <1>2, <1>3, <1>5

\* Children are nodes; only routers and networks have any.
LEMMA ChildrenType ==
  ASSUME IsDatabase(db), NEW id, NEW n \in Children(id)
  PROVE  /\ n \in Node
         /\ \/ id \in DOMAIN db.links /\ id \in Router
            \/ id \in DOMAIN db.attached /\ id \in Network /\ id \notin Router /\ n \in Router
  <1>1. CASE id \in DOMAIN db.links
    <2>1. db.links[id] \in Seq(Link) /\ id \in Router
      BY <1>1 DEF IsDatabase
    <2>2. n \in {db.links[id][i].to : i \in DOMAIN db.links[id]}
      BY <1>1 DEF Children
    <2>3. PICK i \in DOMAIN db.links[id] : n = db.links[id][i].to
      BY <2>2
    <2>4. db.links[id][i] \in Link
      BY <2>1, <2>3
    <2> QED BY <1>1, <2>1, <2>3, <2>4 DEF Link
  <1>2. CASE id \notin DOMAIN db.links
    <2>1. id \in DOMAIN db.attached /\ n \in db.attached[id]
      BY <1>2 DEF Children
    <2>2. id \in Network /\ n \in Router
      BY <2>1 DEF IsDatabase
    <2> QED BY <2>1, <2>2, NodeAssumption DEF Node
  <1> QED BY <1>1, <1>2

\* Costs are numbers.
LEMMA CostType ==
  ASSUME IsDatabase(db), NEW id, NEW n \in Children(id)
  PROVE  Cost(id, n) \in Nat
  <1>1. CASE id \in Router
    <2>1. id \in DOMAIN db.links
      BY <1>1, ChildrenType
    <2>2. Max(LinksTo(id, n)) \in DOMAIN db.links[id]
      BY <2>1, LinkExists
    <2>3. db.links[id] \in Seq(Link)
      BY <2>1 DEF IsDatabase
    <2>4. db.links[id][Max(LinksTo(id, n))] \in Link
      BY <2>2, <2>3
    <2> QED BY <1>1, <2>4 DEF Cost, Link
  <1>2. CASE id \notin Router
    BY <1>2 DEF Cost
  <1> QED BY <1>1, <1>2

\* So are the weights of the edges.
LEMMA WeightType ==
  ASSUME IsDatabase(db), NEW id, NEW n, Edge(id, n)
  PROVE  Weight(id, n) \in Nat
  <1>1. Cost(id, n) \in Nat
    BY CostType DEF Edge
  <1>2. n \notin Stub => Cost(n, id) \in Nat
    BY CostType DEF Edge
  <1> QED BY <1>1, <1>2 DEF Weight

\* Both ends of an edge are nodes, and there is an LSA for where it leads.
LEMMA EdgeKnown ==
  ASSUME IsDatabase(db), NEW id, NEW n, Edge(id, n)
  PROVE  id \in Node /\ n \in Node /\ Known(n)
  <1>1. n \in Node /\ id \in Advertised /\ id \in Node
    BY ChildrenType DEF Edge, Advertised, Node
  <1>2. CASE n \in Stub
    BY <1>1, <1>2 DEF Known, Edge
  <1>3. CASE n \notin Stub
    <2>1. id \in Children(n)
      BY <1>3 DEF Edge
    <2> QED BY <1>1, <2>1, ChildrenType DEF Known, Advertised
  <1> QED BY <1>1, <1>2, <1>3

\* Next hops are addresses.
LEMMA NextHopsType ==
  ASSUME IsDatabase(db), NEW id, NEW n, Edge(id, n), NEW hops \in Seq(Address)
  PROVE  NextHops(n, id, hops) \in Seq(Address)
  <1>1. CASE hops = <<>> /\ n \in Router /\ id \in Network
    <2>1. id \in Children(n)
      BY <1>1, NodeAssumption DEF Edge
    <2>2. n \in DOMAIN db.links
      BY <1>1, <2>1, ChildrenType
    <2>3. Min(LinksTo(n, id)) \in DOMAIN db.links[n]
      BY <2>1, <2>2, LinkExists
    <2>4. <<n, Min(LinksTo(n, id))>> \in Address
      BY <2>2, <2>3 DEF Address
    <2> HIDE DEF Address
    <2> QED BY <1>1, <2>4 DEF NextHops
  <1>2. CASE ~(hops = <<>> /\ n \in Router /\ id \in Network)
    BY <1>2 DEF NextHops
  <1> QED BY <1>1, <1>2

---------------------------------------------------------------------------
(* The inductive invariant.  Beyond the distances in the tree and the heap   *)
(* being in order, it says where every distance comes from (Derived), that   *)
(* no edge out of the tree is forgotten (Relaxed), and that the calculation  *)
(* begins with the router itself (Begun).                                    *)

\* The distance of n over its neighbor p.
Over(p, n) == tree[p].distance + Weight(p, n)

Derived ==
    /\ \A n \in DOMAIN tree :
          IF n = Self THEN tree[n].distance = 0
          ELSE \E p \in DOMAIN tree : Edge(p, n) /\ tree[n].distance = Over(p, n)
    /\ \A c \in candidate :
          c = Root \/ /\ c.parent \in DOMAIN tree
                      /\ Edge(c.parent, c.node)
                      /\ c.distance = Over(c.parent, c.node)

Relaxed ==
    \A n \in DOMAIN tree, m \in Node :
        Edge(n, m) =>
            \/ m \in DOMAIN tree /\ tree[m].distance <= Over(n, m)
            \/ \E c \in candidate : c.node = m /\ c.distance = Over(n, m)

Begun ==
    Self \notin DOMAIN tree =>
        /\ DOMAIN tree = {}
        /\ candidate \subseteq {Root}
        /\ Known(Self) => Root \in candidate

IInv == TypeOK /\ NeverCloser /\ Derived /\ Relaxed /\ Begun

\* The first candidate.
LEMMA RootType ==
  Root \in HeapNode
  <1>1. Self \in Node
    BY NodeAssumption DEF Node
  <1>2. <<>> \in Seq(Address)
    OBVIOUS
  <1> HIDE DEF Address
  <1> QED BY <1>1, <1>2 DEF Root, HeapNode

\* It holds before the loop.
LEMMA InitIInv ==
  ASSUME Init
  PROVE  IInv
  <1>1. DOMAIN tree = {} /\ candidate = {Root} /\ IsDatabase(db)
    BY DatabasesAssumption DEF Init
  <1>2. tree \in [DOMAIN tree -> TreeNode]
    BY <1>1 DEF Init
  <1>3. TypeOK
    BY <1>1, <1>2, RootType DEF TypeOK
  <1>4. NeverCloser /\ Derived /\ Relaxed /\ Begun
    BY <1>1 DEF NeverCloser, Derived, Relaxed, Begun
  <1> QED BY <1>3, <1>4 DEF IInv

\* The database is a copy: nothing read from it changes.
LEMMA SameGraph ==
  ASSUME UNCHANGED db
  PROVE  /\ \A p, n : Edge(p, n)' = Edge(p, n) /\ Weight(p, n)' = Weight(p, n)
         /\ \A n : Known(n)' = Known(n)
         /\ Address' = Address
         /\ HeapNode' = HeapNode /\ TreeNode' = TreeNode
         /\ IsDatabase(db)' = IsDatabase(db)
         /\ \A n : Children(n)' = Children(n)
  BY DEF Edge, Weight, Children, Cost, LinksTo, Known, Advertised, Address,
         HeapNode, TreeNode, IsDatabase

\* A candidate for a node of the tree is not needed: the node is as near as that.
LEMMA PopAgainKeeps ==
  ASSUME IInv, NEW c \in candidate, PopAgain(c)
  PROVE  IInv'
  <1>1. c \in HeapNode /\ tree \in [DOMAIN tree -> TreeNode] /\ IsDatabase(db)
    BY DEF IInv, TypeOK
  <1>2. UNCHANGED db
    BY DEF PopAgain
  <1>3. \A n \in DOMAIN tree : tree[n] \in TreeNode
    BY <1>1
  <1>4. c.distance \in Nat /\ c.hops \in Seq(Address) /\ c.node \in DOMAIN tree
    BY <1>1 DEF HeapNode, PopAgain
  <1>5. /\ DOMAIN tree' = DOMAIN tree
        /\ tree' \in [DOMAIN tree -> TreeNode]
        /\ \A n \in DOMAIN tree : tree'[n].distance = tree[n].distance
    <2>1. CASE tree[c.node].distance = c.distance
      <3>1. tree' = [tree EXCEPT ![c.node].hops = @ \o c.hops]
        BY <2>1 DEF PopAgain
      <3>2. tree[c.node].hops \in Seq(Address) /\ tree[c.node].distance \in Nat
        BY <1>3, <1>4 DEF TreeNode
      <3>3. tree[c.node].hops \o c.hops \in Seq(Address)
        BY <3>2, <1>4
      <3> HIDE DEF Address
      <3> QED BY <1>1, <1>3, <1>4, <3>1, <3>2, <3>3 DEF TreeNode
    <2>2. CASE tree[c.node].distance # c.distance
      BY <2>2, <1>1 DEF PopAgain
    <2> QED BY <2>1, <2>2
  <1>6. candidate' = candidate \ {c}
    BY DEF PopAgain
  <1>7. TypeOK'
    BY <1>1, <1>2, <1>5, <1>6, SameGraph DEF TypeOK, IInv
  <1>8. NeverCloser'
    BY <1>5, <1>6 DEF NeverCloser, IInv
  <1>9. \A p \in DOMAIN tree : \A n : Over(p, n)' = Over(p, n)
    BY <1>2, <1>5, SameGraph DEF Over
  <1>10. Derived'
    BY <1>2, <1>5, <1>6, <1>9, SameGraph DEF Derived, Root, IInv
  <1>11. Relaxed'
    <2> SUFFICES ASSUME NEW n \in DOMAIN tree, NEW m \in Node, Edge(n, m)
                 PROVE  \/ m \in DOMAIN tree /\ tree[m].distance <= Over(n, m)
                        \/ \E d \in candidate \ {c} : d.node = m /\ d.distance = Over(n, m)
      BY <1>2, <1>5, <1>6, <1>9, SameGraph DEF Relaxed
    <2>1. CASE m \in DOMAIN tree /\ tree[m].distance <= Over(n, m)
      BY <2>1
    <2>2. CASE \E d \in candidate : d.node = m /\ d.distance = Over(n, m)
      <3>1. PICK d \in candidate : d.node = m /\ d.distance = Over(n, m)
        BY <2>2
      <3>2. CASE d = c
        BY <3>1, <3>2, <1>4 DEF NeverCloser, IInv
      <3> QED BY <3>1, <3>2
    <2> QED BY <2>1, <2>2 DEF Relaxed, IInv
  <1>12. Begun'
    BY <1>2, <1>4, <1>5, <1>6 DEF Begun, IInv
  <1> QED BY <1>7, <1>8, <1>10, <1>11, <1>12 DEF IInv

\* Nor is one for a node without LSA: no edge leads there.
LEMMA PopUnknownKeeps ==
  ASSUME IInv, NEW c \in candidate, PopUnknown(c)
  PROVE  IInv'
  <1>1. UNCHANGED <<db, tree>> /\ candidate' = candidate \ {c}
    BY DEF PopUnknown
  <1>2. \A p, n : Over(p, n)' = Over(p, n)
    BY <1>1, SameGraph DEF Over
  <1>3. TypeOK' /\ NeverCloser'
    BY <1>1, SameGraph DEF TypeOK, NeverCloser, IInv
  <1>4. Derived'
    BY <1>1, <1>2, SameGraph DEF Derived, Root, IInv
  <1>5. Relaxed'
    <2> SUFFICES ASSUME NEW n \in DOMAIN tree, NEW m \in Node, Edge(n, m)
                 PROVE  \/ m \in DOMAIN tree /\ tree[m].distance <= Over(n, m)
                        \/ \E d \in candidate \ {c} : d.node = m /\ d.distance = Over(n, m)
      BY <1>1, <1>2, SameGraph DEF Relaxed
    <2>1. Known(m)
      BY EdgeKnown DEF IInv, TypeOK
    <2>2. c.node # m
      BY <2>1 DEF PopUnknown
    <2> QED BY <2>2 DEF Relaxed, IInv
  <1>6. Begun'
    <2>1. SUFFICES ASSUME Self \notin DOMAIN tree
                   PROVE  /\ candidate \ {c} \subseteq {Root}
                          /\ Known(Self) => Root \in candidate \ {c}
      BY <1>1, SameGraph DEF Begun, Root, IInv
    <2>2. c = Root
      BY <2>1 DEF Begun, IInv
    <2>3. ~Known(Self)
      BY <2>2 DEF PopUnknown, Root
    <2> QED BY <2>1, <2>3 DEF Begun, IInv
  <1> QED BY <1>3, <1>4, <1>5, <1>6 DEF IInv

\* What a node pushes is a candidate for each edge to a node not in the tree.
LEMMA PushedType ==
  ASSUME IsDatabase(db), NEW id \in Node, NEW distance \in Nat, NEW hops \in Seq(Address)
  PROVE  /\ Pushed(id, distance, hops) \subseteq HeapNode
         /\ \A d \in Pushed(id, distance, hops) :
               /\ d.parent = id /\ d.node \notin DOMAIN tree \cup {id}
               /\ Edge(id, d.node) /\ d.distance = distance + Weight(id, d.node)
               /\ d.distance >= distance
               /\ d.hops = NextHops(d.node, id, hops)
         /\ \A n \in Node \ (DOMAIN tree \cup {id}) :
               Edge(id, n) => \E d \in Pushed(id, distance, hops) :
                                  d.node = n /\ d.distance = distance + Weight(id, n)
  <1> DEFINE new == {n \in Node \ (DOMAIN tree \cup {id}) : Edge(id, n)}
             entry(n) == [node |-> n, parent |-> id, distance |-> distance + Weight(id, n),
                          hops |-> NextHops(n, id, hops)]
  <1>1. Pushed(id, distance, hops) = {entry(n) : n \in new}
    BY DEF Pushed
  <1>2. ASSUME NEW n \in new
        PROVE  /\ entry(n) \in HeapNode /\ entry(n).distance >= distance
               /\ entry(n).parent = id /\ entry(n).node = n
               /\ entry(n).distance = distance + Weight(id, n)
               /\ entry(n).hops = NextHops(n, id, hops)
    <2>1. Weight(id, n) \in Nat
      BY WeightType
    <2>2. NextHops(n, id, hops) \in Seq(Address)
      BY NextHopsType
    <2> HIDE DEF Address
    <2> QED BY <2>1, <2>2 DEF HeapNode
  <1> HIDE DEF entry
  <1>3. Pushed(id, distance, hops) \subseteq HeapNode
    BY <1>1, <1>2
  <1>4. ASSUME NEW d \in Pushed(id, distance, hops)
        PROVE  /\ d.parent = id /\ d.node \notin DOMAIN tree \cup {id}
               /\ Edge(id, d.node) /\ d.distance = distance + Weight(id, d.node)
               /\ d.distance >= distance
               /\ d.hops = NextHops(d.node, id, hops)
    <2>1. PICK n \in new : d = entry(n)
      BY <1>1
    <2> QED BY <2>1, <1>2
  <1>5. ASSUME NEW n \in Node \ (DOMAIN tree \cup {id}), Edge(id, n)
        PROVE  \E d \in Pushed(id, distance, hops) :
                   d.node = n /\ d.distance = distance + Weight(id, n)
    <2>1. n \in new
      BY <1>5
    <2>2. entry(n) \in Pushed(id, distance, hops)
      BY <1>1, <2>1
    <2> QED BY <2>1, <2>2, <1>2
  <1> QED BY <1>3, <1>4, <1>5

\* The nearest candidate enters the tree; everything else stays farther.
LEMMA PopNewKeeps ==
  ASSUME IInv, NEW c \in candidate, Top(c), PopNew(c)
  PROVE  IInv'
  <1> DEFINE pushed == Pushed(c.node, c.distance, c.hops)
  <1>1. /\ c \in HeapNode /\ tree \in [DOMAIN tree -> TreeNode] /\ IsDatabase(db)
        /\ DOMAIN tree \subseteq Node /\ candidate \subseteq HeapNode
    BY DEF IInv, TypeOK
  <1>2. /\ UNCHANGED db /\ c.node \notin DOMAIN tree /\ Known(c.node)
        /\ candidate' = (candidate \ {c}) \cup pushed
    BY DEF PopNew
  <1>3. c.distance \in Nat /\ c.hops \in Seq(Address) /\ c.node \in Node
    BY <1>1 DEF HeapNode
  <1>4. /\ DOMAIN tree' = DOMAIN tree \cup {c.node}
        /\ tree' = [n \in DOMAIN tree' |-> tree'[n]]
        /\ tree'[c.node] = [distance |-> c.distance, hops |-> c.hops]
        /\ \A n \in DOMAIN tree : tree'[n] = tree[n]
    BY <1>2 DEF PopNew
  <1>5. tree'[c.node] \in TreeNode /\ tree'[c.node].distance = c.distance
    BY <1>3, <1>4 DEF TreeNode
  <1>6. \A n \in DOMAIN tree' : tree'[n] \in TreeNode
    BY <1>1, <1>4, <1>5
  <1>7. /\ pushed \subseteq HeapNode
        /\ \A d \in pushed :
               /\ d.parent = c.node /\ d.node \notin DOMAIN tree \cup {c.node}
               /\ Edge(c.node, d.node) /\ d.distance = c.distance + Weight(c.node, d.node)
               /\ d.distance >= c.distance
        /\ \A n \in Node \ (DOMAIN tree \cup {c.node}) :
               Edge(c.node, n) => \E d \in pushed :
                                  d.node = n /\ d.distance = c.distance + Weight(c.node, n)
    BY <1>1, <1>3, PushedType
  <1> HIDE DEF pushed
  <1>8. \A d \in candidate : c.distance <= d.distance
    <2> SUFFICES ASSUME NEW d \in candidate PROVE c.distance <= d.distance
      OBVIOUS
    <2>1. d.distance \in Nat
      BY <1>1 DEF HeapNode
    <2>2. ~Before(d, c)
      BY DEF Top
    <2> QED BY <1>3, <2>1, <2>2 DEF Before
  <1>9. \A n \in DOMAIN tree : tree[n].distance \in Nat /\ tree[n].distance <= c.distance
    BY <1>1 DEF NeverCloser, IInv, TreeNode
  <1>10. TypeOK'
    <2>1. tree' \in [DOMAIN tree' -> TreeNode]
      BY <1>4, <1>6
    <2> QED BY <1>1, <1>2, <1>3, <1>4, <1>7, <2>1, SameGraph DEF TypeOK
  <1>11. NeverCloser'
    <2> SUFFICES ASSUME NEW n \in DOMAIN tree', NEW d \in candidate'
                 PROVE  tree'[n].distance <= d.distance
      BY DEF NeverCloser
    <2>1. d.distance \in Nat /\ c.distance <= d.distance
      BY <1>1, <1>2, <1>7, <1>8 DEF HeapNode
    <2>2. tree'[n].distance \in Nat /\ tree'[n].distance <= c.distance
      BY <1>3, <1>4, <1>5, <1>9
    <2> QED BY <1>3, <2>1, <2>2
  <1>12. /\ \A p \in DOMAIN tree : \A n : Over(p, n)' = Over(p, n)
         /\ \A n : Over(c.node, n)' = c.distance + Weight(c.node, n)
    BY <1>2, <1>4, <1>5, SameGraph DEF Over
  <1>13. Derived'
    <2>1. ASSUME NEW n \in DOMAIN tree'
          PROVE  IF n = Self THEN tree'[n].distance = 0
                 ELSE \E p \in DOMAIN tree' : Edge(p, n) /\ tree'[n].distance = Over(p, n)'
      <3>1. CASE n \in DOMAIN tree
        BY <1>4, <1>12, <3>1 DEF Derived, IInv
      <3>2. CASE n = c.node
        <4>1. CASE n = Self
          <5>1. c = Root
            BY <1>2, <3>2, <4>1 DEF Begun, IInv
          <5> QED BY <1>5, <3>2, <4>1, <5>1 DEF Root
        <4>2. CASE n # Self
          <5>1. c # Root
            BY <3>2, <4>2 DEF Root
          <5>2. /\ c.parent \in DOMAIN tree /\ Edge(c.parent, n)
                /\ c.distance = Over(c.parent, n)
            BY <3>2, <5>1 DEF Derived, IInv
          <5> QED BY <1>4, <1>5, <1>12, <3>2, <4>2, <5>2
        <4> QED BY <4>1, <4>2
      <3> QED BY <1>4, <3>1, <3>2
    <2>2. ASSUME NEW d \in candidate'
          PROVE  d = Root \/ /\ d.parent \in DOMAIN tree'
                             /\ Edge(d.parent, d.node)
                             /\ d.distance = Over(d.parent, d.node)'
      <3>1. CASE d \in candidate
        BY <1>4, <1>12, <3>1 DEF Derived, IInv
      <3>2. CASE d \in pushed
        BY <1>4, <1>7, <1>12, <3>2
      <3> QED BY <1>2, <3>1, <3>2
    <2> QED BY <1>2, <2>1, <2>2, SameGraph DEF Derived, Root
  <1>14. Relaxed'
    <2> SUFFICES ASSUME NEW n \in DOMAIN tree', NEW m \in Node, Edge(n, m)
                 PROVE  \/ m \in DOMAIN tree' /\ tree'[m].distance <= Over(n, m)'
                        \/ \E d \in candidate' : d.node = m /\ d.distance = Over(n, m)'
      BY <1>2, SameGraph DEF Relaxed
    <2>0. Weight(n, m) \in Nat
      BY <1>1, WeightType
    <2>1. CASE n = c.node
      <3>1. CASE m \in DOMAIN tree'
        <4>1. tree'[m].distance \in Nat /\ tree'[m].distance <= c.distance
          BY <1>3, <1>4, <1>5, <1>9, <3>1
        <4> QED BY <1>3, <1>12, <2>0, <2>1, <3>1, <4>1
      <3>2. CASE m \notin DOMAIN tree'
        BY <1>2, <1>4, <1>7, <1>12, <2>1, <3>2
      <3> QED BY <3>1, <3>2
    <2>2. CASE n \in DOMAIN tree
      <3>1. CASE m \in DOMAIN tree /\ tree[m].distance <= Over(n, m)
        BY <1>4, <1>12, <2>2, <3>1
      <3>2. CASE \E d \in candidate : d.node = m /\ d.distance = Over(n, m)
        <4>1. PICK d \in candidate : d.node = m /\ d.distance = Over(n, m)
          BY <3>2
        <4>2. CASE d = c
          BY <1>3, <1>4, <1>5, <1>12, <2>2, <4>1, <4>2
        <4>3. CASE d # c
          BY <1>2, <1>12, <2>2, <4>1, <4>3
        <4> QED BY <4>2, <4>3
      <3> QED BY <2>2, <3>1, <3>2 DEF Relaxed, IInv
    <2> QED BY <1>4, <2>1, <2>2
  <1>15. Begun'
    <2>1. Self \in DOMAIN tree'
      BY <1>4 DEF Begun, IInv, Root
    <2> QED BY <2>1 DEF Begun
  <1> QED BY <1>10, <1>11, <1>13, <1>14, <1>15 DEF IInv

LEMMA Inductive == Spec => []IInv
  <1>1. Init => IInv
    BY InitIInv
  <1>2. IInv /\ [Next]_vars => IInv'
    <2> SUFFICES ASSUME IInv, [Next]_vars PROVE IInv'
      OBVIOUS
    <2>1. CASE UNCHANGED vars
      <3>1. UNCHANGED <<db, tree, candidate>>
        BY <2>1 DEF vars
      <3>2. \A p, n : Over(p, n)' = Over(p, n)
        BY <3>1, SameGraph DEF Over
      <3> QED BY <3>1, <3>2, SameGraph DEF IInv, TypeOK, NeverCloser, Derived, Relaxed, Begun, Root
    <2>2. CASE Next
      BY <2>2, PopAgainKeeps, PopUnknownKeeps, PopNewKeeps DEF Next
    <2> QED BY <2>1, <2>2
  <1> QED BY <1>1, <1>2, PTL DEF Spec

---------------------------------------------------------------------------
\* The tree and the heap hold nodes, distances and addresses of the database.
THEOREM TypeCorrect == Spec => []TypeOK
  <1>1. IInv => TypeOK
    BY DEF IInv
  <1> QED BY <1>1, Inductive, PTL

\* What is in the tree is final: "it cannot be nearer" (tree.rs:73).
THEOREM Final == Spec => []NeverCloser
  <1>1. IInv => NeverCloser
    BY DEF IInv
  <1> QED BY <1>1, Inductive, PTL

\* When the heap is empty the distances are those of shortest paths, and the tree
\* holds all that can be reached, whatever the LSAs and the costs.
THEOREM Correct == Spec => []ShortestWhenDone
  <1>1. IInv => ShortestWhenDone
    <2> SUFFICES ASSUME IInv, candidate = {}, Known(Self)
                 PROVE  Self \in DOMAIN tree /\ Solved
      BY DEF ShortestWhenDone
    <2>1. Self \in DOMAIN tree
      BY DEF IInv, Begun
    <2>2. Solved
      BY DEF IInv, Derived, Relaxed, Over, Solved
    <2> QED BY <2>1, <2>2
  <1> QED BY <1>1, Inductive, PTL

---------------------------------------------------------------------------
(* Next hops: OwnLinksOnly needs the same of the candidates.                *)

HopsKnown ==
    OverNetworks =>
        \A c \in candidate : c.hops = <<>> => c.node = Self \/ c.node \in Children(Self)

\* On a network of the router's own, each router is its own next hop.
LEMMA PushedHops ==
  ASSUME IsDatabase(db), NEW id, NEW n, Edge(id, n), NEW hops \in Seq(Address),
         \A r \in DOMAIN db.links : Children(r) \cap Router = {},
         hops = <<>> => id = Self \/ id \in Children(Self),
         NextHops(n, id, hops) = <<>>
  PROVE  n \in Children(Self)
  <1>1. hops = <<>> /\ ~(n \in Router /\ id \in Network)
    <2>1. CASE hops = <<>> /\ n \in Router /\ id \in Network
      BY <2>1 DEF NextHops
    <2>2. CASE ~(hops = <<>> /\ n \in Router /\ id \in Network)
      BY <2>2 DEF NextHops
    <2> QED BY <2>1, <2>2
  <1>2. n \in Children(id)
    BY DEF Edge
  <1>3. id \in DOMAIN db.links /\ id \in Router
    BY <1>1, <1>2, ChildrenType
  <1>4. CASE id = Self
    BY <1>2, <1>4
  <1>5. CASE id # Self
    <2>1. id \in Children(Self)
      BY <1>1, <1>5
    <2>2. Self \in DOMAIN db.links
      BY <2>1, ChildrenType, NodeAssumption
    <2> QED BY <1>3, <2>1, <2>2
  <1> QED BY <1>4, <1>5

\* Only what hangs on the router itself has no next hop, for databases whose
\* router-LSAs link to networks: the hops copied and merged are never lost.
THEOREM HopsOfOthers == Spec => []OwnLinksOnly
  <1> DEFINE J == OwnLinksOnly /\ HopsKnown
  <1>1. Init => J
    <2> SUFFICES ASSUME Init PROVE J
      OBVIOUS
    <2>1. DOMAIN tree = {} /\ candidate = {Root}
      BY DEF Init
    <2> QED BY <2>1 DEF OwnLinksOnly, HopsKnown, Root
  <1>2. IInv /\ J /\ [Next]_vars => J'
    <2> SUFFICES ASSUME IInv, J, [Next]_vars PROVE J'
      OBVIOUS
    <2>0. UNCHANGED db
      BY DEF Next, PopAgain, PopUnknown, PopNew, vars
    <2> SUFFICES ASSUME \A r \in DOMAIN db.links : Children(r) \cap Router = {}
                 PROVE  /\ \A n \in DOMAIN tree' : tree'[n].hops = <<>>
                              => n = Self \/ n \in Children(Self)
                        /\ \A c \in candidate' : c.hops = <<>>
                              => c.node = Self \/ c.node \in Children(Self)
      BY <2>0, SameGraph DEF OwnLinksOnly, HopsKnown, OverNetworks
    <2>1. /\ \A n \in DOMAIN tree : tree[n].hops = <<>>
                 => n = Self \/ n \in Children(Self)
          /\ \A c \in candidate : c.hops = <<>>
                 => c.node = Self \/ c.node \in Children(Self)
      BY DEF OwnLinksOnly, HopsKnown, OverNetworks
    <2>2. /\ \A n \in DOMAIN tree : tree[n] \in TreeNode
          /\ candidate \subseteq HeapNode /\ IsDatabase(db)
      BY DEF IInv, TypeOK
    <2>3. CASE UNCHANGED vars
      BY <2>1, <2>3 DEF vars
    <2>4. ASSUME NEW c \in candidate, PopAgain(c)
          PROVE  /\ \A n \in DOMAIN tree' : tree'[n].hops = <<>>
                       => n = Self \/ n \in Children(Self)
                 /\ \A d \in candidate' : d.hops = <<>>
                       => d.node = Self \/ d.node \in Children(Self)
      <3>1. c.hops \in Seq(Address) /\ c.node \in DOMAIN tree
        BY <2>2, <2>4 DEF HeapNode, PopAgain
      <3>2. tree[c.node].hops \in Seq(Address)
        BY <2>2, <3>1 DEF TreeNode
      <3>3. tree[c.node].hops \o c.hops = <<>> => tree[c.node].hops = <<>>
        <4> HIDE DEF Address
        <4> QED BY <3>1, <3>2
      <3>4. /\ DOMAIN tree' = DOMAIN tree
            /\ \A n \in DOMAIN tree : tree'[n].hops = <<>> => tree[n].hops = <<>>
        <4>1. CASE tree[c.node].distance = c.distance
          <5>1. tree' = [tree EXCEPT ![c.node].hops = @ \o c.hops]
            BY <2>4, <4>1 DEF PopAgain
          <5> QED BY <2>2, <3>1, <3>3, <5>1 DEF TreeNode
        <4>2. CASE tree[c.node].distance # c.distance
          BY <2>4, <4>2 DEF PopAgain
        <4> QED BY <4>1, <4>2
      <3> QED BY <2>1, <2>4, <3>4 DEF PopAgain
    <2>5. ASSUME NEW c \in candidate, PopUnknown(c)
          PROVE  /\ \A n \in DOMAIN tree' : tree'[n].hops = <<>>
                       => n = Self \/ n \in Children(Self)
                 /\ \A d \in candidate' : d.hops = <<>>
                       => d.node = Self \/ d.node \in Children(Self)
      BY <2>1, <2>5 DEF PopUnknown
    <2>6. ASSUME NEW c \in candidate, PopNew(c)
          PROVE  /\ \A n \in DOMAIN tree' : tree'[n].hops = <<>>
                       => n = Self \/ n \in Children(Self)
                 /\ \A d \in candidate' : d.hops = <<>>
                       => d.node = Self \/ d.node \in Children(Self)
      <3>1. /\ c.node \in Node /\ c.distance \in Nat /\ c.hops \in Seq(Address)
            /\ c.hops = <<>> => c.node = Self \/ c.node \in Children(Self)
        BY <2>1, <2>2 DEF HeapNode
      <3>2. /\ DOMAIN tree' = DOMAIN tree \cup {c.node}
            /\ tree'[c.node] = [distance |-> c.distance, hops |-> c.hops]
            /\ \A n \in DOMAIN tree : tree'[n] = tree[n]
            /\ candidate' = (candidate \ {c}) \cup Pushed(c.node, c.distance, c.hops)
        BY <2>6 DEF PopNew
      <3>3. \A n \in DOMAIN tree' : tree'[n].hops = <<>>
                 => n = Self \/ n \in Children(Self)
        BY <2>1, <3>1, <3>2
      <3>4. ASSUME NEW d \in Pushed(c.node, c.distance, c.hops), d.hops = <<>>
            PROVE  d.node \in Children(Self)
        <4>1. Edge(c.node, d.node) /\ d.hops = NextHops(d.node, c.node, c.hops)
          BY <2>2, <3>1, PushedType
        <4> QED BY <2>2, <3>1, <3>4, <4>1, PushedHops
      <3> QED BY <2>1, <3>2, <3>3, <3>4
    <2> QED BY <2>3, <2>4, <2>5, <2>6 DEF Next
  <1>3. J => OwnLinksOnly
    OBVIOUS
  <1> QED BY <1>1, <1>2, <1>3, Inductive, PTL DEF Spec

---------------------------------------------------------------------------
(* The reference definition.  Paths(s) is defined by recursion; that there   *)
(* is such a function is shown by finite pieces of it.                       *)

\* The first n paths from s, as a function on 0..n.
Piece(s, n, f) ==
    /\ f = [i \in 0..n |-> f[i]]
    /\ f[0] = {<<s, 0>>}
    /\ \A i \in 1..n : f[i] = Extended(f[i - 1])

\* Two pieces agree where both are defined.
LEMMA PiecesAgree ==
  ASSUME NEW s, NEW m \in Nat, NEW n \in Nat, NEW f, NEW g,
         Piece(s, m, f), Piece(s, n, g), NEW i \in Nat, i <= m, i <= n
  PROVE  f[i] = g[i]
  <1> DEFINE differ == {j \in Nat : j <= m /\ j <= n /\ f[j] # g[j]}
  <1>1. SUFFICES ASSUME differ # {} PROVE FALSE
    OBVIOUS
  <1>2. PICK j \in differ : \A k \in differ : j <= k
    <2>1. differ \in SUBSET Nat
      OBVIOUS
    <2> HIDE DEF differ
    <2> QED BY <1>1, <2>1, SmallestExists
  <1>3. j # 0
    BY DEF Piece
  <1>4. j - 1 \in Nat /\ j - 1 \notin differ /\ j \in 1..m /\ j \in 1..n
    <2>1. j \in Nat /\ j - 1 \in Nat /\ ~ (j <= j - 1)
      BY <1>3
    <2>2. j - 1 \notin differ
      <3> HIDE DEF differ
      <3> QED BY <1>2, <2>1
    <2> QED BY <1>3, <2>1, <2>2
  <1>5. f[j - 1] = g[j - 1]
    BY <1>4
  <1>6. f[j] = Extended(f[j - 1]) /\ g[j] = Extended(g[j - 1])
    BY <1>4 DEF Piece
  <1>7. f[j] = g[j]
    BY <1>5, <1>6
  <1> QED BY <1>7

\* A piece can be made longer.
LEMMA PieceGrows ==
  ASSUME NEW s, NEW n \in Nat, NEW f, Piece(s, n, f)
  PROVE  \E g : Piece(s, n + 1, g)
  <1> DEFINE new == Extended(f[n])
             g == [i \in 0..(n + 1) |-> IF i = n + 1 THEN new ELSE f[i]]
  <1>1. g[0] = {<<s, 0>>}
    BY DEF Piece
  <1>2. ASSUME NEW i \in 1..(n + 1) PROVE g[i] = Extended(g[i - 1])
    <2>1. i - 1 \in 0..n /\ i - 1 # n + 1 /\ i \in 0..(n + 1)
      OBVIOUS
    <2>2. g[i - 1] = f[i - 1]
      <3> HIDE DEF new
      <3> QED BY <2>1
    <2>3. CASE i = n + 1
      <3>1. g[i] = new /\ i - 1 = n
        <4> HIDE DEF new
        <4> QED BY <2>1, <2>3
      <3> QED BY <2>2, <3>1
    <2>4. CASE i # n + 1
      <3>1. g[i] = f[i] /\ i \in 1..n
        <4> HIDE DEF new
        <4> QED BY <2>1, <2>4
      <3>2. f[i] = Extended(f[i - 1])
        BY <3>1 DEF Piece
      <3> HIDE DEF g
      <3> QED BY <2>2, <3>1, <3>2
    <2> QED BY <2>3, <2>4
  <1>3. g = [i \in 0..(n + 1) |-> g[i]]
    <2> HIDE DEF new
    <2> QED OBVIOUS
  <1> HIDE DEF g
  <1> QED BY <1>1, <1>2, <1>3 DEF Piece

\* There is a piece of every length.
LEMMA PieceExists ==
  ASSUME NEW s, NEW n \in Nat
  PROVE  \E f : Piece(s, n, f)
  <1> DEFINE none == {j \in Nat : ~ \E f : Piece(s, j, f)}
  <1>1. SUFFICES ASSUME none # {} PROVE FALSE
    OBVIOUS
  <1>2. PICK j \in none : \A k \in none : j <= k
    <2>1. none \in SUBSET Nat
      OBVIOUS
    <2> HIDE DEF none
    <2> QED BY <1>1, <2>1, SmallestExists
  <1>3. CASE j = 0
    <2> DEFINE f == [i \in 0..0 |-> {<<s, 0>>}]
    <2>1. Piece(s, 0, f)
      BY DEF Piece
    <2> QED BY <1>3, <2>1
  <1>4. CASE j # 0
    <2>1. j - 1 \in Nat /\ ~ (j <= j - 1) /\ (j - 1) + 1 = j
      BY <1>4
    <2>2. j - 1 \notin none
      <3> HIDE DEF none
      <3> QED BY <1>2, <2>1
    <2>3. PICK f : Piece(s, j - 1, f)
      BY <2>1, <2>2
    <2>4. \E g : Piece(s, (j - 1) + 1, g)
      BY <2>1, <2>3, PieceGrows
    <2> QED BY <2>1, <2>4
  <1> QED BY <1>3, <1>4

\* The recursion has a solution, so Paths is what its definition says.
LEMMA PathsStep ==
  ASSUME NEW s
  PROVE  /\ Paths(s)[0] = {<<s, 0>>}
         /\ \A i \in Nat : Paths(s)[i + 1] = Extended(Paths(s)[i])
  <1> DEFINE rec(p) == [i \in Nat |-> IF i = 0 THEN {<<s, 0>>} ELSE Extended(p[i - 1])]
             piece(n) == CHOOSE f : Piece(s, n, f)
             all == [n \in Nat |-> piece(n)[n]]
  <1>1. \A n \in Nat : Piece(s, n, piece(n))
    BY PieceExists
  <1> HIDE DEF piece
  <1>2. all = rec(all)
    <2>1. ASSUME NEW i \in Nat
          PROVE  all[i] = IF i = 0 THEN {<<s, 0>>} ELSE Extended(all[i - 1])
      <3>1. CASE i = 0
        BY <1>1, <3>1 DEF Piece
      <3>2. CASE i # 0
        <4>1. i - 1 \in Nat /\ i \in 1..i /\ i - 1 <= i
          BY <3>2
        <4>2. piece(i)[i] = Extended(piece(i)[i - 1])
          BY <1>1, <4>1 DEF Piece
        <4>3. piece(i)[i - 1] = piece(i - 1)[i - 1]
          BY <1>1, <4>1, PiecesAgree
        <4> QED BY <3>2, <4>1, <4>2, <4>3
      <3> QED BY <3>1, <3>2
    <2> HIDE DEF all
    <2>2. all = [i \in Nat |-> all[i]]
      BY DEF all
    <2> QED BY <2>1, <2>2
  <1> HIDE DEF all
  <1>3. Paths(s) = CHOOSE p : p = rec(p)
    BY DEF Paths
  <1>4. Paths(s) = rec(Paths(s))
    BY <1>2, <1>3
  <1>5. ASSUME NEW i \in Nat
        PROVE  Paths(s)[i] = IF i = 0 THEN {<<s, 0>>} ELSE Extended(Paths(s)[i - 1])
    BY <1>4
  <1>6. Paths(s)[0] = {<<s, 0>>}
    BY <1>5
  <1>7. ASSUME NEW i \in Nat PROVE Paths(s)[i + 1] = Extended(Paths(s)[i])
    <2>1. i + 1 \in Nat /\ i + 1 # 0 /\ (i + 1) - 1 = i
      OBVIOUS
    <2> QED BY <1>5, <2>1
  <1> QED BY <1>6, <1>7

\* Least keeps, for every node that has a path, one that is no longer; and for
\* no node two different lengths.
LEMMA LeastKeeps ==
  ASSUME NEW P \in SUBSET (Node \X Nat)
  PROVE  /\ Least(P) \in SUBSET P
         /\ \A x \in P : \E y \in Least(P) : y[1] = x[1] /\ y[2] <= x[2]
         /\ \A x, y \in Least(P) : x[1] = y[1] => x[2] <= y[2]
  <1>1. ASSUME NEW x \in P
        PROVE  \E y \in Least(P) : y[1] = x[1] /\ y[2] <= x[2]
    <2> DEFINE lengths == {y[2] : y \in {z \in P : z[1] = x[1]}}
    <2>1. lengths \in SUBSET Nat /\ x[2] \in lengths
      OBVIOUS
    <2>2. PICK l \in lengths : \A k \in lengths : l <= k
      <3> HIDE DEF lengths
      <3> QED BY <2>1, SmallestExists
    <2>3. PICK y \in P : y[1] = x[1] /\ y[2] = l
      OBVIOUS
    <2>4. \A z \in P : z[1] = y[1] => y[2] <= z[2]
      <3> SUFFICES ASSUME NEW z \in P, z[1] = y[1] PROVE y[2] <= z[2]
        OBVIOUS
      <3>1. z[2] \in lengths
        BY <2>3
      <3> HIDE DEF lengths
      <3> QED BY <2>2, <2>3, <3>1
    <2>5. y \in Least(P)
      BY <2>4 DEF Least
    <2>6. l <= x[2]
      <3> HIDE DEF lengths
      <3> QED BY <2>1, <2>2
    <2> QED BY <2>3, <2>5, <2>6
  <1>2. Least(P) \in SUBSET P
    BY DEF Least
  <1>3. \A x, y \in Least(P) : x[1] = y[1] => x[2] <= y[2]
    BY DEF Least
  <1> QED BY <1>1, <1>2, <1>3

\* What is one edge longer.
LEMMA LongerType ==
  ASSUME IsDatabase(db), NEW P \in SUBSET (Node \X Nat)
  PROVE  /\ Longer(P) \in SUBSET (Node \X Nat)
         /\ \A x \in P, n \in Node :
               Edge(x[1], n) => <<n, x[2] + Weight(x[1], n)>> \in Longer(P)
         /\ \A y \in Longer(P) :
               \E x \in P : Edge(x[1], y[1]) /\ y[2] = x[2] + Weight(x[1], y[1])
  <1> DEFINE steps == {x \in P \X Node : Edge(x[1][1], x[2])}
             end(e) == <<e[2], e[1][2] + Weight(e[1][1], e[2])>>
  <1>1. Longer(P) = {end(e) : e \in steps}
    BY DEF Longer
  <1>2. ASSUME NEW e \in steps
        PROVE  /\ end(e) \in Node \X Nat
               /\ e[1] \in P /\ Edge(e[1][1], end(e)[1])
               /\ end(e)[2] = e[1][2] + Weight(e[1][1], end(e)[1])
    <2>1. e[1] \in P /\ e[2] \in Node /\ Edge(e[1][1], e[2])
      OBVIOUS
    <2>2. e[1][2] \in Nat
      BY <2>1
    <2>3. Weight(e[1][1], e[2]) \in Nat
      BY <2>1, WeightType
    <2> QED BY <2>1, <2>2, <2>3
  <1>3. ASSUME NEW x \in P, NEW n \in Node, Edge(x[1], n)
        PROVE  <<n, x[2] + Weight(x[1], n)>> \in Longer(P)
    <2>1. <<x, n>> \in steps
      BY <1>3
    <2>2. end(<<x, n>>) = <<n, x[2] + Weight(x[1], n)>>
      OBVIOUS
    <2> HIDE DEF steps, end
    <2> QED BY <1>1, <2>1, <2>2
  <1> HIDE DEF steps, end
  <1> QED BY <1>1, <1>2, <1>3

\* One turn of the recursion: nothing gets longer, and one edge is added.
LEMMA ExtendedKeeps ==
  ASSUME IsDatabase(db), NEW P \in SUBSET (Node \X Nat)
  PROVE  /\ Extended(P) \in SUBSET (Node \X Nat)
         /\ Extended(P) \in SUBSET (P \cup Longer(P))
         /\ \A x \in P : \E y \in Extended(P) : y[1] = x[1] /\ y[2] <= x[2]
         /\ \A x \in P, n \in Node :
               Edge(x[1], n) => \E y \in Extended(P) :
                                    y[1] = n /\ y[2] <= x[2] + Weight(x[1], n)
         /\ \A x, y \in Extended(P) : x[1] = y[1] => x[2] <= y[2]
  <1> DEFINE both == P \cup Longer(P)
  <1>1. both \in SUBSET (Node \X Nat) /\ Extended(P) = Least(both)
    BY LongerType DEF Extended
  <1>2. /\ Least(both) \in SUBSET both
        /\ \A x \in both : \E y \in Least(both) : y[1] = x[1] /\ y[2] <= x[2]
        /\ \A x, y \in Least(both) : x[1] = y[1] => x[2] <= y[2]
    <2> HIDE DEF both
    <2> QED BY <1>1, LeastKeeps
  <1>3. \A x \in P : x \in both
    OBVIOUS
  <1>4. ASSUME NEW x \in P, NEW n \in Node, Edge(x[1], n)
        PROVE  \E y \in Extended(P) : y[1] = n /\ y[2] <= x[2] + Weight(x[1], n)
    <2>1. <<n, x[2] + Weight(x[1], n)>> \in both
      BY <1>4, LongerType
    <2>2. PICK y \in Least(both) : y[1] = n /\ y[2] <= x[2] + Weight(x[1], n)
      <3> HIDE DEF both
      <3> QED BY <1>2, <2>1
    <2> QED BY <1>1, <2>2
  <1>5. Extended(P) \in SUBSET (P \cup Longer(P))
    BY <1>1, <1>2
  <1> HIDE DEF both
  <1> QED BY <1>1, <1>2, <1>3, <1>4, <1>5

\* The paths from a node are pairs of a node and a length.
LEMMA PathsType ==
  ASSUME IsDatabase(db), NEW s \in Node, NEW i \in Nat
  PROVE  Paths(s)[i] \in SUBSET (Node \X Nat)
  <1> DEFINE wrong == {j \in Nat : Paths(s)[j] \notin SUBSET (Node \X Nat)}
  <1>1. SUFFICES ASSUME wrong # {} PROVE FALSE
    OBVIOUS
  <1>2. PICK j \in wrong : \A k \in wrong : j <= k
    <2>1. wrong \in SUBSET Nat
      OBVIOUS
    <2> HIDE DEF wrong
    <2> QED BY <1>1, <2>1, SmallestExists
  <1>3. CASE j = 0
    BY <1>3, PathsStep
  <1>4. CASE j # 0
    <2>1. j - 1 \in Nat /\ ~ (j <= j - 1) /\ (j - 1) + 1 = j
      BY <1>4
    <2>2. j - 1 \notin wrong
      <3> HIDE DEF wrong
      <3> QED BY <1>2, <2>1
    <2>3. Paths(s)[j - 1] \in SUBSET (Node \X Nat)
      BY <2>1, <2>2
    <2>4. Paths(s)[(j - 1) + 1] = Extended(Paths(s)[j - 1])
      BY <2>1, PathsStep
    <2>5. Extended(Paths(s)[j - 1]) \in SUBSET (Node \X Nat)
      BY <2>3, ExtendedKeeps
    <2> QED BY <2>1, <2>4, <2>5
  <1> QED BY <1>3, <1>4

\* n can be reached from s, over at most i edges, for no more than d.
Within(s, i, n, d) == \E x \in Paths(s)[i] : x[1] = n /\ x[2] <= d

\* What can be reached stays so when more edges are allowed.
LEMMA WithinGrows ==
  ASSUME IsDatabase(db), NEW s \in Node, NEW i \in Nat, NEW j \in Nat, i <= j,
         NEW n, NEW d \in Nat, Within(s, i, n, d)
  PROVE  Within(s, j, n, d)
  <1> DEFINE lost == {k \in Nat : i <= k /\ ~ Within(s, k, n, d)}
  <1>1. SUFFICES ASSUME lost # {} PROVE FALSE
    OBVIOUS
  <1>2. PICK k \in lost : \A m \in lost : k <= m
    <2>1. lost \in SUBSET Nat
      OBVIOUS
    <2> HIDE DEF lost
    <2> QED BY <1>1, <2>1, SmallestExists
  <1>3. k \in Nat /\ i <= k /\ k # i
    OBVIOUS
  <1>4. k - 1 \in Nat /\ ~ (k <= k - 1) /\ (k - 1) + 1 = k /\ i <= k - 1
    BY <1>3
  <1>5. k - 1 \notin lost
    <2> HIDE DEF lost
    <2> QED BY <1>2, <1>4
  <1>6. Within(s, k - 1, n, d)
    BY <1>4, <1>5
  <1>7. PICK x \in Paths(s)[k - 1] : x[1] = n /\ x[2] <= d
    BY <1>6 DEF Within
  <1>8. Paths(s)[k - 1] \in SUBSET (Node \X Nat)
    BY <1>4, PathsType
  <1>9. Paths(s)[k] = Extended(Paths(s)[k - 1])
    BY <1>4, PathsStep
  <1>10. PICK y \in Paths(s)[k] : y[1] = x[1] /\ y[2] <= x[2]
    BY <1>7, <1>8, <1>9, ExtendedKeeps
  <1>11. Paths(s)[k] \in SUBSET (Node \X Nat)
    BY <1>3, PathsType
  <1>12. x[2] \in Nat /\ y[2] \in Nat
    BY <1>7, <1>8, <1>10, <1>11
  <1>13. Within(s, k, n, d)
    BY <1>7, <1>10, <1>12 DEF Within
  <1> QED BY <1>13

\* One more edge.
LEMMA WithinEdge ==
  ASSUME IsDatabase(db), NEW s \in Node, NEW i \in Nat, NEW n, NEW d \in Nat,
         Within(s, i, n, d), NEW m, Edge(n, m)
  PROVE  Within(s, i + 1, m, d + Weight(n, m))
  <1>1. PICK x \in Paths(s)[i] : x[1] = n /\ x[2] <= d
    BY DEF Within
  <1>2. Paths(s)[i] \in SUBSET (Node \X Nat) /\ Paths(s)[i + 1] \in SUBSET (Node \X Nat)
    BY PathsType
  <1>3. m \in Node /\ Weight(n, m) \in Nat
    BY EdgeKnown, WeightType
  <1>4. Paths(s)[i + 1] = Extended(Paths(s)[i])
    BY PathsStep
  <1>5. PICK y \in Paths(s)[i + 1] : y[1] = m /\ y[2] <= x[2] + Weight(n, m)
    BY <1>1, <1>2, <1>3, <1>4, ExtendedKeeps
  <1>6. x[2] \in Nat /\ y[2] \in Nat
    BY <1>1, <1>2, <1>5
  <1>7. y[2] <= d + Weight(n, m)
    BY <1>1, <1>3, <1>5, <1>6
  <1> QED BY <1>5, <1>7 DEF Within

\* A node is at no distance from itself.
LEMMA WithinSelf ==
  ASSUME IsDatabase(db), NEW s \in Node, NEW i \in Nat
  PROVE  Within(s, i, s, 0)
  <1>1. <<s, 0>> \in Paths(s)[0] /\ <<s, 0>>[1] = s /\ <<s, 0>>[2] <= 0
    BY PathsStep
  <1>2. Within(s, 0, s, 0)
    BY <1>1 DEF Within
  <1> QED BY <1>2, WithinGrows

\* When the heap is empty no path is shorter than the tree says, wherever in the
\* tree it begins.
LEMMA NoPathShorter ==
  ASSUME IInv, candidate = {}, NEW s \in DOMAIN tree, NEW i \in Nat,
         NEW x \in Paths(s)[i]
  PROVE  /\ x[1] \in DOMAIN tree
         /\ tree[x[1]].distance <= tree[s].distance + x[2]
  <1> DEFINE Bound(y) == /\ y[1] \in DOMAIN tree
                         /\ tree[y[1]].distance <= tree[s].distance + y[2]
             wrong == {j \in Nat : \E y \in Paths(s)[j] : ~ Bound(y)}
  <1>0. /\ IsDatabase(db) /\ s \in Node
        /\ \A n \in DOMAIN tree : tree[n].distance \in Nat
    BY DEF IInv, TypeOK, TreeNode
  <1>1. SUFFICES ASSUME wrong # {} PROVE FALSE
    OBVIOUS
  <1>2. PICK j \in wrong : \A k \in wrong : j <= k
    <2>1. wrong \in SUBSET Nat
      OBVIOUS
    <2> HIDE DEF wrong
    <2> QED BY <1>1, <2>1, SmallestExists
  <1>3. CASE j = 0
    <2>1. Paths(s)[0] = {<<s, 0>>} /\ tree[s].distance <= tree[s].distance + 0
      BY <1>0, PathsStep
    <2>2. Bound(<<s, 0>>)
      BY <1>0, <2>1
    <2> QED BY <1>3, <2>1, <2>2
  <1>4. CASE j # 0
    <2>1. j - 1 \in Nat /\ ~ (j <= j - 1) /\ (j - 1) + 1 = j
      BY <1>4
    <2> DEFINE P == Paths(s)[j - 1]
    <2>2. P \in SUBSET (Node \X Nat)
      BY <1>0, <2>1, PathsType
    <2>3. \A y \in P : Bound(y)
      <3>1. j - 1 \notin wrong
        <4> HIDE DEF wrong
        <4> QED BY <1>2, <2>1
      <3> QED BY <2>1, <3>1
    <2>4. Paths(s)[j] = Extended(P)
      BY <2>1, PathsStep
    <2> HIDE DEF P
    <2>5. ASSUME NEW y \in Longer(P) PROVE Bound(y)
      <3>1. PICK z \in P : Edge(z[1], y[1]) /\ y[2] = z[2] + Weight(z[1], y[1])
        BY <1>0, <2>2, LongerType
      <3>2. z[1] \in DOMAIN tree /\ tree[z[1]].distance <= tree[s].distance + z[2]
        BY <2>3, <3>1
      <3>3. y[1] \in Node
        BY <1>0, <3>1, EdgeKnown
      <3>4. y[1] \in DOMAIN tree /\ tree[y[1]].distance <= Over(z[1], y[1])
        BY <3>1, <3>2, <3>3 DEF IInv, Relaxed
      <3>5. z[2] \in Nat /\ Weight(z[1], y[1]) \in Nat
        BY <1>0, <2>2, <3>1, WeightType
      <3> QED BY <1>0, <3>1, <3>2, <3>4, <3>5 DEF Over
    <2>6. Extended(P) \in SUBSET (P \cup Longer(P))
      BY <1>0, <2>2, ExtendedKeeps
    <2> QED BY <2>3, <2>4, <2>5, <2>6
  <1> QED BY <1>3, <1>4

---------------------------------------------------------------------------
(* What the steps of the calculation keep, besides IInv: each distance in    *)
(* the tree or in the heap is the length of a path, with at most as many     *)
(* edges as the tree has nodes (Reached); so is the rest of the way from     *)
(* each next hop (Leads).                                                    *)

Size == Cardinality(DOMAIN tree)

Reached ==
    /\ \A n \in DOMAIN tree : Within(Self, Size, n, tree[n].distance)
    /\ \A c \in candidate : Within(Self, Size, c.node, c.distance)

\* Over next hop h, n is no farther than distance.
Through(k, h, n, distance) ==
    LET net == db.links[h[1]][h[2]].to
    IN  /\ Edge(Self, net) /\ Edge(net, h[1])
        /\ \E d \in Nat : /\ Within(h[1], k, n, d)
                          /\ d + Weight(Self, net) + Weight(net, h[1]) <= distance

Leads(k, n, distance, hops) ==
    /\ \A i \in DOMAIN hops : Through(k, hops[i], n, distance)
    /\ hops = <<>> /\ n # Self => Edge(Self, n) /\ distance = Weight(Self, n)

HopsLead ==
    OverNetworks =>
        /\ \A n \in DOMAIN tree : Leads(Size, n, tree[n].distance, tree[n].hops)
        /\ \A c \in candidate : Leads(Size, c.node, c.distance, c.hops)

\* A hop is the address of a router.
LEMMA HopType ==
  ASSUME IsDatabase(db), NEW hops \in Seq(Address), NEW i \in DOMAIN hops
  PROVE  hops[i][1] \in DOMAIN db.links /\ hops[i][1] \in Node
  <1>1. hops[i] \in Address
    <2> HIDE DEF Address
    <2> QED OBVIOUS
  <1>2. hops[i][1] \in DOMAIN db.links
    BY <1>1 DEF Address
  <1> QED BY <1>2 DEF IsDatabase, Node

\* A larger tree keeps what the hops lead to.
LEMMA LeadsGrows ==
  ASSUME IsDatabase(db), NEW k \in Nat, NEW j \in Nat, k <= j, NEW n,
         NEW distance, NEW hops \in Seq(Address), Leads(k, n, distance, hops)
  PROVE  Leads(j, n, distance, hops)
  <1>1. ASSUME NEW i \in DOMAIN hops PROVE Through(j, hops[i], n, distance)
    <2> DEFINE net == db.links[hops[i][1]][hops[i][2]].to
    <2>1. Through(k, hops[i], n, distance)
      BY DEF Leads
    <2>2. PICK d \in Nat : /\ Within(hops[i][1], k, n, d)
                           /\ d + Weight(Self, net) + Weight(net, hops[i][1]) <= distance
      BY <2>1 DEF Through
    <2>3. hops[i][1] \in Node
      BY HopType
    <2>4. Within(hops[i][1], j, n, d)
      BY <2>2, <2>3, WithinGrows
    <2> QED BY <2>1, <2>2, <2>4 DEF Through
  <1> QED BY <1>1 DEF Leads

\* What a node pushes leads on.
LEMMA LeadsOn ==
  ASSUME IsDatabase(db), OverNetworks, NEW k \in Nat, NEW id, NEW m, Edge(id, m),
         NEW distance \in Nat, NEW hops \in Seq(Address),
         Leads(k, id, distance, hops), id = Self => hops = <<>> /\ distance = 0
  PROVE  Leads(k + 1, m, distance + Weight(id, m), NextHops(m, id, hops))
  <1> DEFINE w == Weight(id, m)
  <1>1. w \in Nat /\ k + 1 \in Nat /\ id \in Node /\ m \in Node
    BY WeightType, EdgeKnown
  <1>2. CASE hops = <<>> /\ m \in Router /\ id \in Network
    <2> DEFINE hop == <<m, Min(LinksTo(m, id))>>
    <2>1. id # Self
      BY <1>2, NodeAssumption
    <2>2. Edge(Self, id) /\ distance = Weight(Self, id)
      BY <1>2, <2>1 DEF Leads
    <2>3. id \in Children(m)
      BY <1>2, NodeAssumption DEF Edge
    <2>4. m \in DOMAIN db.links
      BY <1>2, <2>3, ChildrenType
    <2>5. Min(LinksTo(m, id)) \in LinksTo(m, id)
      <3>1. db.links[m] \in Seq(Link)
        BY <2>4 DEF IsDatabase
      <3>2. DOMAIN db.links[m] = 1..Len(db.links[m]) /\ Len(db.links[m]) \in Nat
        BY <3>1
      <3>3. LinksTo(m, id) \in SUBSET (1..Len(db.links[m]))
        BY <3>2 DEF LinksTo
      <3>4. LinksTo(m, id) # {}
        <4>1. PICK i \in DOMAIN db.links[m] : id = db.links[m][i].to
          BY <2>3, <2>4 DEF Children
        <4> QED BY <4>1 DEF LinksTo
      <3> QED BY <3>2, <3>3, <3>4, MaxMinIn
    <2>6. db.links[hop[1]][hop[2]].to = id
      BY <2>5 DEF LinksTo
    <2>7. Within(m, k + 1, m, 0)
      BY <1>1, WithinSelf
    <2>8. hop[1] = m /\ 0 + Weight(Self, id) + w <= distance + w
      BY <1>1, <2>2
    <2>9. Through(k + 1, hop, m, distance + w)
      <3> HIDE DEF w, hop
      <3>1. /\ Edge(Self, id) /\ Edge(id, hop[1])
            /\ 0 \in Nat /\ Within(hop[1], k + 1, m, 0)
        BY <2>2, <2>7, <2>8
      <3>2. 0 + Weight(Self, id) + Weight(id, hop[1]) <= distance + w
        BY <2>8 DEF w
      <3> QED BY <2>6, <3>1, <3>2 DEF Through
    <2>10. NextHops(m, id, hops) = <<hop>>
      BY <1>2 DEF NextHops
    <2> HIDE DEF hop, w
    <2>11. <<hop>> # <<>> /\ DOMAIN <<hop>> = {1} /\ <<hop>>[1] = hop
      OBVIOUS
    <2>12. Leads(k + 1, m, distance + w, <<hop>>)
      BY <2>9, <2>11 DEF Leads
    <2> QED BY <2>10, <2>12 DEF w
  <1>3. CASE ~ (hops = <<>> /\ m \in Router /\ id \in Network)
    <2>1. NextHops(m, id, hops) = hops
      BY <1>3 DEF NextHops
    <2>2. CASE hops = <<>>
      <3>1. CASE id = Self
        BY <1>1, <2>1, <2>2, <3>1 DEF Leads
      <3>2. CASE id # Self
        <4>1. Edge(Self, id)
          BY <2>2, <3>2 DEF Leads
        <4>2. id \in Children(Self) /\ m \in Children(id)
          BY <4>1 DEF Edge
        <4>3. Self \in DOMAIN db.links
          BY <4>2, ChildrenType, NodeAssumption
        <4>4. id \notin Router
          BY <4>2, <4>3 DEF OverNetworks
        <4>5. id \in Network /\ m \in Router
          BY <4>2, <4>4, ChildrenType
        <4> QED BY <1>3, <2>2, <4>5
      <3> QED BY <3>1, <3>2
    <2>3. CASE hops # <<>>
      <3>1. ASSUME NEW i \in DOMAIN hops
            PROVE  Through(k + 1, hops[i], m, distance + w)
        <4> DEFINE net == db.links[hops[i][1]][hops[i][2]].to
        <4>1. Through(k, hops[i], id, distance)
          BY DEF Leads
        <4>2. Edge(Self, net) /\ Edge(net, hops[i][1])
          BY <4>1 DEF Through
        <4>3. PICK d \in Nat :
                  /\ Within(hops[i][1], k, id, d)
                  /\ d + Weight(Self, net) + Weight(net, hops[i][1]) <= distance
          BY <4>1 DEF Through
        <4>4. hops[i][1] \in Node
          BY HopType
        <4>5. Within(hops[i][1], k + 1, m, d + w)
          BY <4>3, <4>4, WithinEdge
        <4>6. Weight(Self, net) \in Nat /\ Weight(net, hops[i][1]) \in Nat
          BY <4>2, WeightType
        <4>7. /\ d + w \in Nat
              /\ (d + w) + Weight(Self, net) + Weight(net, hops[i][1]) <= distance + w
          <5> HIDE DEF w, net
          <5> QED BY <1>1, <4>3, <4>6
        <4> QED BY <4>2, <4>5, <4>7 DEF Through
      <3> QED BY <2>1, <2>3, <3>1 DEF Leads
    <2> QED BY <2>2, <2>3
  <1> QED BY <1>2, <1>3

\* The database is a copy, so paths do not change.
LEMMA SamePaths ==
  ASSUME UNCHANGED db
  PROVE  /\ \A s, i, n, d : Within(s, i, n, d)' = Within(s, i, n, d)
         /\ \A k, n, d, hops : Leads(k, n, d, hops)' <=> Leads(k, n, d, hops)
         /\ OverNetworks' <=> OverNetworks
  <1>1. \A s, i, n, d : Within(s, i, n, d)' = Within(s, i, n, d)
    BY DEF Within, Paths, Extended, Least, Longer, Edge, Weight, Children, Cost, LinksTo
  <1>2. \A k, h, n, d : Through(k, h, n, d)' = Through(k, h, n, d)
    BY <1>1, SameGraph DEF Through
  <1>3. \A k, n, d, hops : Leads(k, n, d, hops)' <=> Leads(k, n, d, hops)
    BY <1>2, SameGraph DEF Leads
  <1>4. OverNetworks' <=> OverNetworks
    BY SameGraph DEF OverNetworks
  <1> QED BY <1>1, <1>3, <1>4

\* Hops that are merged lead where each of them leads.
LEMMA LeadsJoin ==
  ASSUME NEW k, NEW n, NEW d, NEW g \in Seq(Address), NEW h \in Seq(Address),
         Leads(k, n, d, g), Leads(k, n, d, h)
  PROVE  Leads(k, n, d, g \o h)
  <1>1. ASSUME NEW i \in DOMAIN (g \o h) PROVE Through(k, (g \o h)[i], n, d)
    <2>1. \/ i \in DOMAIN g /\ (g \o h)[i] = g[i]
          \/ i - Len(g) \in DOMAIN h /\ (g \o h)[i] = h[i - Len(g)]
      <3> HIDE DEF Address
      <3> QED OBVIOUS
    <2> QED BY <2>1 DEF Leads
  <1>2. g \o h = <<>> => g = <<>>
    <2> HIDE DEF Address
    <2> QED OBVIOUS
  <1> QED BY <1>1, <1>2 DEF Leads

\* The nodes of the tree are few enough to be counted.
LEMMA SizeType ==
  ASSUME TypeOK
  PROVE  IsFiniteSet(DOMAIN tree) /\ Size \in Nat /\ Size <= Cardinality(Node)
         /\ Cardinality(Node) \in Nat
  BY NodeAssumption, FS_Subset, FS_CardinalityType DEF TypeOK, Size

\* Before the loop the only path is the one of no edge.
LEMMA InitReached ==
  ASSUME Init
  PROVE  Reached /\ HopsLead
  <1>1. DOMAIN tree = {} /\ candidate = {Root} /\ IsDatabase(db)
    BY DatabasesAssumption DEF Init
  <1>2. Size = 0
    BY <1>1, FS_EmptySet DEF Size
  <1>3. Within(Self, 0, Self, 0)
    BY <1>1, WithinSelf, NodeAssumption DEF Node
  <1>4. Leads(0, Self, 0, <<>>)
    BY DEF Leads
  <1> QED BY <1>1, <1>2, <1>3, <1>4 DEF Reached, HopsLead, Root

LEMMA PopAgainReached ==
  ASSUME IInv, Reached, HopsLead, NEW c \in candidate, PopAgain(c)
  PROVE  (Reached /\ HopsLead)'
  <1>1. /\ c \in HeapNode /\ tree \in [DOMAIN tree -> TreeNode]
        /\ c.node \in DOMAIN tree /\ c.hops \in Seq(Address)
        /\ tree[c.node].hops \in Seq(Address)
    BY DEF IInv, TypeOK, PopAgain, HeapNode, TreeNode
  <1>2. UNCHANGED db /\ candidate' = candidate \ {c}
    BY DEF PopAgain
  <1>3. /\ DOMAIN tree' = DOMAIN tree
        /\ \A n \in DOMAIN tree : tree'[n].distance = tree[n].distance
        /\ \A n \in DOMAIN tree :
              \/ tree'[n].hops = tree[n].hops
              \/ /\ n = c.node /\ tree[n].distance = c.distance
                 /\ tree'[n].hops = tree[n].hops \o c.hops
    <2>1. CASE tree[c.node].distance = c.distance
      <3>1. tree' = [tree EXCEPT ![c.node].hops = @ \o c.hops]
        BY <2>1 DEF PopAgain
      <3>2. \A n \in DOMAIN tree : tree[n] \in TreeNode
        BY <1>1
      <3> QED BY <1>1, <2>1, <3>1, <3>2 DEF TreeNode
    <2>2. CASE tree[c.node].distance # c.distance
      BY <2>2, <1>1 DEF PopAgain
    <2> QED BY <2>1, <2>2
  <1>4. Size' = Size
    BY <1>3 DEF Size
  <1>5. Reached'
    BY <1>2, <1>3, <1>4, SamePaths DEF Reached
  <1>6. HopsLead'
    <2> SUFFICES ASSUME OverNetworks, NEW n \in DOMAIN tree
                 PROVE  Leads(Size, n, tree[n].distance, tree'[n].hops)
      BY <1>2, <1>3, <1>4, SamePaths DEF HopsLead
    <2>1. Leads(Size, n, tree[n].distance, tree[n].hops)
      BY DEF HopsLead
    <2>2. Leads(Size, c.node, c.distance, c.hops)
      BY DEF HopsLead
    <2>3. CASE tree'[n].hops = tree[n].hops
      BY <2>1, <2>3
    <2>4. CASE /\ n = c.node /\ tree[n].distance = c.distance
               /\ tree'[n].hops = tree[n].hops \o c.hops
      <3>1. Leads(Size, n, tree[n].distance, c.hops)
        BY <2>2, <2>4
      <3>2. Leads(Size, n, tree[n].distance, tree[n].hops \o c.hops)
        BY <1>1, <2>1, <2>4, <3>1, LeadsJoin
      <3> QED BY <2>4, <3>2
    <2> QED BY <1>3, <2>3, <2>4
  <1> QED BY <1>5, <1>6

LEMMA PopUnknownReached ==
  ASSUME Reached, HopsLead, NEW c \in candidate, PopUnknown(c)
  PROVE  (Reached /\ HopsLead)'
  <1>1. UNCHANGED <<db, tree>> /\ candidate' = candidate \ {c} /\ Size' = Size
    BY DEF PopUnknown, Size
  <1>2. Reached'
    BY <1>1, SamePaths DEF Reached
  <1>3. HopsLead'
    BY <1>1, SamePaths DEF HopsLead
  <1> QED BY <1>2, <1>3

LEMMA PopNewReached ==
  ASSUME IInv, Reached, HopsLead, NEW c \in candidate, PopNew(c)
  PROVE  (Reached /\ HopsLead)'
  <1> DEFINE pushed == Pushed(c.node, c.distance, c.hops)
  <1>1. /\ IsDatabase(db) /\ Self \in Node /\ candidate \subseteq HeapNode
        /\ c.node \in Node /\ c.distance \in Nat /\ c.hops \in Seq(Address)
        /\ \A n \in DOMAIN tree : /\ tree[n].distance \in Nat
                                  /\ tree[n].hops \in Seq(Address)
        /\ \A d \in candidate : d.distance \in Nat /\ d.hops \in Seq(Address)
    BY NodeAssumption DEF IInv, TypeOK, HeapNode, TreeNode, Node
  <1>2. /\ UNCHANGED db /\ c.node \notin DOMAIN tree
        /\ candidate' = (candidate \ {c}) \cup pushed
        /\ DOMAIN tree' = DOMAIN tree \cup {c.node}
        /\ tree'[c.node] = [distance |-> c.distance, hops |-> c.hops]
        /\ \A n \in DOMAIN tree : tree'[n] = tree[n]
    BY DEF PopNew
  <1>3. Size \in Nat /\ Size + 1 \in Nat /\ Size' = Size + 1 /\ Size <= Size + 1
    <2>1. IsFiniteSet(DOMAIN tree) /\ Size \in Nat
      BY SizeType DEF IInv
    <2>2. Cardinality(DOMAIN tree \cup {c.node}) = Cardinality(DOMAIN tree) + 1
      BY <1>2, <2>1, FS_AddElement
    <2> QED BY <1>2, <2>1, <2>2 DEF Size
  <1>4. \A d \in pushed :
            /\ Edge(c.node, d.node) /\ d.distance = c.distance + Weight(c.node, d.node)
            /\ d.hops = NextHops(d.node, c.node, c.hops)
    BY <1>1, PushedType
  <1> HIDE DEF pushed
  <1>5. Reached'
    <2>1. \A n \in DOMAIN tree : Within(Self, Size + 1, n, tree[n].distance)
      BY <1>1, <1>3, WithinGrows DEF Reached
    <2>2. \A d \in candidate : Within(Self, Size + 1, d.node, d.distance)
      BY <1>1, <1>3, WithinGrows DEF Reached
    <2>3. Within(Self, Size, c.node, c.distance)
      BY DEF Reached
    <2>4. \A d \in pushed : Within(Self, Size + 1, d.node, d.distance)
      BY <1>1, <1>3, <1>4, <2>3, WithinEdge
    <2>5. \A n \in DOMAIN tree' : Within(Self, Size + 1, n, tree'[n].distance)
      BY <1>2, <2>1, <2>2
    <2>6. \A d \in candidate' : Within(Self, Size + 1, d.node, d.distance)
      BY <1>2, <2>2, <2>4
    <2> QED BY <1>2, <1>3, <2>5, <2>6, SamePaths DEF Reached
  <1>6. HopsLead'
    <2> SUFFICES ASSUME OverNetworks
                 PROVE  /\ \A n \in DOMAIN tree' :
                              Leads(Size + 1, n, tree'[n].distance, tree'[n].hops)
                        /\ \A d \in candidate' :
                              Leads(Size + 1, d.node, d.distance, d.hops)
      BY <1>2, <1>3, SamePaths DEF HopsLead
    <2>1. \A n \in DOMAIN tree : Leads(Size + 1, n, tree[n].distance, tree[n].hops)
      BY <1>1, <1>3, LeadsGrows DEF HopsLead
    <2>2. \A d \in candidate : Leads(Size + 1, d.node, d.distance, d.hops)
      BY <1>1, <1>3, LeadsGrows DEF HopsLead
    <2>3. Leads(Size, c.node, c.distance, c.hops)
      BY DEF HopsLead
    <2>4. c.node = Self => c.hops = <<>> /\ c.distance = 0
      BY <1>2 DEF IInv, Begun, Root
    <2>5. \A d \in pushed : Leads(Size + 1, d.node, d.distance, d.hops)
      BY <1>1, <1>3, <1>4, <2>3, <2>4, LeadsOn
    <2>6. \A n \in DOMAIN tree' : Leads(Size + 1, n, tree'[n].distance, tree'[n].hops)
      BY <1>2, <2>1, <2>2
    <2> QED BY <1>2, <2>2, <2>5, <2>6
  <1> QED BY <1>5, <1>6

LEMMA ReachedInductive == Spec => [](Reached /\ HopsLead)
  <1>1. Init => Reached /\ HopsLead
    BY InitReached
  <1>2. IInv /\ (Reached /\ HopsLead) /\ [Next]_vars => (Reached /\ HopsLead)'
    <2> SUFFICES ASSUME IInv, Reached, HopsLead, [Next]_vars
                 PROVE  (Reached /\ HopsLead)'
      OBVIOUS
    <2>1. CASE UNCHANGED vars
      <3>1. UNCHANGED <<db, tree, candidate>> /\ Size' = Size
        BY <2>1 DEF vars, Size
      <3>2. Reached'
        BY <3>1, SamePaths DEF Reached
      <3>3. HopsLead'
        BY <3>1, SamePaths DEF HopsLead
      <3> QED BY <3>2, <3>3
    <2>2. CASE Next
      BY <2>2, PopAgainReached, PopUnknownReached, PopNewReached DEF Next
    <2> QED BY <2>1, <2>2
  <1> QED BY <1>1, <1>2, Inductive, PTL DEF Spec

---------------------------------------------------------------------------
\* A path found by the calculation is one of the nearest when the heap is empty
\* and it is no longer than the difference of the distances.
LEMMA NearestOf ==
  ASSUME IInv, candidate = {}, NEW s \in DOMAIN tree, NEW n \in DOMAIN tree,
         NEW d \in Nat, Within(s, Size, n, d),
         tree[s].distance + d <= tree[n].distance
  PROVE  <<n, d>> \in Nearest(s) /\ tree[s].distance + d = tree[n].distance
  <1>1. /\ IsDatabase(db) /\ s \in Node
        /\ tree[s].distance \in Nat /\ tree[n].distance \in Nat
    BY DEF IInv, TypeOK, TreeNode
  <1>2. Size \in Nat /\ Size <= Cardinality(Node) /\ Cardinality(Node) \in Nat
    BY SizeType DEF IInv
  <1>3. Within(s, Cardinality(Node), n, d)
    BY <1>1, <1>2, WithinGrows
  <1>4. PICK x \in Paths(s)[Cardinality(Node)] : x[1] = n /\ x[2] <= d
    BY <1>3 DEF Within
  <1>5. Paths(s)[Cardinality(Node)] \in SUBSET (Node \X Nat)
    BY <1>1, <1>2, PathsType
  <1>6. tree[n].distance <= tree[s].distance + x[2]
    BY <1>2, <1>4, NoPathShorter
  <1>7. x[2] \in Nat /\ x = <<x[1], x[2]>>
    BY <1>4, <1>5
  <1>8. x[2] = d /\ tree[s].distance + d = tree[n].distance
    BY <1>1, <1>4, <1>6, <1>7
  <1> QED BY <1>4, <1>7, <1>8 DEF Nearest

\* The calculation is right: when the heap is empty the tree holds exactly the
\* nodes to which there is a path, each at the length of the shortest one, for
\* every database, also one in which links cost nothing.
THEOREM ShortestPaths == Spec => []Shortest
  <1>1. IInv /\ (Reached /\ HopsLead) => Shortest
    <2> SUFFICES ASSUME IInv, Reached, candidate = {}, Known(Self)
                 PROVE  {<<n, tree[n].distance>> : n \in DOMAIN tree} = Nearest(Self)
      BY DEF Shortest
    <2>1. /\ IsDatabase(db) /\ DOMAIN tree \subseteq Node
          /\ \A n \in DOMAIN tree : tree[n].distance \in Nat
      BY DEF IInv, TypeOK, TreeNode
    <2>2. Self \in DOMAIN tree /\ tree[Self].distance = 0
      BY DEF IInv, Begun, Derived
    <2>3. Cardinality(Node) \in Nat
      BY SizeType DEF IInv
    <2>4. ASSUME NEW n \in DOMAIN tree PROVE <<n, tree[n].distance>> \in Nearest(Self)
      BY <2>1, <2>2, NearestOf DEF Reached
    <2>5. ASSUME NEW x \in Nearest(Self)
          PROVE  x[1] \in DOMAIN tree /\ x = <<x[1], tree[x[1]].distance>>
      <3>1. /\ x \in Paths(Self)[Cardinality(Node)]
            /\ Paths(Self)[Cardinality(Node)] \in SUBSET (Node \X Nat)
        BY <2>1, <2>2, <2>3, PathsType DEF Nearest
      <3>2. x[1] \in DOMAIN tree /\ tree[x[1]].distance <= x[2]
        BY <2>2, <2>3, <3>1, NoPathShorter
      <3>3. <<x[1], tree[x[1]].distance>> \in Paths(Self)[Cardinality(Node)]
        BY <2>4, <3>2 DEF Nearest
      <3> DEFINE P == Paths(Self)[Cardinality(Node)]
      <3>4. \A y, z \in P : y[1] = z[1] => y[2] <= z[2]
        <4>1. CASE Cardinality(Node) = 0
          BY <2>2, <4>1, PathsStep
        <4>2. CASE Cardinality(Node) # 0
          <5> DEFINE i == Cardinality(Node) - 1
          <5>1. i \in Nat /\ i + 1 = Cardinality(Node)
            BY <2>3, <4>2
          <5>2. P = Extended(Paths(Self)[i])
            BY <5>1, PathsStep
          <5>3. Paths(Self)[i] \in SUBSET (Node \X Nat)
            BY <2>1, <2>2, <5>1, PathsType
          <5> QED BY <2>1, <5>2, <5>3, ExtendedKeeps
        <4> QED BY <4>1, <4>2
      <3>5. x[2] <= tree[x[1]].distance
        BY <3>1, <3>3, <3>4
      <3> QED BY <2>1, <3>1, <3>2, <3>5
    <2> QED BY <2>4, <2>5
  <1> QED BY <1>1, Inductive, ReachedInductive, PTL

\* Following next hops makes progress: each is a router on a network of our own,
\* and a shortest path from there is the rest of the way.
THEOREM NextHopsLeadCloser == Spec => []HopsLeadCloser
  <1>1. IInv /\ (Reached /\ HopsLead) => HopsLeadCloser
    <2> SUFFICES ASSUME IInv, HopsLead, candidate = {}, OverNetworks,
                        NEW n \in DOMAIN tree, NEW i \in DOMAIN tree[n].hops
                 PROVE  LET hop == tree[n].hops[i]
                            net == db.links[hop[1]][hop[2]].to
                        IN  /\ Edge(Self, net) /\ Edge(net, hop[1])
                            /\ \E p \in Nearest(hop[1]) :
                                  /\ p[1] = n
                                  /\ tree[n].distance =
                                         p[2] + Weight(Self, net) + Weight(net, hop[1])
      BY DEF HopsLeadCloser
    <2> DEFINE hop == tree[n].hops[i]
               r == hop[1]
               net == db.links[hop[1]][hop[2]].to
    <2>1. /\ IsDatabase(db) /\ tree[n].hops \in Seq(Address)
          /\ \A m \in DOMAIN tree : tree[m].distance \in Nat
      BY DEF IInv, TypeOK, TreeNode
    <2>2. Self \in DOMAIN tree /\ tree[Self].distance = 0
      BY DEF IInv, Begun, Derived
    <2>3. Through(Size, hop, n, tree[n].distance)
      BY DEF HopsLead, Leads
    <2>4. Edge(Self, net) /\ Edge(net, r)
      BY <2>3 DEF Through
    <2>5. PICK d \in Nat : /\ Within(r, Size, n, d)
                           /\ d + Weight(Self, net) + Weight(net, r) <= tree[n].distance
      BY <2>3 DEF Through
    <2>6. net \in Node /\ r \in Node /\ Weight(Self, net) \in Nat /\ Weight(net, r) \in Nat
      BY <2>1, <2>4, EdgeKnown, WeightType
    <2> HIDE DEF r, net
    <2>7. net \in DOMAIN tree /\ tree[net].distance <= 0 + Weight(Self, net)
      BY <2>2, <2>4, <2>6 DEF IInv, Relaxed, Over
    <2>8. r \in DOMAIN tree /\ tree[r].distance <= tree[net].distance + Weight(net, r)
      BY <2>4, <2>6, <2>7 DEF IInv, Relaxed, Over
    <2>9. tree[r].distance + d <= tree[n].distance
      BY <2>1, <2>5, <2>6, <2>7, <2>8
    <2>10. <<n, d>> \in Nearest(r) /\ tree[r].distance + d = tree[n].distance
      BY <2>5, <2>8, <2>9, NearestOf
    <2>11. tree[n].distance = d + Weight(Self, net) + Weight(net, r)
      <3> DEFINE v == Weight(Self, net)
                 w == Weight(net, r)
                 t == tree[r].distance
                 u == tree[net].distance
                 e == tree[n].distance
      <3>1. v \in Nat /\ w \in Nat /\ t \in Nat /\ u \in Nat /\ e \in Nat
        BY <2>1, <2>6, <2>7, <2>8
      <3>2. u <= 0 + v /\ t <= u + w /\ t + d = e /\ d + v + w <= e
        BY <2>5, <2>7, <2>8, <2>10
      <3> HIDE DEF v, w, t, u, e
      <3>3. e = d + v + w
        BY <3>1, <3>2
      <3> QED BY <3>3 DEF v, w, e
    <2>12. \E p \in Nearest(r) :
               /\ p[1] = n
               /\ tree[n].distance = p[2] + Weight(Self, net) + Weight(net, r)
      BY <2>10, <2>11
    <2> QED BY <2>4, <2>12 DEF r, net
  <1> QED BY <1>1, Inductive, ReachedInductive, PTL
=============================================================================
