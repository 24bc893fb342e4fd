---------------------------- MODULE ShortestPath ----------------------------
(***************************************************************************)
(* The shortest path tree of one area (area/tree.rs).  ShortPathTree::     *)
(* calculate pops candidates, nearest first, until none is left; one step  *)
(* is one turn of its loop.  The database is whatever has been flooded so  *)
(* far: LSAs may be missing, outdated, or disagree on whether a link       *)
(* exists.                                                                 *)
(***************************************************************************)
EXTENDS Naturals, Sequences, FiniteSets, FiniteSetsExt

CONSTANTS
    Router,         \* router ids,
    Network,        \* addresses of designated routers,
    Stub,           \* stub networks: the three kinds of NodeAddr
    Self,           \* the router that calculates
    Databases       \* the LSAs it may have

Node == Router \cup Network \cup Stub

\* A link of a router-LSA.
Link == [to : Node, cost : Nat]

\* The LSAs of a database that are not at MaxAge: some routers' links, some
\* networks' routers.  Of two LSAs with one id the map keeps either.
IsDatabase(d) ==
    /\ DOMAIN d.links \subseteq Router
    /\ \A r \in DOMAIN d.links : d.links[r] \in Seq(Link)
    /\ DOMAIN d.attached \subseteq Network
    /\ \A n \in DOMAIN d.attached : d.attached[n] \subseteq Router

ASSUME NodeAssumption ==
    /\ Node \subseteq Nat /\ IsFiniteSet(Node)
    /\ Router \cap Network = {} /\ Stub \cap (Router \cup Network) = {}
    /\ Self \in Router

ASSUME DatabasesAssumption == \A d \in Databases : IsDatabase(d)

VARIABLES
    db,             \* copy of the database, made at the start
    tree,           \* nodes whose distance is final
    candidate       \* the heap

vars == <<db, tree, candidate>>

\* The link_data of router r's i-th link: its own address there.
Address == UNION {{<<r, i>> : i \in DOMAIN db.links[r]} : r \in DOMAIN db.links}

TreeNode == [distance : Nat, hops : Seq(Address)]

\* The heap may hold equal elements: what they have in common comes from
\* different parents.
HeapNode ==
    [node : Node, parent : Node, distance : Nat, hops : Seq(Address)]

---------------------------------------------------------------------------
Advertised == DOMAIN db.links \cup DOMAIN db.attached

\* The links of router r that lead to node n.
LinksTo(r, n) == {i \in DOMAIN db.links[r] : db.links[r][i].to = n}

Children(id) ==
    IF id \in DOMAIN db.links THEN {db.links[id][i].to : i \in DOMAIN db.links[id]}
    ELSE IF id \in DOMAIN db.attached THEN db.attached[id]
    ELSE {}

\* lsa2nodes fills a map: of several links to one node the last one counts.
Cost(id, child) ==
    IF id \in Router THEN db.links[id][Max(LinksTo(id, child))].cost ELSE 0

\* A stub network has no LSA and stands for the router that has it.
Known(id) ==
    id \in Advertised \/ (id \in Stub /\ \E r \in Advertised : id \in Children(r))

Edge(id, child) ==
    child \in Children(id) /\ (child \in Stub \/ id \in Children(child))

\* The larger of both directions' costs.
Weight(id, child) ==
    IF child \notin Stub /\ Cost(child, id) > Cost(id, child)
    THEN Cost(child, id)
    ELSE Cost(id, child)

\* Mutants: every router on a network is its own next hop; nothing but the
\* parent's; addresses counted from 0.
NextHopsAllOwn(child, parent, hops) ==
    IF child \in Router /\ parent \in Network
    THEN <<<<child, Min(LinksTo(child, parent))>>>> ELSE hops
NextHopsInherited(child, parent, hops) == hops
NextHopsFromZero(child, parent, hops) ==
    IF hops = <<>> /\ child \in Router /\ parent \in Network
    THEN <<<<child, Min(LinksTo(child, parent)) - 1>>>> ELSE hops

\* calc_nexthop: on a network of our own, the address of the router there (on
\* the first of its links to it); else as for the parent.
NextHops(child, parent, hops) ==
    IF hops = <<>> /\ child \in Router /\ parent \in Network
    THEN <<<<child, Min(LinksTo(child, parent))>>>>
    ELSE hops

\* Mutants: links are not checked for the way back; its cost is not taken in.
PushedOneWay(id, distance, hops) ==
    {[node |-> c, parent |-> id, distance |-> distance + Cost(id, c), hops |-> hops] :
        c \in {n \in Children(id) \ (DOMAIN tree \cup {id}) : Known(n)}}
PushedForward(id, distance, hops) ==
    {[node |-> c, parent |-> id, distance |-> distance + Cost(id, c),
      hops |-> NextHops(c, id, hops)] :
        c \in {n \in Node \ (DOMAIN tree \cup {id}) : Edge(id, n)}}

\* What a node that enters the tree pushes: children that are not in it yet.
Pushed(id, distance, hops) ==
    {[node |-> c, parent |-> id, distance |-> distance + Weight(id, c),
      hops |-> NextHops(c, id, hops)] :
        c \in {n \in Node \ (DOMAIN tree \cup {id}) : Edge(id, n)}}

\* Ord of HeapNode: the nearest, then those pushed by a network, then the
\* largest id.  Candidates that agree in all of these are popped in any order.
Before(c, d) ==
    \/ c.distance < d.distance
    \/ /\ c.distance = d.distance
       /\ \/ c.parent \in Network /\ d.parent \notin Network
          \/ /\ c.parent \in Network <=> d.parent \in Network
             /\ c.node > d.node

\* Mutant: a heap without Reverse pops the farthest.
TopFarthest(c) == \A d \in candidate : d.distance <= c.distance

Top(c) == \A d \in candidate : ~Before(d, c)

---------------------------------------------------------------------------
Root == [node |-> Self, parent |-> Self, distance |-> 0, hops |-> <<>>]

Init ==
    /\ db \in Databases
    /\ tree = [n \in {} |-> Root]
    /\ candidate = {Root}

\* In the tree already: as near as that, it adds its next hops.
PopAgain(c) ==
    /\ c.node \in DOMAIN tree
    /\ tree' = IF tree[c.node].distance = c.distance
               THEN [tree EXCEPT ![c.node].hops = @ \o c.hops]
               ELSE tree
    /\ candidate' = candidate \ {c}
    /\ UNCHANGED db

PopUnknown(c) ==
    /\ c.node \notin DOMAIN tree
    /\ ~Known(c.node)
    /\ candidate' = candidate \ {c}
    /\ UNCHANGED <<db, tree>>

PopNew(c) ==
    /\ c.node \notin DOMAIN tree
    /\ Known(c.node)
    /\ tree' = [n \in DOMAIN tree \cup {c.node} |->
                  IF n = c.node THEN [distance |-> c.distance, hops |-> c.hops]
                  ELSE tree[n]]
    /\ candidate' = (candidate \ {c}) \cup Pushed(c.node, c.distance, c.hops)
    /\ UNCHANGED db

Next ==
    \E c \in candidate :
        Top(c) /\ (PopAgain(c) \/ PopUnknown(c) \/ PopNew(c))

Spec == Init /\ [][Next]_vars

---------------------------------------------------------------------------
\* A next hop is an address some router-LSA of the database has.
TypeOK ==
    /\ IsDatabase(db)
    /\ DOMAIN tree \subseteq Node
    /\ tree \in [DOMAIN tree -> TreeNode]
    /\ candidate \subseteq HeapNode

\* No candidate is nearer than a node that is in the tree ("it cannot be
\* nearer", tree.rs:73): what is in the tree is final, and is never offered
\* for less by any of the paths found later.
NeverCloser == \A n \in DOMAIN tree, c \in candidate : tree[n].distance <= c.distance

\* The distances solve the equations of the shortest paths: a node in the tree
\* is as far as its distance over some neighbor in the tree, and over none it is
\* nearer; every neighbor of the tree is in it.
Solved ==
    \A n \in DOMAIN tree :
        /\ IF n = Self THEN tree[n].distance = 0
           ELSE \E p \in DOMAIN tree :
                   /\ Edge(p, n)
                   /\ tree[n].distance = tree[p].distance + Weight(p, n)
        /\ \A m \in Node :
              Edge(n, m) => /\ m \in DOMAIN tree
                            /\ tree[m].distance <= tree[n].distance + Weight(n, m)

ShortestWhenDone == candidate = {} /\ Known(Self) => Self \in DOMAIN tree /\ Solved

\* Links are to networks: between routers they have no address, and no next hop
\* is found.
OverNetworks == \A r \in DOMAIN db.links : Children(r) \cap Router = {}

\* Only what hangs on the router itself has no next hop; for everything else
\* get_routing has one to give to the kernel, although next hops are copied
\* from parent to child and merged in between.
OwnLinksOnly ==
    OverNetworks =>
        \A n \in DOMAIN tree :
            tree[n].hops = <<>> => n = Self \/ n \in Children(Self)

---------------------------------------------------------------------------
(* A definition of shortest paths that knows nothing of trees and heaps: the *)
(* least costs of the paths of no edge, of one more, and so on, up to as     *)
(* many as there are nodes.                                                  *)
Least(paths) == {p \in paths : \A q \in paths : q[1] = p[1] => p[2] <= q[2]}
Longer(paths) ==
    {<<e[2], e[1][2] + Weight(e[1][1], e[2])>> :
        e \in {x \in paths \X Node : Edge(x[1][1], x[2])}}
Extended(paths) == Least(paths \cup Longer(paths))
Paths(s) ==
    LET p[i \in Nat] == IF i = 0 THEN {<<s, 0>>} ELSE Extended(p[i - 1])
    IN  p
Nearest(s) == Paths(s)[Cardinality(Node)]

\* The tree holds exactly what can be reached, at the least distance there is.
Shortest ==
    candidate = {} /\ Known(Self) =>
        {<<n, tree[n].distance>> : n \in DOMAIN tree} = Nearest(Self)

\* Forwarding makes progress: a next hop is the address of a router on one of
\* our networks, and from there the same database leads to the destination by
\* the rest of the way.  So routers that agree on the database form no loop,
\* unless links are free.
HopsLeadCloser ==
    candidate = {} /\ OverNetworks =>
        \A n \in DOMAIN tree : \A i \in DOMAIN tree[n].hops :
            LET hop == tree[n].hops[i]
                net == db.links[hop[1]][hop[2]].to
            IN  /\ Edge(Self, net) /\ Edge(net, hop[1])
                /\ \E p \in Nearest(hop[1]) :
                      /\ p[1] = n
                      /\ tree[n].distance = p[2] + Weight(Self, net) + Weight(net, hop[1])
=============================================================================
