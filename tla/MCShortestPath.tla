--------------------------- MODULE MCShortestPath ---------------------------
(* Three routers, two transit networks and a stub network, over all ways in  *)
(* which their LSAs may agree, disagree or be missing.                       *)
EXTENDS ShortestPath, SequencesExt, FiniteSets, TLC

To(n, c) == [to |-> n, cost |-> c]
\* Up to two links to transit networks, possibly to the same one.
Transit(costs) == {To(n, c) : n \in Network, c \in costs}
Links(costs) ==
    {<<t>> : t \in Transit(costs)} \cup {<<t, u>> : t, u \in Transit(costs)}
OwnLinks == Links({1, 2})
LinksOf2 == {s \o <<To(6, 1)>> : s \in Links({0, 1})}
LinksOf3 == {<<To(5, 1)>>, <<To(5, 1), To(4, 2), To(6, 2)>>, <<To(6, 3), To(4, 1)>>}
LinksOfAll ==
    {1 :> x @@ 2 :> y @@ 3 :> z : x \in OwnLinks, y \in LinksOf2, z \in LinksOf3}

\* The routers that the networks' own LSAs list.
Attachments ==
    {4 :> x @@ 5 :> y : x \in {{1, 2, 3}, {1, 2}}, y \in {{1, 2, 3}, {2, 3}, {1, 3}}}

\* One LSA may be missing; none is if it is that of node 6.
Without(f, n) == [m \in DOMAIN f \ {n} |-> f[m]]
MCDatabases ==
    {[links |-> Without(l, n), attached |-> Without(a, n)] :
        l \in LinksOfAll, a \in Attachments, n \in Node}
=============================================================================
