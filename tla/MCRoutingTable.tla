--------------------------- MODULE MCRoutingTable ---------------------------
(* A network inside another at the same address, a default route, one      *)
(* border router, two next hops.                                           *)
EXTENDS RoutingTable, TLC

CONSTANTS narrow, wide, all, zero,             \* networks; zero is all, as a host
          network, inside, zeros,              \* addresses
          border, left, right, direct

MCBase == (narrow :> network) @@ (wide :> network) @@ (all :> zeros) @@ (zero :> zeros)
MCLength == (narrow :> 16) @@ (wide :> 8) @@ (all :> 0) @@ (zero :> 32)

Of(d, t, c, h) == [dest |-> d, type |-> t, cost |-> c, cost2 |-> 0, hop |-> h]
External(d, t, m, f) ==
  [net |-> d, asbr |-> border, type |-> t, metric |-> m, forward |-> f]

\* The border router is reached, if at all, inside the area or through another;
\* the wide network may be attached, or behind the other router.
MCViews ==
  [intra : {{}, {Of(border, AreaInternal, 1, left)},
            {Of(border, AreaInternal, 1, left), Of(wide, AreaInternal, 1, direct)},
            {Of(wide, AreaInternal, 2, left)}},
   inter : {{}, {Of(border, AreaExternal, 2, right), Of(wide, AreaExternal, 1, right)}},
   ext : {{}, {External(narrow, AsExternalT1, 1, none),
               External(narrow, AsExternalT2, 1, network)},
          {External(narrow, AsExternalT2, 1, none),
           External(narrow, AsExternalT2, 2, network),
           External(wide, AsExternalT1, 1, none)},
          {External(narrow, AsExternalT1, 2, inside),
           External(all, AsExternalT2, 1, none)}}]
=============================================================================
