---------------------------- MODULE RoutingTable ----------------------------
(***************************************************************************)
(* The routing table (database/routing.rs) and the kernel's.  One          *)
(* recalculation takes the routes of the areas' trees and of their summary *)
(* LSAs, adds the AS-external ones, and sends the difference to the kernel *)
(* call by call.  Calls fail and are not repeated, the kernel drops routes *)
(* of a link that goes down, and the process ends between any two calls.   *)
(* Hash maps are iterated in any order.                                    *)
(***************************************************************************)
EXTENDS Integers

CONSTANTS
  Nets, Borders,      \* networks, and routers of the AS border
  Self,               \* this router, when it is one of them
  Addresses,          \* addresses of networks, and forwarding addresses
  Base, Length,       \* a network's own address, masked, and its mask's length
  Hops, Direct,       \* next hops; 0.0.0.0: no gateway
  Views,              \* what trees and LSAs may offer
  Infinity,           \* LSInfinity
  none,
  MaxCalculations, MaxFaults      \* bounds

Dests == Nets \cup Borders

\* RoutingTablePathType, in its derived order
AreaInternal == 1
AreaExternal == 2
AsExternalT1 == 3
AsExternalT2 == 4

Item == [dest : Dests, type : 1..4, cost : Nat, cost2 : Nat,
         hop : Hops \cup {Direct}]
ExternalLSA == [net : Nets, asbr : Borders, type : {AsExternalT1, AsExternalT2},
                metric : Nat, forward : Addresses \cup {none}]

ASSUME RoutingAssumption ==
  /\ none \notin Hops \cup {Direct} /\ none \notin Item
  /\ none \notin Addresses
  /\ Base \in [Nets -> Addresses] /\ Length \in [Nets -> 0..32]
  /\ \A d \in Nets : Length[d] = 0 => \E e \in Nets : Base[e] = Base[d] /\ Length[e] = 32
  /\ Views # {}
  /\ \A v \in Views : /\ v.intra \subseteq {i \in Item : i.type = AreaInternal}
                      /\ v.inter \subseteq {i \in Item : i.type = AreaExternal}
                      /\ v.ext \subseteq ExternalLSA
                      /\ \A i \in v.intra \cup v.inter : i.dest \in Nets => Length[i.dest] # 0

VARIABLES
  view,     \* [intra, inter, ext]: what this calculation starts from
  table,    \* destination -> item or none
  old,      \* the table before this calculation
  phase,    \* where recalculate is
  todo,     \* the items, LSAs or destinations its present loop has yet to visit
  kernel,   \* network -> the gateway in the kernel's table, or none
  suspect,  \* networks for which the last call failed, whose route the kernel
            \* dropped, or that an earlier process or calculation left behind
  bounds    \* [calculations, faults] so far

vars == <<view, table, old, phase, todo, kernel, suspect, bounds>>

Empty == [d \in Dests |-> none]
Merging == {"intra", "inter", "external"}
Applying == {"delete", "add"}

\* The gateway that table t wants the kernel to have
Route(t, d) == IF t[d] # none /\ t[d].hop # Direct THEN t[d].hop ELSE none

\* Mutant of Gone: a route is deleted only if its destination is lost
GoneIfLost == {d \in Nets : Route(old, d) # none /\ table[d] = none}
\* Mutant of Gone: every old route is deleted
GoneAll == {d \in Nets : Route(old, d) # none}
\* Mutant of Added: no test for 0.0.0.0
AddedDirect == {d \in Nets : table[d] # none
                               /\ ~(old[d] # none /\ old[d].hop = table[d].hop)}

\* The difference that goes to the kernel: routes to delete, and routes to add;
\* a next hop 0.0.0.0 makes no call
Gone == {d \in Nets : Route(old, d) # none
                        /\ ~(table[d] # none /\ table[d].hop = old[d].hop)}
Added == {d \in Nets : Route(table, d) # none
                        /\ ~(old[d] # none /\ old[d].hop = table[d].hop)}

TypeOK ==
  /\ view \in Views
  /\ table \in [Dests -> Item \cup {none}]
  /\ old \in [Dests -> Item \cup {none}]
  /\ phase \in {"idle"} \cup Merging \cup Applying
  /\ phase = "intra" => todo \subseteq view.intra
  /\ phase = "inter" => todo \subseteq view.inter
  /\ phase = "external" => todo \subseteq view.ext
  /\ phase = "delete" => todo \subseteq Gone
  /\ phase = "add" => todo \subseteq Added
  /\ kernel \in [Nets -> Hops \cup {none}]
  /\ suspect \subseteq Nets
  /\ bounds \in [calculations : Nat, faults : Nat]

Init ==
  /\ view \in Views
  /\ table = Empty /\ old = Empty
  /\ phase = "idle" /\ todo = {}
  /\ kernel = [d \in Nets |-> none]
  /\ suspect = {}
  /\ bounds = [calculations |-> 0, faults |-> 0]

-----------------------------------------------------------------------------
(* The new table                                                           *)

\* Mutant of BetterThan: the cost decides
CheaperThan(i, j) == i.cost < j.cost

\* better_than
BetterThan(i, j) ==
  \/ i.type < j.type
  \/ /\ i.type = j.type
     /\ i.cost2 < j.cost2 \/ (i.cost2 > j.cost2 /\ i.cost < j.cost)

\* entry(..).and_modify(..).or_insert(..)
Put(i) ==
  table' = IF table[i.dest] = none \/ BetterThan(i, table[i.dest])
           THEN [table EXCEPT ![i.dest] = i] ELSE table

\* recalculate starts; the link state database has changed meanwhile
Recalculate(v) ==
  /\ phase = "idle"
  /\ bounds.calculations < MaxCalculations
  /\ bounds' = [bounds EXCEPT !.calculations = @ + 1]
  /\ view' = v
  /\ old' = table /\ table' = Empty
  /\ phase' = "intra" /\ todo' = v.intra
  /\ UNCHANGED <<kernel, suspect>>

\* An item of the areas' trees, or of their summary LSAs
Merge(i) ==
  /\ phase \in {"intra", "inter"}
  /\ i \in todo
  /\ Put(i)
  /\ todo' = todo \ {i}
  /\ UNCHANGED <<view, old, phase, kernel, suspect, bounds>>

\* Mutant of GetRouting: reads the table of the last calculation
GetOldRouting(a) ==
  LET I == {d \in Nets : Base[d] = a /\ old[d] # none}
  IN  IF I = {} THEN none ELSE old[CHOOSE d \in I : \A e \in I : Length[e] <= Length[d]]

\* get_routing tries all masks from the longest on, but masks no address: it finds
\* the networks that begin at address a, not those that a is inside of
Matching(a) == {d \in Nets : Base[d] = a /\ table[d] # none}
Longest(S) == CHOOSE d \in S : \A e \in S : Length[e] <= Length[d]
GetRouting(a) == IF Matching(a) = {} THEN none ELSE table[Longest(Matching(a))]

\* What an AS-external LSA is reached by: the entry of the border router that
\* announces it, or, if there is one, that of the forwarding address
Forwarding(l) == IF l.forward = none \/ table[l.asbr] = none
                 THEN table[l.asbr] ELSE GetRouting(l.forward)

\* mask() of a network without mask shifts by 32: without overflow checks, by 0,
\* so that the network becomes the host route of its address
Masked(d) == IF Length[d] # 0 THEN d
             ELSE CHOOSE e \in Nets : Base[e] = Base[d] /\ Length[e] = 32

ExternalItem(l, f) ==
  [dest |-> Masked(l.net), type |-> l.type, hop |-> f.hop,
   cost  |-> f.cost  + IF l.type = AsExternalT1 THEN l.metric ELSE 0,
   cost2 |-> f.cost2 + IF l.type = AsExternalT1 THEN 0 ELSE l.metric]

Reachable(l) == l.metric < Infinity /\ l.asbr # Self /\ Forwarding(l) # none

Import(l) ==
  /\ phase = "external"
  /\ l \in todo
  /\ IF Reachable(l)
     THEN Put(ExternalItem(l, Forwarding(l))) ELSE UNCHANGED table
  /\ todo' = todo \ {l}
  /\ UNCHANGED <<view, old, phase, kernel, suspect, bounds>>

\* With overflow checks, as in a debug build, mask() panics instead: the
\* recalculation ends there, and with it the only copy of the old table; nothing is
\* sent to the kernel
Overflow(l) ==
  /\ phase = "external" /\ l \in todo
  /\ Reachable(l) /\ Length[l.net] = 0
  /\ phase' = "idle" /\ todo' = {} /\ old' = Empty
  /\ suspect' = suspect \cup {d \in Nets : kernel[d] # Route(table, d)}
  /\ UNCHANGED <<view, table, kernel, bounds>>

-----------------------------------------------------------------------------
(* The difference is applied                                               *)

\* One loop ends and the next begins
Proceed ==
  /\ phase # "idle" /\ todo = {}
  /\ \/ phase = "intra"    /\ phase' = "inter"    /\ todo' = view.inter
     \/ phase = "inter"    /\ phase' = "external" /\ todo' = view.ext
     \/ phase = "external" /\ phase' = "delete"   /\ todo' = Gone
     \/ phase = "delete"   /\ phase' = "add"      /\ todo' = Added
     \/ phase = "add"      /\ phase' = "idle"     /\ todo' = {}
  /\ UNCHANGED <<view, table, old, kernel, suspect, bounds>>

\* A call that fails is logged
Fails(d) ==
  /\ bounds.faults < MaxFaults
  /\ bounds' = [bounds EXCEPT !.faults = @ + 1]
  /\ suspect' = suspect \cup {d}

Succeeds(d) == suspect' = suspect \ {d} /\ UNCHANGED bounds

\* delete_route; that there is no such route (ESRCH) is success
DeleteRoute(d) ==
  /\ phase = "delete" /\ d \in todo
  /\ todo' = todo \ {d}
  /\ \/ Succeeds(d) /\ kernel' = [kernel EXCEPT ![d] = none]
     \/ Fails(d) /\ UNCHANGED kernel
  /\ UNCHANGED <<view, table, old, phase>>

\* add_route; a route that is in the way is deleted, and the call repeated
AddRoute(d) ==
  /\ phase = "add" /\ d \in todo
  /\ todo' = todo \ {d}
  /\ \/ Succeeds(d) /\ kernel' = [kernel EXCEPT ![d] = table[d].hop]
     \/ Fails(d) /\ UNCHANGED kernel
     \/ kernel[d] # none /\ Fails(d) /\ kernel' = [kernel EXCEPT ![d] = none]
  /\ UNCHANGED <<view, table, old, phase>>

-----------------------------------------------------------------------------
(* Faults                                                                  *)

\* A link goes down and up again before the next poll: the kernel has dropped
\* its routes, and nothing in the daemon has changed
LinkFlap(h) ==
  /\ bounds.faults < MaxFaults
  /\ bounds' = [bounds EXCEPT !.faults = @ + 1]
  /\ kernel' = [d \in Nets |-> IF kernel[d] = h THEN none ELSE kernel[d]]
  /\ suspect' = suspect \cup {d \in Nets : kernel[d] = h}
  /\ UNCHANGED <<view, table, old, phase, todo>>

\* The process ends, at any point, and starts again.  On "exit" a task deletes
\* the routes of the table (delete_all_routing) until the process is gone
\* (command.rs): any of them may be deleted; after a crash, none.
Restart ==
  /\ bounds.faults < MaxFaults
  /\ bounds' = [bounds EXCEPT !.faults = @ + 1]
  /\ \E S \in SUBSET {d \in Nets : phase = "idle" /\ Route(table, d) # none} :
       /\ kernel' = [d \in Nets |-> IF d \in S THEN none ELSE kernel[d]]
       /\ suspect' = {d \in Nets : kernel'[d] # none}
  /\ table' = Empty /\ old' = Empty
  /\ phase' = "idle" /\ todo' = {}
  /\ UNCHANGED view

Loop == \/ \E i \in todo : Merge(i) \/ Import(i) \/ Overflow(i)
        \/ Proceed
        \/ \E d \in todo : DeleteRoute(d) \/ AddRoute(d)

Next == \/ \E v \in Views : Recalculate(v)
        \/ Loop
        \/ \E h \in Hops : LinkFlap(h)
        \/ Restart

Spec == Init /\ [][Next]_vars

-----------------------------------------------------------------------------
(* Properties                                                              *)

\* The kernel has exactly the routes of the table, but for networks whose last
\* call failed, whose link flapped, or that a process or calculation that ended early
\* left there: an error is logged and forgotten (routing.rs:95-107), and must not
\* spread further.
Mirrored ==
  phase = "idle" => \A d \in Nets \ suspect : kernel[d] = Route(table, d)

\* A route that stays the same is never taken out of the kernel by a
\* recalculation, however often the table is emptied and filled again.
Undisturbed ==
  [][\A d \in Nets : (/\ phase \in Applying /\ todo' # todo /\ phase' = phase
                      /\ Route(old, d) = Route(table, d))
                        => kernel'[d] = kernel[d]]_vars

\* Whatever the order of the maps: an offer never loses to one of a worse path
\* type (RFC order intra-area, inter-area, type 1, type 2; routing.rs:265-275).
BestType ==
  phase = "idle" /\ table # Empty =>
    \A i \in view.intra \cup view.inter :
      table[i.dest] # none /\ table[i.dest].type <= i.type

\* An AS-external route goes where some route of this calculation goes, even
\* when it was derived from an external route that has been replaced since
\* (get_routing reads the table that is being filled, routing.rs:68-94).
ExternalHops ==
  phase \in {"idle"} \cup Applying =>
    \A d \in Nets : (table[d] # none /\ table[d].type >= AsExternalT1) =>
      \E e \in Dests : /\ table[e] # none /\ table[e].type <= AreaExternal
                       /\ table[e].hop = table[d].hop
=============================================================================
