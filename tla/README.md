# rust-ospfd: a TLA+ verification project

`rust-ospfd` is an OSPFv2 daemon on tokio.  This directory models its protocol
core: the neighbor and interface state machines, the database exchange, the
election of the DR, flooding, the link state database and its timers, the locks
all of them take, and the shortest path tree and routing table that come out of
it.  Paths below are relative to `src/ospfd/` unless they start with another crate's name.

## 1. The system

All protocol state lives behind tokio mutexes: one per interface
(`AInterface = Arc<Mutex<Interface>>`), one for `DATABASE` (`ProtocolDB`), one
for `STATIC_DB` (AS-external LSAs).  Every received packet is handled in a
task of its own (`handler/mod.rs:32`), so packets that arrive in order may be
handled out of order.  A handler holds the interface lock from its first line
to its last (`lsu` drops it once, to take all of them), so a handler is one
atomic step, and everything a *spawned* task does is a later step.

| Component | State | Operations | Talks to |
|---|---|---|---|
| Neighbor state machine (`neighbor/state.rs`, `mod.rs`) | `state`, `master`, `dd_seq_num`, `dd_last_packet`, `dd_rxmt`, three LSA lists | HelloReceived, 2-Way, NegotiationDone, ExchangeDone, BadLSReq, LoadingDone, AdjOk?, SeqNumberMismatch, 1-Way, InactivityTimer (KillNbr, LLDown, Start are never raised) | DD/LSR/LSU/hello handlers, interface state machine |
| Retransmission tasks (`neighbor/pair.rs`, `util.rs`) | `dd_rxmt` handle, `lsr_handle` master and child | spawn, send, abort, `is_finished` | neighbor record, network |
| DD and LSR handlers (`handler/dd.rs`, `lsr.rs`) | (neighbor record, database) | one packet | state machine, database, sender |
| LSU and ack handlers, flooding (`handler/lsu.rs`, `ack.rs`, `flooding.rs`) | database, retransmission and request lists of every neighbor | one LSA, one ack | all interfaces, database |
| Hello handler, interface state machine, election (`handler/hello.rs`, `interface/state.rs`, `mod.rs`) | `state`, `dr`, `bdr`, neighbors, timers | InterfaceUp/Down, WaitTimer, BackupSeen, NeighborChange, Loop/Unloop, hello timer, retransmission timer | neighbor state machine (AdjOk?) |
| Interface poller (`interface/listen.rs`) | - | every 8 s: up, down or loop, then originate LSAs | interface state machine, `gen_lsa` |
| LSA order (`ospf-packet/src/lsa.rs`) | - | `cmp`, `eq` | everything that compares instances |
| Database and LSA lifetimes (`area/mod.rs`, `area/lsa.rs`) | LSA map, one expiry task per entry | insert, remove, get, need_update, refresh_lsa | routing |
| Origination (`gen_lsa.rs`) | - | router, network, summary LSA | database, flooding |
| Shortest path tree (`area/tree.rs`) | tree | Dijkstra, next hops, routes | routing table |
| Routing table (`database/routing.rs`), kernel (`ospf-routing`) | own table, kernel table | recalculate and difference, delete all on exit | kernel |
| Locks (`database/mod.rs`) | mutexes | upgrade_lock, get, get_interfaces_impl | every task |
| Capture, sender, codec, CLI, logging, macros | - | I/O, (de)serialisation, line editor | not modelled |

What is hard here, and what makes each part correct:

- *Neighbor, tasks, exchange.*  Packets are reordered, tasks outlive the state
  that spawned them, either end may give up, restart or be torn down by an
  election at any time.  Correct means: the two ends agree who is master, a task
  drives every exchange that has to be driven, the request in flight is the one
  the list waits for, no request is forgotten, nothing of an old exchange leaks
  into a new one, `Full` means synchronised, and a disturbed exchange recovers.
- *Flooding.*  Copies, acknowledgments (explicit, delayed, implied) and
  retransmissions cross each other on several networks.  Correct means: what a
  neighbor lacks is listed for it until the neighbor says otherwise, nothing is
  acknowledged that was not installed, everything arrives, and it comes to rest.
- *Election.*  Every router decides alone, from the last hello of each neighbor.
  Correct means: no role outlives the neighbor that has it, adjacencies follow
  roles after any event, a newcomer does not depose the DR, claims are honoured.
- *Tree.*  The database is what has arrived so far, ties in the heap decide the
  order, next hops are merged after they were copied.  Correct means: a node
  popped is final, distances are least, every next hop is a neighbor on the way.
- *Database and origination.*  An expiry task per entry races with whoever looks an
  entry up twice, and removes it while its own handle is in it.  Correct means: an
  entry gives way to newer instances only, what a handler has looked up is still
  there, every entry that ends is removed, the router's own LSA always comes back,
  and routes do not rest on what is gone.
- *LSA order.*  `Ord` over three fields, one of which grows.  Correct means: an
  order at every moment, and known limits for what is compared now and used later.
- *Routes.*  The kernel is changed call by call, and calls fail.  Correct means: the
  kernel has the table's routes but for the failures, unchanged routes are not
  interrupted, the best path type wins in any order of the hash maps.
- *Locks.*  Blocking and awaiting, one lock, all, or none before DATABASE, tasks
  aborted in the queue.  Correct means: no circle, no starvation, and nothing looked
  up before `upgrade_lock` is relied on after it.

`PROJECT.json` lists the hazards line by line with the property that covers each.

## 2. The plan

| # | Module | What | State |
|---|---|---|---|
| 1 | `Neighbor`, `Adjacency`, `DatabaseSync`, `AdjacencyProofs`, `AdjacencySyncProofs` | the exchange between two routers, what it promises, proofs up to the refinement | done |
| 2 | `Flooding`, `FloodingProofs` | reliable flooding over broadcast networks, proofs about its safety | done |
| 3 | `DrElection`, `DrElectionProofs` | hello, interface states, election, proofs | done |
| 4 | `ShortestPath`, `ShortestPathProofs` | the tree: heap, edges, next hops; against a reference definition; proofs | done |
| 5 | `LsaOrder` | `cmp` and `eq` of headers: where they are an order, and for how long | done |
| 6 | `LsDatabase`, `LsDatabaseProofs` | entries with expiry tasks, the LSU handler's separate lookups, origination up to the last sequence number; extends `LsaOrder`; proofs about both | done |
| 7 | `RoutingTable`, `RoutingTableProofs` | the merge of routes and the difference applied to the kernel | done |
| 8 | `LockProtocol`, `LockProtocolProofs` | handlers, timers, poller and expiry as sequences of lock and unlock | done |
| 9 | contents of LSAs | router- and network-LSA from the roles of `DrElection`, and when a network becomes usable | open |
| 10 | `Flooding` over several networks with a restart | liveness has too many states for one run | open |

Modules compose as follows: `Adjacency` is two `Neighbor` records on a link and
implements `DatabaseSync`; `LsDatabase` compares with `LsaOrder`; the critical
sections that `LsDatabase` interleaves, and the handlers that `Adjacency`,
`Flooding` and `DrElection` take for atomic, are what `LockProtocol` provides;
`RoutingTable` takes the trees that `ShortestPath` calculates as its input.

## 3. The modules

### Neighbor, Adjacency and DatabaseSync

`Neighbor` is the record `Neighbor` of `neighbor/mod.rs` with every event that is
raised as an operator on it.  A task is part of the record: `rxmt` is the DD
task (`Handle`) or the slave's last packet (`Packet`), `lsr` is where the request
sender stands (`peek`: about to look at the list; `wait`: its child resends;
`ended`: returned or aborted, but not yet finished; `none`), `child` is the LSA
the child asks for.  `Adjacency` puts two routers on a link; one action is one
handler (`Hello`, `HandleDD`, `HandleLSR`, `HandleLSU`), one iteration of a task
(`ResendDD`, `PeekRequest`, `ChildAborted`, `SenderFinished`, `ResendLSR`), or
a disturbance: an election that changes `judge_connect`'s answer (`Reelected`),
the inactivity timer, a restart that persists nothing, an LSA whose lifetime
ends, a lost packet.  `HandleDD` is the match of `handler/dd.rs` with one
operator per arm.

Abstractions: a router's id is its number, so 2 becomes master; LSAs are keys
with an instance number; the order in which a list is filled is the fixed order
of the hash map (`HashOrder`); options, MTU and LS types agree; an update carries
one LSA; the hello handler reads the peer's record directly (its periodic hello
is `DrElection`'s matter).

`DatabaseSync` is the promise: a router learns LSAs its peer has, and becomes
Full only when it has caught up with what the peer started with.  `Adjacency`
implements it: `Promise == INSTANCE DatabaseSync WITH full <- ...` maps a router's
`full` to "state is Full", and `PromiseKept` is checked as a property.

An update may also be discarded by step 5a, because a flood over another
adjacency installed an older copy less than MinLSArrival ago; the model has no
clock and no third router, so this is one of the faults ("young").

### Flooding

The networks of one area with settled roles and Full adjacencies.  `db[r][k]` is
an instance number: `2n` the n-th instance, `2n+1` the same at MaxAge.  `rxmt`
holds the entries of all retransmission lists, `fresh` the copies younger than
MinLSArrival.  `HandleLSU` is `handle_one` with one operator per way through it
(`Acknowledge` step 4, `Discard` 5a, `Install` 5b-5f, `Duplicate` 7, `SendBack`
and `Ignore` 8), `HandleAck` is `ack.rs`, `Retransmit` the timer of
`interface/state.rs`, `Flushed` and `Expire` the end of a lifetime.  `Flood`,
`Listed` and `FloodedOn` are `flooding.rs`.  `Restart` is a restart together with
the exchange that follows: both ends' lists are cleared and every neighbor
sends what it has.

Abstractions: broadcast networks only; one LSA per packet; packets are reordered
and lost, not duplicated; MinLSArrival is 0 where no LSA is originated twice.

### DrElection

The routers of one broadcast network.  `iface[r]` is the interface record with
its neighbors, `air[s]` the last hello of `s` and who may still receive it (ten
seconds pass between two hellos, so there is only one).  Operators are the
events of `interface/state.rs` and of the lower half of `neighbor/state.rs`;
`Handled` is `hello.rs`.  `ExStart` and above are one state, `Adj`.  Actions are
the poller's outcomes, the wait, hello and inactivity timers, a hello or a DD
packet received, a hello lost.  The loop of `select_dr` is not modelled as one:
candidates are not collected again, so every round elects the same.

Abstractions: a router's number is its id and its address; intervals, masks and
options agree; no NBMA and no point-to-point link.

### ShortestPath

One calculation of `ShortPathTree::calculate`.  `db` is the copy of the database
(`links` of routers, `attached` routers of networks, some of them missing),
`tree` the nodes with distance and next hops, `candidate` the heap.  A step pops
one candidate: `PopAgain` (lines 72-77), `PopUnknown` (78) or `PopNew` (79-103).
`Edge` and `Weight` are the test and the sum of lines 88-95, `Before` the derived
order of `HeapNode`, whose flag is the kind of the parent although its comment
calls it `is_network`.  A node address is a number, ordered as `NodeAddr`; the
next hop `<<r, i>>` is the address of router `r` on its `i`-th link.

Abstractions: candidates that differ in their next hops only are popped in any
order; a node does not remember its LSA; no overflow (metrics have 16 bits,
distances 32).  The calculation ends, so this run may stop.

### LsaOrder

`Newer` and `Older` are the paths through `cmp` that return Greater and Less, each
written down for itself; `Same` is `eq`; `Aged` is what `update_lsa_age_header`
does to a header.  A header is its sequence number, checksum and age.

### LsDatabase

One area of one router.  `db` maps an LSA to its entry, with its age of now and
the state of its expiry task.  `pc` is where the LSU handler or the poller is
between two uses of `DATABASE`: both hold all interface locks, so there is one of
them at a time, but no interface lock keeps an expiry task out.  The handler's
actions are `Receive` (step 4), `Compare` (5, 6), `Lookup` (5a), `Install` and
`InstallRecalc` (5d), `Flush` (5f) and `Answer` (7, 8); the poller's are `Poll`,
`Originate`, `OriginateRecalc` (`gen_lsa_impl`).  An expiry task sleeps, runs
(`Wake`), removes its entry (`Expire`) and with it the handle that aborts it, and
recalculates if it does not have to wait for the lock any more
(`RecalculateAndEnd`).  A task that runs when its entry is replaced, and does not
wait, is not stopped by the abort: it is `overtaken` and removes the newer entry
(`RemoveOther`).  `routed` and `stale` record what the routes rest on.

Abstractions: a tick is MaxAgeDiff, 900 s, so a refresh is 2 ticks and a lifetime
4; what is due within a tick happens before the next; MinLSArrival and the 8 s of
the poller are "within the tick"; the checksum stands for the contents; the other
interface changes are `Change`; step 6 (the LSA is on the request list) is a
choice; AS-external LSAs are kept by the same code in `STATIC_DB`.  A dead poller
stays dead, as in the code, so the run may stop.

### RoutingTable

`table` and `kernel` are maps from destinations to routes.  `phase` is the loop of
`recalculate` that runs, `todo` what it has yet to visit, in any order, because
hash maps have none.  `Merge` is `and_modify`/`or_insert` with `BetterThan`,
`Import` the body of the AS-external loop, `DeleteRoute` and `AddRoute` the calls,
which succeed, fail, or, for `AddRoute`, delete a route in the way and then fail.
`LinkFlap` is the kernel dropping the routes of a link; `Restart` is a crash, or
the `exit` command, whose task deletes any part of the routes before the process
is gone.  `suspect` are the networks for which something went wrong since their
last successful call.

A network is its address and the length of its mask (`Base`, `Length`).
`GetRouting` is `get_routing`, which tries every length with the address it is given and
masks nothing: it finds networks that begin at a forwarding address (a host route, for
one), and the LSA of any other is skipped.  `Masked` and `Overflow` are what `mask()`
does to 0.0.0.0/0: it shifts a 32-bit word by 32, so a release build makes the host
route 0.0.0.0/32 of it, and a debug build panics (`server/upload.sh` installs both).

Abstractions: the kernel has one route per network (`rtentry` without metric, and
`add_route` removes what is there, as `routing.rs:130-131` says); a recalculation
holds `DATABASE`, so there is one at a time; trees and LSAs are inputs (`Views`),
and have no 0.0.0.0/0 among them: it has been through `mask()` before
(`area/tree.rs:143-145`, `185`), and the panic there is left out.

### LockProtocol

Locks are numbered in the order in which they nest: the interfaces, `DATABASE`,
`STATIC_DB`.  A task does one job after the other.  `Begin` asks for its own
interface (or, for an expiry task, `DATABASE`); `Serve` is a handler or timer that
works under one interface; `Upgrade`, `TakeNext`, `HasAll` are `upgrade_lock` and
`get_interfaces_impl`; `Known` is the second lookup of the sender, `Panic` its
unwrap; `Use`, `UseStatic`, `EndUse` are statements on the database; `Abort` is an
abort of a timer or expiry task in a queue.  `nbr` says whether the neighbor that
sends packets is known on an interface.

Abstractions: mutexes are fair queues, as tokio documents; guards that are dropped
together are passed on in one step; a job uses the database at most `MaxSections`
times; the thread pool has a thread for every task that blocks.  The command
line's tasks are not included (section 7).

## 4. What the runs check

| Run | Bounds | Shows |
|---|---|---|
| `exchange` | two LSAs, the slave has both in newer instances, pages of one, two packets in flight in any order, clock at 0 or 10, one fault of election, timeout, restart, loss | `Roles`, `Driver`, `ChildAsksFront`, `CleanStart`, `Synchronised`, `RequestsNotForgotten`, and `PromiseKept` (implements `DatabaseSync`) |
| `recovery` | an LSA missing at one end, one older at the other, ordered link, one of timeout, restart, expiry, too early an update | `Converges`: Full for good |
| `young` | the same, too early an update only | violated: Full without an LSA that was asked for |
| `lan` | DR, BDR, DROther; the DROther originates; one loss | `UnackedListed`, `NoFalseAck`, `Reaches`, `ComesToRest` |
| `lifetime` | two routers, two faults of restart and expiry, MinLSArrival in force | `Forward`, `FallsSilent`; nothing removed is sent (`TypeOK`) |
| `relist` | a chain of three, two instances | violated: step 5c unlists what step 5b listed |
| `election` | three routers of rising priority, coming up at any time, no fault | `NoPreemption`, `AdjacencyFollowsRoles` |
| `flaps` | two routers, three faults of link down, loop, silence, loss, early DD packets | `ElectedAreHeard`, `AdjacencyFollowsRoles` |
| `tree` | 16320 databases of three routers, two transit networks, a stub; up to two links per router and network, costs 0 to 3, an LSA missing | `NeverCloser`, `ShortestWhenDone`, `OwnLinksOnly`, `Shortest`, `HopsLeadCloser` |
| `lsdb` | the own LSA and another's, two contents, two arrivals (young, ending, at the end, own of an earlier life), one change, four ticks, three sequence numbers | `PanicsOnlyDying`, `StaleBound`, `Forward`, `Restored`, `Expires`; nothing beyond the last sequence number (`TypeOK`) |
| `routes` | two networks that begin at one address, a default route, a border router, forwarding addresses that do and do not begin a network, two next hops and a direct link, 32 combinations of trees, summary and external LSAs, three recalculations, two faults | `Mirrored`, `Undisturbed`, `BestType`, `ExternalHops` |
| `locks` | two interfaces; an LSU handler and a timer on the first, the poller and a packet on the second, an expiry; two uses of the database in a job | `Unblocked`, `SenderStays`, `Served` |

Why the bounds are enough.  Pages of one make an exchange of two LSAs take the
multi-packet path that the code takes at 8 and 12.  Two packets in flight are
what a duplicate, or a late packet of an old exchange, takes; the third would
have to survive two exchanges.  A clock of 0 hits the `dd_seq_num == 0` test;
values far apart stand for exchanges that do not share sequence numbers (see
section 7).  Three routers have all three roles on a LAN, and the smallest
network on which a BDR leaves flooding to the DR.  Three faults let two routers
lose each other, meet and lose each other again.

The databases of `tree` include each kind of disagreement between two LSAs
(a link listed by one end only, different costs, two links to one network) and
paths of equal cost over either network.

`lsdb`: four ticks are a lifetime, so an LSA that arrives young is refreshed, ends
or is replaced within the run; two arrivals let one overtake the expiry of the
other; three sequence numbers let the poller run into the last one.  `routes`:
three recalculations let a route come, change its gateway and go, with a failed
call, a flap or a restart anywhere between.  `locks`: every kind of task, on both
sides of the lock order; that more tasks or interfaces add nothing is proved, for
the safety half.

`Heard` (election): the wait timer, 20 s, outlasts two hellos of every
router that is up; without it routers elect before they have met anyone, which
the `flaps` run includes.  `DDFirst` is off in the runs with three routers for
the sake of their size; `flaps` and the theorems have it on.

## 5. Fairness

- Handlers and tasks (`Adjacency!Fairness`, `Flooding!Fairness`): weak fairness of
  every packet in flight and every timer: tokio runs a task that is ready, and
  timers fire.  A hello is repeated every 10 s.  The resending tasks of an
  exchange are strongly fair because `MaxInFlight` may disable them again and
  again, which the real link does not.
- `Answer`: strong fairness of answering an outdated LSA, one condition per
  router.  A copy may be ignored because the newer one was sent within
  MinLSArrival (1 s), but it is repeated after the retransmission interval (4 s),
  so some copy finds the second over.
- `LsDatabase!Fairness`: the handler, the poller and every expiry task go on when
  they can: `listen_interface` loops for ever, and an LSU handler waits for
  nothing but locks.  Time is not fair, and need not be.
- `LockProtocol!Fairness`: a task that has its lock goes on.  No job need begin, and
  no lock is promised to anyone: that it comes (`Served`) is due to the queues.
- Nothing makes a router originate, restart or lose a packet.

## 6. What is proved

`AdjacencyProofs` (any keys, databases, pages, clock values, bounds, with or
without reordering): `TypeOK`, `Roles`, `Driver`, `CleanStart`, `ChildAsksFront`
are invariants.  The inductive invariant is `TypeOK /\ AllGood`, where `AllGood`
says of each neighbor record that the role in Exchange and Loading is the one
the ids decide, that a record in ExStart is not yet master, that a task resends
exactly when the router is the one who drives the exchange, that a record below
ExStart is clean (`seq = 0`, nothing listed, no packet kept, no task running), that a
Full record has an empty request list, and that the child task waits for the
front of that list.  The invariants need each other: a restarted
exchange begins right only because a clean record has `seq = 0`, and
accepting a packet keeps the driver right only because of the roles.

`AdjacencySyncProofs` (the same constants, faults other than expiry and too early
an update) says what the exchange achieves.  All of it rests on one description of
a step: `Effect(r)` says that r's record answers a packet as slave (`Answers`), takes
an answer as master (`Advances`), loses requests to an update (`Prunes`) or gets
nothing new (`Quiet`), and what is sent; `DbEffect(r)` the same of the database;
`StepEffect` and `StepDbEffect` that every handler, task and disturbance does
just this.  `Genuine`, the further invariant, says that whatever is announced,
asked for or sent is an instance one of the routers started with, and not older than
what the router it comes from started with.

- `RequestsRemembered`: `RequestsNotForgotten` is a property of every behaviour.
  With either of the two faults it is false, as the run `young` shows.
- `SlaveCatchesUp`: the slave is synchronised when it finishes, although both may
  restart.  Every master's packet in flight belongs to a log `H` of the packets the
  master sent from its first number `s` on (`Log`): what the slave has heard is a run
  of them without gaps, because it takes the next number only, and the pages of such a
  run, with what is yet to be paged, make up the master's database (`Hears`).
- `ExchangeSynchronises`: so is the master.  It may take an answer of an
  earlier exchange for one of this, so it does not hear one list of pages.  But the
  answer numbered `x` is a page of the slave's list that begins no later than
  `Quota(x - s)`, as the slave takes no more than a page off its list for a packet,
  until the last.
  What the master misses is therefore further down in the order of the slave's
  database (`Rank`), where the slave has yet to go (`Told`).
- `ExchangeKeepsPromise`: the refinement `PromiseKept`.  Becoming Full needs
  the two theorems above; a step in which a database grows needs that only instances
  the peer started with are learned (`LearnsOwn`).

The last three take `[][StartsFresh]_vars` as a hypothesis: an exchange starts from a
number beyond those still in use.  This is what the clock is for, and what it
does not guarantee (section 7).  The last two also take `[][~Restart(1)]_vars`: the
slave is not restarted.  TLC shows that each is needed (section 7); the master may
restart, and links may fail, time out and be torn down by elections at will.

`DrElectionProofs` (any routers, priorities, faults): `TypeOK`, `ElectedAreHeard`
and `AdjacencyFollowsRoles` are invariants.  The argument: whatever an interface
looked like, `SelectDr` leaves it good (`SelectDrGood`), because candidates are
heard and AdjOK? runs for every neighbor.  The hello handler may upset only the
adjacency with the sender, and only when the sender makes or withdraws a claim
(`HelloReceivedEffect`); then `DrHeard` or `BdrHeard` elects (`ClaimsHeardGood`).
The strengthening is `Idle`: an interface that is not in an elected state has no
DR, without which losing a neighbor while Waiting could leave its role behind.
`DrStays` proves `NoPreemption` of every step, without hypotheses.  It needs that
whoever says it is DR may be elected (`AllEligible`: its own record, its hello in
flight and what neighbors recorded of it agree that its priority is not 0); then
an election keeps a DR that claims to be, unless another one claims too.
That an election has a result at all (`BestExists`) is the maximum of finitely
valued priorities, then ids, by well-foundedness of the naturals.

`ShortestPathProofs` (any routers, networks, costs and databases; finitely many
nodes): `TypeOK`, `NeverCloser`, `ShortestWhenDone`, `OwnLinksOnly`, `Shortest` and
`HopsLeadCloser` are invariants.  The
inductive invariant is that of Dijkstra's algorithm: no candidate is nearer than
a node of the tree (`NeverCloser`, which needs costs that are not negative, and
the heap's order), every distance comes from an edge of the tree (`Derived`),
every edge out of the tree is satisfied or has a candidate (`Relaxed`; without
it, popping a candidate could lose a path), and the first node is the router
itself (`Begun`).  `OwnLinksOnly` needs the same of the candidates
(`HopsKnown`).

`Shortest` compares the tree with a definition that knows no tree and no heap:
`Paths(s)[i]`, the least lengths of the paths from `s` of at most `i` edges.  That
this recursion has a solution is proved from finite pieces of it (`PathsStep`),
and what it computes by the least counterexample.  No path is shorter than the
tree says, by the equations (`NoPathShorter`); the converse does not follow from
the equations when links are free, so it is an invariant of its own: every
distance in the tree or the heap is that of a path with at most as many edges as
the tree has nodes (`Reached`).  The same of the rest of the way from each next
hop (`HopsLead`) makes `HopsLeadCloser`.

`FloodingProofs` (any routers, networks and LSAs in any topology): `TypeOK` and
`Forward` hold whatever expires, restarts or is lost.  Where packets are lost and
nothing else fails (`LossOnly`), `NoFalseAck` is an invariant; the strengthening
is that nothing ever reaches MaxAge (`Alive`), that the originator has the
newest instance (`Source`; without it step 5f could flush), and that whoever sent
a packet of either kind has what it carries (`Held`).  The assumption is needed: a
router that acknowledges and then restarts, or lets the copy expire, has it no
more.  `UnackedListed` follows for LSAs that are originated once (`MaxInst <= 1`):
an entry leaves a list only for a neighbor that has the only instance there is.
The run `relist` shows that it fails for the second instance.

`LsDatabaseProofs`, of the order (any MaxAge and MaxAgeDiff): at one moment `Newer` is a strict
order and `Older` its converse (`Antisymmetric`, `Asymmetric`, `Transitive`), but
`Same` is not transitive (`SameIsNoEquivalence`).  What is decided by sequence
number or checksum stays so while both copies age (`OrderSurvivesAging`); what
is decided by age turns round when the first copy reaches MaxAge (`AgeOrderTurns`).

`LsDatabaseProofs`, of the database (any LSAs, contents and bounds): `TypeOK`, `PanicsOnlyDying`,
`StaleBound` and `Forward`.  `StaleBound` rests on the router's own LSA: it was
calculated with when it was installed, so the routes are never stale for longer
than it is old (`OwnIsYounger`), and a poll has just found it younger than
LsRefreshTime (`PolledIsYoung`).  `PanicsOnlyDying` rests on `RunningIsDying`, a
task runs only at the end of a lifetime, and `ComparedCopy`, the copy the handler
compared with is there unless it was at that end or an overtaken task ran.

`RoutingTableProofs` (any destinations, trees and LSAs): `TypeOK`, `Mirrored`,
`Undisturbed`, `BestType`, `ExternalHops`.  Each loop of `recalculate` has its own
invariant over what it has visited and what is still in `todo`: outside `suspect`
the kernel has what the calls made so far leave of the old routes and bring of
the new (`AsExpected`, for `Mirrored`), what has been merged has its place with
its type or a better one (`OffersPlaced`, for `BestType`), and every external route
goes where some internal one does (`ExternalsRooted`, for `ExternalHops`).

`LockProtocolProofs` (any number of interfaces and tasks): `TypeOK`, `Unblocked`,
`SenderStays`.  The inductive invariant is `TypeOK`, `QueueInv` (a lock somebody waits for is taken, and nobody
is twice in its queue), and `TaskInv` for each task: what it may hold and wait for
in its phase, and that it waits for nothing below what it holds.  Given that, of the
tasks that wait, the owner of the highest lock waited for does not wait itself, so
some job can go on.

Every safety property of the passing runs is a theorem, under the hypotheses said
above.  Only model-checked: liveness (`Converges`, `Reaches`, `ComesToRest`,
`FallsSilent`, `Restored`, `Expires`, `Served`), because the prover handles neither
fairness nor ENABLED.  The type invariants of `DrElection` and `LockProtocol` are
proved, and no run lists them.

## 7. Findings

Shown by runs: `relist` (`handler/lsu.rs:127`) and `young` (`handler/lsu.rs:88`).
`PROJECT.json` quotes what each contradicts.

### Discrepancies

Properties of the modules that TLC finds violated, and how to see it:

- `Adjacency!SlaveHoldsReply` (`neighbor/state.rs:115`): `exchange_done` drops the
  packet the slave keeps.  When the master's last packet is repeated, the slave has no
  answer (the error of `handler/dd.rs:57-60`).  `exchange` without faults.
- `Adjacency!LoadingEnds` (`neighbor/pair.rs:49`): no request sender is started while
  the last one is not finished, but that one may have found the list empty and
  be about to end.  Nobody asks then, and Loading lasts.  `recovery` with `Own <- MasterHasBoth`,
  `MaxInst = 1`, `PromptEnd = FALSE` and no faults; the liveness runs of
  `Adjacency` assume `PromptEnd`.
- `Flooding!Agree` (`handler/lsu.rs:149`): a restarted router that gets its own LSA
  of the last run back sends the flush to the neighbor it came from, once, and
  floods the old instance to the others.  `relist` under `FairSpec`, with
  `MaxInst = 1` and one fault `restart`.
- `DrElection!ClaimHonoured` (`neighbor/state.rs:91`, `handler/hello.rs:27`): the claim of
  a neighbor is recorded from hellos that do not name the router yet, which
  elect nobody; when one does, the claim is no change any more.
  `election` with `Priority <- Even`.
- `Adjacency!Synchronised` (`handler/dd.rs:52-53`): a duplicate is recognised by
  flags and sequence number, not by its headers.  In a first exchange the slave
  learns `a`, and a timeout ends it before the master learns `b`.  In the second the
  slave answers the opening packet with the page `a`, is restarted and left with `b`,
  and answers the repeated opening packet with `b`: the master takes the first answer,
  drops the other, and is Full without `b`.  `exchange` with `Own <- OneEach`,
  `MaxInst = 1`, `Reorder = FALSE`, `PromptEnd = TRUE`, `MaxFaults = 2`,
  the faults `timeout` and `restart`, and start values that rise
  (`[][StartsFresh]_vars`).  With one fault it holds.

Seen in the code and modelled as it is, or outside the models:

- DD sequence numbers start at the clock in seconds (`neighbor/state.rs:258`).
  With `StartSeq` values closer together than an exchange is long, `Synchronised`
  fails: a late reply of the old exchange passes for one of the new.
- `handler/ack.rs:10` does not compare instances: a late acknowledgment of the old
  instance takes the new one off the list.
- `refresh_lsa` (`area/mod.rs:184-192`) leaves retransmission lists alone,
  although `area/lsa.rs:4-5` says an LSA leaves them together with the database;
  dead entries can fill the page of eight (`interface/state.rs:187`).
- Over two parallel networks a flushed LSA can be sent back and forth.
- A router of priority 0 becomes DROther without an election
  (`interface/state.rs:87`) and keeps adjacencies of neighbors it met while Down.
- `interface/mod.rs:171` sets the cost to 0 for good.
- An expiry task that is overtaken removes the newer instance
  (`LsDatabase!RemoveOther`), although `area/lsa.rs:19-20` has the old entry's task
  aborted; it takes `DATABASE` without an interface lock (`area/mod.rs:187`), against
  the first rule at `database/mod.rs:43`.
- At MaxSequenceNumber the assert of `gen_lsa.rs:163` ends the poller, and
  nothing refreshes LSAs or routes any more.
- A neighbor can be forgotten while `upgrade_lock` waits; the handler's second lookup
  (`handler/lsu.rs:55`) then panics and the packet is lost.
- The `exit` command spawns `delete_all_routing` and ends the process at once
  (`command.rs:344-357`): some routes stay in the kernel.
- A kernel call that failed, or a route lost in a flap shorter than the poller's
  8 s, is not repeated while the gateway stays the same.
- `get_routing` (`database/routing.rs:111-116`) looks a forwarding address up as if it
  were the address of a network: unless a network of the table begins
  just there, an AS-external LSA with a forwarding address is skipped.
- `Ipv4AddrMask::mask` (`database/routing.rs:174-177`) shifts by 32 for a mask of length 0.
  An AS-external default route becomes the host route 0.0.0.0/32 in a release
  build; in a debug build the recalculation panics, the kernel is not told of
  the new table, and the routes of the old one that are not in the new one are never
  deleted.
- `better_than` (`database/routing.rs:234-245`) never prefers the lower cost where
  `cost_t2` is equal, against the comment at `routing.rs:41-42`, and is no order; which of two
  routes of one type wins depends on the hash map.
- `gen_lsa.rs:33-35` originates a network-LSA with any neighbor at all, the
  comment asks for an adjacent one; nothing withdraws it.
- The command line calls `block_on` and `blocking_lock` from async code
  (`command.rs:176-180`, `219`), which tokio answers with a panic.  From reading
  only; `LockProtocol` has no such task.
- `area/tree.rs:94` adds the larger cost of the two directions, so a transit
  network is paid for at both ends and distances are larger than the sum of
  outgoing costs.  All routers that run this code agree, and forwarding makes
  progress (`HopsLeadCloser`).
- `area/tree.rs:112` finds next hops on networks only: behind a point-to-point
  link there is none, or that of a foreign network.

## 8. Not modelled

- Capture, the socket side of the sender, the codec and its macros, logging,
  process start and the daemon loop: I/O, parsing and display.
- The command line: it displays the state the models have.  Of its commands that
  change something, `exit` is part of `RoutingTable!Restart`; an interface's cost is an
  input (`Views`); a change of area takes the interface down and up
  (`DrElection`) and puts an empty area in the place of the one with that id.
- The contents of router-, network- and summary-LSAs (`gen_lsa.rs`): the models
  that compare and flood LSAs need their instance only, and `ShortestPath` takes
  any contents as its input.
- Point-to-point, NBMA and virtual links, AS-external LSAs in flooding: the
  models have the one kind of network and LSA the core logic is about.
- `Flooding` over several networks together with restarts and liveness: the
  states are too many for one run; `FloodingProofs` covers the safety of any
  topology.
- The thread pool: a task that blocks a thread is given one of its own.
