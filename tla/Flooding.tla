------------------------------- MODULE Flooding -------------------------------
(***************************************************************************)
(* Reliable flooding in one area: the LSU and LS acknowledgment handlers,  *)
(* flooding itself, the retransmission timer of an interface, origination  *)
(* and the end of an LSA's lifetime.  Every adjacency is Full and the      *)
(* DR and BDR of every network are settled (modules Adjacency and          *)
(* DrElection are about how they get there).                               *)
(*                                                                         *)
(* The LSU handler holds the locks of all interfaces, so it is one step.   *)
(* A packet carries one LSA and is handled by a task of its own, so any    *)
(* packet in flight may be handled next.  An instance is a number: 2n is   *)
(* the n-th instance of an LSA, 2n + 1 the same instance at MaxAge, 0 no   *)
(* instance at all; the larger number is the newer instance (LsaOrder).    *)
(***************************************************************************)
EXTENDS Naturals, FiniteSets

CONSTANTS
    Router,
    Net,          \* broadcast networks of the area
    On,           \* On[x]: the routers with an interface on x
    DR, BDR,      \* DR[x], BDR[x]: the designated routers, or NoRouter
    NoRouter,
    Key,          \* identities of LSAs (LsaIndex)
    Origin,       \* Origin[k]: the router that originates k
    HashOrder,    \* HashOrder[k]: where a retransmission list has k
    RxmtPage,     \* LSAs in one retransmission (8)
    MinLSArrival, \* 1 second; 0 where no LSA is originated twice
    Spaced,       \* an LSA changes only after the last change has settled
    MaxInst,      \* bound: how often an LSA is originated
    FaultKinds,   \* which faults may happen
    MaxFaults     \* bound: how many of them

ASSUME OnAssumption == On \in [Net -> SUBSET Router]
ASSUME RolesAssumption ==
    /\ NoRouter \notin Router
    /\ \A x \in Net : DR[x] \in On[x] \cup {NoRouter} /\ BDR[x] \in On[x] \cup {NoRouter}
ASSUME OriginAssumption == Origin \in [Key -> Router]
ASSUME HashOrderAssumption == HashOrder \in [Key -> Nat]
ASSUME TimeAssumption == MinLSArrival \in {0, 1} /\ Spaced \in BOOLEAN
ASSUME BoundAssumption == RxmtPage \in Nat /\ MaxInst \in Nat /\ MaxFaults \in Nat

Instance == 1..(2 * MaxInst + 1)
AtMaxAge(i) == i % 2 = 1
MaxAged(i) == 2 * (i \div 2) + 1
Entry   == [by : Router, on : Net, to : Router, key : Key]
Packet  == [type : {"LSU", "ACK"}, on : Net, from : Router, to : Router,
            key : Key, inst : Instance]

VARIABLES
    db,      \* db[r][k]: the instance of k in r's database
    rxmt,    \* entries of the retransmission lists: by lists key for to
    fresh,   \* <<r, k>>: db[r][k] is younger than MinLSArrival
    net,     \* packets in flight
    faults   \* faults so far

vars == <<db, rxmt, fresh, net, faults>>

Init ==
    /\ db = [r \in Router |-> [k \in Key |-> 0]]
    /\ rxmt = {} /\ fresh = {} /\ net = {}
    /\ faults = 0

---------------------------------------------------------------------------
\* Who is adjacent to whom, and who receives what.

Designated(x) == {DR[x], BDR[x]}

\* The neighbors of r on x in state Exchange or above.
Adjacent(r, x) ==
    IF r \notin On[x] THEN {}
    ELSE {n \in On[x] \ {r} : {r, n} \cap Designated(x) # {}}

\* A DROther sends to AllDRouters, which other DROthers drop; the others send
\* to AllSPFRouters.
Receivers(r, x) ==
    (IF r \in Designated(x) THEN On[x] ELSE On[x] \cap Designated(x)) \ {r}

Send(type, r, x, to, k, i) ==
    {[type |-> type, on |-> x, from |-> r, to |-> n, key |-> k, inst |-> i] : n \in to}

Multicast(type, r, x, k, i) == Send(type, r, x, Receivers(r, x), k, i)

\* The copy r has just installed, until MinLSArrival seconds have passed.
Young(r, k) == IF MinLSArrival > 0 THEN {<<r, k>>} ELSE {}

Fault(kind) ==
    /\ kind \in FaultKinds
    /\ faults < MaxFaults
    /\ faults' = faults + 1

---------------------------------------------------------------------------
\* Flooding (flooding.rs).  s sent the LSA over network y; s = r when r
\* originates it.

\* The neighbors that may lack the LSA: all but the one it came from.
Wanting(r, x, s, y) == {n \in Adjacent(r, x) : ~(x = y /\ n = s)}

Listed(r, k, s, y) ==
    {e \in Entry : e.by = r /\ e.key = k /\ e.to \in Wanting(r, e.on, s, y)}

\* Not back out of the network it came from, when the DR or BDR sent it there
\* or r is the BDR that leaves it to the DR.
FloodedOn(r, s, y) ==
    {x \in Net :
        /\ Wanting(r, x, s, y) # {}
        /\ (x = y /\ s # r) => s \notin Designated(x) /\ r # BDR[x]}

Flood(r, k, i, s, y) ==
    UNION {Multicast("LSU", r, x, k, i) : x \in FloodedOn(r, s, y)}

\* Mutant of Originate: the LSA is installed, but not flooded.
OriginateQuietly(r) ==
    \E k \in Key :
        LET i == 2 * (db[r][k] \div 2) + 2 IN
        /\ Origin[k] = r /\ i <= 2 * MaxInst
        /\ db' = [db EXCEPT ![r][k] = i]
        /\ fresh' = fresh \cup Young(r, k)
        /\ UNCHANGED <<rxmt, net, faults>>

\* gen_lsa_impl: a new instance of r's own LSA, first or next.
Originate(r) ==
    \E k \in Key, y \in Net :
        LET i == 2 * (db[r][k] \div 2) + 2 IN
        /\ Origin[k] = r /\ r \in On[y]
        /\ i <= 2 * MaxInst
        /\ Spaced => /\ \A n \in Router : <<n, k>> \notin fresh
                     /\ \A m \in net : m.key # k
        /\ db' = [db EXCEPT ![r][k] = i]
        /\ fresh' = fresh \cup Young(r, k)
        /\ rxmt' = rxmt \cup Listed(r, k, r, y)
        /\ net' = net \cup Flood(r, k, i, r, y)
        /\ UNCHANGED faults

---------------------------------------------------------------------------
\* The LSU handler (handler/lsu.rs), one disjunct per way through it.  r takes
\* m; n is the neighbor that sent it, x the network it came over.

\* Mutant of NeedUpdate: any other instance replaces the copy.
NeedUpdateIfOther(r, m) == db[r][m.key] # m.inst

NeedUpdate(r, m) == db[r][m.key] < m.inst

\* Mutant of Unknown: whatever r does not have is only acknowledged.
UnknownAtAnyAge(r, m) == db[r][m.key] = 0

\* Step 4: a flush of an LSA that r does not have is only acknowledged.  No
\* neighbor is in Exchange or Loading here.
Unknown(r, m) == db[r][m.key] = 0 /\ AtMaxAge(m.inst)

\* Step 5a: the copy in the database is too young to be replaced.
TooSoon(r, m) == db[r][m.key] > 0 /\ <<r, m.key>> \in fresh

DirectAck(r, m) == Send("ACK", r, m.on, {m.from}, m.key, m.inst)
DelayedAck(r, m) == Multicast("ACK", r, m.on, m.key, m.inst)

Acknowledge(r, m) ==
    /\ Unknown(r, m)
    /\ net' = (net \ {m}) \cup DirectAck(r, m)
    /\ UNCHANGED <<db, rxmt, fresh>>

Discard(r, m) ==
    /\ ~Unknown(r, m) /\ NeedUpdate(r, m) /\ TooSoon(r, m)
    /\ net' = net \ {m}
    /\ UNCHANGED <<db, rxmt, fresh>>

\* Step 5c: when r had a copy, the LSA leaves all retransmission lists.
Unlisted(r, m, entries) ==
    IF db[r][m.key] = 0 THEN entries
    ELSE {e \in entries : ~(e.by = r /\ e.key = m.key)}

\* Step 5f: r's own LSA, of which it has no copy any more, is flushed.
Flushes(r, m) == Origin[m.key] = r /\ db[r][m.key] = 0

\* Step 5e: the BDR acknowledges only what the DR sent.
Acknowledges(r, m) ==
    /\ FloodedOn(r, m.from, m.on) = {}
    /\ r = BDR[m.on] => m.from = DR[m.on]

\* Steps 5b to 5f.
Install(r, m) ==
    LET i == IF Flushes(r, m) THEN MaxAged(m.inst) ELSE m.inst IN
    /\ ~Unknown(r, m) /\ NeedUpdate(r, m) /\ ~TooSoon(r, m)
    /\ rxmt' = Unlisted(r, m, rxmt \cup Listed(r, m.key, m.from, m.on))
    /\ db' = [db EXCEPT ![r][m.key] = i]
    /\ fresh' = fresh \cup Young(r, m.key)
    /\ net' = (net \ {m})
                \cup Flood(r, m.key, m.inst, m.from, m.on)
                \cup (IF Acknowledges(r, m) THEN DelayedAck(r, m) ELSE {})
                \cup (IF Flushes(r, m) THEN Send("LSU", r, m.on, {m.from}, m.key, i)
                      ELSE {})

\* Mutant of Duplicate: step 7b sends no acknowledgment.
DuplicateSilently(r, m) ==
    /\ db[r][m.key] = m.inst
    /\ rxmt' = rxmt \ {[by |-> r, on |-> m.on, to |-> m.from, key |-> m.key]}
    /\ net' = net \ {m}
    /\ UNCHANGED <<db, fresh>>

\* Step 7: the same instance is an implied acknowledgment, or a duplicate.
Duplicate(r, m) ==
    LET e == [by |-> r, on |-> m.on, to |-> m.from, key |-> m.key]
        ack == IF e \notin rxmt THEN DirectAck(r, m)
               ELSE IF r = BDR[m.on] /\ m.from = DR[m.on] THEN DelayedAck(r, m)
               ELSE {}
    IN
    /\ db[r][m.key] = m.inst
    /\ rxmt' = rxmt \ {e}
    /\ net' = (net \ {m}) \cup ack
    /\ UNCHANGED <<db, fresh>>

\* Step 8: the database has a newer copy, which r sends back,
SendBack(r, m) ==
    /\ db[r][m.key] > m.inst
    /\ net' = (net \ {m}) \cup Send("LSU", r, m.on, {m.from}, m.key, db[r][m.key])
    /\ UNCHANGED <<db, rxmt, fresh>>

\* unless it has been sent in the last MinLSArrival seconds.
Ignore(r, m) ==
    /\ db[r][m.key] > m.inst
    /\ net' = net \ {m}
    /\ UNCHANGED <<db, rxmt, fresh>>

HandleLSU(m) ==
    /\ m \in net /\ m.type = "LSU"
    /\ \/ Acknowledge(m.to, m)
       \/ Discard(m.to, m)
       \/ Install(m.to, m)
       \/ Duplicate(m.to, m)
       \/ SendBack(m.to, m)
       \/ Ignore(m.to, m)
    /\ UNCHANGED faults

Answer(r) ==
    \E m \in net : m.type = "LSU" /\ m.to = r /\ SendBack(r, m) /\ UNCHANGED faults

\* Mutant of HandleAck: the acknowledgment counts for every neighbor.
HandleAckForAll(m) ==
    /\ m \in net /\ m.type = "ACK"
    /\ rxmt' = {e \in rxmt : ~(e.by = m.to /\ e.key = m.key)}
    /\ net' = net \ {m}
    /\ UNCHANGED <<db, fresh, faults>>

\* handler/ack.rs: the entry goes, whatever instance is acknowledged.  A
\* neighbor that is not adjacent is never listed.
HandleAck(m) ==
    /\ m \in net /\ m.type = "ACK"
    /\ rxmt' = rxmt \ {[by |-> m.to, on |-> m.on, to |-> m.from, key |-> m.key]}
    /\ net' = net \ {m}
    /\ UNCHANGED <<db, fresh, faults>>

---------------------------------------------------------------------------
\* Timers and faults.

\* The first LSAs on r's list for n, as the hash set is walked; those that are
\* not in the database any more are skipped, but count.
Page(r, x, n) ==
    {k \in Key :
        LET Waiting(j) == [by |-> r, on |-> x, to |-> n, key |-> j] \in rxmt IN
        /\ Waiting(k)
        /\ Cardinality({j \in Key : Waiting(j) /\ HashOrder[j] < HashOrder[k]}) < RxmtPage}

\* Mutant of Retransmit: LSAs not in the database any more are not skipped.
RetransmitRemoved(r, x) ==
    /\ net' = net \cup
        UNION {UNION {Send("LSU", r, x, {n}, k, db[r][k]) : k \in Page(r, x, n)} :
                n \in Adjacent(r, x)}
    /\ net' # net
    /\ UNCHANGED <<db, rxmt, fresh, faults>>

\* The retransmission timer of r's interface on x.
Retransmit(r, x) ==
    /\ net' = net \cup
        UNION {UNION {Send("LSU", r, x, {n}, k, db[r][k]) :
                        k \in {j \in Page(r, x, n) : db[r][j] > 0}} : n \in Adjacent(r, x)}
    /\ net' # net
    /\ UNCHANGED <<db, rxmt, fresh, faults>>

\* refresh_lsa: the lifetime of r's copy ends.  The retransmission lists keep it.
Remove(r, k) ==
    /\ db' = [db EXCEPT ![r][k] = 0]
    /\ fresh' = fresh \ {<<r, k>>}
    /\ UNCHANGED <<rxmt, net>>

\* A copy that has MaxAge is removed at once,
Flushed(r) == \E k \in Key : db[r][k] > 0 /\ AtMaxAge(db[r][k]) /\ Remove(r, k) /\ UNCHANGED faults

\* any other an hour after it was originated.
Expire(r) == \E k \in Key : db[r][k] > 0 /\ ~AtMaxAge(db[r][k]) /\ Remove(r, k) /\ Fault("expire")

\* MinLSArrival seconds have passed since r installed its copy.
Settle(r) ==
    \E k \in Key :
        /\ <<r, k>> \in fresh
        /\ fresh' = fresh \ {<<r, k>>}
        /\ UNCHANGED <<db, rxmt, net, faults>>

\* The process of r is killed and started again.  Nothing is persisted, and
\* both ends clear their lists (Neighbor::reset).  It takes longer than any
\* packet does, and ends with the exchange (module Adjacency) that makes every
\* neighbor send r what it has.
Restart(r) ==
    /\ \A m \in net : r \notin {m.from, m.to}
    /\ db' = [db EXCEPT ![r] = [k \in Key |-> 0]]
    /\ rxmt' = {e \in rxmt : r \notin {e.by, e.to}}
    /\ fresh' = {f \in fresh : f[1] # r}
    /\ net' = net \cup
        {m \in Packet :
            /\ m.type = "LSU" /\ m.to = r /\ m.from \in Adjacent(r, m.on)
            /\ m.inst = db[m.from][m.key]}
    /\ Fault("restart")

Lose ==
    \E m \in net :
        /\ net' = net \ {m}
        /\ Fault("loss")
        /\ UNCHANGED <<db, rxmt, fresh>>

Next ==
    \/ \E m \in net : HandleLSU(m) \/ HandleAck(m)
    \/ \E r \in Router :
        \/ Originate(r) \/ Flushed(r) \/ Settle(r)
        \/ Expire(r) \/ Restart(r)
        \/ \E x \in Net : Retransmit(r, x)
    \/ Lose

Spec == Init /\ [][Next]_vars

\* tokio runs the task of every packet that arrives, and timers fire.  A copy
\* that is retransmitted again and again is answered in the end: MinLSArrival
\* is shorter than the retransmission interval.  Nothing makes a router
\* originate.
Fairness ==
    /\ \A m \in Packet : WF_vars(HandleLSU(m) \/ HandleAck(m))
    /\ \A r \in Router :
        /\ WF_vars(Flushed(r)) /\ WF_vars(Settle(r))
        /\ \A x \in Net : WF_vars(Retransmit(r, x))
        /\ SF_vars(Answer(r))

FairSpec == Spec /\ Fairness

---------------------------------------------------------------------------
\* Databases hold instances that were originated, packets name an LSA that
\* exists: nothing refers to a copy that has been removed.
TypeOK ==
    /\ db \in [Router -> [Key -> {0} \cup Instance]]
    /\ rxmt \subseteq Entry
    /\ fresh \subseteq Router \X Key
    /\ net \subseteq Packet
    /\ faults \in 0..MaxFaults

\* Whatever a router has and a neighbor lacks is on the list for that neighbor
\* (neighbor/mod.rs:38), however the acknowledgments, implied and explicit, and
\* the copies that arrive over other networks are ordered.
UnackedListed ==
    \A r \in Router, x \in Net, k \in Key : \A n \in Adjacent(r, x) :
        db[r][k] > db[n][k] => [by |-> r, on |-> x, to |-> n, key |-> k] \in rxmt

\* An acknowledgment in flight is honest: the router that sent it has that
\* instance or a newer one, so taking the LSA off the list loses nothing.
NoFalseAck == \A m \in net : m.type = "ACK" => db[m.from][m.key] >= m.inst

\* A database never goes back to an older instance, over any order of arrival;
\* only the end of a lifetime takes a copy away.
Forward ==
    [][\A r \in Router, k \in Key : db'[r][k] >= db[r][k] \/ db'[r][k] = 0]_vars

\* Every instance a router originates reaches every router.
Reaches ==
    \A k \in Key, i \in Instance :
        db[Origin[k]][k] >= i ~> \A r \in Router : db[r][k] >= i

\* Flooding comes to rest: everything gets acknowledged.
ComesToRest == <>[](rxmt = {})

\* In the end all databases are equal, also after restarts.
Agree == <>[](\A r, n \in Router : db[r] = db[n])

\* Whatever expires, is flushed or sent back as outdated, no two routers keep
\* answering each other for ever, unless the LSA is originated again and again.
FallsSilent ==
    []<><<\E r \in Router : Originate(r)>>_vars \/ <>[](net = {})
=============================================================================
