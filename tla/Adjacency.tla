------------------------------ MODULE Adjacency ------------------------------
(***************************************************************************)
(* Two routers bring up an adjacency: the neighbor record each keeps for   *)
(* the other (module Neighbor), the DD, LSR and LSU handlers, and the      *)
(* tasks that resend DD packets and requests.                              *)
(*                                                                         *)
(* A handler holds the interface lock, so it is one step.  Every packet is *)
(* handled by a task of its own, so with Reorder a router handles any      *)
(* packet in flight next.  A router's id is its number: 2 becomes master.  *)
(* An update carries one LSA.  The LSAs are those of other routers and keep *)
(* their instances: ages, acknowledgments and retransmission lists are the  *)
(* matter of module Flooding.  That a copy in the database came by a flood  *)
(* less than MinLSArrival ago is a fault that may happen ("young").         *)
(***************************************************************************)
EXTENDS Neighbor

CONSTANTS
    Own,          \* Own[r][k]: the instance of k that r starts with
    HashOrder,    \* HashOrder[r][k]: where r's database lists k
    Connect,      \* the answers judge_connect may give
    StartSeq,     \* what the clock may read when an exchange starts
    SlavePage,    \* headers in a slave's packet (8)
    MasterPage,   \* headers in a master's packet (12)
    Reorder,      \* packets in flight may overtake each other
    PromptEnd,    \* a sender that ended is finished before the next DD
    MaxInFlight,  \* bound: packets in flight, both ways together
    FaultKinds,   \* which faults may happen
    MaxFaults     \* bound: how many of them

Router == {1, 2}
Peer(r) == 3 - r
Database == [Keys -> 0..MaxInst]

ASSUME OwnAssumption == Own \in [Router -> Database]
ASSUME HashOrderAssumption == HashOrder \in [Router -> [Keys -> Nat]]
ASSUME ConnectAssumption == Connect \subseteq BOOLEAN
ASSUME StartSeqAssumption == StartSeq \subseteq Nat
ASSUME PageAssumption == SlavePage \in Nat /\ MasterPage \in Nat
ASSUME ModeAssumption == Reorder \in BOOLEAN /\ PromptEnd \in BOOLEAN
ASSUME BoundAssumption == MaxInFlight \in Nat /\ MaxFaults \in Nat

LSRequest == [type : {"LSR"}, key : Keys]
LSUpdate  == [type : {"LSU"}, lsa : Header]
Message   == DDPacket \cup LSRequest \cup LSUpdate
LSR(k) == [type |-> "LSR", key |-> k]
LSU(k, i) == [type |-> "LSU", lsa |-> [key |-> k, inst |-> i]]

VARIABLES
    nbr,     \* nbr[r]: r's record of its peer
    db,      \* db[r][k]: the instance of k in r's database
    net,     \* net[r]: packets in flight to r, in the order they were sent
    faults   \* faults so far

vars == <<nbr, db, net, faults>>

Init ==
    /\ nbr = [r \in Router |-> NewNeighbor]
    /\ db = Own
    /\ net = [r \in Router |-> <<>>]
    /\ faults = 0

---------------------------------------------------------------------------
\* Helpers.

InFlight(r) == {net[r][i] : i \in 1..Len(net[r])}

\* A sending task waits while the link is full; a handler sends at most one
\* packet for the one it consumes, so the bound holds everywhere.
LinkHasRoom == Len(net[1]) + Len(net[2]) < MaxInFlight

\* Positions r may take its next packet from.
Deliverable(r) == {i \in 1..Len(net[r]) : Reorder \/ i = 1}

Without(s, i) == [j \in 1..(Len(s) - 1) |-> IF j < i THEN s[j] ELSE s[j + 1]]

\* r handles packet i and sends the packets of out (at most one).
Exchanged(r, i, out) ==
    net' = [net EXCEPT ![r] = Without(@, i), ![Peer(r)] = @ \o out]

Become(r, n) == nbr' = [nbr EXCEPT ![r] = n]

Fault(kind) ==
    /\ kind \in FaultKinds
    /\ faults < MaxFaults
    /\ faults' = faults + 1

\* get_all_lsa: the headers of everything in r's database.
AllLsa(r) == {h \in Header : db[r][h.key] = h.inst}

NeedUpdate(r, h) == db[r][h.key] < h.inst

\* The order in which r's database, and so every list r makes of it, is read:
\* an unchanged hash map is always walked in the same order.
Before(r, g, h) == HashOrder[r][g.key] < HashOrder[r][h.key]

\* The elements of S as r lists them; the first ones, drained off r's list.
Orders(r, S) ==
    {s \in [1..Cardinality(S) -> S] :
        \A i, j \in 1..Cardinality(S) : i < j => Before(r, s[i], s[j])}
Pages(r, S, limit) ==
    {page \in SUBSET S :
        /\ Cardinality(page) = IF Cardinality(S) < limit THEN Cardinality(S) ELSE limit
        /\ \A g \in page, h \in S \ page : Before(r, g, h)}

---------------------------------------------------------------------------
\* Hellos (handler/hello.rs, send_hello).

\* r handles a hello of its peer.  Before it sends one, the peer drops the
\* records of neighbors that are Down, and lists the others.
Hello(r) ==
    LET p    == Peer(r)
        seen == nbr[p].state # "Down"
        n    == HelloReceive(nbr[r])
    IN \E connect \in Connect, start \in StartSeq :
        /\ nbr' = [nbr EXCEPT
                ![p] = IF seen THEN @ ELSE NewNeighbor,
                ![r] = IF seen THEN TwoWayReceived(n, connect, start)
                               ELSE OneWayReceived(n)]
        /\ UNCHANGED <<db, net, faults>>

---------------------------------------------------------------------------
\* Database description packets (handler/dd.rs).

\* dd.rs:89-137: queue the headers that are newer than the database, start the
\* sender, and answer.  n is the record with the packet accepted.
TakePage(r, i, m, n) ==
    \E order \in Orders(Peer(r), {h \in m.hdrs : NeedUpdate(r, h)}) :
        LET q == SpawnLsrSender([n EXCEPT !.req = @ \o order]) IN
        IF q.master
        THEN \E page \in Pages(r, q.summary,
                            IF m.more THEN SlavePage ELSE Cardinality(q.summary)) :
               LET reply == DD(FALSE, m.more, FALSE, m.seq, page)
                   sent  == [q EXCEPT !.seq = m.seq, !.summary = @ \ page,
                                      !.rxmt = Packet(reply)]
               IN /\ Become(r, IF m.more THEN sent ELSE ExchangeDone(sent))
                  /\ Exchanged(r, i, <<reply>>)
        ELSE \E page \in Pages(r, q.summary, MasterPage) :
               LET next == [q EXCEPT !.seq = @ + 1]
                   left == next.summary \ page
               IN /\ Become(r,
                        IF m.more \/ page # {}
                        THEN SpawnMasterSendDD([next EXCEPT !.summary = left],
                                 DD(FALSE, left # {}, TRUE, next.seq, page))
                        ELSE ExchangeDone(next))
                  /\ Exchanged(r, i, <<>>)

\* Mutant of AcceptMaster: the router ids are not compared.
AcceptAnyMaster(r, i, m, n) ==
    /\ n.state = "ExStart"
    /\ m.init /\ m.more /\ m.ms /\ m.hdrs = {}
    /\ TakePage(r, i, m,
          NegotiationDone([n EXCEPT !.last = Cache(m), !.master = TRUE, !.seq = m.seq],
                          AllLsa(r)))

\* ExStart, first branch: the peer claims to be master and has the larger id.
AcceptMaster(r, i, m, n) ==
    /\ n.state = "ExStart"
    /\ m.init /\ m.more /\ m.ms /\ m.hdrs = {} /\ Peer(r) > r
    /\ TakePage(r, i, m,
          NegotiationDone([n EXCEPT !.last = Cache(m), !.master = TRUE, !.seq = m.seq],
                          AllLsa(r)))

\* ExStart, second branch: a slave with the smaller id acknowledges our packet.
AcceptSlave(r, i, m, n) ==
    /\ n.state = "ExStart"
    /\ ~m.init /\ ~m.ms /\ m.seq = n.seq /\ Peer(r) < r
    /\ TakePage(r, i, m,
          NegotiationDone([n EXCEPT !.last = Cache(m), !.master = FALSE], AllLsa(r)))

\* Anything else in ExStart, and everything in TwoWay, is only remembered.
IgnoreDD(r, i, m, n) ==
    /\ \/ n.state = "TwoWay"
       \/ /\ n.state = "ExStart"
          /\ ~(m.init /\ m.more /\ m.ms /\ m.hdrs = {} /\ Peer(r) > r)
          /\ ~(~m.init /\ ~m.ms /\ m.seq = n.seq /\ Peer(r) < r)
    /\ Become(r, [n EXCEPT !.last = Cache(m)])
    /\ Exchanged(r, i, <<>>)

\* A duplicate: the slave repeats its answer, if it still has it.
DuplicateDD(r, i, m, n) ==
    /\ n.state \in Exchanging
    /\ n.last = Cache(m)
    /\ UNCHANGED nbr
    /\ Exchanged(r, i,
          IF n.master /\ n.rxmt.kind = "Packet" THEN <<n.rxmt.pkt>> ELSE <<>>)

\* Mutant of InSequence: the sequence number is not compared.
AnySequence(n, m) == m.ms = n.master /\ ~m.init

InSequence(n, m) ==
    /\ m.ms = n.master
    /\ ~m.init
    /\ m.seq = IF m.ms THEN n.seq + 1 ELSE n.seq

NextDD(r, i, m, n) ==
    /\ n.state = "Exchange"
    /\ n.last # Cache(m)
    /\ InSequence(n, m)
    /\ TakePage(r, i, m, [n EXCEPT !.last = Cache(m)])

\* Out of sequence in Exchange, or anything new in Loading and Full.
RestartDD(r, i, m, n) ==
    /\ n.state \in Exchanging
    /\ n.last # Cache(m)
    /\ n.state = "Exchange" => ~InSequence(n, m)
    /\ \E start \in StartSeq :
          Become(r, SeqNumberMismatch([n EXCEPT !.last = Cache(m)], start))
    /\ Exchanged(r, i, <<>>)

\* The record after the first lines of the handler: Init is left at once.
Admitted(n) ==
    IF n.state = "Init"
    THEN {TwoWayReceived(n, connect, start) : connect \in Connect, start \in StartSeq}
    ELSE {n}

HandleDD(r) ==
    \E i \in Deliverable(r) :
        LET m == net[r][i] IN
        /\ m.type = "DD"
        /\ PromptEnd => nbr[r].lsr # "ended"
        /\ UNCHANGED <<db, faults>>
        /\ IF nbr[r].state = "Down"
           THEN UNCHANGED nbr /\ Exchanged(r, i, <<>>)
           ELSE \E n \in Admitted(nbr[r]) :
                   \/ AcceptMaster(r, i, m, n)
                   \/ AcceptSlave(r, i, m, n)
                   \/ IgnoreDD(r, i, m, n)
                   \/ DuplicateDD(r, i, m, n)
                   \/ NextDD(r, i, m, n)
                   \/ RestartDD(r, i, m, n)

\* The task of dd_rxmt sends its packet again.
ResendDD(r) ==
    /\ nbr[r].rxmt.kind = "Handle"
    /\ LinkHasRoom
    /\ nbr[r].rxmt.pkt \notin InFlight(Peer(r))
    /\ net' = [net EXCEPT ![Peer(r)] = Append(@, nbr[r].rxmt.pkt)]
    /\ UNCHANGED <<nbr, db, faults>>

---------------------------------------------------------------------------
\* Requests and updates (handler/lsr.rs, handler/lsu.rs, pair.rs).

\* The sender looks at the front of the list: nothing left, or a new child.
PeekRequest(r) ==
    LET n == nbr[r] IN
    /\ n.lsr = "peek"
    /\ IF n.req = <<>>
       THEN Become(r, [LoadingDone(n) EXCEPT !.lsr = "ended"])
       ELSE Become(r, [n EXCEPT !.lsr = "wait", !.child = Head(n.req).key])
    /\ UNCHANGED <<db, net, faults>>

\* Its child was aborted: look again.
ChildAborted(r) ==
    /\ nbr[r].lsr = "wait" /\ nbr[r].child = NoKey
    /\ Become(r, [nbr[r] EXCEPT !.lsr = "peek"])
    /\ UNCHANGED <<db, net, faults>>

\* The runtime marks a returned or aborted sender as finished.
SenderFinished(r) ==
    /\ nbr[r].lsr = "ended"
    /\ Become(r, [nbr[r] EXCEPT !.lsr = "none"])
    /\ UNCHANGED <<db, net, faults>>

\* The child repeats its request.
ResendLSR(r) ==
    /\ nbr[r].child # NoKey
    /\ LinkHasRoom
    /\ LSR(nbr[r].child) \notin InFlight(Peer(r))
    /\ net' = [net EXCEPT ![Peer(r)] = Append(@, LSR(nbr[r].child))]
    /\ UNCHANGED <<nbr, db, faults>>

\* Mutant of HandleLSR: answers although the LSA is not in the database.
HandleLSRBlindly(r) ==
    \E i \in Deliverable(r) :
        LET m == net[r][i] IN
        /\ m.type = "LSR"
        /\ UNCHANGED <<nbr, db, faults>>
        /\ Exchanged(r, i, IF nbr[r].state \in Exchanging
                           THEN <<LSU(m.key, db[r][m.key])>> ELSE <<>>)

HandleLSR(r) ==
    \E i \in Deliverable(r) :
        LET m == net[r][i] IN
        /\ m.type = "LSR"
        /\ IF nbr[r].state \in Exchanging /\ db[r][m.key] = 0
           THEN \E start \in StartSeq : Become(r, SeqNumberMismatch(nbr[r], start))
           ELSE UNCHANGED nbr
        /\ Exchanged(r, i, IF nbr[r].state \in Exchanging /\ db[r][m.key] > 0
                           THEN <<LSU(m.key, db[r][m.key])>> ELSE <<>>)
        /\ UNCHANGED <<db, faults>>

\* Mutant of Answered: pops the front whatever LSA came.
AnsweredByAny(n, h) == IF n.req # <<>> THEN LsrRecvUpdate(n) ELSE n

\* The answer to our request: the front is popped whatever instance came.
Answered(n, h) ==
    IF n.req # <<>> /\ Head(n.req).key = h.key THEN LsrRecvUpdate(n) ELSE n

\* Position of the first request for h's LSA, 0 when there is none.
RequestAt(n, h) ==
    LET at == {i \in 1..Len(n.req) : n.req[i].key = h.key} IN
    IF at = {} THEN 0 ELSE CHOOSE i \in at : \A j \in at : i <= j

\* swap_remove_back: the last element takes the place of the i-th.
SwapRemove(s, i) == [j \in 1..(Len(s) - 1) |-> IF j = i THEN s[Len(s)] ELSE s[j]]

\* flooding_on, what it does to the neighbor the LSA came from.
Flooded(n, h) ==
    LET at == RequestAt(n, h) IN
    IF n.state \in Exchanging /\ at > 0 /\ h.inst >= n.req[at].inst
    THEN [n EXCEPT !.req = SwapRemove(@, at), !.child = NoKey]
    ELSE n

HandleLSU(r) ==
    \E i \in Deliverable(r) :
        LET m == net[r][i]
            h == m.lsa
            n == Answered(nbr[r], h)
        IN
        /\ m.type = "LSU"
        /\ \/ /\ NeedUpdate(r, h)                              \* step 5
              /\ Become(r, Flooded(n, h))
              /\ db' = [db EXCEPT ![r] = [@ EXCEPT ![h.key] = h.inst]]
              /\ Exchanged(r, i, <<>>)
              /\ UNCHANGED faults
           \/ /\ NeedUpdate(r, h) /\ db[r][h.key] > 0           \* step 5a
              /\ Fault("young")
              /\ Become(r, n)
              /\ Exchanged(r, i, <<>>)
              /\ UNCHANGED db
           \/ /\ ~NeedUpdate(r, h)                             \* step 6
              /\ \E j \in 1..Len(n.req) : n.req[j] = h
              /\ \E start \in StartSeq : Become(r, SeqNumberMismatch(n, start))
              /\ Exchanged(r, i, <<>>)
              /\ UNCHANGED <<db, faults>>
           \/ /\ ~NeedUpdate(r, h)                             \* steps 7 and 8
              /\ ~ \E j \in 1..Len(n.req) : n.req[j] = h
              /\ Become(r, n)
              /\ \E out \in {<<>>} \cup {<<LSU(h.key, k)>> : k \in {db[r][h.key]} \ {h.inst}} :
                    Exchanged(r, i, out)
              /\ UNCHANGED <<db, faults>>

---------------------------------------------------------------------------
\* Faults and changes around the adjacency.

\* The designated router changed: select_dr ends with adj_ok.
Reelected(r) ==
    \E connect \in Connect, start \in StartSeq :
        /\ AdjOk(nbr[r], connect, start) # nbr[r]
        /\ Become(r, AdjOk(nbr[r], connect, start))
        /\ Fault("reelect")
        /\ UNCHANGED <<db, net>>

\* No hello for dead_interval seconds.
InactivityTimer(r) ==
    /\ nbr[r].state # "Down"
    /\ Become(r, Inactivity(nbr[r]))
    /\ Fault("timeout")
    /\ UNCHANGED <<db, net>>

\* The process is killed and started again; nothing is persisted.
Restart(r) ==
    /\ Become(r, NewNeighbor)
    /\ db' = [db EXCEPT ![r] = Own[r]]
    /\ Fault("restart")
    /\ UNCHANGED net

\* refresh_lsa: the lifetime of a database entry ends.
Expire(r) ==
    \E k \in Keys :
        /\ db[r][k] > 0
        /\ db' = [db EXCEPT ![r] = [@ EXCEPT ![k] = 0]]
        /\ Fault("expire")
        /\ UNCHANGED <<nbr, net>>

Lose(r) ==
    \E i \in 1..Len(net[r]) :
        /\ net' = [net EXCEPT ![r] = Without(@, i)]
        /\ Fault("loss")
        /\ UNCHANGED <<nbr, db>>

---------------------------------------------------------------------------
Task(r) ==
    \/ ResendDD(r)
    \/ PeekRequest(r)
    \/ ChildAborted(r)
    \/ SenderFinished(r)
    \/ ResendLSR(r)

Handler(r) == Hello(r) \/ HandleDD(r) \/ HandleLSR(r) \/ HandleLSU(r)

Disturbance(r) == Reelected(r) \/ InactivityTimer(r) \/ Restart(r) \/ Expire(r) \/ Lose(r)

Next == \E r \in Router : Task(r) \/ Handler(r) \/ Disturbance(r)

Spec == Init /\ [][Next]_vars

\* tokio runs every task that is ready, timers fire, hellos keep coming and a
\* packet that is not lost is handled.  The resending tasks are strongly fair
\* because only the bound on the link disables them.  Faults are not fair.
Fairness ==
    \A r \in Router :
        /\ WF_vars(Hello(r))
        /\ WF_vars(HandleDD(r) \/ HandleLSR(r) \/ HandleLSU(r))
        /\ WF_vars(PeekRequest(r) \/ ChildAborted(r) \/ SenderFinished(r))
        /\ SF_vars(ResendDD(r))
        /\ SF_vars(ResendLSR(r))

FairSpec == Spec /\ Fairness

---------------------------------------------------------------------------
\* Records, databases and packets are well formed: a request names an LSA, an
\* answer carries an instance that exists, a header on a list is a real one.
TypeOK ==
    /\ nbr \in [Router -> NeighborRecord]
    /\ db \in [Router -> Database]
    /\ net \in [Router -> Seq(Message)]
    /\ faults \in 0..MaxFaults
---------------------------------------------------------------------------
(* Properties.                                                             *)

\* Both ends agree who is master: from Exchange on, the record says the peer
\* is master exactly when its id is larger (dd.rs:25-50), and a record in
\* ExStart has forgotten the roles of the exchange before (state.rs:262).
Roles ==
    \A r \in Router :
        /\ nbr[r].state \in Exchanging => (nbr[r].master <=> Peer(r) > r)
        /\ nbr[r].state = "ExStart" => ~nbr[r].master

\* Exactly the side that has to drive the exchange has a task resending its DD
\* packet: everyone in ExStart, the master in Exchange, and nobody else. A lost
\* or leaked task would stall the exchange or restart the peer forever.
Driver ==
    \A r \in Router :
        nbr[r].rxmt.kind = "Handle" <=>
            \/ nbr[r].state = "ExStart"
            \/ nbr[r].state = "Exchange" /\ ~nbr[r].master

\* Whatever path led there (timeout, one-way hello, lost DR), a record below
\* ExStart holds nothing of an earlier exchange that ex_start's zero test or
\* the next exchange could trip over.
CleanStart ==
    \A r \in Router :
        LET n == nbr[r] IN
        n.state \notin Adjacent =>
            /\ n.seq = 0 /\ n.rxmt = NoRxmt /\ n.summary = {} /\ n.req = <<>>
            /\ n.lsr \in {"none", "ended"} /\ n.child = NoKey

\* The request in flight is always for the front of the list, the only element
\* whose answer lsu.rs recognises; any other would be repeated for ever.
ChildAsksFront ==
    \A r \in Router :
        LET n == nbr[r] IN
        n.child # NoKey =>
            n.lsr = "wait" /\ n.req # <<>> /\ Head(n.req).key = n.child

\* A router that finished the exchange misses nothing the peer had when it
\* started, unless it is still asking for it; once Full it asks for nothing,
\* so the two databases are synchronised.
Synchronised ==
    \A r \in Router :
        LET n == nbr[r] IN
        /\ n.state = "Full" => n.req = <<>>
        /\ n.state \in {"Loading", "Full"} =>
            \A k \in Keys :
                \/ db[r][k] >= Own[Peer(r)][k]
                \/ \E i \in 1..Len(n.req) : n.req[i].key = k

Requested(n) == {n.req[i] : i \in 1..Len(n.req)}

\* A header leaves the request list only when the database has caught up with
\* it, or when the whole exchange is abandoned.
RequestsNotForgotten ==
    [][\A r \in Router : nbr'[r].state \in Exchanging =>
        \A h \in Requested(nbr[r]) \ Requested(nbr'[r]) : db'[r][h.key] >= h.inst]_vars

\* Once faults are over, and over a link that keeps the order, both routers end up
\* Full and stay so.
Converges == <>[](\A r \in Router : nbr[r].state = "Full")

\* A slave that gets the master's packet again has its answer at hand; the
\* handler reports an error otherwise (dd.rs:57-60).
SlaveHoldsReply ==
    \A r \in Router :
        nbr[r].state \in Exchanging /\ nbr[r].master => nbr[r].rxmt.kind = "Packet"

\* Loading does not last: when the list is empty loading_done is invoked
\* (pair.rs:46-47).
LoadingEnds ==
    \A r \in Router : nbr[r].state = "Loading" ~> nbr[r].state # "Loading"

\* What an adjacency promises, as seen by the rest of the daemon.
Promise == INSTANCE DatabaseSync
             WITH full <- [r \in Router |-> nbr[r].state = "Full"],
                  db <- db, Keys <- Keys, Own <- Own
PromiseKept == Promise!Spec
=============================================================================
