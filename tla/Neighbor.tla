------------------------------ MODULE Neighbor ------------------------------
(***************************************************************************)
(* The neighbor record of rust-ospfd and the events of its state machine   *)
(* (src/ospfd/neighbor).  One operator per event maps the record before    *)
(* the event to the record after it; the interface lock is held throughout *)
(* an event, so an event is one step of whoever raises it.                 *)
(*                                                                         *)
(* What judge_connect answers and what the clock reads are parameters      *)
(* (connect, start).  The options, DR, BDR and priority fields of a hello  *)
(* are in module DrElection, the retransmission list in module Flooding.   *)
(***************************************************************************)
EXTENDS Naturals, Sequences, FiniteSets

CONSTANTS Keys,     \* identities of LSAs (LsaIndex)
          NoKey,    \* no LSA
          MaxInst   \* instances of an LSA are 1..MaxInst, 0 when absent

ASSUME KeysAssumption == IsFiniteSet(Keys) /\ NoKey \notin Keys
ASSUME MaxInstAssumption == MaxInst \in Nat

Header == [key : Keys, inst : 1..MaxInst]

\* NeighborState in its order; Attempt and the Start event are NBMA only (todo!).
BelowTwoWay  == {"Down", "Init"}
Exchanging   == {"Exchange", "Loading", "Full"}       \* state >= Exchange
Adjacent     == {"ExStart"} \cup Exchanging           \* state >= ExStart
Bidirectional == {"TwoWay"} \cup Adjacent             \* state >= TwoWay
NeighborState == BelowTwoWay \cup Bidirectional

\* A database description packet and what dd_last_packet keeps of it.
DDPacket == [type : {"DD"}, init : BOOLEAN, more : BOOLEAN, ms : BOOLEAN,
             seq : Nat, hdrs : SUBSET Header]
DD(init, more, ms, seq, hdrs) ==
    [type |-> "DD", init |-> init, more |-> more, ms |-> ms, seq |-> seq,
     hdrs |-> hdrs]
DdPacketCache == [seq : Nat, init : BOOLEAN, more : BOOLEAN, ms : BOOLEAN]
Cache(m) == [seq |-> m.seq, init |-> m.init, more |-> m.more, ms |-> m.ms]
EmptyCache == [seq |-> 0, init |-> FALSE, more |-> FALSE, ms |-> FALSE]

\* DdRxmt: a task that resends pkt, a packet kept for resending, or nothing.
DdRxmt == [kind : {"None", "Handle", "Packet"}, pkt : DDPacket]
NoRxmt == [kind |-> "None", pkt |-> DD(FALSE, FALSE, FALSE, 0, {})]
Handle(m) == [kind |-> "Handle", pkt |-> m]
Packet(m) == [kind |-> "Packet", pkt |-> m]

(***************************************************************************)
(* lsr is where the request sender task stands: "none" (is_finished),      *)
(* "peek" (about to lock and look at the front), "wait" (awaiting its      *)
(* child) or "ended" (returned or aborted, but not yet marked finished by  *)
(* the runtime).  child is the request its child task repeats.             *)
(***************************************************************************)
NeighborRecord ==
    [state : NeighborState, master : BOOLEAN, seq : Nat, last : DdPacketCache,
     rxmt : DdRxmt, summary : SUBSET Header, req : Seq(Header),
     lsr : {"none", "peek", "wait", "ended"}, child : Keys \cup {NoKey}]

NewNeighbor ==
    [state |-> "Down", master |-> FALSE, seq |-> 0, last |-> EmptyCache,
     rxmt |-> NoRxmt, summary |-> {}, req |-> <<>>,
     lsr |-> "none", child |-> NoKey]

\* LsrHandle::abort: the runtime cancels the task later.
AbortedLsr(lsr) == IF lsr \in {"peek", "wait"} THEN "ended" ELSE lsr

\* Mutant of Reset: the sequence number survives, as dd_last_packet does.
ResetKeepsSeq(n) ==
    [n EXCEPT !.rxmt = NoRxmt, !.summary = {}, !.req = <<>>,
              !.lsr = AbortedLsr(@), !.child = NoKey]

\* Neighbor::reset; dd_last_packet and master survive it.
Reset(n) ==
    [n EXCEPT !.seq = 0, !.rxmt = NoRxmt, !.summary = {}, !.req = <<>>,
              !.lsr = AbortedLsr(@), !.child = NoKey]

---------------------------------------------------------------------------
\* The sending tasks (pair.rs).

\* spawn_lsr_sender: does nothing unless the previous sender is finished.
SpawnLsrSender(n) ==
    IF n.lsr = "none" THEN [n EXCEPT !.lsr = "peek", !.child = NoKey] ELSE n

\* Mutant of LsrRecvUpdate: the child task is not aborted.
LsrRecvUpdateKeepsChild(n) == [n EXCEPT !.req = Tail(@)]

\* lsr_recv_update: pop the front and stop the child.
LsrRecvUpdate(n) == [n EXCEPT !.req = Tail(@), !.child = NoKey]

\* spawn_master_send_dd: replaces, and so aborts, whatever was resent before.
SpawnMasterSendDD(n, m) == [n EXCEPT !.rxmt = Handle(m)]

---------------------------------------------------------------------------
\* The events of the state machine (state.rs).

HelloReceive(n) == IF n.state = "Down" THEN [n EXCEPT !.state = "Init"] ELSE n

\* ex_start: only with a zero sequence number, which a restart leaves behind.
StartExchange(n, start) ==
    IF n.state = "ExStart" /\ n.seq = 0
    THEN SpawnMasterSendDD([n EXCEPT !.seq = start, !.master = FALSE],
                           DD(TRUE, TRUE, TRUE, start, {}))
    ELSE n

\* What two_way_received and adj_ok decide with judge_connect's answer.
Judged(n, connect, start) ==
    StartExchange([n EXCEPT !.state = IF connect THEN "ExStart" ELSE "TwoWay"], start)

TwoWayReceived(n, connect, start) ==
    IF n.state = "Init" THEN Judged(n, connect, start) ELSE n

NegotiationDone(n, database) ==
    IF n.state = "ExStart"
    THEN [n EXCEPT !.summary = @ \cup database, !.state = "Exchange"]
    ELSE n

\* Mutants of ExchangeDone: the resending task is kept; the list is not looked at.
ExchangeDoneKeepsTask(n) ==
    IF n.state # "Exchange" THEN n
    ELSE IF n.req = <<>> THEN [n EXCEPT !.state = "Full"]
         ELSE SpawnLsrSender([n EXCEPT !.state = "Loading"])
ExchangeDoneAlwaysFull(n) ==
    IF n.state # "Exchange" THEN n
    ELSE [n EXCEPT !.rxmt = NoRxmt, !.state = "Full"]

ExchangeDone(n) ==
    IF n.state # "Exchange" THEN n
    ELSE IF n.req = <<>> THEN [n EXCEPT !.rxmt = NoRxmt, !.state = "Full"]
         ELSE SpawnLsrSender([n EXCEPT !.rxmt = NoRxmt, !.state = "Loading"])

\* bad_ls_req and seq_number_mismatch have the same body.
SeqNumberMismatch(n, start) ==
    IF n.state \in Exchanging
    THEN StartExchange([Reset(n) EXCEPT !.state = "ExStart"], start)
    ELSE n

LoadingDone(n) == IF n.state = "Loading" THEN [n EXCEPT !.state = "Full"] ELSE n

\* Mutant of AdjOk: falls back to TwoWay without a reset.
AdjOkKeepsLists(n, connect, start) ==
    IF n.state = "TwoWay" THEN Judged(n, connect, start)
    ELSE IF n.state \in Adjacent /\ ~connect
         THEN [n EXCEPT !.state = "TwoWay"]
         ELSE n

AdjOk(n, connect, start) ==
    IF n.state = "TwoWay" THEN Judged(n, connect, start)
    ELSE IF n.state \in Adjacent /\ ~connect
         THEN Reset([n EXCEPT !.state = "TwoWay"])
         ELSE n

OneWayReceived(n) ==
    IF n.state \in Bidirectional THEN [Reset(n) EXCEPT !.state = "Init"] ELSE n

Inactivity(n) == [Reset(n) EXCEPT !.state = "Down"]
=============================================================================
