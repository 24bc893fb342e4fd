--------------------------- MODULE AdjacencyProofs ---------------------------
(***************************************************************************)
(* Invariants of module Adjacency, for any LSAs, databases, page sizes,    *)
(* clock readings, network and number of faults.                           *)
(***************************************************************************)
EXTENDS Adjacency, FiniteSetTheorems, WellFoundedInduction, TLAPS

---------------------------------------------------------------------------
(* The type of the neighbor record is kept by every event.                 *)

\* There are finitely many headers, so a packet can list any set of them.
LEMMA HeaderFinite == IsFiniteSet(Header)
  <1> DEFINE Pairs == Keys \X (1..MaxInst)
             f == [h \in Header |-> <<h.key, h.inst>>]
  <1>1. IsFiniteSet(Keys) /\ IsFiniteSet(1..MaxInst)
    BY FS_Interval, KeysAssumption, MaxInstAssumption, SMT
  <1>2. IsFiniteSet(Pairs)
    BY <1>1, FS_Product
  <1>3. f \in Injection(Header, Pairs)
    BY DEF Header, Injection, IsInjective
  <1> QED BY <1>2, <1>3, FS_Injection

\* The record of a neighbor never heard of.
LEMMA NewNeighborType == NewNeighbor \in NeighborRecord
  BY DEF NewNeighbor, NeighborRecord, NeighborState, BelowTwoWay, Bidirectional,
         Adjacent, Exchanging, EmptyCache, DdPacketCache, NoRxmt, DdRxmt, DD,
         DDPacket

\* DD packets are DD packets.
LEMMA DDType ==
  ASSUME NEW i \in BOOLEAN, NEW m \in BOOLEAN, NEW s \in BOOLEAN,
         NEW q \in Nat, NEW h \in SUBSET Header
  PROVE  /\ DD(i, m, s, q, h) \in DDPacket
         /\ Handle(DD(i, m, s, q, h)) \in DdRxmt
         /\ Packet(DD(i, m, s, q, h)) \in DdRxmt
  BY DEF DD, DDPacket, Handle, Packet, DdRxmt

\* The empty request list.
LEMMA NoRequests == <<>> \in Seq(Header)
  OBVIOUS

\* No packet to resend is a value of the field.
LEMMA NoRxmtType == NoRxmt \in DdRxmt
  BY DEF NoRxmt, DdRxmt, DD, DDPacket

\* What is remembered of a packet is a cache record.
LEMMA CacheType ==
  ASSUME NEW m \in DDPacket
  PROVE  Cache(m) \in DdPacketCache
  BY DEF Cache, DDPacket, DdPacketCache

\* Neighbor::reset gives a record again.
LEMMA ResetType ==
  ASSUME NEW n \in NeighborRecord
  PROVE  Reset(n) \in NeighborRecord
  <1>1. AbortedLsr(n.lsr) \in {"none", "peek", "wait", "ended"}
    BY DEF AbortedLsr, NeighborRecord
  <1> QED BY <1>1, NoRxmtType, NoRequests DEF Reset, NeighborRecord

\* A record moved to another state is a record.
LEMMA MovedType ==
  ASSUME NEW n \in NeighborRecord, NEW s \in NeighborState
  PROVE  [n EXCEPT !.state = s] \in NeighborRecord
  BY DEF NeighborRecord

\* The state sets consist of states.
LEMMA States ==
  {"Down", "Init", "TwoWay", "ExStart", "Exchange", "Loading", "Full"} = NeighborState
  BY DEF NeighborState, BelowTwoWay, Bidirectional, Adjacent, Exchanging

\* Starting the request sender gives a record.
LEMMA SpawnLsrSenderType ==
  ASSUME NEW n \in NeighborRecord
  PROVE  SpawnLsrSender(n) \in NeighborRecord
  BY DEF SpawnLsrSender, NeighborRecord

\* So does popping the request that was answered.
LEMMA LsrRecvUpdateType ==
  ASSUME NEW n \in NeighborRecord, n.req # <<>>
  PROVE  LsrRecvUpdate(n) \in NeighborRecord
  <1>1. Tail(n.req) \in Seq(Header)
    BY DEF NeighborRecord
  <1> QED BY <1>1 DEF LsrRecvUpdate, NeighborRecord

\* The record while the answer about k is awaited.
LEMMA WaitingType ==
  ASSUME NEW n \in NeighborRecord, NEW k \in Keys
  PROVE  [n EXCEPT !.lsr = "wait", !.child = k] \in NeighborRecord
  BY DEF NeighborRecord

\* The front of a request list that is not empty is a header.
LEMMA FrontType ==
  ASSUME NEW n \in NeighborRecord, n.req # <<>>
  PROVE  Head(n.req) \in Header /\ Head(n.req).key \in Keys
  <1>1. n.req \in Seq(Header)
    BY DEF NeighborRecord
  <1>2. Head(n.req) \in Header
    BY <1>1
  <1> QED BY <1>2 DEF Header

\* Every event of the neighbor state machine, from here to InactivityType,
\* gives a record again: HelloReceived,
LEMMA HelloReceiveType ==
  ASSUME NEW n \in NeighborRecord
  PROVE  HelloReceive(n) \in NeighborRecord
  BY MovedType, States DEF HelloReceive

\* ex_start,
LEMMA StartExchangeType ==
  ASSUME NEW n \in NeighborRecord, NEW start \in Nat
  PROVE  StartExchange(n, start) \in NeighborRecord
  BY DDType DEF StartExchange, SpawnMasterSendDD, NeighborRecord

\* the states reached when an adjacency is judged,
LEMMA JudgedType ==
  ASSUME NEW n \in NeighborRecord, NEW start \in Nat, NEW connect \in BOOLEAN
  PROVE  Judged(n, connect, start) \in NeighborRecord
  BY MovedType, States, StartExchangeType DEF Judged

\* 2-WayReceived,
LEMMA TwoWayReceivedType ==
  ASSUME NEW n \in NeighborRecord, NEW start \in Nat, NEW connect \in BOOLEAN
  PROVE  TwoWayReceived(n, connect, start) \in NeighborRecord
  BY JudgedType DEF TwoWayReceived

\* NegotiationDone with the headers still to be sent,
LEMMA NegotiationDoneType ==
  ASSUME NEW n \in NeighborRecord, NEW d \in SUBSET Header
  PROVE  NegotiationDone(n, d) \in NeighborRecord
  BY States DEF NegotiationDone, NeighborRecord

\* ExchangeDone,
LEMMA ExchangeDoneType ==
  ASSUME NEW n \in NeighborRecord
  PROVE  ExchangeDone(n) \in NeighborRecord
  <1>1. [n EXCEPT !.rxmt = NoRxmt, !.state = "Full"] \in NeighborRecord
    BY NoRxmtType, States DEF NeighborRecord
  <1>2. [n EXCEPT !.rxmt = NoRxmt, !.state = "Loading"] \in NeighborRecord
    BY NoRxmtType, States DEF NeighborRecord
  <1> QED BY <1>1, <1>2, SpawnLsrSenderType DEF ExchangeDone

\* SeqNumberMismatch and BadLSReq,
LEMMA SeqNumberMismatchType ==
  ASSUME NEW n \in NeighborRecord, NEW start \in Nat
  PROVE  SeqNumberMismatch(n, start) \in NeighborRecord
  BY ResetType, MovedType, States, StartExchangeType DEF SeqNumberMismatch

\* LoadingDone,
LEMMA LoadingDoneType ==
  ASSUME NEW n \in NeighborRecord
  PROVE  LoadingDone(n) \in NeighborRecord
  BY MovedType, States DEF LoadingDone

\* AdjOK?,
LEMMA AdjOkType ==
  ASSUME NEW n \in NeighborRecord, NEW start \in Nat, NEW connect \in BOOLEAN
  PROVE  AdjOk(n, connect, start) \in NeighborRecord
  BY JudgedType, ResetType, MovedType, States DEF AdjOk

\* 1-WayReceived,
LEMMA OneWayReceivedType ==
  ASSUME NEW n \in NeighborRecord
  PROVE  OneWayReceived(n) \in NeighborRecord
  BY ResetType, MovedType, States DEF OneWayReceived

\* and InactivityTimer.
LEMMA InactivityType ==
  ASSUME NEW n \in NeighborRecord
  PROVE  Inactivity(n) \in NeighborRecord
  BY ResetType, MovedType, States DEF Inactivity

---------------------------------------------------------------------------
(* The type of the network.                                                *)

\* The other router is a router.
LEMMA PeerType ==
  ASSUME NEW r \in Router
  PROVE  Peer(r) \in Router /\ Peer(r) # r /\ Peer(Peer(r)) = r
  BY DEF Router, Peer

\* Taking one packet out of those in flight leaves packets.
LEMMA WithoutType ==
  ASSUME NEW S, NEW s \in Seq(S), NEW i \in 1..Len(s)
  PROVE  Without(s, i) \in Seq(S)
  <1>1. Len(s) - 1 \in Nat
    OBVIOUS
  <1>2. \A j \in 1..(Len(s) - 1) : s[j] \in S /\ s[j + 1] \in S
    OBVIOUS
  <1>3. Without(s, i) \in [1..(Len(s) - 1) -> S]
    BY <1>2 DEF Without
  <1> QED BY <1>1, <1>3

\* A handler that takes a packet and sends some keeps the type of the network.
LEMMA ExchangedType ==
  ASSUME TypeOK, NEW r \in Router, NEW i \in 1..Len(net[r]),
         NEW out \in Seq(Message), Exchanged(r, i, out)
  PROVE  net' \in [Router -> Seq(Message)]
  <1>1. Without(net[r], i) \in Seq(Message)
    BY WithoutType DEF TypeOK
  <1>2. net[Peer(r)] \o out \in Seq(Message)
    BY PeerType DEF TypeOK
  <1> QED BY <1>1, <1>2, PeerType DEF Exchanged, TypeOK

\* Replacing one record keeps the type of the records.
LEMMA BecomeType ==
  ASSUME TypeOK, NEW r \in Router, NEW n \in NeighborRecord, Become(r, n)
  PROVE  nbr' \in [Router -> NeighborRecord]
  BY DEF Become, TypeOK

\* A listing of some headers is a sequence of headers.
LEMMA OrdersType ==
  ASSUME NEW r, NEW S \in SUBSET Header, NEW s \in Orders(r, S)
  PROVE  s \in Seq(Header)
  <1>1. Cardinality(S) \in Nat
    BY HeaderFinite, FS_Subset, FS_CardinalityType
  <1>2. s \in [1..Cardinality(S) -> S]
    BY DEF Orders
  <1>3. s \in [1..Cardinality(S) -> Header]
    BY <1>2
  <1> QED BY <1>1, <1>3

\* A page is a set of headers.
LEMMA PagesType ==
  ASSUME NEW r, NEW S \in SUBSET Header, NEW limit, NEW page \in Pages(r, S, limit)
  PROVE  page \in SUBSET Header
  BY DEF Pages

\* What r's record becomes when it takes a page and answers as slave or master.
LEMMA SlaveAnswerType ==
  ASSUME NEW q \in NeighborRecord, NEW m \in DDPacket, NEW page \in SUBSET Header
  PROVE  LET reply == DD(FALSE, m.more, FALSE, m.seq, page) IN
         /\ [q EXCEPT !.seq = m.seq, !.summary = @ \ page, !.rxmt = Packet(reply)]
              \in NeighborRecord
         /\ <<reply>> \in Seq(Message)
  <1> DEFINE reply == DD(FALSE, m.more, FALSE, m.seq, page)
  <1>1. m.more \in BOOLEAN /\ m.seq \in Nat
    BY DEF DDPacket
  <1>2. reply \in DDPacket /\ Packet(reply) \in DdRxmt
    BY <1>1, DDType
  <1> HIDE DEF reply
  <1>3. [q EXCEPT !.seq = m.seq, !.summary = @ \ page, !.rxmt = Packet(reply)]
          \in NeighborRecord
    BY <1>1, <1>2 DEF NeighborRecord
  <1>4. <<reply>> \in Seq(Message)
    BY <1>2 DEF Message
  <1> QED BY <1>3, <1>4 DEF reply

\* The same for the master.
LEMMA MasterAnswerType ==
  ASSUME NEW q \in NeighborRecord, NEW page \in SUBSET Header
  PROVE  LET next == [q EXCEPT !.seq = @ + 1]
             left == next.summary \ page
         IN  /\ next \in NeighborRecord
             /\ SpawnMasterSendDD([next EXCEPT !.summary = left],
                    DD(FALSE, left # {}, TRUE, next.seq, page)) \in NeighborRecord
  <1> DEFINE next == [q EXCEPT !.seq = @ + 1]
             left == next.summary \ page
             pkt  == DD(FALSE, left # {}, TRUE, next.seq, page)
  <1>1. next \in NeighborRecord
    BY DEF NeighborRecord
  <1>2. left \in SUBSET Header /\ next.seq \in Nat
    BY <1>1 DEF NeighborRecord
  <1> HIDE DEF next, left
  <1>3. Handle(pkt) \in DdRxmt
    BY <1>2, DDType
  <1> HIDE DEF pkt
  <1>4. SpawnMasterSendDD([next EXCEPT !.summary = left], pkt) \in NeighborRecord
    BY <1>1, <1>2, <1>3 DEF SpawnMasterSendDD, NeighborRecord
  <1> QED BY <1>1, <1>4 DEF next, left, pkt

\* Taking a page of headers keeps all types, whichever side answers.
LEMMA TakePageType ==
  ASSUME TypeOK, NEW r \in Router, NEW i \in 1..Len(net[r]),
         NEW m \in DDPacket, NEW n \in NeighborRecord, TakePage(r, i, m, n)
  PROVE  nbr' \in [Router -> NeighborRecord] /\ net' \in [Router -> Seq(Message)]
  <1> DEFINE need == {h \in m.hdrs : NeedUpdate(r, h)}
  <1>1. need \in SUBSET Header
    BY DEF DDPacket
  <1>2. PICK order \in Orders(Peer(r), need) :
          LET q == SpawnLsrSender([n EXCEPT !.req = @ \o order]) IN
          IF q.master
          THEN \E page \in Pages(r, q.summary,
                              IF m.more THEN SlavePage ELSE Cardinality(q.summary)) :
                 LET reply == DD(FALSE, m.more, FALSE, m.seq, page)
                     sent  == [q EXCEPT !.seq = m.seq, !.summary = @ \ page,
                                        !.rxmt = Packet(reply)]
                 IN /\ Become(r, IF m.more THEN sent ELSE ExchangeDone(sent))
                    /\ Exchanged(r, i, <<reply>>)
          ELSE \E page \in Pages(r, q.summary, MasterPage) :
                 LET next == [q EXCEPT !.seq = @ + 1]
                     left == next.summary \ page
                 IN /\ Become(r,
                          IF m.more \/ page # {}
                          THEN SpawnMasterSendDD([next EXCEPT !.summary = left],
                                   DD(FALSE, left # {}, TRUE, next.seq, page))
                          ELSE ExchangeDone(next))
                    /\ Exchanged(r, i, <<>>)
    BY DEF TakePage
  <1>3. order \in Seq(Header)
    BY <1>1, OrdersType
  <1> DEFINE q == SpawnLsrSender([n EXCEPT !.req = @ \o order])
  <1>4. q \in NeighborRecord
    <2>1. n.req \o order \in Seq(Header)
      BY <1>3 DEF NeighborRecord
    <2>2. [n EXCEPT !.req = @ \o order] \in NeighborRecord
      BY <2>1 DEF NeighborRecord
    <2> QED BY <2>2, SpawnLsrSenderType
  <1>5. q.summary \in SUBSET Header
    BY <1>4 DEF NeighborRecord
  <1> HIDE DEF q
  <1>6. CASE q.master
    <2>1. PICK page \in Pages(r, q.summary,
                              IF m.more THEN SlavePage ELSE Cardinality(q.summary)) :
            LET reply == DD(FALSE, m.more, FALSE, m.seq, page)
                sent  == [q EXCEPT !.seq = m.seq, !.summary = @ \ page,
                                   !.rxmt = Packet(reply)]
            IN /\ Become(r, IF m.more THEN sent ELSE ExchangeDone(sent))
               /\ Exchanged(r, i, <<reply>>)
      BY <1>2, <1>6 DEF q
    <2>2. page \in SUBSET Header
      BY <1>5, PagesType
    <2> QED BY <1>4, <2>1, <2>2, SlaveAnswerType, ExchangeDoneType, BecomeType, ExchangedType
  <1>7. CASE ~q.master
    <2>1. PICK page \in Pages(r, q.summary, MasterPage) :
            LET next == [q EXCEPT !.seq = @ + 1]
                left == next.summary \ page
            IN /\ Become(r,
                     IF m.more \/ page # {}
                     THEN SpawnMasterSendDD([next EXCEPT !.summary = left],
                              DD(FALSE, left # {}, TRUE, next.seq, page))
                     ELSE ExchangeDone(next))
               /\ Exchanged(r, i, <<>>)
      BY <1>2, <1>7 DEF q
    <2>2. page \in SUBSET Header
      BY <1>5, PagesType
    <2>3. <<>> \in Seq(Message)
      OBVIOUS
    <2> QED BY <1>4, <2>1, <2>2, <2>3, MasterAnswerType, ExchangeDoneType, BecomeType,
               ExchangedType
  <1> QED BY <1>6, <1>7

---------------------------------------------------------------------------
(* The type invariant.                                                     *)

\* What the clock reads is a number.
LEMMA ClockType == \A start \in StartSeq : start \in Nat
  BY StartSeqAssumption

\* judge_connect answers yes or no.
LEMMA JudgeType == \A connect \in Connect : connect \in BOOLEAN
  BY ConnectAssumption

\* What is delivered is a packet.
LEMMA DeliveredType ==
  ASSUME TypeOK, NEW r \in Router, NEW i \in Deliverable(r)
  PROVE  i \in 1..Len(net[r]) /\ net[r][i] \in Message
  BY DEF TypeOK, Deliverable

\* The hello handler keeps the types.
LEMMA HelloTypes ==
  ASSUME TypeOK, NEW r \in Router, Hello(r)
  PROVE  TypeOK'
  <1>1. PICK connect \in Connect, start \in StartSeq :
          LET seen == nbr[Peer(r)].state # "Down"
              n    == HelloReceive(nbr[r])
          IN nbr' = [nbr EXCEPT
                ![Peer(r)] = IF seen THEN @ ELSE NewNeighbor,
                ![r] = IF seen THEN TwoWayReceived(n, connect, start)
                               ELSE OneWayReceived(n)]
    BY DEF Hello
  <1>2. /\ nbr[r] \in NeighborRecord /\ nbr[Peer(r)] \in NeighborRecord
        /\ HelloReceive(nbr[r]) \in NeighborRecord
    BY PeerType, HelloReceiveType DEF TypeOK
  <1>3. nbr' \in [Router -> NeighborRecord]
    BY <1>1, <1>2, PeerType, ClockType, JudgeType, NewNeighborType,
       TwoWayReceivedType, OneWayReceivedType DEF TypeOK
  <1> QED BY <1>3 DEF Hello, TypeOK

\* The DD handler keeps the types.
LEMMA HandleDDTypes ==
  ASSUME TypeOK, NEW r \in Router, HandleDD(r)
  PROVE  TypeOK'
  <1>1. UNCHANGED <<db, faults>>
    BY DEF HandleDD
  <1>2. PICK i \in Deliverable(r) :
          /\ net[r][i].type = "DD"
          /\ IF nbr[r].state = "Down"
             THEN UNCHANGED nbr /\ Exchanged(r, i, <<>>)
             ELSE \E n \in Admitted(nbr[r]) :
                     \/ AcceptMaster(r, i, net[r][i], n)
                     \/ AcceptSlave(r, i, net[r][i], n)
                     \/ IgnoreDD(r, i, net[r][i], n)
                     \/ DuplicateDD(r, i, net[r][i], n)
                     \/ NextDD(r, i, net[r][i], n)
                     \/ RestartDD(r, i, net[r][i], n)
    BY DEF HandleDD
  <1> DEFINE m == net[r][i]
  <1>3. i \in 1..Len(net[r]) /\ m \in DDPacket
    BY <1>2, DeliveredType DEF Message, LSRequest, LSUpdate
  <1>4. nbr[r] \in NeighborRecord /\ <<>> \in Seq(Message)
    BY DEF TypeOK
  <1> HIDE DEF m
  <1>5. SUFFICES nbr' \in [Router -> NeighborRecord] /\ net' \in [Router -> Seq(Message)]
    BY <1>1 DEF TypeOK
  <1>6. CASE nbr[r].state = "Down"
    BY <1>2, <1>3, <1>4, <1>6, ExchangedType DEF TypeOK
  <1>7. CASE nbr[r].state # "Down"
    <2>1. PICK n \in Admitted(nbr[r]) :
             \/ AcceptMaster(r, i, m, n)
             \/ AcceptSlave(r, i, m, n)
             \/ IgnoreDD(r, i, m, n)
             \/ DuplicateDD(r, i, m, n)
             \/ NextDD(r, i, m, n)
             \/ RestartDD(r, i, m, n)
      BY <1>2, <1>7 DEF m
    <2>2. n \in NeighborRecord
      BY <1>4, ClockType, JudgeType, TwoWayReceivedType DEF Admitted
    <2>3. /\ Cache(m) \in DdPacketCache /\ m.seq \in Nat
          /\ [n EXCEPT !.last = Cache(m)] \in NeighborRecord
      BY <1>3, <2>2, CacheType DEF NeighborRecord, DDPacket
    <2>4. AllLsa(r) \in SUBSET Header
      BY DEF AllLsa
    <2>5. CASE AcceptMaster(r, i, m, n)
      <3>1. [n EXCEPT !.last = Cache(m), !.master = TRUE, !.seq = m.seq] \in NeighborRecord
        BY <2>2, <2>3 DEF NeighborRecord
      <3> QED BY <1>3, <2>4, <2>5, <3>1, NegotiationDoneType, TakePageType DEF AcceptMaster
    <2>6. CASE AcceptSlave(r, i, m, n)
      <3>1. [n EXCEPT !.last = Cache(m), !.master = FALSE] \in NeighborRecord
        BY <2>2, <2>3 DEF NeighborRecord
      <3> QED BY <1>3, <2>4, <2>6, <3>1, NegotiationDoneType, TakePageType DEF AcceptSlave
    <2>7. CASE IgnoreDD(r, i, m, n)
      BY <1>3, <1>4, <2>3, <2>7, BecomeType, ExchangedType DEF IgnoreDD
    <2>8. CASE DuplicateDD(r, i, m, n)
      <3>1. <<n.rxmt.pkt>> \in Seq(Message)
        BY <2>2 DEF NeighborRecord, DdRxmt, Message
      <3> QED BY <1>3, <1>4, <2>8, <3>1, ExchangedType DEF DuplicateDD, TypeOK
    <2>9. CASE NextDD(r, i, m, n)
      BY <1>3, <2>3, <2>9, TakePageType DEF NextDD
    <2>10. CASE RestartDD(r, i, m, n)
      BY <1>3, <1>4, <2>3, <2>10, ClockType, SeqNumberMismatchType, BecomeType, ExchangedType
         DEF RestartDD
    <2> QED BY <2>1, <2>5, <2>6, <2>7, <2>8, <2>9, <2>10
  <1> QED BY <1>6, <1>7

\* The tasks that resend packets and requests keep the types.
LEMMA TaskTypes ==
  ASSUME TypeOK, NEW r \in Router, Task(r)
  PROVE  TypeOK'
  <1>1. nbr[r] \in NeighborRecord
    BY DEF TypeOK
  <1>2. CASE ResendDD(r)
    <2>1. nbr[r].rxmt.pkt \in Message
      BY <1>1 DEF NeighborRecord, DdRxmt, Message
    <2>2. Append(net[Peer(r)], nbr[r].rxmt.pkt) \in Seq(Message)
      BY <2>1, PeerType DEF TypeOK
    <2> QED BY <1>2, <2>2, PeerType DEF ResendDD, TypeOK
  <1>3. CASE PeekRequest(r)
    <2>1. [LoadingDone(nbr[r]) EXCEPT !.lsr = "ended"] \in NeighborRecord
      <3>1. LoadingDone(nbr[r]) \in NeighborRecord
        BY <1>1, LoadingDoneType
      <3> QED BY <3>1 DEF NeighborRecord
    <2>2. ASSUME nbr[r].req # <<>>
          PROVE  [nbr[r] EXCEPT !.lsr = "wait", !.child = Head(nbr[r].req).key]
                    \in NeighborRecord
      <3>1. Head(nbr[r].req).key \in Keys
        BY <1>1, <2>2, FrontType
      <3> DEFINE k == Head(nbr[r].req).key
      <3>2. k \in Keys
        BY <3>1
      <3> HIDE DEF k
      <3>3. [nbr[r] EXCEPT !.lsr = "wait", !.child = k] \in NeighborRecord
        BY <1>1, <3>2, WaitingType
      <3> QED BY <3>3 DEF k
    <2> QED BY <1>3, <2>1, <2>2, BecomeType DEF PeekRequest, TypeOK
  <1>4. CASE ChildAborted(r)
    <2>1. [nbr[r] EXCEPT !.lsr = "peek"] \in NeighborRecord
      BY <1>1 DEF NeighborRecord
    <2> QED BY <1>4, <2>1, BecomeType DEF ChildAborted, TypeOK
  <1>5. CASE SenderFinished(r)
    <2>1. [nbr[r] EXCEPT !.lsr = "none"] \in NeighborRecord
      BY <1>1 DEF NeighborRecord
    <2> QED BY <1>5, <2>1, BecomeType DEF SenderFinished, TypeOK
  <1>6. CASE ResendLSR(r)
    <2>1. LSR(nbr[r].child) \in Message
      BY <1>1, <1>6 DEF ResendLSR, NeighborRecord, LSR, LSRequest, Message
    <2>2. Append(net[Peer(r)], LSR(nbr[r].child)) \in Seq(Message)
      BY <2>1, PeerType DEF TypeOK
    <2> QED BY <1>6, <2>2, PeerType DEF ResendLSR, TypeOK
  <1> QED BY <1>2, <1>3, <1>4, <1>5, <1>6 DEF Task

\* The LSR handler keeps the types: what it answers is in the database.
LEMMA HandleLSRTypes ==
  ASSUME TypeOK, NEW r \in Router, HandleLSR(r)
  PROVE  TypeOK'
  <1>1. PICK i \in Deliverable(r) :
          /\ net[r][i].type = "LSR"
          /\ IF nbr[r].state \in Exchanging /\ db[r][net[r][i].key] = 0
             THEN \E start \in StartSeq : Become(r, SeqNumberMismatch(nbr[r], start))
             ELSE UNCHANGED nbr
          /\ Exchanged(r, i,
                IF nbr[r].state \in Exchanging /\ db[r][net[r][i].key] > 0
                THEN <<LSU(net[r][i].key, db[r][net[r][i].key])>> ELSE <<>>)
          /\ UNCHANGED <<db, faults>>
    BY DEF HandleLSR
  <1>2. i \in 1..Len(net[r]) /\ net[r][i].key \in Keys
    BY <1>1, DeliveredType DEF Message, LSRequest, LSUpdate, DDPacket
  <1>3. /\ nbr[r] \in NeighborRecord
        /\ db[r][net[r][i].key] \in 0..MaxInst
    BY <1>2 DEF TypeOK, Database
  <1>4. nbr' \in [Router -> NeighborRecord]
    BY <1>1, <1>3, ClockType, SeqNumberMismatchType, BecomeType DEF TypeOK
  <1>5. ASSUME db[r][net[r][i].key] > 0
        PROVE  <<LSU(net[r][i].key, db[r][net[r][i].key])>> \in Seq(Message)
    <2>1. db[r][net[r][i].key] \in 1..MaxInst
      BY <1>3, <1>5, MaxInstAssumption
    <2> QED BY <1>2, <2>1 DEF LSU, LSUpdate, Header, Message
  <1>6. <<>> \in Seq(Message)
    OBVIOUS
  <1>7. net' \in [Router -> Seq(Message)]
    BY <1>1, <1>2, <1>5, <1>6, ExchangedType
  <1> QED BY <1>1, <1>4, <1>7 DEF TypeOK

\* swap_remove_back gives a list of headers.
LEMMA SwapRemoveType ==
  ASSUME NEW S, NEW s \in Seq(S), s # <<>>, NEW i
  PROVE  SwapRemove(s, i) \in Seq(S)
  <1>1. Len(s) - 1 \in Nat /\ s[Len(s)] \in S
    OBVIOUS
  <1>2. \A j \in 1..(Len(s) - 1) : s[j] \in S
    OBVIOUS
  <1>3. SwapRemove(s, i) \in [1..(Len(s) - 1) -> S]
    BY <1>1, <1>2 DEF SwapRemove
  <1> QED BY <1>1, <1>3

\* The record after an update that answers the request in flight.
LEMMA AnsweredType ==
  ASSUME NEW n \in NeighborRecord, NEW h
  PROVE  Answered(n, h) \in NeighborRecord
  BY LsrRecvUpdateType DEF Answered

\* A request found is on the list.
LEMMA SmallestExists ==
  ASSUME NEW S \in SUBSET Nat, S # {}
  PROVE  \E i \in S : \A j \in S : i <= j
  <1> DEFINE less == OpToRel(<, Nat)
  <1>1. PICK i \in S : \A j \in S : <<j, i>> \notin less
    BY NatLessThanWellFounded, WFMin
  <1>2. \A j \in S : ~ (j < i)
    BY <1>1 DEF OpToRel
  <1> QED BY <1>2

\* The place of a request in the list is a place of the list.
LEMMA RequestAtType ==
  ASSUME NEW n \in NeighborRecord, NEW h, RequestAt(n, h) > 0
  PROVE  RequestAt(n, h) \in 1..Len(n.req)
  <1> DEFINE at == {i \in 1..Len(n.req) : n.req[i].key = h.key}
  <1>1. at # {}
    BY DEF RequestAt
  <1>2. at \subseteq Nat
    OBVIOUS
  <1>3. \E i \in at : \A j \in at : i <= j
    BY <1>1, <1>2, SmallestExists
  <1> QED BY <1>1, <1>3 DEF RequestAt

\* The record after flooding took a request off the list.
LEMMA FloodedType ==
  ASSUME NEW n \in NeighborRecord, NEW h
  PROVE  Flooded(n, h) \in NeighborRecord
  <1> DEFINE at == RequestAt(n, h)
  <1>1. CASE n.state \in Exchanging /\ at > 0 /\ h.inst >= n.req[at].inst
    <2>1. n.req \in Seq(Header) /\ n.req # <<>>
      BY <1>1, RequestAtType DEF NeighborRecord
    <2>2. SwapRemove(n.req, at) \in Seq(Header)
      BY <2>1, SwapRemoveType
    <2> HIDE DEF at
    <2>3. [n EXCEPT !.req = SwapRemove(@, at), !.child = NoKey] \in NeighborRecord
      BY <2>2 DEF NeighborRecord
    <2> QED BY <1>1, <2>3 DEF Flooded, at
  <1>2. CASE ~(n.state \in Exchanging /\ at > 0 /\ h.inst >= n.req[at].inst)
    BY <1>2 DEF Flooded
  <1> QED BY <1>1, <1>2

\* The LSU handler keeps the types.
LEMMA HandleLSUTypes ==
  ASSUME TypeOK, NEW r \in Router, HandleLSU(r)
  PROVE  TypeOK'
  <1>1. PICK i \in Deliverable(r) :
          LET h == net[r][i].lsa
              n == Answered(nbr[r], h)
          IN
          /\ net[r][i].type = "LSU"
          /\ \/ /\ NeedUpdate(r, h)
                /\ Become(r, Flooded(n, h))
                /\ db' = [db EXCEPT ![r] = [@ EXCEPT ![h.key] = h.inst]]
                /\ Exchanged(r, i, <<>>)
                /\ UNCHANGED faults
             \/ /\ NeedUpdate(r, h) /\ db[r][h.key] > 0
                /\ Fault("young")
                /\ Become(r, n)
                /\ Exchanged(r, i, <<>>)
                /\ UNCHANGED db
             \/ /\ ~NeedUpdate(r, h)
                /\ \E j \in 1..Len(n.req) : n.req[j] = h
                /\ \E start \in StartSeq : Become(r, SeqNumberMismatch(n, start))
                /\ Exchanged(r, i, <<>>)
                /\ UNCHANGED <<db, faults>>
             \/ /\ ~NeedUpdate(r, h)
                /\ ~ \E j \in 1..Len(n.req) : n.req[j] = h
                /\ Become(r, n)
                /\ \E out \in {<<>>} \cup
                              {<<LSU(h.key, k)>> : k \in {db[r][h.key]} \ {h.inst}} :
                      Exchanged(r, i, out)
                /\ UNCHANGED <<db, faults>>
    BY DEF HandleLSU
  <1> DEFINE h == net[r][i].lsa
             n == Answered(nbr[r], h)
  <1>2. i \in 1..Len(net[r]) /\ h \in Header
    BY <1>1, DeliveredType DEF Message, LSRequest, LSUpdate, DDPacket
  <1>3. n \in NeighborRecord
    BY AnsweredType DEF TypeOK
  <1>4. h.key \in Keys /\ h.inst \in 1..MaxInst
    BY <1>2 DEF Header
  <1>5. db[r] \in Database /\ db[r][h.key] \in 0..MaxInst
    BY <1>4 DEF TypeOK, Database
  <1>6. <<>> \in Seq(Message)
    OBVIOUS
  <1> HIDE DEF h, n
  <1>7. CASE /\ Become(r, Flooded(n, h))
             /\ db' = [db EXCEPT ![r] = [@ EXCEPT ![h.key] = h.inst]]
             /\ Exchanged(r, i, <<>>)
             /\ UNCHANGED faults
    <2>1. [db[r] EXCEPT ![h.key] = h.inst] \in Database
      BY <1>4, <1>5, MaxInstAssumption DEF Database
    <2>2. db' \in [Router -> Database]
      BY <1>7, <2>1 DEF TypeOK
    <2> QED BY <1>2, <1>3, <1>6, <1>7, <2>2, FloodedType, BecomeType, ExchangedType DEF TypeOK
  <1>8. CASE /\ \E start \in StartSeq : Become(r, SeqNumberMismatch(n, start))
             /\ Exchanged(r, i, <<>>)
             /\ UNCHANGED <<db, faults>>
    BY <1>2, <1>3, <1>6, <1>8, ClockType, SeqNumberMismatchType, BecomeType, ExchangedType
       DEF TypeOK
  <1>9. CASE /\ ~NeedUpdate(r, h)
             /\ Become(r, n)
             /\ \E out \in {<<>>} \cup
                           {<<LSU(h.key, k)>> : k \in {db[r][h.key]} \ {h.inst}} :
                   Exchanged(r, i, out)
             /\ UNCHANGED <<db, faults>>
    <2>1. db[r][h.key] \in 1..MaxInst
      BY <1>4, <1>5, <1>9, MaxInstAssumption DEF NeedUpdate
    <2>2. <<LSU(h.key, db[r][h.key])>> \in Seq(Message)
      BY <1>4, <2>1 DEF LSU, LSUpdate, Header, Message
    <2> QED BY <1>2, <1>3, <1>6, <1>9, <2>2, BecomeType, ExchangedType DEF TypeOK
  <1>10. CASE /\ Fault("young")
              /\ Become(r, n)
              /\ Exchanged(r, i, <<>>)
              /\ UNCHANGED db
    <2>1. faults' \in 0..MaxFaults
      BY <1>10, BoundAssumption DEF Fault, TypeOK
    <2> QED BY <1>2, <1>3, <1>6, <1>10, <2>1, BecomeType, ExchangedType DEF TypeOK
  <1> QED BY <1>1, <1>7, <1>8, <1>9, <1>10 DEF h, n

\* Timeouts, restarts, expiry, losses and DR changes keep the types.
LEMMA DisturbanceTypes ==
  ASSUME TypeOK, NEW r \in Router, Disturbance(r)
  PROVE  TypeOK'
  <1>1. nbr[r] \in NeighborRecord
    BY DEF TypeOK
  <1>2. ASSUME NEW kind, Fault(kind)
        PROVE  faults' \in 0..MaxFaults
    BY <1>2, BoundAssumption DEF Fault, TypeOK
  <1>3. CASE Reelected(r)
    BY <1>1, <1>2, <1>3, ClockType, JudgeType, AdjOkType, BecomeType DEF Reelected, TypeOK
  <1>4. CASE InactivityTimer(r)
    BY <1>1, <1>2, <1>4, InactivityType, BecomeType DEF InactivityTimer, TypeOK
  <1>5. CASE Restart(r)
    BY <1>2, <1>5, NewNeighborType, BecomeType, OwnAssumption DEF Restart, TypeOK
  <1>6. CASE Expire(r)
    <2>1. PICK k \in Keys :
            /\ db' = [db EXCEPT ![r] = [@ EXCEPT ![k] = 0]]
            /\ Fault("expire")
            /\ UNCHANGED <<nbr, net>>
      BY <1>6 DEF Expire
    <2>2. [db[r] EXCEPT ![k] = 0] \in Database
      BY MaxInstAssumption DEF TypeOK, Database
    <2> QED BY <1>2, <2>1, <2>2 DEF TypeOK
  <1>7. CASE Lose(r)
    <2>1. PICK i \in 1..Len(net[r]) :
            /\ net' = [net EXCEPT ![r] = Without(@, i)]
            /\ Fault("loss")
            /\ UNCHANGED <<nbr, db>>
      BY <1>7 DEF Lose
    <2>2. Without(net[r], i) \in Seq(Message)
      BY WithoutType DEF TypeOK
    <2> QED BY <1>2, <2>1, <2>2 DEF TypeOK
  <1> QED BY <1>3, <1>4, <1>5, <1>6, <1>7 DEF Disturbance

\* Whatever happens, the records, databases and packets are well formed: no step
\* of the daemon takes a neighbor to a state, a list or a packet the code has no
\* meaning for (an answer without an LSA, a request for none).
THEOREM TypeCorrect == Spec => []TypeOK
  <1>1. Init => TypeOK
    <2> SUFFICES ASSUME Init PROVE TypeOK
      OBVIOUS
    <2>1. nbr \in [Router -> NeighborRecord] /\ db \in [Router -> Database]
      BY NewNeighborType, OwnAssumption DEF Init
    <2>2. net \in [Router -> Seq(Message)] /\ faults \in 0..MaxFaults
      BY BoundAssumption DEF Init
    <2> QED BY <2>1, <2>2 DEF TypeOK
  <1>2. TypeOK /\ [Next]_vars => TypeOK'
    <2> SUFFICES ASSUME TypeOK, [Next]_vars PROVE TypeOK'
      OBVIOUS
    <2>1. CASE UNCHANGED vars
      BY <2>1 DEF vars, TypeOK
    <2>2. ASSUME NEW r \in Router, Task(r) PROVE TypeOK'
      BY <2>2, TaskTypes
    <2>3. ASSUME NEW r \in Router, Handler(r) PROVE TypeOK'
      BY <2>3, HelloTypes, HandleDDTypes, HandleLSRTypes, HandleLSUTypes DEF Handler
    <2>4. ASSUME NEW r \in Router, Disturbance(r) PROVE TypeOK'
      BY <2>4, DisturbanceTypes
    <2> QED BY <2>1, <2>2, <2>3, <2>4 DEF Next
  <1> QED BY <1>1, <1>2, PTL DEF Spec
---------------------------------------------------------------------------
(* The inductive invariant of the adjacency.  Roles, Driver, CleanStart and  *)
(* ChildAsksFront speak of one record each, but none is inductive alone:     *)
(* a restart spawns its task only because a clean record has seq = 0, and    *)
(* accepting a packet is right about the driver only because of the roles.   *)

Clean(n) ==
    /\ n.seq = 0 /\ n.rxmt = NoRxmt /\ n.summary = {} /\ n.req = <<>>
    /\ n.lsr \in {"none", "ended"} /\ n.child = NoKey

\* The child task repeats the front of the list.
ChildOK(n) ==
    n.child # NoKey => n.lsr = "wait" /\ n.req # <<>> /\ Head(n.req).key = n.child

Drives(n) == n.state = "ExStart" \/ (n.state = "Exchange" /\ ~n.master)

\* A record whose owner is slave (the peer's id is larger) or is not.
Good(n, slave) ==
    /\ n.state \in Exchanging => (n.master <=> slave)
    /\ n.state = "ExStart" => ~n.master
    /\ n.rxmt.kind = "Handle" <=> Drives(n)
    /\ n.state \notin Adjacent => Clean(n)
    /\ n.state = "Full" => n.req = <<>>
    /\ ChildOK(n)

AllGood == \A r \in Router : Good(nbr[r], Peer(r) > r)

\* A new record is clean.
LEMMA NewNeighborGood ==
  ASSUME NEW slave \in BOOLEAN
  PROVE  Good(NewNeighbor, slave)
  BY DEF Good, NewNeighbor, Clean, ChildOK, Drives, Adjacent, Exchanging, NoRxmt

\* A record that was reset is clean, whatever it held.
LEMMA ResetClean ==
  ASSUME NEW n \in NeighborRecord
  PROVE  /\ Reset(n) \in NeighborRecord
         /\ Clean(Reset(n)) /\ Reset(n).state = n.state /\ Reset(n).master = n.master
  <1>1. AbortedLsr(n.lsr) \in {"none", "ended"}
    BY DEF AbortedLsr, NeighborRecord
  <1> QED BY <1>1, ResetType DEF Reset, Clean, NeighborRecord

\* A clean record below ExStart is good.
LEMMA CleanGood ==
  ASSUME NEW n \in NeighborRecord, NEW slave \in BOOLEAN, Clean(n), n.state \notin Adjacent
  PROVE  Good(n, slave)
  BY DEF Good, Clean, ChildOK, Drives, Adjacent, Exchanging, NoRxmt

\* Moving a clean record to another state leaves it clean.
LEMMA MovedClean ==
  ASSUME NEW n \in NeighborRecord, Clean(n), NEW s \in NeighborState
  PROVE  /\ [n EXCEPT !.state = s] \in NeighborRecord
         /\ Clean([n EXCEPT !.state = s]) /\ [n EXCEPT !.state = s].state = s
  BY MovedType DEF Clean, NeighborRecord

\* An exchange that starts from a clean record has its driver: the zero test of
\* ex_start passes.
LEMMA StartExchangeGood ==
  ASSUME NEW n \in NeighborRecord, NEW slave \in BOOLEAN, NEW start \in Nat,
         Clean(n), n.state \in {"ExStart", "TwoWay"}
  PROVE  Good(StartExchange(n, start), slave)
  <1>1. CASE n.state = "TwoWay"
    BY <1>1, CleanGood DEF StartExchange, Adjacent, Exchanging
  <1>2. CASE n.state = "ExStart"
    <2> DEFINE q == StartExchange(n, start)
               pkt == DD(TRUE, TRUE, TRUE, start, {})
    <2> HIDE DEF pkt
    <2>1. q = [n EXCEPT !.seq = start, !.master = FALSE, !.rxmt = Handle(pkt)]
      BY <1>2 DEF StartExchange, Clean, SpawnMasterSendDD, NeighborRecord, pkt
    <2>2. /\ q.state = "ExStart" /\ q.master = FALSE /\ q.child = NoKey
          /\ q.rxmt = Handle(pkt)
      BY <1>2, <2>1 DEF Clean, NeighborRecord
    <2> HIDE DEF q
    <2>3. q.rxmt.kind = "Handle"
      BY <2>2 DEF Handle
    <2>4. Good(q, slave)
      BY <2>2, <2>3 DEF Good, ChildOK, Drives, Adjacent, Exchanging
    <2> QED BY <2>4 DEF q
  <1> QED BY <1>1, <1>2

\* Every event of the neighbor state machine, from here to AdjOkGood, makes of a
\* good record a good one: the judgement of the adjacency,
LEMMA JudgedGood ==
  ASSUME NEW n \in NeighborRecord, NEW slave \in BOOLEAN, NEW connect \in BOOLEAN,
         NEW start \in Nat, Clean(n)
  PROVE  Good(Judged(n, connect, start), slave)
  <1> DEFINE s == IF connect THEN "ExStart" ELSE "TwoWay"
             q == [n EXCEPT !.state = s]
  <1>1. s \in NeighborState /\ s \in {"ExStart", "TwoWay"}
    BY States
  <1> HIDE DEF s
  <1>2. q \in NeighborRecord /\ Clean(q) /\ q.state = s
    BY <1>1, MovedClean
  <1> HIDE DEF q
  <1>3. Good(StartExchange(q, start), slave)
    BY <1>1, <1>2, StartExchangeGood
  <1> QED BY <1>3 DEF Judged, s, q

\* HelloReceived,
LEMMA HelloReceiveGood ==
  ASSUME NEW n \in NeighborRecord, NEW slave \in BOOLEAN, Good(n, slave)
  PROVE  Good(HelloReceive(n), slave)
  <1>1. CASE n.state = "Down"
    <2>1. Clean(n)
      BY <1>1 DEF Good, Adjacent, Exchanging
    <2>2. "Init" \in NeighborState /\ "Init" \notin Adjacent
      BY States DEF Adjacent, Exchanging
    <2> QED BY <1>1, <2>1, <2>2, MovedClean, CleanGood DEF HelloReceive
  <1> QED BY <1>1 DEF HelloReceive

\* 2-WayReceived,
LEMMA TwoWayReceivedGood ==
  ASSUME NEW n \in NeighborRecord, NEW slave \in BOOLEAN, Good(n, slave),
         NEW connect \in BOOLEAN, NEW start \in Nat
  PROVE  Good(TwoWayReceived(n, connect, start), slave)
  <1>1. n.state = "Init" => Clean(n)
    BY DEF Good, Adjacent, Exchanging
  <1> QED BY <1>1, JudgedGood DEF TwoWayReceived

\* 1-WayReceived,
LEMMA OneWayReceivedGood ==
  ASSUME NEW n \in NeighborRecord, NEW slave \in BOOLEAN, Good(n, slave)
  PROVE  Good(OneWayReceived(n), slave)
  <1>1. "Init" \in NeighborState /\ "Init" \notin Adjacent
    BY States DEF Adjacent, Exchanging
  <1> QED BY <1>1, ResetClean, MovedClean, CleanGood DEF OneWayReceived

\* InactivityTimer,
LEMMA InactivityGood ==
  ASSUME NEW n \in NeighborRecord, NEW slave \in BOOLEAN
  PROVE  Good(Inactivity(n), slave)
  <1>1. "Down" \in NeighborState /\ "Down" \notin Adjacent
    BY States DEF Adjacent, Exchanging
  <1> QED BY <1>1, ResetClean, MovedClean, CleanGood DEF Inactivity

\* SeqNumberMismatch and BadLSReq,
LEMMA SeqNumberMismatchGood ==
  ASSUME NEW n \in NeighborRecord, NEW slave \in BOOLEAN, Good(n, slave),
         NEW start \in Nat
  PROVE  Good(SeqNumberMismatch(n, start), slave)
  <1> DEFINE q == [Reset(n) EXCEPT !.state = "ExStart"]
  <1>1. q \in NeighborRecord /\ Clean(q) /\ q.state = "ExStart"
    BY ResetClean, MovedClean, States
  <1> HIDE DEF q
  <1>2. Good(StartExchange(q, start), slave)
    BY <1>1, StartExchangeGood
  <1> QED BY <1>2 DEF SeqNumberMismatch, q

\* and AdjOK?.
LEMMA AdjOkGood ==
  ASSUME NEW n \in NeighborRecord, NEW slave \in BOOLEAN, Good(n, slave),
         NEW connect \in BOOLEAN, NEW start \in Nat
  PROVE  Good(AdjOk(n, connect, start), slave)
  <1>1. n.state = "TwoWay" => Clean(n)
    BY DEF Good, Adjacent, Exchanging
  <1>2. Good(Reset([n EXCEPT !.state = "TwoWay"]), slave)
    <2> DEFINE q == [n EXCEPT !.state = "TwoWay"]
    <2>1. q \in NeighborRecord /\ q.state = "TwoWay"
      BY MovedType, States DEF NeighborRecord
    <2> HIDE DEF q
    <2>2. Reset(q) \in NeighborRecord /\ Clean(Reset(q)) /\ Reset(q).state = "TwoWay"
      BY <2>1, ResetClean
    <2>3. Good(Reset(q), slave)
      BY <2>2, CleanGood DEF Adjacent, Exchanging
    <2> QED BY <2>3 DEF q
  <1> QED BY <1>1, <1>2, JudgedGood DEF AdjOk

\* The end of the exchange: nobody drives it any more.
LEMMA ExchangeDoneGood ==
  ASSUME NEW n \in NeighborRecord, NEW slave \in BOOLEAN, n.state = "Exchange",
         n.master <=> slave, ChildOK(n)
  PROVE  Good(ExchangeDone(n), slave)
  <1>1. CASE n.req = <<>>
    BY <1>1 DEF ExchangeDone, Good, ChildOK, Drives, Adjacent, Exchanging, NoRxmt,
               NeighborRecord
  <1>2. CASE n.req # <<>>
    BY <1>2 DEF ExchangeDone, SpawnLsrSender, Good, ChildOK, Drives, Adjacent, Exchanging,
               NoRxmt, NeighborRecord
  <1> QED BY <1>1, <1>2

\* A record in Exchange whose request list grew, with its sender started.
LEMMA QueuedGood ==
  ASSUME NEW n \in NeighborRecord, ChildOK(n), NEW order \in Seq(Header)
  PROVE  LET q == SpawnLsrSender([n EXCEPT !.req = @ \o order]) IN
         /\ q \in NeighborRecord /\ ChildOK(q)
         /\ q.state = n.state /\ q.master = n.master
  <1> DEFINE p == [n EXCEPT !.req = @ \o order]
  <1>1. n.req \in Seq(Header) /\ n.req \o order \in Seq(Header)
    BY DEF NeighborRecord
  <1>2. p \in NeighborRecord /\ p.state = n.state /\ p.master = n.master
    BY <1>1 DEF NeighborRecord
  <1>3. n.req # <<>> => n.req \o order # <<>> /\ Head(n.req \o order) = Head(n.req)
    BY <1>1
  <1>4. p.req = n.req \o order /\ p.child = n.child /\ p.lsr = n.lsr
    BY DEF NeighborRecord
  <1> HIDE DEF p
  <1>5. ChildOK(p)
    BY <1>3, <1>4 DEF ChildOK
  <1>6. SpawnLsrSender(p) \in NeighborRecord
    BY <1>2, SpawnLsrSenderType
  <1>7. /\ SpawnLsrSender(p).state = p.state /\ SpawnLsrSender(p).master = p.master
        /\ ChildOK(SpawnLsrSender(p))
    BY <1>2, <1>5 DEF SpawnLsrSender, ChildOK, NeighborRecord
  <1> QED BY <1>2, <1>6, <1>7 DEF p
\* The slave's record after its answer.
LEMMA SlaveAnswerGood ==
  ASSUME NEW q \in NeighborRecord, q.state = "Exchange", q.master, ChildOK(q),
         NEW m \in DDPacket, NEW page \in SUBSET Header
  PROVE  LET sent == [q EXCEPT !.seq = m.seq, !.summary = @ \ page,
                               !.rxmt = Packet(DD(FALSE, m.more, FALSE, m.seq, page))]
         IN Good(sent, TRUE) /\ Good(ExchangeDone(sent), TRUE)
  <1> DEFINE reply == DD(FALSE, m.more, FALSE, m.seq, page)
             sent == [q EXCEPT !.seq = m.seq, !.summary = @ \ page, !.rxmt = Packet(reply)]
  <1>1. sent \in NeighborRecord
    BY SlaveAnswerType
  <1> HIDE DEF reply
  <1>2. /\ sent.state = "Exchange" /\ sent.master /\ sent.rxmt = Packet(reply)
        /\ sent.req = q.req /\ sent.lsr = q.lsr /\ sent.child = q.child
    BY DEF NeighborRecord
  <1> HIDE DEF sent
  <1>3. ChildOK(sent) /\ sent.rxmt.kind # "Handle"
    BY <1>2 DEF ChildOK, Packet
  <1>4. Good(sent, TRUE)
    BY <1>2, <1>3 DEF Good, Drives, Adjacent, Exchanging
  <1>5. Good(ExchangeDone(sent), TRUE)
    BY <1>1, <1>2, <1>3, ExchangeDoneGood
  <1> QED BY <1>4, <1>5 DEF sent, reply

\* The master's record after it sent the next packet, or had nothing left.
LEMMA MasterAnswerGood ==
  ASSUME NEW q \in NeighborRecord, q.state = "Exchange", ~q.master, ChildOK(q),
         NEW page \in SUBSET Header
  PROVE  LET next == [q EXCEPT !.seq = @ + 1]
             left == next.summary \ page
         IN  /\ Good(SpawnMasterSendDD([next EXCEPT !.summary = left],
                    DD(FALSE, left # {}, TRUE, next.seq, page)), FALSE)
             /\ Good(ExchangeDone(next), FALSE)
  <1> DEFINE next == [q EXCEPT !.seq = @ + 1]
             left == next.summary \ page
             pkt  == DD(FALSE, left # {}, TRUE, next.seq, page)
             sent == SpawnMasterSendDD([next EXCEPT !.summary = left], pkt)
  <1> HIDE DEF pkt
  <1>1. /\ next \in NeighborRecord /\ next.state = "Exchange" /\ ~next.master
        /\ next.req = q.req /\ next.lsr = q.lsr /\ next.child = q.child
    BY DEF NeighborRecord
  <1> HIDE DEF next
  <1>2. /\ sent.state = "Exchange" /\ ~sent.master /\ sent.rxmt = Handle(pkt)
        /\ sent.req = q.req /\ sent.lsr = q.lsr /\ sent.child = q.child
    BY <1>1 DEF SpawnMasterSendDD, NeighborRecord
  <1> HIDE DEF sent
  <1>3. ChildOK(sent) /\ sent.rxmt.kind = "Handle" /\ ChildOK(next)
    BY <1>1, <1>2 DEF ChildOK, Handle
  <1>4. Good(sent, FALSE)
    BY <1>2, <1>3 DEF Good, Drives, Adjacent, Exchanging
  <1>5. Good(ExchangeDone(next), FALSE)
    BY <1>1, <1>3, ExchangeDoneGood
  <1> QED BY <1>4, <1>5 DEF sent, pkt, next

---------------------------------------------------------------------------
(* Every action keeps the invariant.                                        *)

\* Replacing one record by a good one.
LEMMA BecomeGood ==
  ASSUME TypeOK, AllGood, NEW r \in Router, NEW q, Good(q, Peer(r) > r), Become(r, q)
  PROVE  AllGood'
  <1> SUFFICES ASSUME NEW s \in Router PROVE Good(nbr'[s], Peer(s) > s)
    BY DEF AllGood, Peer
  <1>1. CASE s = r
    BY <1>1 DEF Become, TypeOK
  <1>2. CASE s # r
    BY <1>2 DEF Become, TypeOK, AllGood
  <1> QED BY <1>1, <1>2

\* A step that changes no record keeps them good.
LEMMA UnchangedGood ==
  ASSUME AllGood, UNCHANGED nbr
  PROVE  AllGood'
  BY DEF AllGood, Peer

\* Which of the two is master does not depend on the state.
LEMMA SlaveType ==
  ASSUME NEW r \in Router
  PROVE  /\ (Peer(r) > r) \in BOOLEAN /\ (Peer(r) < r <=> ~(Peer(r) > r))
         /\ Peer(r) \in Router
  BY DEF Peer, Router

\* The hello handler keeps the records good.
LEMMA HelloGood ==
  ASSUME TypeOK, AllGood, NEW r \in Router, Hello(r)
  PROVE  AllGood'
  <1>1. PICK connect \in Connect, start \in StartSeq :
          LET seen == nbr[Peer(r)].state # "Down"
              n    == HelloReceive(nbr[r])
          IN nbr' = [nbr EXCEPT
                ![Peer(r)] = IF seen THEN @ ELSE NewNeighbor,
                ![r] = IF seen THEN TwoWayReceived(n, connect, start)
                               ELSE OneWayReceived(n)]
    BY DEF Hello
  <1> DEFINE n == HelloReceive(nbr[r])
  <1>2. n \in NeighborRecord /\ Good(n, Peer(r) > r)
    BY SlaveType, HelloReceiveType, HelloReceiveGood DEF TypeOK, AllGood
  <1> HIDE DEF n
  <1>3. /\ Good(TwoWayReceived(n, connect, start), Peer(r) > r)
        /\ Good(OneWayReceived(n), Peer(r) > r)
    BY <1>2, SlaveType, TwoWayReceivedGood, OneWayReceivedGood, ClockType, JudgeType
  <1>4. Good(nbr'[r], Peer(r) > r)
    BY <1>1, <1>3, PeerType DEF TypeOK, n
  <1>5. Good(nbr'[Peer(r)], Peer(Peer(r)) > Peer(r))
    BY <1>1, PeerType, SlaveType, NewNeighborGood DEF TypeOK, AllGood
  <1>6. \A s \in Router : s = r \/ s = Peer(r)
    BY DEF Router, Peer
  <1> QED BY <1>4, <1>5, <1>6 DEF AllGood, Peer

\* Taking a page keeps the records good, whichever side answers.
LEMMA TakePageGood ==
  ASSUME TypeOK, AllGood, NEW r \in Router, NEW i, NEW m \in DDPacket,
         NEW n \in NeighborRecord, n.state = "Exchange", n.master <=> (Peer(r) > r),
         ChildOK(n), TakePage(r, i, m, n)
  PROVE  AllGood'
  <1> DEFINE need == {h \in m.hdrs : NeedUpdate(r, h)}
  <1>1. need \in SUBSET Header
    BY DEF DDPacket
  <1>2. PICK order \in Orders(Peer(r), need) :
          LET q == SpawnLsrSender([n EXCEPT !.req = @ \o order]) IN
          IF q.master
          THEN \E page \in Pages(r, q.summary,
                              IF m.more THEN SlavePage ELSE Cardinality(q.summary)) :
                 LET reply == DD(FALSE, m.more, FALSE, m.seq, page)
                     sent  == [q EXCEPT !.seq = m.seq, !.summary = @ \ page,
                                        !.rxmt = Packet(reply)]
                 IN Become(r, IF m.more THEN sent ELSE ExchangeDone(sent))
          ELSE \E page \in Pages(r, q.summary, MasterPage) :
                 LET next == [q EXCEPT !.seq = @ + 1]
                     left == next.summary \ page
                 IN Become(r,
                          IF m.more \/ page # {}
                          THEN SpawnMasterSendDD([next EXCEPT !.summary = left],
                                   DD(FALSE, left # {}, TRUE, next.seq, page))
                          ELSE ExchangeDone(next))
    BY DEF TakePage
  <1>3. order \in Seq(Header)
    BY <1>1, OrdersType
  <1> DEFINE q == SpawnLsrSender([n EXCEPT !.req = @ \o order])
  <1>4. q \in NeighborRecord /\ ChildOK(q) /\ q.state = "Exchange" /\ q.master = n.master
    BY <1>3, QueuedGood
  <1>5. q.summary \in SUBSET Header
    BY <1>4 DEF NeighborRecord
  <1> HIDE DEF q
  <1>6. CASE q.master
    <2>1. PICK page \in Pages(r, q.summary,
                              IF m.more THEN SlavePage ELSE Cardinality(q.summary)) :
            LET reply == DD(FALSE, m.more, FALSE, m.seq, page)
                sent  == [q EXCEPT !.seq = m.seq, !.summary = @ \ page,
                                   !.rxmt = Packet(reply)]
            IN Become(r, IF m.more THEN sent ELSE ExchangeDone(sent))
      BY <1>2, <1>6 DEF q
    <2>2. page \in SUBSET Header
      BY <1>5, PagesType
    <2>3. (Peer(r) > r) = TRUE
      BY <1>4, <1>6, SlaveType
    <2> QED BY <1>4, <1>6, <2>1, <2>2, <2>3, SlaveAnswerGood, BecomeGood
  <1>7. CASE ~q.master
    <2>1. PICK page \in Pages(r, q.summary, MasterPage) :
            LET next == [q EXCEPT !.seq = @ + 1]
                left == next.summary \ page
            IN Become(r,
                     IF m.more \/ page # {}
                     THEN SpawnMasterSendDD([next EXCEPT !.summary = left],
                              DD(FALSE, left # {}, TRUE, next.seq, page))
                     ELSE ExchangeDone(next))
      BY <1>2, <1>7 DEF q
    <2>2. page \in SUBSET Header
      BY <1>5, PagesType
    <2>3. (Peer(r) > r) = FALSE
      BY <1>4, <1>7, SlaveType
    <2> QED BY <1>4, <1>7, <2>1, <2>2, <2>3, MasterAnswerGood, BecomeGood
  <1> QED BY <1>6, <1>7

\* Remembering the packet changes nothing the invariant looks at.
LEMMA RememberGood ==
  ASSUME NEW n \in NeighborRecord, NEW slave \in BOOLEAN, Good(n, slave),
         NEW c \in DdPacketCache
  PROVE  /\ [n EXCEPT !.last = c] \in NeighborRecord
         /\ Good([n EXCEPT !.last = c], slave)
  <1> DEFINE q == [n EXCEPT !.last = c]
  <1>1. /\ q \in NeighborRecord /\ q.state = n.state /\ q.master = n.master /\ q.seq = n.seq
        /\ q.rxmt = n.rxmt /\ q.summary = n.summary /\ q.req = n.req /\ q.lsr = n.lsr
        /\ q.child = n.child
    BY DEF NeighborRecord
  <1> HIDE DEF q
  <1>2. Good(q, slave)
    BY <1>1 DEF Good, Drives, Clean, ChildOK
  <1> QED BY <1>1, <1>2 DEF q

\* Accepting a part in the exchange: the roles are set, the request in flight is not.
LEMMA AcceptedGood ==
  ASSUME NEW p \in NeighborRecord, p.state = "ExStart", ChildOK(p), NEW d \in SUBSET Header
  PROVE  /\ NegotiationDone(p, d) \in NeighborRecord /\ ChildOK(NegotiationDone(p, d))
         /\ NegotiationDone(p, d).state = "Exchange"
         /\ NegotiationDone(p, d).master = p.master
  <1> DEFINE q == NegotiationDone(p, d)
  <1>1. q \in NeighborRecord
    BY NegotiationDoneType
  <1>2. /\ q.state = "Exchange" /\ q.master = p.master
        /\ q.req = p.req /\ q.lsr = p.lsr /\ q.child = p.child
    BY DEF NegotiationDone, NeighborRecord
  <1> HIDE DEF q
  <1>3. ChildOK(q)
    BY <1>2 DEF ChildOK
  <1> QED BY <1>1, <1>2, <1>3 DEF q

\* The DD handler keeps the records good.
LEMMA HandleDDGood ==
  ASSUME TypeOK, AllGood, NEW r \in Router, HandleDD(r)
  PROVE  AllGood'
  <1>1. PICK i \in Deliverable(r) :
          /\ net[r][i].type = "DD"
          /\ IF nbr[r].state = "Down"
             THEN UNCHANGED nbr
             ELSE \E n \in Admitted(nbr[r]) :
                     \/ AcceptMaster(r, i, net[r][i], n)
                     \/ AcceptSlave(r, i, net[r][i], n)
                     \/ IgnoreDD(r, i, net[r][i], n)
                     \/ DuplicateDD(r, i, net[r][i], n)
                     \/ NextDD(r, i, net[r][i], n)
                     \/ RestartDD(r, i, net[r][i], n)
    BY DEF HandleDD
  <1> DEFINE m == net[r][i]
             slave == Peer(r) > r
  <1>2. m \in DDPacket
    BY <1>1, DeliveredType DEF Message, LSRequest, LSUpdate
  <1> HIDE DEF m
  <1>3. /\ nbr[r] \in NeighborRecord /\ Good(nbr[r], slave) /\ slave \in BOOLEAN
        /\ (Peer(r) < r <=> ~slave)
    BY SlaveType DEF TypeOK, AllGood
  <1>4. CASE nbr[r].state = "Down"
    BY <1>1, <1>4, UnchangedGood
  <1>5. CASE nbr[r].state # "Down"
    <2>1. PICK n \in Admitted(nbr[r]) :
             \/ AcceptMaster(r, i, m, n)
             \/ AcceptSlave(r, i, m, n)
             \/ IgnoreDD(r, i, m, n)
             \/ DuplicateDD(r, i, m, n)
             \/ NextDD(r, i, m, n)
             \/ RestartDD(r, i, m, n)
      BY <1>1, <1>5 DEF m
    <2>2. n \in NeighborRecord /\ Good(n, slave)
      <3>1. ASSUME NEW connect \in Connect, NEW start \in StartSeq
            PROVE  /\ TwoWayReceived(nbr[r], connect, start) \in NeighborRecord
                   /\ Good(TwoWayReceived(nbr[r], connect, start), slave)
        <4>1. connect \in BOOLEAN /\ start \in Nat
          BY ClockType, JudgeType
        <4> HIDE DEF slave
        <4> QED BY <1>3, <4>1, TwoWayReceivedType, TwoWayReceivedGood
      <3> QED BY <1>3, <3>1 DEF Admitted
    <2> HIDE DEF slave
    <2>3. Cache(m) \in DdPacketCache /\ m.seq \in Nat /\ n.seq \in Nat
      BY <1>2, <2>2, CacheType DEF DDPacket, NeighborRecord
    <2>4. /\ [n EXCEPT !.last = Cache(m)] \in NeighborRecord
          /\ Good([n EXCEPT !.last = Cache(m)], slave)
      BY <1>3, <2>2, <2>3, RememberGood
    <2>5. AllLsa(r) \in SUBSET Header
      BY DEF AllLsa
    <2>6. CASE AcceptMaster(r, i, m, n)
      <3> DEFINE p == [n EXCEPT !.last = Cache(m), !.master = TRUE, !.seq = m.seq]
      <3>1. n.state = "ExStart" /\ slave /\ TakePage(r, i, m, NegotiationDone(p, AllLsa(r)))
        BY <2>6 DEF AcceptMaster, slave
      <3>2. /\ p \in NeighborRecord /\ p.state = "ExStart" /\ p.master
            /\ p.req = n.req /\ p.lsr = n.lsr /\ p.child = n.child
        BY <2>2, <2>3, <3>1 DEF NeighborRecord
      <3> HIDE DEF p
      <3>3. ChildOK(p)
        BY <2>2, <3>2 DEF Good, ChildOK
      <3> QED BY <1>2, <2>5, <3>1, <3>2, <3>3, AcceptedGood, TakePageGood DEF slave
    <2>7. CASE AcceptSlave(r, i, m, n)
      <3> DEFINE p == [n EXCEPT !.last = Cache(m), !.master = FALSE]
      <3>1. n.state = "ExStart" /\ ~slave /\ TakePage(r, i, m, NegotiationDone(p, AllLsa(r)))
        BY <1>3, <2>7 DEF AcceptSlave
      <3>2. /\ p \in NeighborRecord /\ p.state = "ExStart" /\ ~p.master
            /\ p.req = n.req /\ p.lsr = n.lsr /\ p.child = n.child
        BY <2>2, <2>3, <3>1 DEF NeighborRecord
      <3> HIDE DEF p
      <3>3. ChildOK(p)
        BY <2>2, <3>2 DEF Good, ChildOK
      <3> QED BY <1>2, <2>5, <3>1, <3>2, <3>3, AcceptedGood, TakePageGood DEF slave
    <2>8. CASE IgnoreDD(r, i, m, n)
      BY <2>4, <2>8, BecomeGood DEF IgnoreDD, slave
    <2>9. CASE DuplicateDD(r, i, m, n)
      BY <2>9, UnchangedGood DEF DuplicateDD
    <2>10. CASE NextDD(r, i, m, n)
      <3> DEFINE q == [n EXCEPT !.last = Cache(m)]
      <3>1. n.state = "Exchange" /\ TakePage(r, i, m, q)
        BY <2>10 DEF NextDD
      <3>2. q \in NeighborRecord /\ Good(q, slave) /\ q.state = "Exchange"
        BY <2>2, <2>4, <3>1 DEF NeighborRecord
      <3> HIDE DEF q
      <3>3. ChildOK(q) /\ (q.master <=> slave)
        BY <3>2 DEF Good, Exchanging
      <3> QED BY <1>2, <3>1, <3>2, <3>3, TakePageGood DEF slave
    <2>11. CASE RestartDD(r, i, m, n)
      <3>1. PICK start \in StartSeq :
              Become(r, SeqNumberMismatch([n EXCEPT !.last = Cache(m)], start))
        BY <2>11 DEF RestartDD
      <3>2. Good(SeqNumberMismatch([n EXCEPT !.last = Cache(m)], start), slave)
        BY <1>3, <2>4, ClockType, SeqNumberMismatchGood
      <3> QED BY <3>1, <3>2, BecomeGood DEF slave
    <2> QED BY <2>1, <2>6, <2>7, <2>8, <2>9, <2>10, <2>11
  <1> QED BY <1>4, <1>5

\* The sender's own step: it is not repeating a request before, nor after.
LEMMA SenderGood ==
  ASSUME NEW n \in NeighborRecord, NEW slave \in BOOLEAN, Good(n, slave), n.child = NoKey,
         NEW l \in {"none", "peek", "ended"}, l = "peek" => n.lsr = "wait"
  PROVE  Good([n EXCEPT !.lsr = l], slave)
  <1> DEFINE q == [n EXCEPT !.lsr = l]
  <1>1. /\ q.state = n.state /\ q.master = n.master /\ q.seq = n.seq
        /\ q.rxmt = n.rxmt /\ q.summary = n.summary /\ q.req = n.req
        /\ q.lsr = l /\ q.child = NoKey
    BY DEF NeighborRecord
  <1> HIDE DEF q
  <1>2. n.state \notin Adjacent => Clean(q)
    BY <1>1 DEF Good, Clean
  <1>3. Good(q, slave)
    BY <1>1, <1>2 DEF Good, Drives, ChildOK
  <1> QED BY <1>3 DEF q

\* The tasks keep the records good.
LEMMA TaskGood ==
  ASSUME TypeOK, AllGood, NEW r \in Router, Task(r)
  PROVE  AllGood'
  <1> DEFINE n == nbr[r]
             slave == Peer(r) > r
  <1>1. n \in NeighborRecord /\ slave \in BOOLEAN /\ Good(n, slave)
    BY SlaveType DEF TypeOK, AllGood
  <1>2. CASE ResendDD(r) \/ ResendLSR(r)
    BY <1>2, UnchangedGood DEF ResendDD, ResendLSR
  <1>3. CASE PeekRequest(r)
    <2>1. CASE n.req = <<>>
      <3> DEFINE q == [LoadingDone(n) EXCEPT !.lsr = "ended"]
      <3>1. Become(r, q) /\ n.lsr = "peek"
        BY <1>3, <2>1 DEF PeekRequest
      <3> HIDE DEF n, slave
      <3>2. CASE n.state = "Loading"
        <4>1. /\ q.state = "Full" /\ q.master = n.master /\ q.rxmt = n.rxmt
              /\ q.req = <<>> /\ q.child = n.child
          BY <1>1, <2>1, <3>2 DEF LoadingDone, NeighborRecord
        <4> HIDE DEF q
        <4>2. Good(q, slave)
          BY <1>1, <3>1, <3>2, <4>1 DEF Good, ChildOK, Drives, Adjacent, Exchanging
        <4> QED BY <3>1, <4>2, BecomeGood DEF slave
      <3>3. CASE n.state # "Loading"
        <4>1. q = [n EXCEPT !.lsr = "ended"]
          BY <3>3 DEF LoadingDone
        <4>2. Good(q, slave)
          BY <1>1, <3>1, <4>1, SenderGood DEF Good, ChildOK
        <4> QED BY <3>1, <4>2, BecomeGood DEF slave
      <3> QED BY <3>2, <3>3
    <2>2. CASE n.req # <<>>
      <3> DEFINE k == Head(n.req).key
                 q == [n EXCEPT !.lsr = "wait", !.child = k]
      <3>1. Become(r, q) /\ n.lsr = "peek"
        BY <1>3, <2>2 DEF PeekRequest
      <3> HIDE DEF n, slave
      <3>2. /\ q.state = n.state /\ q.master = n.master /\ q.rxmt = n.rxmt
            /\ q.req = n.req /\ q.lsr = "wait" /\ q.child = k
        BY <1>1 DEF NeighborRecord
      <3> HIDE DEF q
      <3>3. n.state \in Adjacent /\ n.state # "Full"
        BY <1>1, <2>2, <3>1 DEF Good, Clean
      <3>4. Good(q, slave)
        BY <1>1, <2>2, <3>2, <3>3 DEF Good, ChildOK, Drives
      <3> QED BY <3>1, <3>4, BecomeGood DEF slave
    <2> QED BY <2>1, <2>2
  <1>4. CASE ChildAborted(r)
    <2> DEFINE q == [n EXCEPT !.lsr = "peek"]
    <2>1. Become(r, q) /\ n.lsr = "wait" /\ n.child = NoKey
      BY <1>4 DEF ChildAborted
    <2> HIDE DEF n, slave
    <2>2. Good(q, slave)
      BY <1>1, <2>1, SenderGood DEF Good, ChildOK
    <2> QED BY <2>1, <2>2, BecomeGood DEF slave
  <1>5. CASE SenderFinished(r)
    <2> DEFINE q == [n EXCEPT !.lsr = "none"]
    <2>1. Become(r, q) /\ n.lsr = "ended"
      BY <1>5 DEF SenderFinished
    <2> HIDE DEF n, slave
    <2>2. Good(q, slave)
      BY <1>1, <2>1, SenderGood DEF Good, ChildOK
    <2> QED BY <2>1, <2>2, BecomeGood DEF slave
  <1> QED BY <1>2, <1>3, <1>4, <1>5 DEF Task

\* The LSR handler keeps the records good.
LEMMA HandleLSRGood ==
  ASSUME TypeOK, AllGood, NEW r \in Router, HandleLSR(r)
  PROVE  AllGood'
  <1>1. UNCHANGED nbr \/ \E start \in StartSeq : Become(r, SeqNumberMismatch(nbr[r], start))
    BY DEF HandleLSR
  <1>2. \A start \in StartSeq : Good(SeqNumberMismatch(nbr[r], start), Peer(r) > r)
    BY SlaveType, ClockType, SeqNumberMismatchGood DEF TypeOK, AllGood
  <1> QED BY <1>1, <1>2, BecomeGood, UnchangedGood

\* Popping the front stops the child, so whatever comes to the front is not
\* mistaken for the request in flight.
LEMMA AnsweredGood ==
  ASSUME NEW n \in NeighborRecord, NEW slave \in BOOLEAN, Good(n, slave), NEW h
  PROVE  Good(Answered(n, h), slave)
  <1>1. CASE n.req = <<>>
    BY <1>1 DEF Answered
  <1>2. CASE n.req # <<>>
    <2> DEFINE q == LsrRecvUpdate(n)
    <2>1. /\ q.state = n.state /\ q.master = n.master /\ q.rxmt = n.rxmt /\ q.child = NoKey
      BY DEF LsrRecvUpdate, NeighborRecord
    <2> HIDE DEF q
    <2>2. n.state \in Adjacent /\ n.state # "Full"
      BY <1>2 DEF Good, Clean
    <2>3. Good(q, slave)
      BY <2>1, <2>2 DEF Good, Drives, ChildOK
    <2> QED BY <2>3 DEF Answered, q
  <1> QED BY <1>1, <1>2

\* Flooding that takes a request off the list keeps the record good.
LEMMA FloodedGood ==
  ASSUME NEW n \in NeighborRecord, NEW slave \in BOOLEAN, Good(n, slave), NEW h
  PROVE  Good(Flooded(n, h), slave)
  <1> DEFINE at == RequestAt(n, h)
             s  == SwapRemove(n.req, at)
             q  == [n EXCEPT !.req = s, !.child = NoKey]
  <1>1. CASE n.state \in Exchanging /\ at > 0 /\ h.inst >= n.req[at].inst
    <2>1. n.req # <<>>
      BY <1>1, RequestAtType DEF NeighborRecord
    <2>2. n.state \in Adjacent /\ n.state # "Full"
      BY <2>1 DEF Good, Clean
    <2> HIDE DEF s
    <2>3. /\ q.state = n.state /\ q.master = n.master /\ q.rxmt = n.rxmt /\ q.child = NoKey
      BY DEF NeighborRecord
    <2> HIDE DEF q
    <2>4. Good(q, slave)
      BY <2>2, <2>3 DEF Good, Drives, ChildOK
    <2> QED BY <1>1, <2>4 DEF Flooded, q, s
  <1>2. CASE ~(n.state \in Exchanging /\ at > 0 /\ h.inst >= n.req[at].inst)
    BY <1>2 DEF Flooded
  <1> QED BY <1>1, <1>2

\* The LSU handler keeps the records good.
LEMMA HandleLSUGood ==
  ASSUME TypeOK, AllGood, NEW r \in Router, HandleLSU(r)
  PROVE  AllGood'
  <1>1. PICK i \in Deliverable(r) :
          LET n == Answered(nbr[r], net[r][i].lsa) IN
          \/ Become(r, Flooded(n, net[r][i].lsa))
          \/ \E start \in StartSeq : Become(r, SeqNumberMismatch(n, start))
          \/ Become(r, n)
    BY DEF HandleLSU
  <1> DEFINE h == net[r][i].lsa
             n == Answered(nbr[r], h)
  <1>2. n \in NeighborRecord /\ Good(n, Peer(r) > r)
    BY AnsweredType, AnsweredGood, SlaveType DEF TypeOK, AllGood
  <1> HIDE DEF n, h
  <1>3. Good(Flooded(n, h), Peer(r) > r)
    BY <1>2, SlaveType, FloodedGood
  <1>4. \A start \in StartSeq : Good(SeqNumberMismatch(n, start), Peer(r) > r)
    BY <1>2, SlaveType, ClockType, SeqNumberMismatchGood
  <1> QED BY <1>1, <1>2, <1>3, <1>4, BecomeGood DEF n, h

\* Timeouts, restarts, expiry, losses and DR changes keep the records good.
LEMMA DisturbanceGood ==
  ASSUME TypeOK, AllGood, NEW r \in Router, Disturbance(r)
  PROVE  AllGood'
  <1>1. nbr[r] \in NeighborRecord /\ Good(nbr[r], Peer(r) > r)
    BY DEF TypeOK, AllGood
  <1>2. CASE Reelected(r)
    <2>1. PICK connect \in Connect, start \in StartSeq :
            Become(r, AdjOk(nbr[r], connect, start))
      BY <1>2 DEF Reelected
    <2>2. connect \in BOOLEAN /\ start \in Nat
      BY ClockType, JudgeType
    <2> QED BY <1>1, <2>1, <2>2, SlaveType, AdjOkGood, BecomeGood
  <1>3. CASE InactivityTimer(r)
    BY <1>1, <1>3, SlaveType, InactivityGood, BecomeGood DEF InactivityTimer
  <1>4. CASE Restart(r)
    BY <1>4, SlaveType, NewNeighborGood, BecomeGood DEF Restart
  <1>5. CASE Expire(r) \/ Lose(r)
    BY <1>5, UnchangedGood DEF Expire, Lose
  <1> QED BY <1>2, <1>3, <1>4, <1>5 DEF Disturbance

\* The invariant holds initially and every step keeps it.
LEMMA Inductive == Spec => [](TypeOK /\ AllGood)
  <1>1. Init => AllGood
    BY SlaveType, NewNeighborGood DEF Init, AllGood
  <1>2. TypeOK /\ AllGood /\ [Next]_vars => AllGood'
    <2> SUFFICES ASSUME TypeOK, AllGood, [Next]_vars PROVE AllGood'
      OBVIOUS
    <2>1. CASE UNCHANGED vars
      BY <2>1, UnchangedGood DEF vars
    <2>2. ASSUME NEW r \in Router, Task(r) PROVE AllGood'
      BY <2>2, TaskGood
    <2>3. ASSUME NEW r \in Router, Handler(r) PROVE AllGood'
      BY <2>3, HelloGood, HandleDDGood, HandleLSRGood, HandleLSUGood DEF Handler
    <2>4. ASSUME NEW r \in Router, Disturbance(r) PROVE AllGood'
      BY <2>4, DisturbanceGood
    <2> QED BY <2>1, <2>2, <2>3, <2>4 DEF Next
  <1> QED BY <1>1, <1>2, TypeCorrect, PTL DEF Spec

\* Both ends agree who is master, through every restart, timeout, loss and
\* reordering, for any databases and page sizes (dd.rs:25-50, state.rs:262).
THEOREM RolesAgree == Spec => []Roles
  <1>1. AllGood => Roles
    BY DEF AllGood, Good, Roles
  <1> QED BY <1>1, Inductive, PTL

\* An exchange always has exactly the task that drives it (pair.rs:91-106,
\* state.rs:115, 254-274).
THEOREM ExchangeDriven == Spec => []Driver
  <1>1. AllGood => Driver
    BY DEF AllGood, Good, Drives, Driver
  <1> QED BY <1>1, Inductive, PTL

\* Below ExStart nothing is left of an earlier exchange (neighbor/mod.rs:68-75
\* called at state.rs:146-211).
THEOREM StartsClean == Spec => []CleanStart
  <1>1. AllGood => CleanStart
    BY DEF AllGood, Good, Clean, CleanStart
  <1> QED BY <1>1, Inductive, PTL

\* The request in flight is for the front of the list (pair.rs:48-89).
THEOREM AsksForFront == Spec => []ChildAsksFront
  <1>1. AllGood => ChildAsksFront
    BY DEF AllGood, Good, ChildOK, ChildAsksFront
  <1> QED BY <1>1, Inductive, PTL
=============================================================================
