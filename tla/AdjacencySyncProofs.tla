------------------------- MODULE AdjacencySyncProofs -------------------------
(***************************************************************************)
(* What the database exchange of module Adjacency achieves, for any LSAs,  *)
(* databases, page sizes, network and number of faults: requests are not   *)
(* forgotten, a router that finished misses nothing, and the pair          *)
(* implements the promise of module DatabaseSync.                          *)
(***************************************************************************)
EXTENDS AdjacencyProofs

---------------------------------------------------------------------------
(* What one step does to the two records and to the packets in flight.     *)

\* The packet that opens an exchange (state.rs:254-274).
Opening(x) == DD(TRUE, TRUE, TRUE, x, {})

\* The slave's answer to packet m, and the master's packet x.
Reply(m, page) == DD(FALSE, m.more, FALSE, m.seq, page)
Poll(x, page, left) == DD(FALSE, left # {}, TRUE, x, page)

\* A record in ExStart is as ex_start left it.
Fresh(n) ==
    n.state = "ExStart" => n.rxmt = Handle(Opening(n.seq)) /\ n.summary = {} /\ n.req = <<>>

\* An event that pages no headers ends the exchange, opens one, or leaves its
\* state alone; the end of Loading counts as the last.  Only an update shrinks the
\* list of requests.
Shrunk(n, q) ==
    /\ q.seq = n.seq /\ q.rxmt = n.rxmt /\ q.summary = n.summary
    /\ q.state = n.state \/ (n.state = "Loading" /\ q.state = "Full")
    /\ n.req = <<>> => q.req = <<>>
    /\ Requested(q) \subseteq Requested(n)
Kept(n, q) == Shrunk(n, q) /\ Requested(q) = Requested(n)
Quiet(n, q) ==
    \/ q.state \notin Adjacent
    \/ n.state # "ExStart" /\ q.state = "ExStart" /\ Fresh(q)
    \/ Kept(n, q)

\* r's record turns from n to q as it takes packet m: what it asks for,
Queued(r, m, n, q) ==
    Requested(q) = Requested(n) \cup {h \in m.hdrs : NeedUpdate(r, h)}

\* and the page it sends, as slave
AnsweredPage(r, m, n, q, page) ==
    /\ page \in Pages(r, n.summary, IF m.more THEN SlavePage ELSE Cardinality(n.summary))
    /\ Queued(r, m, n, q)
    /\ q.summary = n.summary \ page
    /\ IF m.more
       THEN q.state = "Exchange" /\ q.seq = m.seq /\ q.rxmt = Packet(Reply(m, page))
       ELSE q.state \in {"Loading", "Full"} /\ q.rxmt = NoRxmt

\* or as master.
PolledPage(r, m, n, q, page) ==
    /\ page \in Pages(r, n.summary, MasterPage)
    /\ Queued(r, m, n, q)
    /\ q.seq = n.seq + 1
    /\ IF m.more \/ page # {}
       THEN /\ q.state = "Exchange" /\ q.summary = n.summary \ page
            /\ q.rxmt = Handle(Poll(q.seq, page, q.summary))
       ELSE q.state \in {"Loading", "Full"} /\ q.rxmt = NoRxmt /\ q.summary = n.summary

\* What is requested, of a list and of the list after more was queued.
LEMMA RequestedOf ==
  ASSUME NEW t \in Seq(Header), NEW n, NEW q, n.req \in Seq(Header), q.req = n.req \o t
  PROVE  Requested(q) = Requested(n) \cup {t[i] : i \in 1..Len(t)}
  <1> DEFINE s == n.req
  <1>0. s \in Seq(Header) /\ q.req = s \o t /\ n.req = s
    OBVIOUS
  <1> HIDE DEF s
  <1>1. Len(s \o t) = Len(s) + Len(t) /\ Len(s) \in Nat /\ Len(t) \in Nat
    BY <1>0
  <1>2. ASSUME NEW h \in Requested(q)
        PROVE  h \in Requested(n) \cup {t[i] : i \in 1..Len(t)}
    <2>1. PICK i \in 1..Len(s \o t) : h = (s \o t)[i]
      BY <1>0 DEF Requested
    <2>2. CASE i <= Len(s)
      <3>1. h = s[i] /\ i \in 1..Len(s)
        BY <1>0, <2>1, <2>2
      <3> QED BY <1>0, <3>1 DEF Requested
    <2>3. CASE i > Len(s)
      <3>1. h = t[i - Len(s)] /\ i - Len(s) \in 1..Len(t)
        BY <1>0, <1>1, <2>1, <2>3
      <3> QED BY <3>1
    <2> QED BY <1>1, <2>2, <2>3
  <1>3. ASSUME NEW i \in 1..Len(s)
        PROVE  s[i] \in Requested(q)
    <2>1. i \in 1..Len(s \o t) /\ (s \o t)[i] = s[i]
      BY <1>0, <1>1
    <2> QED BY <1>0, <2>1 DEF Requested
  <1>4. ASSUME NEW i \in 1..Len(t)
        PROVE  t[i] \in Requested(q)
    <2>1. Len(s) + i \in 1..Len(s \o t) /\ (s \o t)[Len(s) + i] = t[i]
      BY <1>0, <1>1
    <2> QED BY <1>0, <2>1 DEF Requested
  <1> QED BY <1>0, <1>2, <1>3, <1>4 DEF Requested

\* A listing of some headers lists every one of them.
LEMMA OrdersAll ==
  ASSUME NEW r \in Router, NEW S \in SUBSET Header, NEW s \in Orders(r, S)
  PROVE  s \in Seq(Header) /\ {s[i] : i \in 1..Len(s)} = S
  <1>1. IsFiniteSet(S) /\ Cardinality(S) \in Nat
    BY HeaderFinite, FS_Subset, FS_CardinalityType
  <1> DEFINE N == Cardinality(S)
  <1>2. s \in [1..N -> S] /\ \A i, j \in 1..N : i < j => Before(r, s[i], s[j])
    BY DEF Orders
  <1> HIDE DEF N
  <1>3. N \in Nat /\ N = Cardinality(S)
    BY <1>1 DEF N
  <1>4. s \in Seq(Header) /\ Len(s) = N
    BY <1>2, <1>3
  <1>5. ASSUME NEW i \in 1..N, NEW j \in 1..N, s[i] = s[j]
        PROVE  i = j
    <2>1. s[i] \in Header
      BY <1>2
    <2>2. HashOrder[r][s[i].key] \in Nat
      BY <2>1, HashOrderAssumption DEF Header
    <2>3. ~Before(r, s[i], s[j]) /\ ~Before(r, s[j], s[i])
      BY <1>5, <2>2 DEF Before
    <2> QED BY <1>2, <1>3, <2>3
  <1>6. s \in Injection(1..N, S)
    BY <1>2, <1>5 DEF Injection, IsInjective
  <1>7. Cardinality(1..N) = Cardinality(S)
    BY <1>3, FS_Interval
  <1>8. s \in Surjection(1..N, S)
    BY <1>1, <1>6, <1>7, FS_Injection
  <1>9. \A h \in S : \E i \in 1..N : s[i] = h
    BY <1>8 DEF Surjection
  <1> QED BY <1>2, <1>4, <1>9

\* Taking one packet out of those in flight adds none.
LEMMA WithoutKept ==
  ASSUME NEW S, NEW s \in Seq(S), NEW i \in 1..Len(s), NEW j \in 1..Len(Without(s, i))
  PROVE  \E k \in 1..Len(s) : Without(s, i)[j] = s[k]
  <1>1. Len(Without(s, i)) = Len(s) - 1
    BY DEF Without
  <1>2. j \in 1..(Len(s) - 1)
    BY <1>1
  <1>3. Without(s, i)[j] = IF j < i THEN s[j] ELSE s[j + 1]
    BY <1>2 DEF Without
  <1> QED BY <1>2, <1>3

\* A handler takes a packet from r's side and adds what it sends to the peer's.
LEMMA ExchangedInFlight ==
  ASSUME TypeOK, NEW r \in Router, NEW i \in 1..Len(net[r]), NEW out \in Seq(Message),
         Exchanged(r, i, out)
  PROVE  /\ InFlight(r)' \subseteq InFlight(r)
         /\ InFlight(Peer(r))' \subseteq InFlight(Peer(r)) \cup {out[j] : j \in 1..Len(out)}
  <1> DEFINE p == Peer(r)
  <1>1. p \in Router /\ p # r
    BY PeerType
  <1>2. net[r] \in Seq(Message) /\ net[p] \in Seq(Message)
    BY <1>1 DEF TypeOK
  <1>3. net'[r] = Without(net[r], i) /\ net'[p] = net[p] \o out
    BY <1>1 DEF Exchanged, TypeOK
  <1> HIDE DEF p
  <1>4. ASSUME NEW j \in 1..Len(net'[r])
        PROVE  net'[r][j] \in InFlight(r)
    <2>1. j \in 1..Len(Without(net[r], i))
      BY <1>3
    <2>2. PICK k \in 1..Len(net[r]) : Without(net[r], i)[j] = net[r][k]
      BY <1>2, <2>1, WithoutKept
    <2> QED BY <1>3, <2>2 DEF InFlight
  <1>5. ASSUME NEW j \in 1..Len(net'[p])
        PROVE  net'[p][j] \in InFlight(p) \cup {out[x] : x \in 1..Len(out)}
    <2>1. Len(net'[p]) = Len(net[p]) + Len(out)
      BY <1>2, <1>3
    <2>2. CASE j <= Len(net[p])
      <3>1. net'[p][j] = net[p][j] /\ j \in 1..Len(net[p])
        BY <1>2, <1>3, <2>2
      <3> QED BY <3>1 DEF InFlight
    <2>3. CASE j > Len(net[p])
      <3>1. net'[p][j] = out[j - Len(net[p])] /\ j - Len(net[p]) \in 1..Len(out)
        BY <1>2, <1>3, <2>1, <2>3
      <3> QED BY <3>1
    <2> QED BY <1>2, <2>2, <2>3
  <1>6. InFlight(r)' \subseteq InFlight(r)
    BY <1>4 DEF InFlight
  <1>7. InFlight(p)' \subseteq InFlight(p) \cup {out[x] : x \in 1..Len(out)}
    BY <1>5, <1>1 DEF InFlight, p, Peer
  <1> QED BY <1>6, <1>7 DEF p

\* ex_start on a clean record leaves it fresh.
LEMMA Opened ==
  ASSUME NEW n \in NeighborRecord, Clean(n), n.state = "ExStart", NEW start \in Nat
  PROVE  StartExchange(n, start).state = "ExStart" /\ Fresh(StartExchange(n, start))
  <1> DEFINE q == StartExchange(n, start)
             pkt == Opening(start)
  <1>1. q = [n EXCEPT !.seq = start, !.master = FALSE, !.rxmt = Handle(pkt)]
    BY DEF StartExchange, Clean, SpawnMasterSendDD, NeighborRecord, Opening
  <1>2. pkt = Opening(start)
    OBVIOUS
  <1> HIDE DEF pkt
  <1>3. /\ q.state = "ExStart" /\ q.seq = start /\ q.rxmt = Handle(pkt)
        /\ q.summary = {} /\ q.req = <<>>
    BY <1>1 DEF Clean, NeighborRecord
  <1> QED BY <1>2, <1>3 DEF Fresh

\* The judgement of an adjacency opens an exchange or stays below.
LEMMA JudgedOpens ==
  ASSUME NEW n \in NeighborRecord, Clean(n), NEW connect \in BOOLEAN, NEW start \in Nat
  PROVE  LET q == Judged(n, connect, start) IN
         q.state \notin Adjacent \/ (q.state = "ExStart" /\ Fresh(q))
  <1> DEFINE s == IF connect THEN "ExStart" ELSE "TwoWay"
             p == [n EXCEPT !.state = s]
  <1>1. s \in NeighborState /\ s \in {"ExStart", "TwoWay"}
    BY States
  <1> HIDE DEF s
  <1>2. p \in NeighborRecord /\ Clean(p) /\ p.state = s
    BY <1>1, MovedClean
  <1> HIDE DEF p
  <1>3. CASE s = "ExStart"
    BY <1>2, <1>3, Opened DEF Judged, p, s
  <1>4. CASE s = "TwoWay"
    <2>1. StartExchange(p, start) = p
      BY <1>2, <1>4 DEF StartExchange
    <2> QED BY <1>2, <1>4, <2>1 DEF Judged, p, s, Adjacent, Exchanging
  <1> QED BY <1>1, <1>3, <1>4

\* A record that an event leaves as it is.
LEMMA SameQuiet ==
  ASSUME NEW n
  PROVE  Quiet(n, n)
  BY DEF Quiet, Kept, Shrunk

\* Every event of the state machine is quiet: HelloReceived and 2-WayReceived,
LEMMA TwoWayQuiet ==
  ASSUME NEW n \in NeighborRecord, NEW slave \in BOOLEAN, Good(n, slave),
         NEW connect \in BOOLEAN, NEW start \in Nat
  PROVE  /\ Quiet(n, TwoWayReceived(n, connect, start))
         /\ Quiet(n, TwoWayReceived(HelloReceive(n), connect, start))
  <1>1. CASE n.state = "Init"
    <2>1. Clean(n) /\ HelloReceive(n) = n
      BY <1>1 DEF Good, Adjacent, Exchanging, HelloReceive
    <2>2. Quiet(n, Judged(n, connect, start))
      BY <1>1, <2>1, JudgedOpens DEF Quiet
    <2> QED BY <1>1, <2>1, <2>2 DEF TwoWayReceived
  <1>2. CASE n.state = "Down"
    <2> DEFINE p == HelloReceive(n)
    <2>1. Clean(n) /\ "Init" \in NeighborState
      BY <1>2, States DEF Good, Adjacent, Exchanging
    <2>2. p \in NeighborRecord /\ Clean(p) /\ p.state = "Init"
      BY <1>2, <2>1, MovedClean DEF HelloReceive
    <2> HIDE DEF p
    <2>3. Quiet(n, Judged(p, connect, start))
      BY <1>2, <2>2, JudgedOpens DEF Quiet
    <2>4. Quiet(n, TwoWayReceived(p, connect, start))
      BY <2>2, <2>3 DEF TwoWayReceived
    <2>5. TwoWayReceived(n, connect, start) = n
      BY <1>2 DEF TwoWayReceived
    <2> QED BY <2>4, <2>5, SameQuiet DEF p
  <1>3. CASE n.state \notin {"Init", "Down"}
    BY <1>3, SameQuiet DEF TwoWayReceived, HelloReceive
  <1> QED BY <1>1, <1>2, <1>3

\* 1-WayReceived and InactivityTimer, after which the record is below ExStart,
LEMMA DroppedQuiet ==
  ASSUME NEW n \in NeighborRecord
  PROVE  /\ Quiet(n, OneWayReceived(HelloReceive(n)))
         /\ Inactivity(n).state = "Down"
         /\ NewNeighbor.state = "Down"
  <1> DEFINE p == HelloReceive(n)
  <1>1. p \in NeighborRecord
    BY HelloReceiveType
  <1>2. p.state \in Bidirectional \/ p = n \/ p.state = "Init"
    BY DEF HelloReceive, NeighborRecord
  <1> HIDE DEF p
  <1>3. CASE p.state \in Bidirectional
    <2>1. OneWayReceived(p) = [Reset(p) EXCEPT !.state = "Init"]
      BY <1>3 DEF OneWayReceived
    <2>2. Reset(p) \in NeighborRecord
      BY <1>1, ResetType
    <2>3. OneWayReceived(p).state = "Init"
      BY <2>1, <2>2 DEF NeighborRecord
    <2> QED BY <2>3 DEF Quiet, Adjacent, Exchanging, p, NewNeighbor, Inactivity, Reset, NeighborRecord
  <1>4. CASE p.state \notin Bidirectional
    <2>1. OneWayReceived(p) = p
      BY <1>4 DEF OneWayReceived
    <2>2. Quiet(n, p)
      BY <1>2, <1>4, SameQuiet DEF Quiet, Adjacent, Exchanging
    <2> QED BY <2>1, <2>2 DEF p, NewNeighbor, Inactivity, Reset, NeighborRecord
  <1> QED BY <1>3, <1>4

\* SeqNumberMismatch and BadLSReq, which open the exchange again,
LEMMA MismatchOpens ==
  ASSUME NEW p \in NeighborRecord, p.state \in Exchanging, NEW start \in Nat
  PROVE  SeqNumberMismatch(p, start).state = "ExStart" /\ Fresh(SeqNumberMismatch(p, start))
  <1> DEFINE q == [Reset(p) EXCEPT !.state = "ExStart"]
  <1>1. q \in NeighborRecord /\ Clean(q) /\ q.state = "ExStart"
    BY ResetClean, MovedClean, States
  <1> HIDE DEF q
  <1>2. StartExchange(q, start).state = "ExStart" /\ Fresh(StartExchange(q, start))
    BY <1>1, Opened
  <1> QED BY <1>2 DEF SeqNumberMismatch, q

\* or do nothing,
LEMMA MismatchQuiet ==
  ASSUME NEW n \in NeighborRecord, NEW p \in NeighborRecord, Kept(n, p),
         p.state = n.state, NEW start \in Nat
  PROVE  Quiet(n, SeqNumberMismatch(p, start))
  <1>1. CASE p.state \in Exchanging
    <2>1. n.state # "ExStart"
      BY <1>1 DEF Exchanging
    <2> QED BY <1>1, <2>1, MismatchOpens DEF Quiet
  <1>2. CASE p.state \notin Exchanging
    <2>1. SeqNumberMismatch(p, start) = p
      BY <1>2 DEF SeqNumberMismatch
    <2> QED BY <2>1 DEF Quiet
  <1> QED BY <1>1, <1>2

\* and AdjOK?.
LEMMA AdjOkQuiet ==
  ASSUME NEW n \in NeighborRecord, NEW slave \in BOOLEAN, Good(n, slave),
         NEW connect \in BOOLEAN, NEW start \in Nat
  PROVE  Quiet(n, AdjOk(n, connect, start))
  <1>1. CASE n.state = "TwoWay"
    <2>1. Clean(n)
      BY <1>1 DEF Good, Adjacent, Exchanging
    <2>2. Quiet(n, Judged(n, connect, start))
      BY <1>1, <2>1, JudgedOpens DEF Quiet
    <2> QED BY <1>1, <2>2 DEF AdjOk
  <1>2. CASE n.state # "TwoWay" /\ n.state \in Adjacent /\ ~connect
    <2> DEFINE p == [n EXCEPT !.state = "TwoWay"]
    <2>1. p \in NeighborRecord /\ p.state = "TwoWay"
      BY MovedType, States DEF NeighborRecord
    <2> HIDE DEF p
    <2>2. Reset(p).state = "TwoWay"
      BY <2>1, ResetClean
    <2> QED BY <1>2, <2>2 DEF AdjOk, p, Quiet, Adjacent, Exchanging
  <1>3. CASE n.state # "TwoWay" /\ ~(n.state \in Adjacent /\ ~connect)
    BY <1>3, SameQuiet DEF AdjOk
  <1> QED BY <1>1, <1>2, <1>3

\* An update takes requests off the list and touches nothing else of the record.
LEMMA AnsweredShrinks ==
  ASSUME NEW n \in NeighborRecord, NEW h
  PROVE  LET p == Answered(n, h) IN
         /\ Shrunk(n, p) /\ p.state = n.state
         /\ \/ p.req = n.req
            \/ n.req # <<>> /\ Head(n.req).key = h.key /\ p.req = Tail(n.req)
  <1>1. CASE n.req # <<>> /\ Head(n.req).key = h.key
    <2> DEFINE p == LsrRecvUpdate(n)
    <2>1. /\ p.seq = n.seq /\ p.rxmt = n.rxmt /\ p.summary = n.summary
          /\ p.state = n.state /\ p.req = Tail(n.req)
      BY DEF LsrRecvUpdate, NeighborRecord
    <2>2. n.req \in Seq(Header)
      BY DEF NeighborRecord
    <2> HIDE DEF p
    <2>3. \A j \in 1..Len(p.req) : j + 1 \in 1..Len(n.req) /\ p.req[j] = n.req[j + 1]
      BY <1>1, <2>1, <2>2
    <2>4. Requested(p) \subseteq Requested(n)
      BY <2>3 DEF Requested
    <2> QED BY <1>1, <2>1, <2>4 DEF Answered, p, Shrunk
  <1>2. CASE ~(n.req # <<>> /\ Head(n.req).key = h.key)
    BY <1>2 DEF Answered, Shrunk
  <1> QED BY <1>1, <1>2

\* So does flooding.
LEMMA FloodedShrinks ==
  ASSUME NEW n \in NeighborRecord, NEW h
  PROVE  LET p == Flooded(n, h)
             at == RequestAt(n, h) IN
         /\ Shrunk(n, p) /\ p.state = n.state
         /\ \/ p.req = n.req
            \/ /\ at \in 1..Len(n.req) /\ n.req[at].key = h.key /\ h.inst >= n.req[at].inst
               /\ p.req = SwapRemove(n.req, at)
  <1> DEFINE at == RequestAt(n, h)
             s  == SwapRemove(n.req, at)
             q  == [n EXCEPT !.req = s, !.child = NoKey]
  <1>1. CASE n.state \in Exchanging /\ at > 0 /\ h.inst >= n.req[at].inst
    <2>1. at \in 1..Len(n.req)
      BY <1>1, RequestAtType
    <2>2. n.req[at].key = h.key
      <3> DEFINE places == {i \in 1..Len(n.req) : n.req[i].key = h.key}
      <3>1. places # {} /\ at = CHOOSE i \in places : \A j \in places : i <= j
        <4>1. at = IF places = {} THEN 0 ELSE CHOOSE i \in places : \A j \in places : i <= j
          BY DEF RequestAt
        <4> HIDE DEF at, places
        <4> QED BY <1>1, <4>1
      <3>2. places \subseteq Nat
        OBVIOUS
      <3> HIDE DEF at, places
      <3>3. \E i \in places : \A j \in places : i <= j
        BY <3>1, <3>2, SmallestExists
      <3>4. at \in places
        BY <3>1, <3>3
      <3> QED BY <3>4 DEF places
    <2>3. n.req \in Seq(Header)
      BY DEF NeighborRecord
    <2>4. Len(s) = Len(n.req) - 1 /\ \A j \in 1..Len(s) : s[j] = n.req[j] \/ s[j] = n.req[Len(n.req)]
      BY <2>1, <2>3 DEF SwapRemove
    <2>5. \A j \in 1..Len(s) : \E k \in 1..Len(n.req) : s[j] = n.req[k]
      BY <2>1, <2>3, <2>4
    <2>6. s = SwapRemove(n.req, at)
      OBVIOUS
    <2> HIDE DEF s, at
    <2>7. /\ q.seq = n.seq /\ q.rxmt = n.rxmt /\ q.summary = n.summary
          /\ q.state = n.state /\ q.req = s
      BY DEF NeighborRecord
    <2> HIDE DEF q
    <2>8. Requested(q) \subseteq Requested(n)
      BY <2>5, <2>7 DEF Requested
    <2>9. n.req # <<>>
      BY <2>1, <2>3
    <2>10. Flooded(n, h) = q
      BY <1>1 DEF Flooded, q, s, at
    <2> QED BY <1>1, <2>1, <2>2, <2>6, <2>7, <2>8, <2>9, <2>10 DEF Shrunk, at
  <1>2. CASE ~(n.state \in Exchanging /\ at > 0 /\ h.inst >= n.req[at].inst)
    BY <1>2 DEF Flooded, Shrunk
  <1> QED BY <1>1, <1>2

\* Remembering a packet is quiet.
LEMMA RememberKept ==
  ASSUME NEW n \in NeighborRecord, NEW c \in DdPacketCache
  PROVE  LET p == [n EXCEPT !.last = c] IN
         p \in NeighborRecord /\ Kept(n, p) /\ p.state = n.state /\ p.req = n.req /\ p.master = n.master
  <1> DEFINE p == [n EXCEPT !.last = c]
  <1>1. /\ p \in NeighborRecord /\ p.seq = n.seq /\ p.rxmt = n.rxmt /\ p.summary = n.summary
        /\ p.state = n.state /\ p.req = n.req /\ p.master = n.master
    BY DEF NeighborRecord
  <1> HIDE DEF p
  <1> QED BY <1>1 DEF Kept, Shrunk, Requested, p

\* exchange_done leaves the lists alone.
LEMMA ExchangeDoneKeeps ==
  ASSUME NEW n \in NeighborRecord, n.state = "Exchange"
  PROVE  LET q == ExchangeDone(n) IN
         /\ q.state \in {"Loading", "Full"} /\ q.rxmt = NoRxmt
         /\ q.summary = n.summary /\ q.seq = n.seq /\ Requested(q) = Requested(n)
  <1>1. CASE n.req = <<>>
    <2> DEFINE q == [n EXCEPT !.rxmt = NoRxmt, !.state = "Full"]
    <2>1. /\ q.state = "Full" /\ q.rxmt = NoRxmt /\ q.summary = n.summary
          /\ q.req = n.req /\ q.seq = n.seq
      BY DEF NeighborRecord
    <2>2. ExchangeDone(n) = q
      BY <1>1 DEF ExchangeDone
    <2> HIDE DEF q
    <2> QED BY <2>1, <2>2 DEF Requested
  <1>2. CASE n.req # <<>>
    <2> DEFINE p == [n EXCEPT !.rxmt = NoRxmt, !.state = "Loading"]
    <2>1. /\ p \in NeighborRecord /\ p.state = "Loading" /\ p.rxmt = NoRxmt
          /\ p.summary = n.summary /\ p.req = n.req /\ p.seq = n.seq
      BY NoRxmtType, States DEF NeighborRecord
    <2>2. ExchangeDone(n) = SpawnLsrSender(p)
      BY <1>2 DEF ExchangeDone
    <2> HIDE DEF p
    <2> DEFINE q == SpawnLsrSender(p)
    <2>3. /\ q.state = p.state /\ q.rxmt = p.rxmt /\ q.summary = p.summary
          /\ q.req = p.req /\ q.seq = p.seq
      BY <2>1 DEF SpawnLsrSender, NeighborRecord
    <2> HIDE DEF q
    <2>4. Requested(q) = Requested(n)
      BY <2>1, <2>3 DEF Requested
    <2> QED BY <2>1, <2>2, <2>3, <2>4 DEF q
  <1> QED BY <1>1, <1>2

\* The record with the newer headers queued and the sender started.
LEMMA QueuedRecord ==
  ASSUME NEW r \in Router, NEW m \in DDPacket, NEW n \in NeighborRecord,
         NEW order \in Orders(Peer(r), {h \in m.hdrs : NeedUpdate(r, h)})
  PROVE  LET q == SpawnLsrSender([n EXCEPT !.req = @ \o order]) IN
         /\ q \in NeighborRecord /\ q.state = n.state /\ q.master = n.master
         /\ q.seq = n.seq /\ q.summary = n.summary /\ Queued(r, m, n, q)
  <1> DEFINE need == {h \in m.hdrs : NeedUpdate(r, h)}
             p == [n EXCEPT !.req = @ \o order]
             q == SpawnLsrSender(p)
  <1>1. need \in SUBSET Header
    BY DEF DDPacket
  <1>0. order \in Orders(Peer(r), need) /\ Peer(r) \in Router
    BY PeerType
  <1> HIDE DEF need
  <1>2. order \in Seq(Header) /\ {order[i] : i \in 1..Len(order)} = need
    BY <1>0, <1>1, OrdersAll
  <1>3. n.req \in Seq(Header) /\ n.req \o order \in Seq(Header)
    BY <1>2 DEF NeighborRecord
  <1>4. p \in NeighborRecord
    BY <1>3 DEF NeighborRecord
  <1>5. /\ p.state = n.state /\ p.master = n.master /\ p.seq = n.seq
        /\ p.summary = n.summary /\ p.req = n.req \o order
    BY DEF NeighborRecord
  <1> HIDE DEF p
  <1>6. q \in NeighborRecord
    BY <1>4, SpawnLsrSenderType
  <1>7. /\ q.state = p.state /\ q.master = p.master /\ q.seq = p.seq
        /\ q.summary = p.summary /\ q.req = p.req
    BY <1>4 DEF SpawnLsrSender, NeighborRecord
  <1> HIDE DEF q
  <1>8. Requested(q) = Requested(n) \cup need
    <2>1. q.req = n.req \o order
      BY <1>5, <1>7
    <2>2. Requested(q) = Requested(n) \cup {order[i] : i \in 1..Len(order)}
      BY <1>2, <1>3, <2>1, RequestedOf
    <2> QED BY <1>2, <2>2
  <1> QED BY <1>5, <1>6, <1>7, <1>8 DEF p, q, need, Queued

\* What taking a page does: to the slave's record,
LEMMA AnsweredRecord ==
  ASSUME NEW r \in Router, NEW m \in DDPacket, NEW n \in NeighborRecord,
         NEW q \in NeighborRecord, q.state = "Exchange", q.summary = n.summary,
         Queued(r, m, n, q),
         NEW page \in Pages(r, n.summary, IF m.more THEN SlavePage ELSE Cardinality(n.summary))
  PROVE  LET sent == [q EXCEPT !.seq = m.seq, !.summary = @ \ page, !.rxmt = Packet(Reply(m, page))]
         IN  AnsweredPage(r, m, n, IF m.more THEN sent ELSE ExchangeDone(sent), page)
  <1> DEFINE reply == Reply(m, page)
             sent == [q EXCEPT !.seq = m.seq, !.summary = @ \ page, !.rxmt = Packet(reply)]
             done == ExchangeDone(sent)
  <1>1. page \in SUBSET Header
    BY PagesType DEF NeighborRecord
  <1>2. sent \in NeighborRecord
    BY <1>1, SlaveAnswerType DEF Reply
  <1>3. reply = Reply(m, page)
    OBVIOUS
  <1> HIDE DEF reply
  <1>4. /\ sent.state = "Exchange" /\ sent.seq = m.seq /\ sent.rxmt = Packet(reply)
        /\ sent.summary = n.summary \ page /\ sent.req = q.req
    BY DEF NeighborRecord
  <1> HIDE DEF sent
  <1>5. done.state \in {"Loading", "Full"} /\ done.rxmt = NoRxmt /\ done.summary = sent.summary
        /\ Requested(done) = Requested(sent)
    BY <1>2, <1>4, ExchangeDoneKeeps
  <1> HIDE DEF done
  <1>6. Requested(sent) = Requested(q)
    BY <1>4 DEF Requested
  <1>7. CASE m.more
    BY <1>3, <1>4, <1>6, <1>7 DEF AnsweredPage, Queued, sent, reply
  <1>8. CASE ~m.more
    <2>1. AnsweredPage(r, m, n, done, page)
      BY <1>4, <1>5, <1>6, <1>8 DEF AnsweredPage, Queued
    <2> QED BY <1>8, <2>1 DEF done, sent, reply
  <1> QED BY <1>7, <1>8

\* and to the master's.
LEMMA PolledRecord ==
  ASSUME NEW r \in Router, NEW m \in DDPacket, NEW n \in NeighborRecord,
         NEW q \in NeighborRecord, q.state = "Exchange", q.summary = n.summary, q.seq = n.seq,
         Queued(r, m, n, q), NEW page \in Pages(r, n.summary, MasterPage)
  PROVE  LET next == [q EXCEPT !.seq = @ + 1]
             left == next.summary \ page
         IN  PolledPage(r, m, n,
               IF m.more \/ page # {}
               THEN SpawnMasterSendDD([next EXCEPT !.summary = left],
                        DD(FALSE, left # {}, TRUE, next.seq, page))
               ELSE ExchangeDone(next), page)
  <1> DEFINE next == [q EXCEPT !.seq = @ + 1]
             left == next.summary \ page
             poll == Poll(next.seq, page, left)
             sent == SpawnMasterSendDD([next EXCEPT !.summary = left], poll)
             done == ExchangeDone(next)
  <1>0. next \in NeighborRecord
    BY MasterAnswerType, PagesType DEF NeighborRecord
  <1>1. /\ next \in NeighborRecord /\ next.state = "Exchange" /\ next.seq = n.seq + 1
        /\ next.summary = n.summary /\ next.req = q.req
    BY <1>0 DEF NeighborRecord
  <1> HIDE DEF next
  <1>2. left = n.summary \ page /\ poll = Poll(n.seq + 1, page, left)
    BY <1>1
  <1> HIDE DEF left, poll
  <1>3. /\ sent.state = "Exchange" /\ sent.seq = n.seq + 1 /\ sent.summary = left
        /\ sent.rxmt = Handle(poll) /\ sent.req = q.req
    BY <1>1 DEF SpawnMasterSendDD, NeighborRecord
  <1>4. /\ done.state \in {"Loading", "Full"} /\ done.rxmt = NoRxmt /\ done.summary = n.summary
        /\ Requested(done) = Requested(next) /\ done.seq = n.seq + 1
    BY <1>1, ExchangeDoneKeeps
  <1> HIDE DEF sent, done
  <1>5. Requested(sent) = Requested(q) /\ Requested(next) = Requested(q)
    BY <1>1, <1>3 DEF Requested
  <1>6. CASE m.more \/ page # {}
    <2>1. PolledPage(r, m, n, sent, page)
      BY <1>2, <1>3, <1>5, <1>6 DEF PolledPage, Queued
    <2> QED BY <1>6, <2>1 DEF sent, poll, left, next, Poll
  <1>7. CASE ~(m.more \/ page # {})
    <2>1. PolledPage(r, m, n, done, page)
      BY <1>4, <1>5, <1>7 DEF PolledPage, Queued
    <2> QED BY <1>7, <2>1 DEF done, next
  <1> QED BY <1>6, <1>7

\* A handler that sends one packet,
LEMMA SentMessage ==
  ASSUME TypeOK, NEW r \in Router, NEW i \in 1..Len(net[r]), NEW m \in Message,
         Exchanged(r, i, <<m>>)
  PROVE  /\ InFlight(r)' \subseteq InFlight(r)
         /\ InFlight(Peer(r))' \subseteq InFlight(Peer(r)) \cup {m}
  <1> DEFINE out == <<m>>
  <1>1. out \in Seq(Message) /\ \A j \in 1..Len(out) : out[j] = m
    OBVIOUS
  <1>2. Exchanged(r, i, out)
    OBVIOUS
  <1> HIDE DEF out
  <1> QED BY <1>1, <1>2, ExchangedInFlight

\* and one that sends nothing.
LEMMA SentNothing ==
  ASSUME TypeOK, NEW r \in Router, NEW i \in 1..Len(net[r]), Exchanged(r, i, <<>>)
  PROVE  InFlight(r)' \subseteq InFlight(r) /\ InFlight(Peer(r))' \subseteq InFlight(Peer(r))
  <1> DEFINE out == <<>>
  <1>1. out \in Seq(Message) /\ 1..Len(out) = {}
    OBVIOUS
  <1>2. Exchanged(r, i, out)
    OBVIOUS
  <1> HIDE DEF out
  <1> QED BY <1>1, <1>2, ExchangedInFlight

\* r takes a page: what it does to both records and both directions.
LEMMA TakenPage ==
  ASSUME TypeOK, NEW r \in Router, NEW i \in 1..Len(net[r]), NEW m \in DDPacket,
         NEW n \in NeighborRecord, n.state = "Exchange", TakePage(r, i, m, n)
  PROVE  /\ nbr'[Peer(r)] = nbr[Peer(r)]
         /\ InFlight(r)' \subseteq InFlight(r)
         /\ \E page \in SUBSET Header :
              IF n.master
              THEN /\ AnsweredPage(r, m, n, nbr'[r], page)
                   /\ InFlight(Peer(r))' \subseteq InFlight(Peer(r)) \cup {Reply(m, page)}
              ELSE /\ PolledPage(r, m, n, nbr'[r], page)
                   /\ InFlight(Peer(r))' \subseteq InFlight(Peer(r))
  <1> DEFINE need == {h \in m.hdrs : NeedUpdate(r, h)}
  <1>2. PICK order \in Orders(Peer(r), need) :
          LET q == SpawnLsrSender([n EXCEPT !.req = @ \o order]) IN
          IF q.master
          THEN \E page \in Pages(r, q.summary,
                              IF m.more THEN SlavePage ELSE Cardinality(q.summary)) :
                 LET reply == DD(FALSE, m.more, FALSE, m.seq, page)
                     sent  == [q EXCEPT !.seq = m.seq, !.summary = @ \ page,
                                        !.rxmt = Packet(reply)]
                 IN /\ Become(r, IF m.more THEN sent ELSE ExchangeDone(sent))
                    /\ Exchanged(r, i, <<reply>>)
          ELSE \E page \in Pages(r, q.summary, MasterPage) :
                 LET next == [q EXCEPT !.seq = @ + 1]
                     left == next.summary \ page
                 IN /\ Become(r,
                          IF m.more \/ page # {}
                          THEN SpawnMasterSendDD([next EXCEPT !.summary = left],
                                   DD(FALSE, left # {}, TRUE, next.seq, page))
                          ELSE ExchangeDone(next))
                    /\ Exchanged(r, i, <<>>)
    BY DEF TakePage
  <1> DEFINE q == SpawnLsrSender([n EXCEPT !.req = @ \o order])
  <1>3. /\ q \in NeighborRecord /\ q.state = "Exchange" /\ q.master = n.master
        /\ q.seq = n.seq /\ q.summary = n.summary /\ Queued(r, m, n, q)
    BY QueuedRecord
  <1>4. n.summary \in SUBSET Header
    BY DEF NeighborRecord
  <1>5. \A p : Become(r, p) => nbr'[r] = p /\ nbr'[Peer(r)] = nbr[Peer(r)]
    BY PeerType DEF Become, TypeOK
  <1> HIDE DEF q, need
  <1>6. CASE n.master
    <2>1. PICK page \in Pages(r, n.summary,
                              IF m.more THEN SlavePage ELSE Cardinality(n.summary)) :
            LET sent  == [q EXCEPT !.seq = m.seq, !.summary = @ \ page,
                                   !.rxmt = Packet(Reply(m, page))]
            IN /\ Become(r, IF m.more THEN sent ELSE ExchangeDone(sent))
               /\ Exchanged(r, i, <<Reply(m, page)>>)
      BY <1>2, <1>3, <1>6 DEF q, Reply
    <2>2. page \in SUBSET Header
      BY <1>4, PagesType
    <2>3. AnsweredPage(r, m, n, nbr'[r], page) /\ nbr'[Peer(r)] = nbr[Peer(r)]
      BY <1>3, <1>5, <2>1, AnsweredRecord
    <2>4. Reply(m, page) \in Message
      BY <2>2, DDType DEF Reply, Message, DDPacket
    <2>5. /\ InFlight(r)' \subseteq InFlight(r)
          /\ InFlight(Peer(r))' \subseteq InFlight(Peer(r)) \cup {Reply(m, page)}
      <3> DEFINE x == Reply(m, page)
      <3>1. x \in Message /\ Exchanged(r, i, <<x>>)
        BY <2>1, <2>4
      <3> HIDE DEF x
      <3> QED BY <3>1, SentMessage DEF x
    <2> QED BY <1>6, <2>2, <2>3, <2>5
  <1>7. CASE ~n.master
    <2>1. PICK page \in Pages(r, n.summary, MasterPage) :
            LET next == [q EXCEPT !.seq = @ + 1]
                left == next.summary \ page
            IN /\ Become(r,
                     IF m.more \/ page # {}
                     THEN SpawnMasterSendDD([next EXCEPT !.summary = left],
                              DD(FALSE, left # {}, TRUE, next.seq, page))
                     ELSE ExchangeDone(next))
               /\ Exchanged(r, i, <<>>)
      BY <1>2, <1>3, <1>7 DEF q
    <2>2. page \in SUBSET Header
      BY <1>4, PagesType
    <2>3. PolledPage(r, m, n, nbr'[r], page) /\ nbr'[Peer(r)] = nbr[Peer(r)]
      <3> DEFINE next == [q EXCEPT !.seq = @ + 1]
                 left == next.summary \ page
                 p == IF m.more \/ page # {}
                      THEN SpawnMasterSendDD([next EXCEPT !.summary = left],
                               DD(FALSE, left # {}, TRUE, next.seq, page))
                      ELSE ExchangeDone(next)
      <3>1. Become(r, p)
        BY <2>1
      <3>2. PolledPage(r, m, n, p, page)
        BY <1>3, PolledRecord
      <3> HIDE DEF p
      <3> QED BY <1>5, <3>1, <3>2
    <2>4. InFlight(r)' \subseteq InFlight(r) /\ InFlight(Peer(r))' \subseteq InFlight(Peer(r))
      BY <2>1, SentNothing
    <2> QED BY <1>7, <2>2, <2>3, <2>4
  <1> QED BY <1>6, <1>7

---------------------------------------------------------------------------
(* The steps of the pair, as the later proofs see them.                    *)

AllFresh == \A r \in Router : Fresh(nbr[r])
Base == TypeOK /\ AllGood /\ AllFresh

\* r, as slave, takes packet m and answers with page: n is the record it does
\* it from, just accepted or in the middle of the exchange.
Answers(r, m, page) ==
    /\ m.type = "DD" /\ m.ms /\ Peer(r) > r
    /\ \E n \in NeighborRecord :
          /\ \/ /\ nbr[r].state \notin Exchanging
                /\ m.init /\ m.more /\ m.hdrs = {}
                /\ n.summary = AllLsa(r) /\ Requested(n) = {}
             \/ /\ nbr[r].state = "Exchange"
                /\ ~m.init /\ m.seq = nbr[r].seq + 1
                /\ n.summary = nbr[r].summary /\ Requested(n) = Requested(nbr[r])
          /\ AnsweredPage(r, m, n, nbr'[r], page)

\* r, as master, takes answer m and sends page.  In Init it judges the peer
\* first and may take the answer in the same step.
Advances(r, m, page) ==
    /\ m.type = "DD" /\ ~m.ms /\ Peer(r) < r
    /\ \E n \in NeighborRecord :
          /\ n.seq = m.seq
          /\ \/ /\ nbr[r].state \in {"ExStart", "Init"}
                /\ nbr[r].state = "ExStart" => m.seq = nbr[r].seq
                /\ n.summary = AllLsa(r) /\ Requested(n) = {}
             \/ /\ nbr[r].state = "Exchange" /\ m.seq = nbr[r].seq
                /\ n.summary = nbr[r].summary /\ Requested(n) = Requested(nbr[r])
          /\ PolledPage(r, m, n, nbr'[r], page)

\* What else r may send: a request, what its database holds, its own packet again.
Resent(r, m) ==
    \/ m.type = "LSR"
    \/ m.type = "LSU" /\ m.lsa \in AllLsa(r)
    \/ m = nbr[r].rxmt.pkt /\ nbr[r].rxmt.kind # "None" /\ UNCHANGED nbr

\* Requests that an update takes off r's list.  Without a "young" copy in its way,
\* the update is in the database, or is older than what is.
Prunes(r) ==
    /\ Shrunk(nbr[r], nbr'[r])
    /\ "young" \notin FaultKinds =>
         \A g \in Requested(nbr[r]) \ Requested(nbr'[r]) : \E m \in InFlight(r) :
             m.type = "LSU" /\ m.lsa.key = g.key /\ db'[r][g.key] >= m.lsa.inst

Effect(r) ==
    /\ \/ nbr'[Peer(r)] = nbr[Peer(r)]
       \/ nbr[Peer(r)].state = "Down" /\ nbr'[Peer(r)].state = "Down"
    /\ InFlight(r)' \subseteq InFlight(r)
    /\ \/ /\ Quiet(nbr[r], nbr'[r]) \/ Prunes(r)
          /\ \A m \in InFlight(Peer(r))' : m \in InFlight(Peer(r)) \/ Resent(r, m)
       \/ \E m \in InFlight(r), page \in SUBSET Header :
             /\ Answers(r, m, page)
             /\ InFlight(Peer(r))' \subseteq InFlight(Peer(r)) \cup {Reply(m, page)}
       \/ \E m \in InFlight(r), page \in SUBSET Header :
             /\ Advances(r, m, page)
             /\ InFlight(Peer(r))' \subseteq InFlight(Peer(r))

\* The two routers.
LEMMA TheRouters ==
  ASSUME NEW r \in Router
  PROVE  Peer(r) \in Router /\ Peer(r) # r /\ \A s \in Router : s = r \/ s = Peer(r)
  BY DEF Router, Peer

\* Replacing r's record leaves the other one.
LEMMA Became ==
  ASSUME TypeOK, NEW r \in Router, NEW q, Become(r, q)
  PROVE  nbr'[r] = q /\ nbr'[Peer(r)] = nbr[Peer(r)]
  BY PeerType DEF Become, TypeOK

\* The same network is in flight.
LEMMA SameInFlight ==
  ASSUME NEW r \in Router, UNCHANGED net
  PROVE  InFlight(r)' \subseteq InFlight(r) /\ InFlight(Peer(r))' \subseteq InFlight(Peer(r))
  BY DEF InFlight, Peer

\* A quiet step that sends nothing.
LEMMA QuietEffect ==
  ASSUME NEW r \in Router, Quiet(nbr[r], nbr'[r]),
         \/ nbr'[Peer(r)] = nbr[Peer(r)]
         \/ nbr[Peer(r)].state = "Down" /\ nbr'[Peer(r)].state = "Down",
         InFlight(r)' \subseteq InFlight(r), InFlight(Peer(r))' \subseteq InFlight(Peer(r))
  PROVE  Effect(r)
  BY DEF Effect

\* The effect of the hello handler.
LEMMA HelloEffect ==
  ASSUME Base, NEW r \in Router, Hello(r)
  PROVE  Effect(r)
  <1>1. PICK connect \in Connect, start \in StartSeq :
          LET seen == nbr[Peer(r)].state # "Down"
              n    == HelloReceive(nbr[r])
          IN nbr' = [nbr EXCEPT
                ![Peer(r)] = IF seen THEN @ ELSE NewNeighbor,
                ![r] = IF seen THEN TwoWayReceived(n, connect, start)
                               ELSE OneWayReceived(n)]
    BY DEF Hello
  <1>2. nbr[r] \in NeighborRecord /\ Good(nbr[r], Peer(r) > r)
        /\ connect \in BOOLEAN /\ start \in Nat
    BY ClockType, JudgeType DEF Base, TypeOK, AllGood
  <1>3. /\ Quiet(nbr[r], TwoWayReceived(HelloReceive(nbr[r]), connect, start))
        /\ Quiet(nbr[r], OneWayReceived(HelloReceive(nbr[r])))
    BY <1>2, SlaveType, TwoWayQuiet, DroppedQuiet
  <1>4. Quiet(nbr[r], nbr'[r])
    BY <1>1, <1>3, PeerType DEF Base, TypeOK
  <1>5. \/ nbr'[Peer(r)] = nbr[Peer(r)]
        \/ nbr[Peer(r)].state = "Down" /\ nbr'[Peer(r)].state = "Down"
    <2>1. NewNeighbor.state = "Down"
      BY DEF NewNeighbor
    <2> QED BY <1>1, <2>1, PeerType DEF Base, TypeOK
  <1>6. UNCHANGED net
    BY DEF Hello
  <1> QED BY <1>4, <1>5, <1>6, SameInFlight, QuietEffect

\* The effect of a task: at most one packet sent again.
LEMMA TaskEffect ==
  ASSUME Base, NEW r \in Router, Task(r)
  PROVE  Effect(r)
  <1> DEFINE n == nbr[r]
  <1>1. n \in NeighborRecord /\ Good(n, Peer(r) > r)
    BY DEF Base, TypeOK, AllGood
  <1>2. ASSUME NEW x \in Message, net' = [net EXCEPT ![Peer(r)] = Append(@, x)], UNCHANGED nbr,
               Resent(r, x)
        PROVE  Effect(r)
    <2>1. net'[r] = net[r] /\ net'[Peer(r)] = Append(net[Peer(r)], x)
      BY <1>2, PeerType DEF Base, TypeOK
    <2>2. net[Peer(r)] \in Seq(Message)
      BY PeerType DEF Base, TypeOK
    <2>3. \A j \in 1..Len(net'[Peer(r)]) :
             net'[Peer(r)][j] = x \/ \E k \in 1..Len(net[Peer(r)]) : net'[Peer(r)][j] = net[Peer(r)][k]
      BY <2>1, <2>2
    <2>4. InFlight(r)' \subseteq InFlight(r)
      BY <2>1 DEF InFlight
    <2>5. \A m \in InFlight(Peer(r))' : m \in InFlight(Peer(r)) \/ m = x
      BY <2>3 DEF InFlight, Peer
    <2>6. Quiet(nbr[r], nbr'[r]) /\ nbr'[Peer(r)] = nbr[Peer(r)]
      BY <1>2, SameQuiet
    <2> QED BY <1>2, <2>4, <2>5, <2>6 DEF Effect
  <1>3. CASE ResendDD(r)
    <2>1. n.rxmt.pkt \in Message
      BY <1>1 DEF NeighborRecord, DdRxmt, Message
    <2>2. Resent(r, n.rxmt.pkt)
      BY <1>3 DEF ResendDD, Resent
    <2> QED BY <1>2, <1>3, <2>1, <2>2 DEF ResendDD
  <1>4. CASE ResendLSR(r)
    <2>1. LSR(n.child) \in Message
      BY <1>1, <1>4 DEF ResendLSR, NeighborRecord, LSR, LSRequest, Message
    <2>2. Resent(r, LSR(n.child))
      BY DEF Resent, LSR
    <2> QED BY <1>2, <1>4, <2>1, <2>2 DEF ResendLSR
  <1>5. ASSUME NEW q, Become(r, q), UNCHANGED net, Kept(n, q)
        PROVE  Effect(r)
    <2>1. Quiet(n, q)
      BY <1>5 DEF Quiet
    <2> QED BY <1>5, <2>1, Became, SameInFlight, QuietEffect DEF Base
  <1>6. CASE PeekRequest(r)
    <2>1. CASE n.req = <<>>
      <3> DEFINE q == [LoadingDone(n) EXCEPT !.lsr = "ended"]
      <3>1. Become(r, q) /\ UNCHANGED net
        BY <1>6, <2>1 DEF PeekRequest
      <3> HIDE DEF n
      <3>2. LoadingDone(n) \in NeighborRecord
        BY <1>1, LoadingDoneType
      <3>3. /\ q.seq = n.seq /\ q.rxmt = n.rxmt /\ q.summary = n.summary /\ q.req = n.req
            /\ (q.state = n.state \/ (n.state = "Loading" /\ q.state = "Full"))
        BY <1>1, <3>2 DEF LoadingDone, NeighborRecord
      <3> HIDE DEF q
      <3>4. Kept(n, q)
        BY <3>3 DEF Kept, Shrunk, Requested
      <3> QED BY <1>5, <3>1, <3>4
    <2>2. CASE n.req # <<>>
      <3> DEFINE k == Head(n.req).key
                 q == [n EXCEPT !.lsr = "wait", !.child = k]
      <3>1. Become(r, q) /\ UNCHANGED net
        BY <1>6, <2>2 DEF PeekRequest
      <3> HIDE DEF n, k
      <3>3. /\ q.seq = n.seq /\ q.rxmt = n.rxmt /\ q.summary = n.summary /\ q.req = n.req
            /\ q.state = n.state
        BY <1>1 DEF NeighborRecord
      <3> HIDE DEF q
      <3>4. Kept(n, q)
        BY <3>3 DEF Kept, Shrunk, Requested
      <3> QED BY <1>5, <3>1, <3>4
    <2> QED BY <2>1, <2>2
  <1>7. ASSUME NEW l, Become(r, [n EXCEPT !.lsr = l]), UNCHANGED net
        PROVE  Effect(r)
    <2> DEFINE q == [n EXCEPT !.lsr = l]
    <2>1. /\ q.seq = n.seq /\ q.rxmt = n.rxmt /\ q.summary = n.summary /\ q.req = n.req
          /\ q.state = n.state
      BY <1>1 DEF NeighborRecord
    <2>2. Become(r, q)
      BY <1>7
    <2> HIDE DEF n, q
    <2>3. Kept(n, q)
      BY <2>1 DEF Kept, Shrunk, Requested
    <2> QED BY <1>5, <1>7, <2>2, <2>3
  <1>8. CASE ChildAborted(r)
    BY <1>7, <1>8 DEF ChildAborted
  <1>9. CASE SenderFinished(r)
    BY <1>7, <1>9 DEF SenderFinished
  <1> QED BY <1>3, <1>4, <1>6, <1>8, <1>9 DEF Task

\* The effect of the LSR handler.
LEMMA HandleLSREffect ==
  ASSUME Base, NEW r \in Router, HandleLSR(r)
  PROVE  Effect(r)
  <1>1. PICK i \in Deliverable(r) :
          /\ net[r][i].type = "LSR"
          /\ IF nbr[r].state \in Exchanging /\ db[r][net[r][i].key] = 0
             THEN \E start \in StartSeq : Become(r, SeqNumberMismatch(nbr[r], start))
             ELSE UNCHANGED nbr
          /\ Exchanged(r, i,
                IF nbr[r].state \in Exchanging /\ db[r][net[r][i].key] > 0
                THEN <<LSU(net[r][i].key, db[r][net[r][i].key])>> ELSE <<>>)
    BY DEF HandleLSR
  <1>2. i \in 1..Len(net[r]) /\ net[r][i].key \in Keys
    BY <1>1, DeliveredType DEF Base, Message, LSRequest, LSUpdate, DDPacket
  <1>3. nbr[r] \in NeighborRecord /\ db[r][net[r][i].key] \in 0..MaxInst /\ TypeOK
    BY <1>2 DEF Base, TypeOK, Database
  <1>4. Quiet(nbr[r], nbr'[r]) /\ nbr'[Peer(r)] = nbr[Peer(r)]
    <2>1. \A start \in StartSeq : Quiet(nbr[r], SeqNumberMismatch(nbr[r], start))
      BY <1>3, ClockType, MismatchQuiet DEF Kept, Shrunk
    <2> QED BY <1>1, <1>3, <2>1, Became, SameQuiet
  <1>5. CASE nbr[r].state \in Exchanging /\ db[r][net[r][i].key] > 0
    <2> DEFINE x == LSU(net[r][i].key, db[r][net[r][i].key])
    <2>1. db[r][net[r][i].key] \in 1..MaxInst
      BY <1>3, <1>5, MaxInstAssumption
    <2>2. x \in Message /\ Resent(r, x)
      BY <1>2, <2>1 DEF LSU, LSUpdate, Header, Message, Resent, AllLsa
    <2>3. Exchanged(r, i, <<x>>)
      BY <1>1, <1>5
    <2> HIDE DEF x
    <2>4. /\ InFlight(r)' \subseteq InFlight(r)
          /\ InFlight(Peer(r))' \subseteq InFlight(Peer(r)) \cup {x}
      BY <1>2, <1>3, <2>2, <2>3, SentMessage
    <2> QED BY <1>4, <2>2, <2>4 DEF Effect
  <1>6. CASE ~(nbr[r].state \in Exchanging /\ db[r][net[r][i].key] > 0)
    <2>1. Exchanged(r, i, <<>>)
      BY <1>1, <1>6
    <2> QED BY <1>2, <1>3, <1>4, <2>1, SentNothing, QuietEffect
  <1> QED BY <1>5, <1>6

\* What an update takes off the list is a request for its LSA.
LEMMA AnsweredDrops ==
  ASSUME NEW n \in NeighborRecord, NEW h, NEW g \in Requested(n) \ Requested(Answered(n, h))
  PROVE  g.key = h.key
  <1> DEFINE p == Answered(n, h)
  <1>1. \/ p.req = n.req
        \/ n.req # <<>> /\ Head(n.req).key = h.key /\ p.req = Tail(n.req)
    BY AnsweredShrinks
  <1>2. n.req \in Seq(Header) /\ g \in Requested(n) /\ g \notin Requested(p)
    BY DEF NeighborRecord
  <1> HIDE DEF p
  <1>3. PICK j \in 1..Len(n.req) : g = n.req[j]
    BY <1>2 DEF Requested
  <1>4. CASE p.req = n.req
    BY <1>2, <1>4 DEF Requested
  <1>5. CASE n.req # <<>> /\ Head(n.req).key = h.key /\ p.req = Tail(n.req)
    <2>1. CASE j = 1
      BY <1>2, <1>3, <1>5, <2>1
    <2>2. CASE j # 1
      <3>1. j - 1 \in 1..Len(p.req) /\ p.req[j - 1] = n.req[j]
        BY <1>2, <1>5, <2>2
      <3> QED BY <1>2, <1>3, <3>1 DEF Requested
    <2> QED BY <2>1, <2>2
  <1> QED BY <1>1, <1>4, <1>5

\* The same of flooding.
LEMMA FloodedDrops ==
  ASSUME NEW n \in NeighborRecord, NEW h, NEW g \in Requested(n) \ Requested(Flooded(n, h))
  PROVE  g.key = h.key
  <1> DEFINE p == Flooded(n, h)
             at == RequestAt(n, h)
  <1>1. \/ p.req = n.req
        \/ /\ at \in 1..Len(n.req) /\ n.req[at].key = h.key
           /\ p.req = SwapRemove(n.req, at)
    BY FloodedShrinks
  <1>2. n.req \in Seq(Header) /\ g \in Requested(n) /\ g \notin Requested(p)
    BY DEF NeighborRecord
  <1> HIDE DEF p, at
  <1>3. PICK j \in 1..Len(n.req) : g = n.req[j]
    BY <1>2 DEF Requested
  <1>4. CASE p.req = n.req
    BY <1>2, <1>4 DEF Requested
  <1>5. CASE /\ at \in 1..Len(n.req) /\ n.req[at].key = h.key
             /\ p.req = SwapRemove(n.req, at)
    <2>1. /\ Len(p.req) = Len(n.req) - 1
          /\ \A x \in 1..(Len(n.req) - 1) :
               p.req[x] = IF x = at THEN n.req[Len(n.req)] ELSE n.req[x]
      BY <1>2, <1>5 DEF SwapRemove
    <2>2. CASE j = at
      BY <1>3, <1>5, <2>2
    <2>3. CASE j # at /\ j < Len(n.req)
      <3>1. j \in 1..Len(p.req) /\ p.req[j] = n.req[j]
        BY <1>2, <2>1, <2>3
      <3> QED BY <1>2, <1>3, <3>1 DEF Requested
    <2>4. CASE j # at /\ j = Len(n.req)
      <3>1. at \in 1..Len(p.req) /\ p.req[at] = n.req[j]
        BY <1>2, <1>5, <2>1, <2>4
      <3> QED BY <1>2, <1>3, <3>1 DEF Requested
    <2> QED BY <1>2, <2>2, <2>3, <2>4
  <1> QED BY <1>1, <1>4, <1>5

\* The effect of the LSU handler.
LEMMA HandleLSUEffect ==
  ASSUME Base, NEW r \in Router, HandleLSU(r)
  PROVE  Effect(r)
  <1>1. PICK i \in Deliverable(r) :
          LET h == net[r][i].lsa
              n == Answered(nbr[r], h)
          IN
          /\ net[r][i].type = "LSU"
          /\ \/ /\ Become(r, Flooded(n, h)) /\ Exchanged(r, i, <<>>)
                /\ db' = [db EXCEPT ![r] = [@ EXCEPT ![h.key] = h.inst]]
             \/ Become(r, n) /\ Exchanged(r, i, <<>>) /\ Fault("young")
             \/ /\ \E j \in 1..Len(n.req) : n.req[j] = h
                /\ \E start \in StartSeq : Become(r, SeqNumberMismatch(n, start))
                /\ Exchanged(r, i, <<>>)
             \/ /\ ~NeedUpdate(r, h)
                /\ Become(r, n)
                /\ \E out \in {<<>>} \cup
                              {<<LSU(h.key, k)>> : k \in {db[r][h.key]} \ {h.inst}} :
                      Exchanged(r, i, out)
                /\ UNCHANGED db
    BY DEF HandleLSU
  <1> DEFINE m == net[r][i]
             h == m.lsa
             n == Answered(nbr[r], h)
  <1>2. i \in 1..Len(net[r]) /\ h \in Header /\ m \in InFlight(r) /\ m.type = "LSU"
    BY <1>1, DeliveredType DEF Base, Message, LSRequest, LSUpdate, DDPacket, InFlight
  <1>3. nbr[r] \in NeighborRecord /\ TypeOK
    BY DEF Base, TypeOK
  <1>4. /\ n \in NeighborRecord /\ Shrunk(nbr[r], n) /\ n.state = nbr[r].state
        /\ \A g \in Requested(nbr[r]) \ Requested(n) : g.key = h.key
    BY <1>3, AnsweredType, AnsweredShrinks, AnsweredDrops
  <1>5. h.key \in Keys /\ h.inst \in 1..MaxInst
    BY <1>2 DEF Header
  <1>6. db[r] \in Database /\ db[r][h.key] \in 0..MaxInst
    BY <1>3, <1>5 DEF TypeOK, Database
  <1> HIDE DEF m, n
  <1>7. CASE /\ Become(r, Flooded(n, h)) /\ Exchanged(r, i, <<>>)
             /\ db' = [db EXCEPT ![r] = [@ EXCEPT ![h.key] = h.inst]]
    <2>1. /\ Shrunk(n, Flooded(n, h)) /\ Flooded(n, h).state = n.state
          /\ \A g \in Requested(n) \ Requested(Flooded(n, h)) : g.key = h.key
      BY <1>4, FloodedShrinks, FloodedDrops
    <2>2. nbr'[r] = Flooded(n, h) /\ nbr'[Peer(r)] = nbr[Peer(r)]
      BY <1>3, <1>7, Became
    <2>3. Shrunk(nbr[r], nbr'[r])
      BY <1>4, <2>1, <2>2 DEF Shrunk
    <2>4. \A g \in Requested(nbr[r]) \ Requested(nbr'[r]) : g.key = h.key
      BY <1>4, <2>1, <2>2
    <2>5. db'[r][h.key] = h.inst
      BY <1>3, <1>5, <1>6, <1>7 DEF TypeOK, Database
    <2>6. Prunes(r)
      BY <1>2, <1>5, <2>3, <2>4, <2>5 DEF Prunes
    <2> QED BY <1>2, <1>3, <1>7, <2>2, <2>6, SentNothing DEF Effect
  <1>8. CASE Become(r, n) /\ Exchanged(r, i, <<>>) /\ Fault("young")
    <2>1. nbr'[r] = n /\ nbr'[Peer(r)] = nbr[Peer(r)]
      BY <1>3, <1>8, Became
    <2>2. Prunes(r)
      BY <1>4, <1>8, <2>1 DEF Prunes, Fault
    <2> QED BY <1>2, <1>3, <1>8, <2>1, <2>2, SentNothing DEF Effect
  <1>9. CASE /\ \E j \in 1..Len(n.req) : n.req[j] = h
             /\ \E start \in StartSeq : Become(r, SeqNumberMismatch(n, start))
             /\ Exchanged(r, i, <<>>)
    <2>1. n.req # <<>>
      BY <1>9
    <2>2. nbr[r].req # <<>>
      BY <1>4, <2>1 DEF Shrunk
    <2>3. n.state \in Exchanging
      BY <1>4, <2>2 DEF Base, AllGood, AllFresh, Good, Clean, Fresh, Adjacent
    <2>4. PICK start \in StartSeq : Become(r, SeqNumberMismatch(n, start))
      BY <1>9
    <2>5. /\ SeqNumberMismatch(n, start).state = "ExStart"
          /\ Fresh(SeqNumberMismatch(n, start)) /\ nbr[r].state # "ExStart"
      BY <1>4, <2>3, ClockType, MismatchOpens DEF Exchanging
    <2>6. Quiet(nbr[r], nbr'[r]) /\ nbr'[Peer(r)] = nbr[Peer(r)]
      BY <1>3, <2>4, <2>5, Became DEF Quiet
    <2> QED BY <1>2, <1>3, <1>9, <2>6, SentNothing, QuietEffect
  <1>10. CASE /\ ~NeedUpdate(r, h)
              /\ Become(r, n)
              /\ \E out \in {<<>>} \cup
                            {<<LSU(h.key, k)>> : k \in {db[r][h.key]} \ {h.inst}} :
                    Exchanged(r, i, out)
              /\ UNCHANGED db
    <2>1. nbr'[r] = n /\ nbr'[Peer(r)] = nbr[Peer(r)]
      BY <1>3, <1>10, Became
    <2>2. db'[r][h.key] >= h.inst /\ db[r][h.key] \in 1..MaxInst
      BY <1>5, <1>6, <1>10, MaxInstAssumption DEF NeedUpdate
    <2>3. Prunes(r)
      BY <1>2, <1>4, <2>1, <2>2 DEF Prunes
    <2>4. CASE Exchanged(r, i, <<>>)
      BY <1>2, <1>3, <2>1, <2>3, <2>4, SentNothing DEF Effect
    <2>5. CASE Exchanged(r, i, <<LSU(h.key, db[r][h.key])>>)
      <3> DEFINE x == LSU(h.key, db[r][h.key])
      <3>1. x \in Message /\ Resent(r, x)
        BY <1>5, <2>2 DEF LSU, LSUpdate, Header, Message, Resent, AllLsa
      <3>2. Exchanged(r, i, <<x>>)
        BY <2>5
      <3> HIDE DEF x
      <3>3. /\ InFlight(r)' \subseteq InFlight(r)
            /\ InFlight(Peer(r))' \subseteq InFlight(Peer(r)) \cup {x}
        BY <1>2, <1>3, <3>1, <3>2, SentMessage
      <3> QED BY <2>1, <2>3, <3>1, <3>3 DEF Effect
    <2> QED BY <1>10, <2>4, <2>5
  <1> QED BY <1>1, <1>7, <1>8, <1>9, <1>10 DEF m, n

\* The effect of timeouts, restarts, expiry, losses and DR changes.
LEMMA DisturbanceEffect ==
  ASSUME Base, NEW r \in Router, Disturbance(r)
  PROVE  Effect(r)
  <1>1. nbr[r] \in NeighborRecord /\ Good(nbr[r], Peer(r) > r) /\ TypeOK
    BY DEF Base, TypeOK, AllGood
  <1>2. ASSUME NEW q, Become(r, q), UNCHANGED net, Quiet(nbr[r], q)
        PROVE  Effect(r)
    BY <1>1, <1>2, Became, SameInFlight, QuietEffect
  <1>3. CASE Reelected(r)
    <2>1. PICK connect \in Connect, start \in StartSeq :
            Become(r, AdjOk(nbr[r], connect, start)) /\ UNCHANGED net
      BY <1>3 DEF Reelected
    <2>2. connect \in BOOLEAN /\ start \in Nat
      BY ClockType, JudgeType
    <2>3. Quiet(nbr[r], AdjOk(nbr[r], connect, start))
      BY <1>1, <2>2, SlaveType, AdjOkQuiet
    <2> QED BY <1>2, <2>1, <2>3
  <1>4. CASE InactivityTimer(r)
    <2>1. Quiet(nbr[r], Inactivity(nbr[r]))
      BY <1>1, DroppedQuiet DEF Quiet, Adjacent, Exchanging
    <2> QED BY <1>2, <1>4, <2>1 DEF InactivityTimer
  <1>5. CASE Restart(r)
    <2>1. Quiet(nbr[r], NewNeighbor)
      BY <1>1, DroppedQuiet DEF Quiet, Adjacent, Exchanging
    <2> QED BY <1>2, <1>5, <2>1 DEF Restart
  <1>6. CASE Expire(r)
    BY <1>6, SameQuiet, SameInFlight, QuietEffect DEF Expire
  <1>7. CASE Lose(r)
    <2>1. PICK i \in 1..Len(net[r]) : net' = [net EXCEPT ![r] = Without(@, i)]
      BY <1>7 DEF Lose
    <2>2. net[Peer(r)] \o <<>> = net[Peer(r)]
      BY <1>1, PeerType DEF TypeOK
    <2>3. Exchanged(r, i, <<>>)
      <3> DEFINE s == Without(net[r], i)
                 t == net[Peer(r)] \o <<>>
      <3>1. net' = [net EXCEPT ![r] = s] /\ t = net[Peer(r)] /\ net \in [Router -> Seq(Message)]
        BY <1>1, <2>1, <2>2 DEF TypeOK
      <3> HIDE DEF s, t
      <3>2. net' = [net EXCEPT ![r] = s, ![Peer(r)] = t]
        BY <3>1, PeerType
      <3> QED BY <3>2, PeerType DEF Exchanged, s, t
    <2> QED BY <1>1, <1>7, <2>3, SentNothing, SameQuiet, QuietEffect DEF Lose
  <1> QED BY <1>3, <1>4, <1>5, <1>6, <1>7 DEF Disturbance

\* The record the DD handler works on: r's own, or the one that Init turned into.
LEMMA AdmittedQuiet ==
  ASSUME Base, NEW r \in Router, NEW n \in Admitted(nbr[r])
  PROVE  /\ n \in NeighborRecord /\ Good(n, Peer(r) > r) /\ Fresh(n)
         /\ Quiet(nbr[r], n)
         /\ \/ n = nbr[r]
            \/ nbr[r].state = "Init" /\ n.state \notin Exchanging
  <1>1. nbr[r] \in NeighborRecord /\ Good(nbr[r], Peer(r) > r) /\ Fresh(nbr[r])
    BY DEF Base, TypeOK, AllGood, AllFresh
  <1>2. CASE nbr[r].state = "Init"
    <2>1. PICK connect \in Connect, start \in StartSeq : n = TwoWayReceived(nbr[r], connect, start)
      BY <1>2 DEF Admitted
    <2>2. connect \in BOOLEAN /\ start \in Nat
      BY ClockType, JudgeType
    <2>3. /\ n \in NeighborRecord /\ Good(n, Peer(r) > r) /\ Quiet(nbr[r], n)
      BY <1>1, <2>1, <2>2, SlaveType, TwoWayReceivedType, TwoWayReceivedGood, TwoWayQuiet
    <2>4. Clean(nbr[r])
      BY <1>1, <1>2 DEF Good, Adjacent, Exchanging
    <2>5. n = Judged(nbr[r], connect, start)
      BY <1>2, <2>1 DEF TwoWayReceived
    <2>6. n.state \notin Adjacent \/ (n.state = "ExStart" /\ Fresh(n))
      BY <1>1, <2>2, <2>4, <2>5, JudgedOpens
    <2>7. Fresh(n) /\ n.state \notin Exchanging
      BY <2>6 DEF Fresh, Adjacent, Exchanging
    <2> QED BY <1>2, <2>3, <2>7
  <1>3. CASE nbr[r].state # "Init"
    BY <1>1, <1>3, SameQuiet DEF Admitted
  <1> QED BY <1>2, <1>3

\* The effect of the DD handler.
LEMMA HandleDDEffect ==
  ASSUME Base, NEW r \in Router, HandleDD(r)
  PROVE  Effect(r)
  <1>1. PICK i \in Deliverable(r) :
          /\ net[r][i].type = "DD"
          /\ IF nbr[r].state = "Down"
             THEN UNCHANGED nbr /\ Exchanged(r, i, <<>>)
             ELSE \E n \in Admitted(nbr[r]) :
                     \/ AcceptMaster(r, i, net[r][i], n)
                     \/ AcceptSlave(r, i, net[r][i], n)
                     \/ IgnoreDD(r, i, net[r][i], n)
                     \/ DuplicateDD(r, i, net[r][i], n)
                     \/ NextDD(r, i, net[r][i], n)
                     \/ RestartDD(r, i, net[r][i], n)
    BY DEF HandleDD
  <1> DEFINE m == net[r][i]
  <1>2. i \in 1..Len(net[r]) /\ m \in DDPacket /\ TypeOK /\ m \in InFlight(r)
    BY <1>1, DeliveredType DEF Base, Message, LSRequest, LSUpdate, InFlight
  <1>3. m.type = "DD" /\ Cache(m) \in DdPacketCache /\ m.seq \in Nat
    BY <1>2, CacheType DEF DDPacket
  <1> HIDE DEF m
  <1>4. CASE nbr[r].state = "Down"
    BY <1>1, <1>2, <1>4, SentNothing, SameQuiet, QuietEffect
  <1>5. CASE nbr[r].state # "Down"
    <2>1. PICK n \in Admitted(nbr[r]) :
             \/ AcceptMaster(r, i, m, n)
             \/ AcceptSlave(r, i, m, n)
             \/ IgnoreDD(r, i, m, n)
             \/ DuplicateDD(r, i, m, n)
             \/ NextDD(r, i, m, n)
             \/ RestartDD(r, i, m, n)
      BY <1>1, <1>5 DEF m
    <2>2. /\ n \in NeighborRecord /\ Good(n, Peer(r) > r) /\ Fresh(n)
          /\ Quiet(nbr[r], n)
          /\ \/ n = nbr[r]
             \/ nbr[r].state = "Init" /\ n.state \notin Exchanging
      BY AdmittedQuiet
    <2>3. AllLsa(r) \in SUBSET Header
      BY DEF AllLsa
    <2>4. ASSUME NEW p \in NeighborRecord, p.state = "ExStart", n.state = "ExStart",
                 p.req = n.req, p.summary = n.summary,
                 TakePage(r, i, m, NegotiationDone(p, AllLsa(r)))
          PROVE  \E a \in NeighborRecord :
                   /\ a.state = "Exchange" /\ a.seq = p.seq /\ a.master = p.master
                   /\ a.summary = AllLsa(r) /\ Requested(a) = {}
                   /\ TakePage(r, i, m, a)
      <3> DEFINE a == NegotiationDone(p, AllLsa(r))
      <3>1. a \in NeighborRecord
        BY <2>3, <2>4, NegotiationDoneType
      <3>2. n.req = <<>> /\ n.summary = {}
        BY <2>2, <2>4 DEF Fresh
      <3>3. /\ a.state = "Exchange" /\ a.seq = p.seq /\ a.master = p.master
            /\ a.summary = AllLsa(r) /\ a.req = <<>>
        BY <2>4, <3>2 DEF NegotiationDone, NeighborRecord
      <3>4. TakePage(r, i, m, a)
        BY <2>4
      <3> HIDE DEF a
      <3>5. Requested(a) = {}
        BY <3>3 DEF Requested
      <3> QED BY <3>1, <3>3, <3>4, <3>5
    <2>5. n.state = "ExStart" => nbr[r].state \in {"ExStart", "Init"}
      BY <2>2
    <2>6. CASE AcceptMaster(r, i, m, n)
      <3> DEFINE p == [n EXCEPT !.last = Cache(m), !.master = TRUE, !.seq = m.seq]
      <3>1. /\ n.state = "ExStart" /\ Peer(r) > r /\ m.init /\ m.more /\ m.ms /\ m.hdrs = {}
            /\ TakePage(r, i, m, NegotiationDone(p, AllLsa(r)))
        BY <2>6 DEF AcceptMaster
      <3>2. /\ p \in NeighborRecord /\ p.state = "ExStart" /\ p.master /\ p.seq = m.seq
            /\ p.req = n.req /\ p.summary = n.summary
        BY <1>3, <2>2, <3>1 DEF NeighborRecord
      <3> HIDE DEF p
      <3>3. PICK a \in NeighborRecord :
              /\ a.state = "Exchange" /\ a.seq = p.seq /\ a.master = p.master
              /\ a.summary = AllLsa(r) /\ Requested(a) = {}
              /\ TakePage(r, i, m, a)
        BY <2>4, <3>1, <3>2
      <3>4. PICK page \in SUBSET Header :
              /\ nbr'[Peer(r)] = nbr[Peer(r)] /\ InFlight(r)' \subseteq InFlight(r)
              /\ AnsweredPage(r, m, a, nbr'[r], page)
              /\ InFlight(Peer(r))' \subseteq InFlight(Peer(r)) \cup {Reply(m, page)}
        BY <1>2, <3>2, <3>3, TakenPage
      <3>5. nbr[r].state \notin Exchanging
        BY <2>5, <3>1 DEF Exchanging
      <3>6. Answers(r, m, page)
        BY <1>3, <3>1, <3>3, <3>4, <3>5 DEF Answers
      <3> QED BY <1>2, <3>4, <3>6 DEF Effect
    <2>7. CASE AcceptSlave(r, i, m, n)
      <3> DEFINE p == [n EXCEPT !.last = Cache(m), !.master = FALSE]
      <3>1. /\ n.state = "ExStart" /\ Peer(r) < r /\ ~m.init /\ ~m.ms /\ m.seq = n.seq
            /\ TakePage(r, i, m, NegotiationDone(p, AllLsa(r)))
        BY <2>7 DEF AcceptSlave
      <3>2. /\ p \in NeighborRecord /\ p.state = "ExStart" /\ ~p.master /\ p.seq = m.seq
            /\ p.req = n.req /\ p.summary = n.summary
        BY <1>3, <2>2, <3>1 DEF NeighborRecord
      <3> HIDE DEF p
      <3>3. PICK a \in NeighborRecord :
              /\ a.state = "Exchange" /\ a.seq = p.seq /\ a.master = p.master
              /\ a.summary = AllLsa(r) /\ Requested(a) = {}
              /\ TakePage(r, i, m, a)
        BY <2>4, <3>1, <3>2
      <3>4. PICK page \in SUBSET Header :
              /\ nbr'[Peer(r)] = nbr[Peer(r)] /\ InFlight(r)' \subseteq InFlight(r)
              /\ PolledPage(r, m, a, nbr'[r], page)
              /\ InFlight(Peer(r))' \subseteq InFlight(Peer(r))
        BY <1>2, <3>2, <3>3, TakenPage
      <3>5. nbr[r].state = "ExStart" => m.seq = nbr[r].seq
        BY <2>2, <3>1
      <3>6. Advances(r, m, page)
        BY <1>3, <2>5, <3>1, <3>2, <3>3, <3>4, <3>5 DEF Advances
      <3> QED BY <1>2, <3>4, <3>6 DEF Effect
    <2>8. CASE IgnoreDD(r, i, m, n)
      <3> DEFINE q == [n EXCEPT !.last = Cache(m)]
      <3>1. Become(r, q) /\ Exchanged(r, i, <<>>)
        BY <2>8 DEF IgnoreDD
      <3>2. /\ q.state = n.state /\ q.seq = n.seq /\ q.rxmt = n.rxmt
            /\ q.summary = n.summary /\ q.req = n.req
        BY <2>2 DEF NeighborRecord
      <3> HIDE DEF q
      <3>3. Quiet(nbr[r], q)
        BY <2>2, <3>2 DEF Quiet, Kept, Shrunk, Fresh, Requested
      <3> QED BY <1>2, <3>1, <3>3, Became, SentNothing, QuietEffect
    <2>9. CASE DuplicateDD(r, i, m, n)
      <3>1. n = nbr[r] /\ UNCHANGED nbr
        BY <2>2, <2>9 DEF DuplicateDD
      <3>2. Quiet(nbr[r], nbr'[r]) /\ nbr'[Peer(r)] = nbr[Peer(r)]
        BY <3>1, SameQuiet
      <3>3. CASE n.master /\ n.rxmt.kind = "Packet"
        <4> DEFINE x == n.rxmt.pkt
        <4>1. x \in Message
          BY <2>2 DEF NeighborRecord, DdRxmt, Message
        <4>2. Exchanged(r, i, <<x>>)
          BY <2>9, <3>3 DEF DuplicateDD
        <4>3. Resent(r, x)
          BY <3>1, <3>3 DEF Resent
        <4> HIDE DEF x
        <4>4. /\ InFlight(r)' \subseteq InFlight(r)
              /\ InFlight(Peer(r))' \subseteq InFlight(Peer(r)) \cup {x}
          BY <1>2, <4>1, <4>2, SentMessage
        <4> QED BY <3>2, <4>3, <4>4 DEF Effect
      <3>4. CASE ~(n.master /\ n.rxmt.kind = "Packet")
        <4>1. Exchanged(r, i, <<>>)
          BY <2>9, <3>4 DEF DuplicateDD
        <4> QED BY <1>2, <3>2, <4>1, SentNothing, QuietEffect
      <3> QED BY <3>3, <3>4
    <2>10. CASE NextDD(r, i, m, n)
      <3> DEFINE p == [n EXCEPT !.last = Cache(m)]
      <3>1. n.state = "Exchange" /\ InSequence(n, m) /\ TakePage(r, i, m, p)
        BY <2>10 DEF NextDD
      <3>2. n = nbr[r]
        BY <2>2, <3>1 DEF Exchanging
      <3>3. /\ p \in NeighborRecord /\ p.state = "Exchange" /\ p.seq = n.seq
            /\ p.summary = n.summary /\ p.req = n.req /\ p.master = n.master
        BY <1>3, <2>2, <3>1, RememberGood DEF NeighborRecord
      <3> HIDE DEF p
      <3>4. n.master <=> (Peer(r) > r)
        BY <2>2, <3>1 DEF Good, Exchanging
      <3>5. Requested(p) = Requested(n)
        BY <3>3 DEF Requested
      <3>6. CASE n.master
        <4>1. PICK page \in SUBSET Header :
                /\ nbr'[Peer(r)] = nbr[Peer(r)] /\ InFlight(r)' \subseteq InFlight(r)
                /\ AnsweredPage(r, m, p, nbr'[r], page)
                /\ InFlight(Peer(r))' \subseteq InFlight(Peer(r)) \cup {Reply(m, page)}
          BY <1>2, <3>1, <3>3, <3>6, TakenPage
        <4>2. m.ms /\ ~m.init /\ m.seq = n.seq + 1
          BY <3>1, <3>6 DEF InSequence
        <4>3. Answers(r, m, page)
          BY <1>3, <3>1, <3>2, <3>3, <3>4, <3>5, <3>6, <4>1, <4>2 DEF Answers
        <4> QED BY <1>2, <4>1, <4>3 DEF Effect
      <3>7. CASE ~n.master
        <4>1. PICK page \in SUBSET Header :
                /\ nbr'[Peer(r)] = nbr[Peer(r)] /\ InFlight(r)' \subseteq InFlight(r)
                /\ PolledPage(r, m, p, nbr'[r], page)
                /\ InFlight(Peer(r))' \subseteq InFlight(Peer(r))
          BY <1>2, <3>1, <3>3, <3>7, TakenPage
        <4>2. ~m.ms /\ m.seq = n.seq /\ Peer(r) < r
          BY <3>1, <3>4, <3>7, <2>2, <1>2, SlaveType DEF InSequence, NeighborRecord, DDPacket
        <4>3. Advances(r, m, page)
          BY <1>3, <3>1, <3>2, <3>3, <3>5, <4>1, <4>2 DEF Advances
        <4> QED BY <1>2, <4>1, <4>3 DEF Effect
      <3> QED BY <3>6, <3>7
    <2>11. CASE RestartDD(r, i, m, n)
      <3> DEFINE p == [n EXCEPT !.last = Cache(m)]
      <3>1. PICK start \in StartSeq : Become(r, SeqNumberMismatch(p, start))
        BY <2>11 DEF RestartDD
      <3>2. Exchanged(r, i, <<>>) /\ n = nbr[r]
        BY <2>2, <2>11 DEF RestartDD
      <3>3. p \in NeighborRecord /\ Kept(n, p) /\ p.state = n.state
        BY <1>3, <2>2, RememberKept
      <3> HIDE DEF p
      <3>4. Quiet(nbr[r], SeqNumberMismatch(p, start))
        BY <2>2, <3>2, <3>3, ClockType, MismatchQuiet
      <3> QED BY <1>2, <3>1, <3>2, <3>4, Became, SentNothing, QuietEffect
    <2> QED BY <2>1, <2>6, <2>7, <2>8, <2>9, <2>10, <2>11
  <1> QED BY <1>4, <1>5

\* Every step is one router's, with that effect.
LEMMA StepEffect ==
  ASSUME Base, [Next]_vars
  PROVE  UNCHANGED vars \/ \E r \in Router : Effect(r)
  BY TaskEffect, HelloEffect, HandleDDEffect, HandleLSREffect, HandleLSUEffect,
     DisturbanceEffect DEF Next, Handler

\* Records in ExStart stay fresh.
LEMMA FreshKept ==
  ASSUME Base, NEW r \in Router, Effect(r)
  PROVE  AllFresh'
  <1>1. Fresh(nbr'[Peer(r)])
    BY PeerType DEF Effect, Base, AllFresh, Fresh
  <1>2. Fresh(nbr'[r])
    <2>1. CASE Quiet(nbr[r], nbr'[r])
      BY <2>1 DEF Quiet, Kept, Shrunk, Base, AllFresh, Fresh, Adjacent
    <2>2. CASE Prunes(r)
      BY <2>2 DEF Prunes, Shrunk, Base, AllFresh, Fresh
    <2>3. CASE \E m, page : Answers(r, m, page)
      BY <2>3 DEF Answers, AnsweredPage, Fresh
    <2>4. CASE \E m, page : Advances(r, m, page)
      BY <2>4 DEF Advances, PolledPage, Fresh
    <2> QED BY <2>1, <2>2, <2>3, <2>4 DEF Effect
  <1> QED BY <1>1, <1>2, TheRouters DEF AllFresh

\* The types, the good records and the fresh ones, always.
LEMMA BaseAlways == Spec => []Base
  <1>1. Init => AllFresh
    BY DEF Init, AllFresh, Fresh, NewNeighbor
  <1>2. TypeOK /\ AllGood /\ AllFresh /\ [Next]_vars => AllFresh'
    <2> SUFFICES ASSUME Base, [Next]_vars PROVE AllFresh'
      BY DEF Base
    <2>1. CASE UNCHANGED vars
      BY <2>1 DEF vars, Base, AllFresh
    <2>2. ASSUME NEW r \in Router, Effect(r) PROVE AllFresh'
      BY <2>2, FreshKept
    <2> QED BY <2>1, <2>2, StepEffect
  <1> QED BY <1>1, <1>2, Inductive, PTL DEF Spec, Base

---------------------------------------------------------------------------
(* Where headers come from.  Without expiry every LSA in a database, on a   *)
(* list or in a packet is an instance some router started with, and not an  *)
(* older one than the router it comes from started with.                    *)

HadBy(p, k, i) == i \in {Own[1][k], Own[2][k]} /\ i >= Own[p][k]

GenuineRecord(r) ==
    /\ \A k \in Keys : HadBy(r, k, db[r][k])
    /\ \A h \in nbr[r].summary \cup nbr[r].rxmt.pkt.hdrs : HadBy(r, h.key, h.inst)
    /\ \A h \in Requested(nbr[r]) : HadBy(Peer(r), h.key, h.inst)
GenuineMessage(p, m) ==
    /\ m.type = "DD" => \A h \in m.hdrs : HadBy(p, h.key, h.inst)
    /\ m.type = "LSU" => HadBy(p, m.lsa.key, m.lsa.inst)
Genuine ==
    \A r \in Router :
        /\ GenuineRecord(r)
        /\ \A m \in InFlight(Peer(r)) : GenuineMessage(r, m)

\* What a step does to the databases.
Learns(r) ==
    \E m \in InFlight(r) :
        /\ m.type = "LSU" /\ m.lsa \in Header /\ NeedUpdate(r, m.lsa)
        /\ db'[r] = [db[r] EXCEPT ![m.lsa.key] = m.lsa.inst]
        /\ nbr'[r].state = nbr[r].state
DbEffect(r) ==
    /\ db'[Peer(r)] = db[Peer(r)]
    /\ \/ db'[r] = db[r]
       \/ Learns(r)
       \/ Restart(r) /\ db'[r] = Own[r] /\ nbr'[r].state = "Down"

\* Unless lifetimes end, databases only grow, until the router restarts.
LEMMA StepDbEffect ==
  ASSUME Base, "expire" \notin FaultKinds, NEW r \in Router,
         Task(r) \/ Handler(r) \/ Disturbance(r)
  PROVE  DbEffect(r)
  <1>1. CASE UNCHANGED db
    BY <1>1 DEF DbEffect
  <1>2. CASE HandleLSU(r)
    <2>1. PICK i \in Deliverable(r) :
            LET h == net[r][i].lsa IN
            /\ net[r][i].type = "LSU"
            /\ \/ /\ NeedUpdate(r, h) /\ db' = [db EXCEPT ![r] = [@ EXCEPT ![h.key] = h.inst]]
                  /\ Become(r, Flooded(Answered(nbr[r], h), h))
               \/ UNCHANGED db
      BY <1>2 DEF HandleLSU
    <2> DEFINE m == net[r][i]
    <2>2. m \in InFlight(r) /\ m.lsa \in Header
      BY <2>1, DeliveredType DEF Base, Message, LSRequest, LSUpdate, DDPacket, InFlight
    <2>3. /\ m.type = "LSU"
          /\ \/ /\ NeedUpdate(r, m.lsa)
                /\ db' = [db EXCEPT ![r] = [@ EXCEPT ![m.lsa.key] = m.lsa.inst]]
                /\ Become(r, Flooded(Answered(nbr[r], m.lsa), m.lsa))
             \/ UNCHANGED db
      BY <2>1
    <2> HIDE DEF m
    <2>4. ASSUME NeedUpdate(r, m.lsa), db' = [db EXCEPT ![r] = [@ EXCEPT ![m.lsa.key] = m.lsa.inst]],
                 Become(r, Flooded(Answered(nbr[r], m.lsa), m.lsa))
          PROVE  DbEffect(r)
      <3>1. /\ db'[Peer(r)] = db[Peer(r)]
            /\ db'[r] = [db[r] EXCEPT ![m.lsa.key] = m.lsa.inst]
        BY <2>4, PeerType DEF Base, TypeOK
      <3>2. nbr[r] \in NeighborRecord /\ Answered(nbr[r], m.lsa) \in NeighborRecord
        BY <2>2, AnsweredType DEF Base, TypeOK
      <3>3. Flooded(Answered(nbr[r], m.lsa), m.lsa).state = nbr[r].state
        <4> DEFINE n == Answered(nbr[r], m.lsa)
        <4>1. n.state = nbr[r].state /\ n \in NeighborRecord
          BY <3>2, AnsweredShrinks
        <4> HIDE DEF n
        <4>2. Flooded(n, m.lsa).state = n.state
          BY <4>1, FloodedShrinks
        <4> QED BY <4>1, <4>2 DEF n
      <3>4. nbr'[r].state = nbr[r].state
        BY <2>4, <3>3, Became DEF Base
      <3> QED BY <2>2, <2>3, <2>4, <3>1, <3>4 DEF DbEffect, Learns
    <2> QED BY <1>1, <2>3, <2>4
  <1>3. CASE Restart(r)
    <2>1. nbr'[r] = NewNeighbor
      BY <1>3, Became DEF Base, Restart
    <2>2. db'[Peer(r)] = db[Peer(r)] /\ db'[r] = Own[r]
      BY <1>3, PeerType DEF Restart, Fault, Base, TypeOK
    <2> QED BY <1>3, <2>1, <2>2 DEF DbEffect, NewNeighbor
  <1>4. ~Expire(r)
    BY DEF Expire, Fault
  <1> QED BY <1>1, <1>2, <1>3, <1>4
      DEF Task, ResendDD, PeekRequest, ChildAborted, SenderFinished, ResendLSR, Handler, Hello,
          HandleDD, HandleLSR, Disturbance, Reelected, InactivityTimer, Lose

\* A record that is not adjacent lists nothing.
LEMMA SettledLists ==
  ASSUME AllGood, NEW r \in Router, nbr[r].state \notin Adjacent
  PROVE  nbr[r].summary = {} /\ nbr[r].rxmt = NoRxmt /\ nbr[r].rxmt.pkt.hdrs = {}
         /\ Requested(nbr[r]) = {} /\ nbr[r].req = <<>>
  BY DEF AllGood, Good, Clean, Requested, NoRxmt, DD

\* One that has just entered ExStart lists nothing either.
LEMMA FreshLists ==
  ASSUME AllFresh, NEW r \in Router, nbr[r].state = "ExStart"
  PROVE  nbr[r].summary = {} /\ nbr[r].rxmt.pkt.hdrs = {}
         /\ Requested(nbr[r]) = {} /\ nbr[r].req = <<>>
  <1> DEFINE n == nbr[r]
  <1>1. n.rxmt = Handle(Opening(n.seq)) /\ n.summary = {} /\ n.req = <<>>
    BY DEF AllFresh, Fresh
  <1> HIDE DEF n
  <1>2. n.rxmt.pkt.hdrs = {}
    BY <1>1 DEF Handle, Opening, DD
  <1>3. Requested(n) = {}
    BY <1>1 DEF Requested
  <1> QED BY <1>1, <1>2, <1>3 DEF n

\* What a database lists is what its router has had.
LEMMA AllLsaGenuine ==
  ASSUME NEW r \in Router, GenuineRecord(r), NEW h \in AllLsa(r)
  PROVE  h \in Header /\ HadBy(r, h.key, h.inst)
  BY DEF GenuineRecord, AllLsa, Header

\* The databases stay genuine.
LEMMA GenuineDb ==
  ASSUME TypeOK, Genuine, NEW r \in Router, DbEffect(r)
  PROVE  \A s \in Router : \A k \in Keys : HadBy(s, k, db'[s][k])
  <1>1. ASSUME NEW k \in Keys
        PROVE  HadBy(r, k, db'[r][k])
    <2>1. HadBy(r, k, db[r][k])
      BY DEF Genuine, GenuineRecord
    <2>2. db[r][k] \in Nat /\ Own[r][k] \in Nat
      BY OwnAssumption, MaxInstAssumption DEF TypeOK, Database
    <2>3. CASE Learns(r)
      <3>1. PICK m \in InFlight(r) :
              /\ m.type = "LSU" /\ m.lsa \in Header /\ NeedUpdate(r, m.lsa)
              /\ db'[r] = [db[r] EXCEPT ![m.lsa.key] = m.lsa.inst]
        BY <2>3 DEF Learns
      <3>2. HadBy(Peer(r), m.lsa.key, m.lsa.inst)
        BY <3>1, PeerType DEF Genuine, GenuineMessage
      <3>3. db[r] \in [Keys -> 0..MaxInst]
        BY DEF TypeOK, Database
      <3>4. CASE k = m.lsa.key
        <4>1. db'[r][k] = m.lsa.inst /\ m.lsa.inst \in Nat /\ m.lsa.inst > db[r][k]
          BY <3>1, <3>3, <3>4, <2>2, MaxInstAssumption DEF Header, NeedUpdate
        <4> QED BY <2>1, <2>2, <3>2, <3>4, <4>1 DEF HadBy
      <3>5. CASE k # m.lsa.key
        BY <2>1, <3>1, <3>3, <3>5
      <3> QED BY <3>4, <3>5
    <2>4. CASE db'[r] = Own[r]
      BY <2>2, <2>4 DEF HadBy, Router
    <2> QED BY <2>1, <2>3, <2>4 DEF DbEffect
  <1>2. \A k \in Keys : HadBy(Peer(r), k, db'[Peer(r)][k])
    BY PeerType DEF Genuine, GenuineRecord, DbEffect
  <1> QED BY <1>1, <1>2, TheRouters

\* Genuine in the primed state, part by part.
LEMMA GenuineParts ==
  ASSUME NEW r \in Router,
         \A s \in Router : \A k \in Keys : HadBy(s, k, db'[s][k]),
         \A s \in Router : \A h \in nbr'[s].summary \cup nbr'[s].rxmt.pkt.hdrs : HadBy(s, h.key, h.inst),
         \A s \in Router : \A h \in Requested(nbr'[s]) : HadBy(Peer(s), h.key, h.inst),
         \A m \in InFlight(r)' : GenuineMessage(Peer(r), m),
         \A m \in InFlight(Peer(r))' : GenuineMessage(r, m)
  PROVE  Genuine'
  <1>1. \A s \in Router : GenuineRecord(s)'
    BY DEF GenuineRecord, HadBy, Requested, Peer
  <1>2. \A s \in Router : \A m \in InFlight(Peer(s))' : GenuineMessage(s, m)
    BY PeerType, TheRouters
  <1> QED BY <1>1, <1>2 DEF Genuine, GenuineMessage, Peer, InFlight

\* A page is a part of the list it is drained from.
LEMMA PageSubset ==
  ASSUME NEW r, NEW S, NEW limit, NEW page \in Pages(r, S, limit)
  PROVE  page \subseteq S
  BY DEF Pages

\* What a packet listing a genuine page brings.
LEMMA AnswerGenuine ==
  ASSUME TypeOK, Genuine, NEW r \in Router, NEW m \in InFlight(r), NEW page, Answers(r, m, page)
  PROVE  /\ \A h \in nbr'[r].summary \cup page : HadBy(r, h.key, h.inst)
         /\ \A h \in Requested(nbr'[r]) : HadBy(Peer(r), h.key, h.inst)
         /\ \A h \in nbr'[r].rxmt.pkt.hdrs : HadBy(r, h.key, h.inst)
  <1>1. PICK n \in NeighborRecord :
          /\ \/ n.summary = AllLsa(r) /\ Requested(n) = {}
             \/ n.summary = nbr[r].summary /\ Requested(n) = Requested(nbr[r])
          /\ AnsweredPage(r, m, n, nbr'[r], page)
    BY DEF Answers
  <1>2. \A h \in n.summary : HadBy(r, h.key, h.inst)
    BY <1>1, AllLsaGenuine DEF Genuine, GenuineRecord
  <1>3. \A h \in Requested(n) : HadBy(Peer(r), h.key, h.inst)
    BY <1>1 DEF Genuine, GenuineRecord
  <1>4. \A h \in m.hdrs : HadBy(Peer(r), h.key, h.inst)
    BY PeerType DEF Genuine, GenuineMessage, Answers
  <1>5. page \subseteq n.summary /\ nbr'[r].summary = n.summary \ page
    BY <1>1, PageSubset DEF AnsweredPage
  <1>6. \A h \in Requested(nbr'[r]) : h \in Requested(n) \/ h \in m.hdrs
    BY <1>1 DEF AnsweredPage, Queued
  <1>7. nbr'[r].rxmt = Packet(Reply(m, page)) \/ nbr'[r].rxmt = NoRxmt
    BY <1>1 DEF AnsweredPage
  <1>8. nbr'[r].rxmt.pkt.hdrs \in {page, {}}
    BY <1>7 DEF Packet, Reply, DD, NoRxmt
  <1> QED BY <1>2, <1>3, <1>4, <1>5, <1>6, <1>8

\* The same for the master's packet.
LEMMA AdvanceGenuine ==
  ASSUME TypeOK, Genuine, NEW r \in Router, NEW m \in InFlight(r), NEW page, Advances(r, m, page)
  PROVE  /\ \A h \in nbr'[r].summary \cup page : HadBy(r, h.key, h.inst)
         /\ \A h \in Requested(nbr'[r]) : HadBy(Peer(r), h.key, h.inst)
         /\ \A h \in nbr'[r].rxmt.pkt.hdrs : HadBy(r, h.key, h.inst)
  <1>1. PICK n \in NeighborRecord :
          /\ \/ n.summary = AllLsa(r) /\ Requested(n) = {}
             \/ n.summary = nbr[r].summary /\ Requested(n) = Requested(nbr[r])
          /\ PolledPage(r, m, n, nbr'[r], page)
    BY DEF Advances
  <1>2. \A h \in n.summary : HadBy(r, h.key, h.inst)
    BY <1>1, AllLsaGenuine DEF Genuine, GenuineRecord
  <1>3. \A h \in Requested(n) : HadBy(Peer(r), h.key, h.inst)
    BY <1>1 DEF Genuine, GenuineRecord
  <1>4. \A h \in m.hdrs : HadBy(Peer(r), h.key, h.inst)
    BY PeerType DEF Genuine, GenuineMessage, Advances
  <1>5. page \subseteq n.summary /\ nbr'[r].summary \subseteq n.summary
    BY <1>1, PageSubset DEF PolledPage
  <1>6. \A h \in Requested(nbr'[r]) : h \in Requested(n) \/ h \in m.hdrs
    BY <1>1 DEF PolledPage, Queued
  <1>7. \/ nbr'[r].rxmt = Handle(Poll(nbr'[r].seq, page, nbr'[r].summary))
        \/ nbr'[r].rxmt = NoRxmt
    BY <1>1 DEF PolledPage
  <1>8. nbr'[r].rxmt.pkt.hdrs \in {page, {}}
    BY <1>7 DEF Handle, Poll, DD, NoRxmt
  <1> QED BY <1>2, <1>3, <1>4, <1>5, <1>6, <1>8

\* What is sent again was genuine already.
LEMMA ResentGenuine ==
  ASSUME TypeOK, Genuine, NEW r \in Router, NEW m, Resent(r, m)
  PROVE  GenuineMessage(r, m)
  <1>1. CASE m.type = "LSR"
    BY <1>1 DEF GenuineMessage
  <1>2. CASE m.type = "LSU" /\ m.lsa \in AllLsa(r)
    BY <1>2, AllLsaGenuine DEF Genuine, GenuineMessage
  <1>3. CASE m = nbr[r].rxmt.pkt
    <2>1. m.type = "DD"
      BY <1>3 DEF TypeOK, NeighborRecord, DdRxmt, DDPacket
    <2> QED BY <1>3, <2>1 DEF Genuine, GenuineRecord, GenuineMessage
  <1> QED BY <1>1, <1>2, <1>3 DEF Resent

\* Every step keeps the origin of headers.
LEMMA GenuineKept ==
  ASSUME Base, Genuine, Base', NEW r \in Router, Effect(r), DbEffect(r)
  PROVE  Genuine'
  <1> DEFINE p == Peer(r)
  <1>1. p \in Router /\ p # r /\ Peer(p) = r /\ \A s \in Router : s = r \/ s = p
    BY PeerType, TheRouters
  <1>2. \A s \in Router : \A k \in Keys : HadBy(s, k, db'[s][k])
    BY GenuineDb DEF Base
  <1>3. ASSUME NEW s \in Router, nbr'[s].state \notin Adjacent \/ nbr'[s].state = "ExStart"
        PROVE  nbr'[s].summary \cup nbr'[s].rxmt.pkt.hdrs = {} /\ Requested(nbr'[s]) = {}
    <2>1. CASE nbr'[s].state \notin Adjacent
      <3>1. Good(nbr'[s], Peer(s) > s)
        BY DEF Base, AllGood, Peer
      <3> QED BY <2>1, <3>1 DEF Good, Clean, Requested, NoRxmt, DD
    <2>2. CASE nbr'[s].state = "ExStart"
      <3> DEFINE n == nbr'[s]
      <3>1. n.rxmt = Handle(Opening(n.seq)) /\ n.summary = {} /\ n.req = <<>>
        BY <2>2 DEF Base, AllFresh, Fresh
      <3> HIDE DEF n
      <3>2. n.rxmt.pkt.hdrs = {}
        BY <3>1 DEF Handle, Opening, DD
      <3>3. Requested(n) = {}
        BY <3>1 DEF Requested
      <3> QED BY <3>1, <3>2, <3>3 DEF n
    <2> QED BY <1>3, <2>1, <2>2
  <1> DEFINE Lists(s) == \A h \in nbr'[s].summary \cup nbr'[s].rxmt.pkt.hdrs : HadBy(s, h.key, h.inst)
             Asks(s) == \A h \in Requested(nbr'[s]) : HadBy(Peer(s), h.key, h.inst)
  <1>4. Lists(p) /\ Asks(p)
    <2>1. CASE nbr'[p] = nbr[p]
      BY <1>1, <2>1 DEF Genuine, GenuineRecord
    <2>2. CASE nbr'[p].state = "Down"
      BY <1>1, <1>3, <2>2 DEF Adjacent, Exchanging
    <2> QED BY <2>1, <2>2 DEF Effect
  <1>5. Lists(r) /\ Asks(r)
    <2>1. CASE Shrunk(nbr[r], nbr'[r])
      BY <2>1 DEF Genuine, GenuineRecord, Shrunk
    <2>2. CASE nbr'[r].state \notin Adjacent \/ nbr'[r].state = "ExStart"
      BY <1>3, <2>2
    <2>3. ASSUME NEW m \in InFlight(r), NEW page, Answers(r, m, page) PROVE Lists(r) /\ Asks(r)
      BY <2>3, AnswerGenuine DEF Base
    <2>4. ASSUME NEW m \in InFlight(r), NEW page, Advances(r, m, page) PROVE Lists(r) /\ Asks(r)
      BY <2>4, AdvanceGenuine DEF Base
    <2> HIDE DEF Lists, Asks
    <2> QED BY <2>1, <2>2, <2>3, <2>4 DEF Effect, Quiet, Prunes, Kept
  <1>6. \A m \in InFlight(r)' : GenuineMessage(p, m)
    BY <1>1 DEF Genuine, Effect
  <1>7. \A m \in InFlight(p)' : GenuineMessage(r, m)
    <2>0. \A m \in InFlight(p) : GenuineMessage(r, m)
      BY DEF Genuine
    <2>1. \A m : Resent(r, m) => GenuineMessage(r, m)
      BY ResentGenuine DEF Base
    <2>2. ASSUME NEW m \in InFlight(r), NEW page, Answers(r, m, page)
          PROVE  GenuineMessage(r, Reply(m, page))
      <3>1. \A h \in page : HadBy(r, h.key, h.inst)
        BY <2>2, AnswerGenuine DEF Base
      <3> QED BY <3>1 DEF GenuineMessage, Reply, DD
    <2> QED BY <2>0, <2>1, <2>2 DEF Effect
  <1>8. (\A s \in Router : Lists(s)) /\ (\A s \in Router : Asks(s))
    BY <1>1, <1>4, <1>5
  <1> QED BY <1>2, <1>6, <1>7, <1>8, GenuineParts

\* Headers are genuine as long as no lifetime ends.
LEMMA GenuineAlways ==
  ASSUME "expire" \notin FaultKinds
  PROVE  Spec => []Genuine
  <1>1. Init => Genuine
    <2> SUFFICES ASSUME Init PROVE Genuine
      OBVIOUS
    <2>1. ASSUME NEW r \in Router
          PROVE  GenuineRecord(r) /\ InFlight(Peer(r)) = {}
      <3>1. nbr[r] = NewNeighbor /\ net[Peer(r)] = <<>> /\ db[r] = Own[r]
        BY PeerType DEF Init
      <3>2. nbr[r].summary = {} /\ nbr[r].rxmt.pkt.hdrs = {} /\ nbr[r].req = <<>>
        BY <3>1 DEF NewNeighbor, NoRxmt, DD
      <3>3. Requested(nbr[r]) = {} /\ InFlight(Peer(r)) = {}
        BY <3>1, <3>2 DEF Requested, InFlight
      <3>4. \A k \in Keys : HadBy(r, k, db[r][k])
        BY <3>1, OwnAssumption, MaxInstAssumption DEF HadBy, Router, Database
      <3> QED BY <3>2, <3>3, <3>4 DEF GenuineRecord
    <2> QED BY <2>1 DEF Genuine
  <1>2. Base /\ Base' /\ Genuine /\ [Next]_vars => Genuine'
    <2> SUFFICES ASSUME Base, Base', Genuine, [Next]_vars PROVE Genuine'
      OBVIOUS
    <2>1. CASE UNCHANGED vars
      BY <2>1 DEF vars, Genuine, GenuineRecord, InFlight
    <2>2. ASSUME NEW r \in Router, Task(r) \/ Handler(r) \/ Disturbance(r) PROVE Genuine'
      <3>1. Effect(r)
        BY <2>2, TaskEffect, HelloEffect, HandleDDEffect, HandleLSREffect, HandleLSUEffect,
           DisturbanceEffect DEF Handler
      <3>2. DbEffect(r)
        BY <2>2, StepDbEffect
      <3> QED BY <3>1, <3>2, GenuineKept
    <2> QED BY <2>1, <2>2 DEF Next
  <1> QED BY <1>1, <1>2, BaseAlways, PTL DEF Spec

---------------------------------------------------------------------------
(* Requests are not forgotten.                                             *)

\* A record that is not exchanging asks for nothing.
LEMMA AsksNothing ==
  ASSUME Base, NEW r \in Router, nbr[r].state \notin Exchanging
  PROVE  Requested(nbr[r]) = {}
  BY SettledLists, FreshLists DEF Base, Adjacent

\* A request that goes is satisfied: the database has that instance, or one that
\* is at least as new, of all the instances there are.
LEMMA RequestsKept ==
  ASSUME Base, Genuine, Genuine', "young" \notin FaultKinds, NEW r \in Router, Effect(r),
         NEW s \in Router, nbr'[s].state \in Exchanging,
         NEW h \in Requested(nbr[s]) \ Requested(nbr'[s])
  PROVE  db'[s][h.key] >= h.inst
  <1>1. s = r
    BY TheRouters DEF Effect, Exchanging
  <1>2. ~Quiet(nbr[r], nbr'[r])
    BY <1>1 DEF Quiet, Kept, Adjacent, Exchanging
  <1>3. CASE Prunes(r)
    <2>1. PICK m \in InFlight(r) :
            m.type = "LSU" /\ m.lsa.key = h.key /\ db'[r][h.key] >= m.lsa.inst
      BY <1>1, <1>3 DEF Prunes
    <2>2. h \in Header
      BY DEF Base, TypeOK, NeighborRecord, Requested
    <2>3. m.lsa \in Header
      BY <2>1 DEF Base, TypeOK, InFlight, Message, LSRequest, LSUpdate, DDPacket
    <2> DEFINE k == h.key
    <2>4. HadBy(Peer(r), k, m.lsa.inst)
      BY <2>1, PeerType DEF Genuine, GenuineMessage
    <2>5. HadBy(Peer(r), k, h.inst)
      BY <1>1 DEF Genuine, GenuineRecord
    <2>6. HadBy(r, k, db'[r][k])
      <3>1. GenuineRecord(r)'
        BY DEF Genuine
      <3>2. h.key \in Keys
        BY <2>2 DEF Header
      <3> QED BY <3>1, <3>2 DEF GenuineRecord, HadBy
    <2>7. /\ Own[1][k] \in Nat /\ Own[2][k] \in Nat /\ h.inst \in Nat /\ m.lsa.inst \in Nat
          /\ (r = 1 /\ Peer(r) = 2) \/ (r = 2 /\ Peer(r) = 1)
      BY <2>2, <2>3, OwnAssumption, MaxInstAssumption DEF Header, Database, Router, Peer
    <2>8. db'[r][k] \in Nat /\ db'[r][k] >= m.lsa.inst
      BY <2>1, <2>6, <2>7 DEF HadBy
    <2> HIDE DEF k
    <2>9. db'[r][k] >= h.inst
      BY <2>4, <2>5, <2>6, <2>7, <2>8 DEF HadBy
    <2> QED BY <1>1, <2>9 DEF k
  <1>4. ASSUME NEW m, NEW page, Answers(r, m, page)
        PROVE  Requested(nbr[r]) \subseteq Requested(nbr'[r])
    BY <1>4, AsksNothing DEF Answers, AnsweredPage, Queued
  <1>5. ASSUME NEW m, NEW page, Advances(r, m, page)
        PROVE  Requested(nbr[r]) \subseteq Requested(nbr'[r])
    <2>1. nbr[r].state \in {"ExStart", "Init"} => Requested(nbr[r]) = {}
      BY AsksNothing DEF Exchanging
    <2> QED BY <1>5, <2>1 DEF Advances, PolledPage, Queued
  <1> QED BY <1>1, <1>2, <1>3, <1>4, <1>5 DEF Effect

\* Unless a lifetime ends or a flooded copy is too young to be replaced, a header
\* leaves the request list only when the database has caught up with it, or when
\* the exchange is abandoned, however updates are reordered, lost, repeated or
\* answer another request (lsu.rs:86-90, flooding.rs:44-64).
THEOREM RequestsRemembered ==
  ASSUME "expire" \notin FaultKinds, "young" \notin FaultKinds
  PROVE  Spec => RequestsNotForgotten
  <1>1. Base /\ Base' /\ Genuine /\ Genuine' /\ [Next]_vars =>
          [\A r \in Router : nbr'[r].state \in Exchanging =>
             \A h \in Requested(nbr[r]) \ Requested(nbr'[r]) : db'[r][h.key] >= h.inst]_vars
    <2> SUFFICES ASSUME Base, Base', Genuine, Genuine', [Next]_vars, ~UNCHANGED vars,
                        NEW s \in Router, nbr'[s].state \in Exchanging,
                        NEW h \in Requested(nbr[s]) \ Requested(nbr'[s])
                 PROVE  db'[s][h.key] >= h.inst
      OBVIOUS
    <2>1. PICK r \in Router : Effect(r)
      BY StepEffect
    <2> QED BY <2>1, RequestsKept
  <1> QED BY <1>1, BaseAlways, GenuineAlways, PTL DEF Spec, RequestsNotForgotten

---------------------------------------------------------------------------
(* The exchange as the proofs of Synchronised see it: the packets that are  *)
(* still about, and what a step may do to them and to the two records.      *)
(* Router 2 is the master, router 1 the slave.                              *)

Active == nbr[2].state \in {"ExStart", "Exchange"}

\* The master's packets in flight, the slave's answers in flight or kept, and
\* the sequence numbers in use.
Polls == {m \in InFlight(1) : m.type = "DD" /\ m.ms}
Replies == {m \in InFlight(2) : m.type = "DD" /\ ~m.ms}
           \cup {m \in {nbr[1].rxmt.pkt} : nbr[1].rxmt.kind = "Packet"}
InUse == {m.seq : m \in Polls \cup Replies}
         \cup {x \in {nbr[1].seq} : nbr[1].state = "Exchange"}

\* A packet kept for a duplicate is a slave's answer.
KeepsAnswers == \A r \in Router : nbr[r].rxmt.kind = "Packet" => ~nbr[r].rxmt.pkt.ms

\* The step starts an exchange.  Its number is in the record; if the record took
\* an answer in the same step it has gone one further.
Begins ==
    /\ nbr'[2].state \in Adjacent
    /\ nbr[2].state \notin Adjacent \/ (nbr[2].state # "ExStart" /\ nbr'[2].state = "ExStart")
First == IF nbr'[2].state = "ExStart" THEN nbr'[2].seq ELSE nbr'[2].seq - 1

\* The clock: the number an exchange starts from is beyond every number still in
\* use.  The code takes the time in seconds modulo 2^16 (state.rs:258-261), so this
\* is false of exchanges within as many seconds as they have packets, or on either
\* side of a wrap.
StartsFresh == Begins => \A x \in InUse : x < First

\* A record that settled, or is back in ExStart, keeps no answer.
Rested(n) == n.state \notin Adjacent \/ n.state = "ExStart"

\* Nothing new: packets are handled, lost or sent again.
Still ==
    /\ Shrunk(nbr[2], nbr'[2]) \/ nbr'[2].state \notin Adjacent
    /\ Shrunk(nbr[1], nbr'[1]) \/ Rested(nbr'[1])
    /\ \A m \in Polls' : m \in Polls \/ (Active /\ m = nbr[2].rxmt.pkt)
    /\ Replies' \subseteq Replies

\* The master starts,
Starts ==
    /\ nbr[2].state # "ExStart" /\ nbr'[2].state = "ExStart" /\ Fresh(nbr'[2])
    /\ nbr'[1] = nbr[1] \/ nbr'[1].state = "Down"
    /\ Polls' \subseteq Polls /\ Replies' \subseteq Replies

\* goes on,
GoesOn(m, page) ==
    /\ m \in Replies /\ m \in InFlight(2) /\ Advances(2, m, page)
    /\ nbr'[1] = nbr[1] \/ nbr'[1].state = "Down"
    /\ Polls' \subseteq Polls /\ Replies' \subseteq Replies

\* or is answered.
IsAnswered(m, page) ==
    /\ m \in Polls /\ Answers(1, m, page)
    /\ nbr'[2] = nbr[2] \/ nbr'[2].state = "Down"
    /\ Polls' \subseteq Polls /\ Replies' \subseteq Replies \cup {Reply(m, page)}

\* Which of the two packets a record may resend.
LEMMA ResentPoll ==
  ASSUME Base, KeepsAnswers, NEW m, Resent(2, m), m.type = "DD", m.ms
  PROVE  Active /\ m = nbr[2].rxmt.pkt /\ UNCHANGED nbr
  <1>1. 2 \in Router /\ nbr[2].rxmt.kind \in {"None", "Handle", "Packet"}
    BY DEF Router, Base, TypeOK, NeighborRecord, DdRxmt
  <1>2. m = nbr[2].rxmt.pkt /\ nbr[2].rxmt.kind = "Handle" /\ UNCHANGED nbr
    BY <1>1 DEF Resent, KeepsAnswers
  <1>3. Drives(nbr[2])
    BY <1>1, <1>2 DEF Base, AllGood, Good
  <1> QED BY <1>2, <1>3 DEF Drives, Active

\* The slave's answer is kept as it is.
LEMMA ResentReply ==
  ASSUME Base, NEW m, Resent(1, m), m.type = "DD", ~m.ms
  PROVE  m = nbr[1].rxmt.pkt /\ nbr[1].rxmt.kind = "Packet"
  <1>1. 1 \in Router /\ nbr[1].rxmt.kind \in {"None", "Handle", "Packet"} /\ Peer(1) > 1
    BY DEF Router, Base, TypeOK, NeighborRecord, DdRxmt, Peer
  <1>2. m = nbr[1].rxmt.pkt /\ nbr[1].rxmt.kind # "None"
    BY DEF Resent
  <1>3. ASSUME nbr[1].rxmt.kind = "Handle" PROVE FALSE
    <2>1. Good(nbr[1], TRUE)
      BY <1>1 DEF Base, AllGood
    <2>2. nbr[1].state = "ExStart"
      BY <1>3, <2>1 DEF Good, Drives, Exchanging
    <2>3. nbr[1].rxmt = Handle(Opening(nbr[1].seq))
      BY <1>1, <2>2 DEF Base, AllFresh, Fresh
    <2> QED BY <1>2, <2>3 DEF Handle, Opening, DD
  <1> QED BY <1>1, <1>2, <1>3

\* What a record that is kept, or was reset, keeps to resend.
LEMMA KeptReply ==
  ASSUME Base, Base', NEW s \in Router, nbr'[s].rxmt.kind = "Packet",
         Shrunk(nbr[s], nbr'[s]) \/ Rested(nbr'[s])
  PROVE  nbr'[s].rxmt = nbr[s].rxmt
  <1>1. CASE Shrunk(nbr[s], nbr'[s])
    BY <1>1 DEF Shrunk
  <1>2. CASE nbr'[s].state \notin Adjacent
    BY <1>2 DEF Base, AllGood, Good, Clean, NoRxmt, Peer
  <1>3. CASE nbr'[s].state = "ExStart"
    <2>1. nbr'[s].rxmt = Handle(Opening(nbr'[s].seq))
      BY <1>3 DEF Base, AllFresh, Fresh
    <2> QED BY <2>1 DEF Handle
  <1> QED BY <1>1, <1>2, <1>3 DEF Rested

\* The other record is dropped or stays.
LEMMA Shrunken ==
  ASSUME NEW s \in Router, nbr'[s] = nbr[s] \/ nbr'[s].state = "Down"
  PROVE  Shrunk(nbr[s], nbr'[s]) \/ Rested(nbr'[s])
  BY DEF Shrunk, Rested, Adjacent, Exchanging

\* The answers about, when the slave's record is kept or reset.
LEMMA FewerReplies ==
  ASSUME Base, Base', Shrunk(nbr[1], nbr'[1]) \/ Rested(nbr'[1]),
         \A m \in InFlight(2)' : m \in InFlight(2) \/ Resent(1, m)
  PROVE  Replies' \subseteq Replies
  <1> SUFFICES ASSUME NEW m \in Replies' PROVE m \in Replies
    OBVIOUS
  <1>1. CASE m \in InFlight(2)' /\ m.type = "DD" /\ ~m.ms
    BY <1>1, ResentReply DEF Replies
  <1>2. CASE m = nbr'[1].rxmt.pkt /\ nbr'[1].rxmt.kind = "Packet"
    <2>1. nbr'[1].rxmt = nbr[1].rxmt
      BY <1>2, KeptReply DEF Router
    <2> QED BY <1>2, <2>1 DEF Replies
  <1> QED BY <1>1, <1>2 DEF Replies

\* A step of the master, in these terms,
LEMMA MasterStep ==
  ASSUME Base, Base', KeepsAnswers, Effect(2)
  PROVE  Still \/ Starts \/ \E m \in InFlight(2), page \in SUBSET Header : GoesOn(m, page)
  <1>1. /\ nbr'[1] = nbr[1] \/ nbr'[1].state = "Down"
        /\ InFlight(2)' \subseteq InFlight(2)
        /\ \/ /\ Quiet(nbr[2], nbr'[2]) \/ Prunes(2)
              /\ \A m \in InFlight(1)' : m \in InFlight(1) \/ Resent(2, m)
           \/ \E m \in InFlight(2), page \in SUBSET Header :
                 Advances(2, m, page) /\ InFlight(1)' \subseteq InFlight(1)
    BY DEF Effect, Peer, Answers
  <1>2. Shrunk(nbr[1], nbr'[1]) \/ Rested(nbr'[1])
    BY <1>1, Shrunken DEF Router
  <1>3. Replies' \subseteq Replies
    BY <1>1, <1>2, FewerReplies
  <1>4. ASSUME Quiet(nbr[2], nbr'[2]) \/ Prunes(2),
               \A m \in InFlight(1)' : m \in InFlight(1) \/ Resent(2, m)
        PROVE  Still \/ Starts
    <2>1. \A m \in Polls' : m \in Polls \/ (Active /\ m = nbr[2].rxmt.pkt /\ UNCHANGED nbr)
      BY <1>4, ResentPoll DEF Polls
    <2>2. CASE Shrunk(nbr[2], nbr'[2]) \/ nbr'[2].state \notin Adjacent
      BY <1>2, <1>3, <2>1, <2>2 DEF Still
    <2>3. CASE nbr[2].state # "ExStart" /\ nbr'[2].state = "ExStart" /\ Fresh(nbr'[2])
      <3>1. Polls' \subseteq Polls
        BY <2>1, <2>3
      <3> QED BY <1>1, <1>3, <2>3, <3>1 DEF Starts
    <2> QED BY <1>4, <2>2, <2>3 DEF Quiet, Kept, Prunes
  <1>5. ASSUME NEW m \in InFlight(2), NEW page \in SUBSET Header, Advances(2, m, page),
               InFlight(1)' \subseteq InFlight(1)
        PROVE  GoesOn(m, page)
    <2>1. m \in Replies
      BY <1>5 DEF Advances, Replies
    <2>2. Polls' \subseteq Polls
      BY <1>5 DEF Polls
    <2> QED BY <1>1, <1>3, <1>5, <2>1, <2>2 DEF GoesOn
  <1> QED BY <1>1, <1>4, <1>5

\* and one of the slave.
LEMMA SlaveStep ==
  ASSUME Base, Base', Effect(1)
  PROVE  Still \/ \E m \in Polls, page \in SUBSET Header : IsAnswered(m, page)
  <1>1. /\ nbr'[2] = nbr[2] \/ nbr'[2].state = "Down"
        /\ InFlight(1)' \subseteq InFlight(1)
        /\ \/ /\ Quiet(nbr[1], nbr'[1]) \/ Prunes(1)
              /\ \A m \in InFlight(2)' : m \in InFlight(2) \/ Resent(1, m)
           \/ \E m \in InFlight(1), page \in SUBSET Header :
                 Answers(1, m, page) /\ InFlight(2)' \subseteq InFlight(2) \cup {Reply(m, page)}
    BY DEF Effect, Peer, Advances
  <1>2. Shrunk(nbr[2], nbr'[2]) \/ nbr'[2].state \notin Adjacent
    BY <1>1 DEF Shrunk, Adjacent, Exchanging
  <1>3. Polls' \subseteq Polls
    BY <1>1 DEF Polls
  <1>4. ASSUME Quiet(nbr[1], nbr'[1]) \/ Prunes(1),
               \A m \in InFlight(2)' : m \in InFlight(2) \/ Resent(1, m)
        PROVE  Still
    <2>1. Shrunk(nbr[1], nbr'[1]) \/ Rested(nbr'[1])
      BY <1>4 DEF Quiet, Kept, Prunes, Rested
    <2>2. Replies' \subseteq Replies
      BY <1>4, <2>1, FewerReplies
    <2> QED BY <1>2, <1>3, <2>1, <2>2 DEF Still
  <1>5. ASSUME NEW m \in InFlight(1), NEW page \in SUBSET Header, Answers(1, m, page),
               InFlight(2)' \subseteq InFlight(2) \cup {Reply(m, page)}
        PROVE  m \in Polls /\ IsAnswered(m, page)
    <2>1. m \in Polls
      BY <1>5 DEF Answers, Polls
    <2>2. nbr'[1].rxmt = Packet(Reply(m, page)) \/ nbr'[1].rxmt = NoRxmt
      BY <1>5 DEF Answers, AnsweredPage
    <2>3. nbr'[1].rxmt.kind = "Packet" => nbr'[1].rxmt.pkt = Reply(m, page)
      <3>1. NoRxmt.kind = "None" /\ Packet(Reply(m, page)).pkt = Reply(m, page)
        BY DEF Packet, NoRxmt
      <3> QED BY <2>2, <3>1
    <2>4. Replies' \subseteq Replies \cup {Reply(m, page)}
      BY <1>5, <2>3 DEF Replies
    <2> QED BY <1>1, <1>3, <1>5, <2>1, <2>4 DEF IsAnswered
  <1> QED BY <1>1, <1>4, <1>5

\* Only answers are kept.
LEMMA AnswersKept ==
  ASSUME Base, Base', KeepsAnswers, NEW r \in Router, Effect(r)
  PROVE  KeepsAnswers'
  <1>1. ASSUME NEW s \in Router, Shrunk(nbr[s], nbr'[s]) \/ Rested(nbr'[s]),
               nbr'[s].rxmt.kind = "Packet"
        PROVE  ~nbr'[s].rxmt.pkt.ms
    BY <1>1, KeptReply DEF KeepsAnswers
  <1>2. Shrunk(nbr[Peer(r)], nbr'[Peer(r)]) \/ Rested(nbr'[Peer(r)])
    BY PeerType, Shrunken DEF Effect
  <1>3. ASSUME nbr'[r].rxmt.kind = "Packet" PROVE ~nbr'[r].rxmt.pkt.ms
    <2>1. CASE Quiet(nbr[r], nbr'[r]) \/ Prunes(r)
      <3>1. Shrunk(nbr[r], nbr'[r]) \/ Rested(nbr'[r])
        BY <2>1 DEF Quiet, Kept, Prunes, Rested
      <3> QED BY <1>1, <1>3, <3>1
    <2>2. ASSUME NEW m, NEW page, Answers(r, m, page) PROVE ~nbr'[r].rxmt.pkt.ms
      <3>1. nbr'[r].rxmt = Packet(Reply(m, page))
        BY <1>3, <2>2 DEF Answers, AnsweredPage, NoRxmt
      <3> QED BY <3>1 DEF Packet, Reply, DD
    <2>3. ASSUME NEW m, NEW page, Advances(r, m, page) PROVE FALSE
      <3>1. nbr'[r].rxmt = NoRxmt \/ \E p : nbr'[r].rxmt = Handle(p)
        BY <2>3 DEF Advances, PolledPage
      <3>2. NoRxmt.kind = "None" /\ \A p : Handle(p).kind = "Handle"
        BY DEF Handle, NoRxmt
      <3> QED BY <1>3, <3>1, <3>2
    <2> QED BY <2>1, <2>2, <2>3 DEF Effect
  <1> QED BY <1>1, <1>2, <1>3, TheRouters, PeerType DEF KeepsAnswers

\* Always.
LEMMA AnswersAlways == Spec => []KeepsAnswers
  <1>1. Init => KeepsAnswers
    BY DEF Init, KeepsAnswers, NewNeighbor, NoRxmt
  <1>2. Base /\ Base' /\ KeepsAnswers /\ [Next]_vars => KeepsAnswers'
    <2> SUFFICES ASSUME Base, Base', KeepsAnswers, [Next]_vars PROVE KeepsAnswers'
      OBVIOUS
    <2>1. CASE UNCHANGED vars
      BY <2>1 DEF vars, KeepsAnswers
    <2>2. CASE \E r \in Router : Effect(r)
      BY <2>2, AnswersKept
    <2> QED BY <2>1, <2>2, StepEffect
  <1> QED BY <1>1, <1>2, BaseAlways, PTL DEF Spec

---------------------------------------------------------------------------
(* What the slave hears.  H[x] is the packet the master sent last with      *)
(* number x, s the number its exchange started from; numbers the master has *)
(* not reached hold an opening packet.  Because an exchange starts beyond   *)
(* the numbers in use, a packet in flight is always H of its number, so the *)
(* slave's list of packets is a chain of H, whatever was repeated, delayed  *)
(* or left over from the exchange before.                                   *)

Numbered(H) == H \in [Nat -> DDPacket] /\ \A x \in Nat : H[x].seq = x

\* H opens at a and goes on to z; it lists k on the way.
Chain(H, a, z) == a <= z /\ H[a].init /\ \A x \in (a + 1)..z : ~H[x].init
Listed(H, a, z, k) == \E x \in (a + 1)..z : \E h \in H[x].hdrs : h.key = k

\* r has what its peer started with, or asks for it.
Got(r, k) == db[r][k] >= Own[Peer(r)][k] \/ \E h \in Requested(nbr[r]) : h.key = k

\* The packets about are those of H, and a chain that ends with nothing more to
\* come lists everything the master started with.
Sent(H) == \A m \in Polls : H[m.seq] = m
Current(H, s) ==
    Active =>
        /\ H[nbr[2].seq] = nbr[2].rxmt.pkt
        /\ Chain(H, s, nbr[2].seq)
        /\ \A x \in Nat : x > nbr[2].seq => H[x].init
        /\ \A x \in InUse : x <= nbr[2].seq
        /\ nbr[2].state = "ExStart" => nbr[2].seq = s
Covering(H, s) ==
    nbr[2].state = "Exchange" =>
        /\ s < nbr[2].seq
        /\ \A k \in Keys : Own[2][k] > 0 =>
              Listed(H, s, nbr[2].seq, k) \/ \E h \in nbr[2].summary : h.key = k
Complete(H) ==
    \A a, z \in Nat : Chain(H, a, z) /\ a < z /\ ~H[z].more =>
        \A k \in Keys : Own[2][k] > 0 => Listed(H, a, z, k)
Log(H, s) == Sent(H) /\ Current(H, s) /\ Covering(H, s) /\ Complete(H)

\* The slave has taken such a chain, and got all that it lists.
Heard(H) ==
    nbr[1].state = "Exchange" =>
        \E a \in Nat :
            /\ Chain(H, a, nbr[1].seq)
            /\ \A x \in (a + 1)..nbr[1].seq : \A h \in H[x].hdrs : Got(1, h.key)
CaughtUp(r) == nbr[r].state \in {"Loading", "Full"} => \A k \in Keys : Got(r, k)

\* Types.
LEMMA PacketTypes ==
  ASSUME TypeOK
  PROVE  /\ \A m \in Polls \cup Replies : m \in DDPacket /\ m.seq \in Nat
         /\ \A x \in InUse : x \in Nat
         /\ nbr[1] \in NeighborRecord /\ nbr[2] \in NeighborRecord
         /\ nbr[1].seq \in Nat /\ nbr[2].seq \in Nat
         /\ nbr[1].summary \subseteq Header /\ nbr[2].summary \subseteq Header
  <1>1. /\ nbr[1] \in NeighborRecord /\ nbr[2] \in NeighborRecord
        /\ net[1] \in Seq(Message) /\ net[2] \in Seq(Message)
    BY DEF TypeOK, Router
  <1>2. \A m \in InFlight(1) \cup InFlight(2) : m \in Message
    BY <1>1 DEF InFlight
  <1>3. \A m \in Message : m.type = "DD" => m \in DDPacket
    BY DEF Message, LSRequest, LSUpdate
  <1>4. nbr[1].rxmt.pkt \in DDPacket /\ nbr[1].seq \in Nat /\ nbr[2].seq \in Nat
    BY <1>1 DEF NeighborRecord, DdRxmt
  <1>5. \A m \in Polls \cup Replies : m \in DDPacket
    BY <1>2, <1>3, <1>4 DEF Polls, Replies
  <1>6. \A m \in DDPacket : m.seq \in Nat
    BY DEF DDPacket
  <1>7. nbr[1].summary \subseteq Header /\ nbr[2].summary \subseteq Header
    BY <1>1 DEF NeighborRecord
  <1> QED BY <1>1, <1>4, <1>5, <1>6, <1>7 DEF InUse

\* A chain is told by the packets on it.
LEMMA SameChain ==
  ASSUME NEW G, NEW H, NEW a \in Nat, NEW z \in Nat, \A x \in a..z : G[x] = H[x]
  PROVE  /\ Chain(G, a, z) => Chain(H, a, z)
         /\ \A k : Listed(H, a, z, k) => Listed(G, a, z, k)
  <1>1. \A x \in (a + 1)..z : x \in a..z
    OBVIOUS
  <1>2. a <= z => a \in a..z
    OBVIOUS
  <1> QED BY <1>1, <1>2 DEF Chain, Listed

\* Two chains to one number start at the same one.
LEMMA OneChain ==
  ASSUME NEW H, NEW a \in Nat, NEW b \in Nat, NEW y \in Nat, NEW z \in Nat,
         Chain(H, a, y), Chain(H, b, z), a <= z, b <= y
  PROVE  a = b
  <1>1. ~(a + 1 <= b)
    BY DEF Chain
  <1>2. ~(b + 1 <= a)
    BY DEF Chain
  <1> QED BY <1>1, <1>2

\* The numbers in use after a step in which nothing new happens,
LEMMA StillInUse ==
  ASSUME Base, Still, NEW H, NEW s, Numbered(H), Log(H, s), NEW x \in InUse'
  PROVE  x \in InUse \/ (Active /\ x = nbr[2].seq)
  <1>1. CASE \E m \in Polls' : x = m.seq
    <2>1. PICK m \in Polls' : x = m.seq
      BY <1>1
    <2>2. CASE m \in Polls
      BY <2>1, <2>2 DEF InUse
    <2>3. CASE Active /\ m = nbr[2].rxmt.pkt
      <3>1. m = H[nbr[2].seq] /\ nbr[2].seq \in Nat
        BY <2>3, PacketTypes DEF Log, Current, Base
      <3> QED BY <2>1, <2>3, <3>1 DEF Numbered
    <2> QED BY <2>2, <2>3 DEF Still
  <1>2. CASE \E m \in Replies' : x = m.seq
    BY <1>2 DEF Still, InUse
  <1>3. CASE nbr'[1].state = "Exchange" /\ x = nbr'[1].seq
    BY <1>3 DEF Still, Rested, Shrunk, InUse, Adjacent, Exchanging
  <1> QED BY <1>1, <1>2, <1>3 DEF InUse

\* in which the master moves,
LEMMA MovedInUse ==
  ASSUME nbr'[1] = nbr[1] \/ nbr'[1].state = "Down", Polls' \subseteq Polls, Replies' \subseteq Replies,
         NEW x \in InUse'
  PROVE  x \in InUse
  BY DEF InUse

\* and in which the slave does.
LEMMA AnsweredInUse ==
  ASSUME NEW m, NEW page, IsAnswered(m, page), NEW x \in InUse'
  PROVE  x \in InUse
  <1>1. Reply(m, page).seq = m.seq
    BY DEF Reply, DD
  <1>2. nbr'[1].state = "Exchange" => nbr'[1].seq = m.seq
    BY DEF IsAnswered, Answers, AnsweredPage
  <1> QED BY <1>1, <1>2 DEF InUse, IsAnswered

\* The log stands as long as the master neither starts nor goes on.
LEMMA LogSame ==
  ASSUME Base, NEW H, NEW s \in Nat, Numbered(H), Log(H, s),
         Shrunk(nbr[2], nbr'[2]) \/ nbr'[2].state \notin Adjacent,
         \A m \in Polls' : m \in Polls \/ (Active /\ m = nbr[2].rxmt.pkt),
         \A x \in InUse' : x \in InUse \/ (Active /\ x = nbr[2].seq)
  PROVE  Log(H, s)'
  <1>1. ASSUME NEW m \in Polls' PROVE H[m.seq] = m
    <2>1. CASE m \in Polls
      BY <2>1 DEF Log, Sent
    <2>2. CASE Active /\ m = nbr[2].rxmt.pkt
      <3>1. H[nbr[2].seq] = m /\ nbr[2].seq \in Nat
        BY <2>2, PacketTypes DEF Base, Log, Current
      <3> QED BY <3>1 DEF Numbered
    <2> QED BY <2>1, <2>2
  <1>2. ASSUME nbr'[2].state \in {"ExStart", "Exchange"}
        PROVE  /\ Active /\ nbr'[2].state = nbr[2].state /\ nbr'[2].seq = nbr[2].seq
               /\ nbr'[2].rxmt = nbr[2].rxmt /\ nbr'[2].summary = nbr[2].summary
    BY <1>2 DEF Shrunk, Active, Adjacent, Exchanging
  <1>3. Current(H, s)'
    <2> SUFFICES ASSUME nbr'[2].state \in {"ExStart", "Exchange"}
                 PROVE  /\ H[nbr'[2].seq] = nbr'[2].rxmt.pkt
                        /\ Chain(H, s, nbr'[2].seq)
                        /\ \A x \in Nat : x > nbr'[2].seq => H[x].init
                        /\ \A x \in InUse' : x <= nbr'[2].seq
                        /\ nbr'[2].state = "ExStart" => nbr'[2].seq = s
      BY DEF Current, Active
    <2>1. nbr[2].seq \in Nat
      BY PacketTypes DEF Base
    <2> QED BY <1>2, <2>1 DEF Log, Current
  <1>4. Covering(H, s)'
    <2> SUFFICES ASSUME nbr'[2].state = "Exchange"
                 PROVE  /\ s < nbr'[2].seq
                        /\ \A k \in Keys : Own[2][k] > 0 =>
                              Listed(H, s, nbr'[2].seq, k) \/ \E h \in nbr'[2].summary : h.key = k
      BY DEF Covering
    <2> QED BY <1>2 DEF Log, Covering
  <1>5. Complete(H)'
    BY DEF Log, Complete
  <1> QED BY <1>1, <1>3, <1>4, <1>5 DEF Log, Sent

\* A new exchange opens beyond what is in use.
LEMMA LogStarts ==
  ASSUME Base, TypeOK', NEW H, NEW s \in Nat, Numbered(H), Log(H, s), Starts, StartsFresh
  PROVE  \E G : \E z \in Nat :
            /\ Numbered(G) /\ Log(G, z)'
            /\ z = nbr'[2].seq /\ \A x \in Nat : x < z => G[x] = H[x]
  <1>1. PICK z \in Nat : z = nbr'[2].seq
    BY DEF TypeOK, Router, NeighborRecord
  <1>0. PICK G : G = [x \in Nat |-> IF x >= z THEN Opening(x) ELSE H[x]]
    OBVIOUS
  <1>2. /\ nbr'[2].state = "ExStart" /\ nbr'[2].rxmt = Handle(Opening(z))
    BY <1>1 DEF Starts, Fresh
  <1>3. \A x \in InUse : x < z
    BY <1>1, <1>2 DEF StartsFresh, Begins, First, Starts, Adjacent
  <1>4. \A x \in InUse' : x < z
    BY <1>3, MovedInUse DEF Starts
  <1>5. \A x \in Nat : Opening(x) \in DDPacket /\ Opening(x).seq = x /\ Opening(x).init
    BY DDType DEF Opening, DD
  <1>6. \A x \in Nat : x < z => G[x] = H[x]
    BY <1>0
  <1>7. \A x \in Nat : x >= z => G[x] = Opening(x)
    BY <1>0
  <1>8. Numbered(G)
    BY <1>0, <1>5 DEF Numbered
  <1>9. Sent(G)'
    <2> SUFFICES ASSUME NEW m \in Polls' PROVE G[m.seq] = m
      BY DEF Sent
    <2>1. m \in Polls /\ m.seq \in InUse /\ m.seq \in Nat
      BY PacketTypes DEF Base, Starts, InUse
    <2> QED BY <1>3, <1>6, <2>1 DEF Log, Sent
  <1>10. Current(G, z)'
    <2>1. nbr'[2].rxmt.pkt = Opening(z)
      BY <1>2 DEF Handle
    <2>2. Chain(G, z, z)
      BY <1>1, <1>5, <1>7 DEF Chain
    <2>3. \A x \in Nat : x > z => G[x].init
      BY <1>1, <1>5, <1>7
    <2>4. \A x \in InUse' : x <= z
      <3> SUFFICES ASSUME NEW x \in InUse' PROVE x <= z
        OBVIOUS
      <3>1. x \in InUse /\ x \in Nat
        BY MovedInUse, PacketTypes DEF Starts, Base
      <3> QED BY <1>1, <1>3, <3>1
    <2>5. G[z] = Opening(z) /\ nbr'[2].seq = z
      BY <1>1, <1>7
    <2> QED BY <2>1, <2>2, <2>3, <2>4, <2>5 DEF Current
  <1>11. Covering(G, z)'
    BY <1>2 DEF Covering
  <1>12. Complete(G)'
    <2> SUFFICES ASSUME NEW a \in Nat, NEW y \in Nat, Chain(G, a, y), a < y, ~G[y].more,
                        NEW k \in Keys, Own[2][k] > 0
                 PROVE  Listed(G, a, y, k)
      BY DEF Complete
    <2>1. ~G[y].init
      BY DEF Chain
    <2>2. y < z
      BY <1>1, <1>5, <1>7, <2>1
    <2>3. \A x \in a..y : x \in Nat /\ x < z
      BY <1>1, <2>2
    <2>4. \A x \in a..y : G[x] = H[x]
      BY <1>6, <2>3
    <2>5. Chain(H, a, y) /\ ~H[y].more
      BY <2>4, SameChain
    <2>6. Listed(H, a, y, k)
      BY <2>5 DEF Log, Complete
    <2> QED BY <2>4, <2>6, SameChain
  <1>13. Log(G, z)'
    BY <1>9, <1>10, <1>11, <1>12 DEF Log
  <1> QED BY <1>1, <1>6, <1>8, <1>13

\* The headers the master has yet to list.
ToList == IF nbr[2].state = "ExStart" THEN AllLsa(2) ELSE nbr[2].summary

\* The master takes the answer to its own packet: an answer left over does not
\* open an exchange, because its number is in use.
LEMMA TakesAnswer ==
  ASSUME Base, StartsFresh, NEW m, NEW page, GoesOn(m, page)
  PROVE  /\ Active /\ nbr[2].seq = m.seq
         /\ page \in Pages(2, ToList, MasterPage)
         /\ Requested(nbr'[2]) = Requested(nbr[2]) \cup {h \in m.hdrs : NeedUpdate(2, h)}
         /\ \/ /\ nbr'[2].state = "Exchange" /\ nbr'[2].seq = nbr[2].seq + 1
               /\ nbr'[2].summary = ToList \ page
               /\ nbr'[2].rxmt = Handle(Poll(nbr'[2].seq, page, nbr'[2].summary))
            \/ /\ nbr'[2].state \in {"Loading", "Full"} /\ ~m.more
  <1>1. PICK n \in NeighborRecord :
          /\ n.seq = m.seq
          /\ \/ /\ nbr[2].state \in {"ExStart", "Init"}
                /\ nbr[2].state = "ExStart" => m.seq = nbr[2].seq
                /\ n.summary = AllLsa(2) /\ Requested(n) = {}
             \/ /\ nbr[2].state = "Exchange" /\ m.seq = nbr[2].seq
                /\ n.summary = nbr[2].summary /\ Requested(n) = Requested(nbr[2])
          /\ PolledPage(2, m, n, nbr'[2], page)
    BY DEF GoesOn, Advances
  <1>2. /\ page \in Pages(2, n.summary, MasterPage) /\ nbr'[2].seq = n.seq + 1
        /\ Requested(nbr'[2]) = Requested(n) \cup {h \in m.hdrs : NeedUpdate(2, h)}
        /\ \/ /\ nbr'[2].state = "Exchange" /\ nbr'[2].summary = n.summary \ page
              /\ nbr'[2].rxmt = Handle(Poll(nbr'[2].seq, page, nbr'[2].summary))
           \/ nbr'[2].state \in {"Loading", "Full"} /\ ~m.more
    BY <1>1 DEF PolledPage, Queued
  <1>3. nbr[2].state # "Init"
    <2> SUFFICES ASSUME nbr[2].state = "Init" PROVE FALSE
      OBVIOUS
    <2>1. Begins
      BY <1>2 DEF Begins, Adjacent, Exchanging
    <2>2. First = nbr'[2].seq - 1
      BY <1>2 DEF First
    <2>3. m.seq \in Nat /\ m.seq \in InUse
      BY PacketTypes DEF Base, GoesOn, InUse
    <2>4. m.seq < First
      BY <2>1, <2>3 DEF StartsFresh
    <2> QED BY <1>1, <1>2, <2>2, <2>3, <2>4
  <1>4. nbr[2].state = "ExStart" => Requested(nbr[2]) = {}
    BY AsksNothing DEF Router, Exchanging
  <1>5. CASE nbr[2].state = "ExStart"
    BY <1>1, <1>2, <1>4, <1>5 DEF Active, ToList
  <1>6. CASE nbr[2].state = "Exchange"
    BY <1>1, <1>2, <1>6 DEF Active, ToList
  <1> QED BY <1>1, <1>3, <1>5, <1>6

\* The log when the master has finished,
LEMMA LogFinished ==
  ASSUME NEW H, NEW s, Log(H, s), Polls' \subseteq Polls,
         nbr'[2].state \in {"Loading", "Full"}
  PROVE  Log(H, s)'
  <1>1. Sent(H)'
    BY DEF Log, Sent
  <1>2. Current(H, s)' /\ Covering(H, s)'
    BY DEF Current, Covering, Active
  <1>3. Complete(H)'
    BY DEF Log, Complete
  <1> QED BY <1>1, <1>2, <1>3 DEF Log

\* and when it goes on.
LEMMA LogGoesOn ==
  ASSUME Base, Genuine, NEW H, NEW s \in Nat, Numbered(H), Log(H, s), StartsFresh,
         NEW m, NEW page \in SUBSET Header, GoesOn(m, page), nbr'[2].state = "Exchange"
  PROVE  \E G : /\ Numbered(G) /\ Log(G, s)'
                /\ \A x \in Nat : x <= nbr[2].seq => G[x] = H[x]
  <1>1. /\ Active /\ nbr'[2].seq = nbr[2].seq + 1 /\ nbr'[2].summary = ToList \ page
        /\ nbr'[2].rxmt = Handle(Poll(nbr'[2].seq, page, nbr'[2].summary))
    BY TakesAnswer
  <1>2. PICK y \in Nat : y = nbr[2].seq
    BY PacketTypes DEF Base
  <1>3. PICK z \in Nat : z = y + 1
    OBVIOUS
  <1>4. PICK left \in SUBSET Header : left = nbr'[2].summary
    <2>1. ToList \in SUBSET Header
      BY PacketTypes DEF ToList, AllLsa, Base
    <2> QED BY <1>1, <2>1
  <1>5. PICK p : p = Poll(z, page, left)
    OBVIOUS
  <1>6. PICK G : G = [H EXCEPT ![z] = p]
    OBVIOUS
  <1>7. /\ p \in DDPacket /\ p.seq = z /\ ~p.init /\ (~p.more => left = {}) /\ p.hdrs = page
    BY <1>5, DDType DEF Poll, DD
  <1>8. H \in [Nat -> DDPacket] /\ \A x \in Nat : H[x].seq = x
    BY DEF Numbered
  <1>9. G[z] = p /\ \A x \in Nat : x # z => G[x] = H[x]
    BY <1>6, <1>8
  <1>10. Numbered(G)
    BY <1>6, <1>7, <1>8 DEF Numbered
  <1>11. nbr'[2].seq = z /\ nbr'[2].rxmt.pkt = p /\ nbr'[2].state = "Exchange"
    BY <1>1, <1>2, <1>3, <1>4, <1>5 DEF Handle
  <1>12. /\ Chain(H, s, y) /\ (\A x \in Nat : x > y => H[x].init)
         /\ (\A x \in InUse : x <= y) /\ (nbr[2].state = "ExStart" => y = s) /\ s <= y
    BY <1>1, <1>2 DEF Log, Current, Chain
  <1>13. \A x \in InUse' : x \in Nat /\ x <= y
    BY <1>12, MovedInUse, PacketTypes DEF GoesOn, Base
  <1>14. Sent(G)'
    <2> SUFFICES ASSUME NEW q \in Polls' PROVE G[q.seq] = q
      BY DEF Sent
    <2>1. q \in Polls /\ q.seq \in InUse' /\ q.seq \in Nat
      BY PacketTypes DEF Base, GoesOn, InUse
    <2> QED BY <1>3, <1>9, <1>13, <2>1 DEF Log, Sent
  <1>15. Chain(G, s, z)
    BY <1>3, <1>7, <1>9, <1>12 DEF Chain
  <1>16. \A k \in Keys : Own[2][k] > 0 => Listed(G, s, z, k) \/ \E h \in left : h.key = k
    <2> SUFFICES ASSUME NEW k \in Keys, Own[2][k] > 0
                 PROVE  Listed(G, s, z, k) \/ \E h \in left : h.key = k
      OBVIOUS
    <2>1. Listed(H, s, y, k) => Listed(G, s, z, k)
      BY <1>3, <1>9 DEF Listed
    <2>2. (\E h \in page : h.key = k) => Listed(G, s, z, k)
      BY <1>3, <1>7, <1>9, <1>12 DEF Listed
    <2>3. (\E h \in ToList : h.key = k) => Listed(G, s, z, k) \/ \E h \in left : h.key = k
      BY <1>1, <1>4, <2>2
    <2>4. CASE nbr[2].state = "ExStart"
      <3> DEFINE h == [key |-> k, inst |-> db[2][k]]
      <3>1. db[2][k] \in 0..MaxInst /\ db[2][k] >= Own[2][k] /\ Own[2][k] \in Nat
        BY OwnAssumption, MaxInstAssumption
           DEF Genuine, GenuineRecord, HadBy, Router, Base, TypeOK, Database
      <3>2. h \in AllLsa(2)
        BY <3>1, MaxInstAssumption DEF AllLsa, Header
      <3> QED BY <2>3, <2>4, <3>2 DEF ToList
    <2>5. CASE nbr[2].state = "Exchange"
      <3>1. Listed(H, s, y, k) \/ \E h \in nbr[2].summary : h.key = k
        BY <1>2, <2>5 DEF Log, Covering
      <3> QED BY <2>1, <2>3, <2>5, <3>1 DEF ToList
    <2> QED BY <1>1, <2>4, <2>5 DEF Active
  <1>17. Current(G, s)'
    <2>1. \A x \in Nat : x > z => G[x].init
      BY <1>3, <1>9, <1>12
    <2>2. \A x \in InUse' : x <= z
      BY <1>3, <1>13
    <2> QED BY <1>9, <1>11, <1>15, <2>1, <2>2 DEF Current
  <1>18. Covering(G, s)'
    BY <1>3, <1>4, <1>11, <1>12, <1>16 DEF Covering
  <1>19. Complete(G)'
    <2> SUFFICES ASSUME NEW a \in Nat, NEW e \in Nat, Chain(G, a, e), a < e, ~G[e].more,
                        NEW k \in Keys, Own[2][k] > 0
                 PROVE  Listed(G, a, e, k)
      BY DEF Complete
    <2>1. ~G[e].init
      BY DEF Chain
    <2>2. e <= z
      BY <1>3, <1>9, <1>12, <2>1
    <2>3. CASE e < z
      <3>1. \A x \in a..e : x \in Nat /\ x # z
        BY <2>3
      <3>2. \A x \in a..e : G[x] = H[x]
        BY <1>9, <3>1
      <3>3. Chain(H, a, e) /\ ~H[e].more
        BY <1>9, <2>3, <3>2, SameChain
      <3>4. Listed(H, a, e, k)
        BY <3>3 DEF Log, Complete
      <3> QED BY <3>2, <3>4, SameChain
    <2>4. CASE e = z
      <3>1. a = s
        BY <1>3, <1>12, <1>15, <2>4, OneChain
      <3>2. left = {}
        BY <1>7, <1>9, <2>4
      <3> QED BY <1>16, <2>4, <3>1, <3>2
    <2> QED BY <2>2, <2>3, <2>4
  <1>20. Log(G, s)'
    BY <1>14, <1>17, <1>18, <1>19 DEF Log
  <1>21. \A x \in Nat : x <= nbr[2].seq => G[x] = H[x]
    BY <1>2, <1>3, <1>9
  <1> QED BY <1>10, <1>20, <1>21

\* A database grows unless its router restarts.
LEMMA DatabaseGrows ==
  ASSUME TypeOK, NEW r \in Router, DbEffect(r), NEW s \in Router,
         ~Restart(s) \/ nbr'[s].state # "Down",
         NEW k \in Keys
  PROVE  db'[s][k] >= db[s][k] /\ db'[s][k] \in Nat /\ db[s][k] \in Nat
  <1>1. db[s] \in [Keys -> 0..MaxInst] /\ db[s][k] \in Nat
    BY MaxInstAssumption DEF TypeOK, Database
  <1>2. CASE db'[s] = db[s]
    BY <1>1, <1>2
  <1>3. CASE s = r /\ Learns(r)
    <2>1. PICK m \in InFlight(r) :
            /\ m.lsa \in Header /\ NeedUpdate(r, m.lsa)
            /\ db'[r] = [db[r] EXCEPT ![m.lsa.key] = m.lsa.inst]
      BY <1>3 DEF Learns
    <2>2. m.lsa.inst \in Nat
      BY <2>1, MaxInstAssumption DEF Header
    <2>3. CASE m.lsa.key = k
      BY <1>1, <1>3, <2>1, <2>2, <2>3 DEF NeedUpdate
    <2>4. CASE m.lsa.key # k
      BY <1>1, <1>3, <2>1, <2>4
    <2> QED BY <2>3, <2>4
  <1> QED BY <1>2, <1>3, TheRouters DEF DbEffect

\* What a router got it keeps while it exchanges: a request that goes leaves the
\* database caught up.
LEMMA GotKept ==
  ASSUME Base, Base', Genuine, Genuine', "young" \notin FaultKinds, NEW r \in Router,
         Effect(r), DbEffect(r), NEW s \in Router, NEW k \in Keys, Got(s, k),
         \/ nbr'[s].state \in Exchanging
         \/ Requested(nbr[s]) = {} /\ (~Restart(s) \/ nbr'[s].state # "Down")
  PROVE  Got(s, k)'
  <1>1. db'[s][k] >= db[s][k] /\ db'[s][k] \in Nat /\ db[s][k] \in Nat
    BY DatabaseGrows DEF Base, Exchanging
  <1>2. Own[Peer(s)][k] \in Nat
    BY PeerType, OwnAssumption, MaxInstAssumption DEF Database
  <1>3. CASE db[s][k] >= Own[Peer(s)][k]
    <2>1. db'[s][k] >= Own[Peer(s)][k]
      BY <1>1, <1>2, <1>3
    <2> QED BY <2>1 DEF Got, Peer
  <1>4. CASE \E h \in Requested(nbr[s]) : h.key = k
    <2>1. PICK h \in Requested(nbr[s]) : h.key = k
      BY <1>4
    <2>2. CASE h \in Requested(nbr'[s])
      BY <2>1, <2>2 DEF Got, Requested
    <2>3. CASE h \notin Requested(nbr'[s])
      <3>1. db'[s][k] >= h.inst
        BY <1>4, <2>1, <2>3, RequestsKept
      <3>2. HadBy(Peer(s), h.key, h.inst)
        BY DEF Genuine, GenuineRecord
      <3>3. h \in Header
        BY DEF Base, TypeOK, NeighborRecord, Requested
      <3>4. h.inst >= Own[Peer(s)][k] /\ h.inst \in Nat
        BY <2>1, <3>2, <3>3, MaxInstAssumption DEF HadBy, Header
      <3>5. db'[s][k] >= Own[Peer(s)][k]
        BY <1>1, <1>2, <3>1, <3>4
      <3> QED BY <3>5 DEF Got, Peer
    <2> QED BY <2>2, <2>3
  <1> QED BY <1>3, <1>4 DEF Got

\* A header that is taken from the peer is in the database or on the list.
LEMMA HeaderGot ==
  ASSUME Base, Genuine, NEW s \in Router, NEW h \in Header,
         HadBy(Peer(s), h.key, h.inst),
         NeedUpdate(s, h) => h \in Requested(nbr'[s]),
         db'[s][h.key] >= db[s][h.key], db'[s][h.key] \in Nat
  PROVE  Got(s, h.key)'
  <1>1. /\ h.inst \in Nat /\ db[s][h.key] \in Nat /\ Own[Peer(s)][h.key] \in Nat
        /\ h.inst >= Own[Peer(s)][h.key]
    BY PeerType, OwnAssumption, MaxInstAssumption
       DEF Header, Base, TypeOK, Database, HadBy
  <1>2. CASE NeedUpdate(s, h)
    BY <1>2 DEF Got, Requested
  <1>3. CASE ~NeedUpdate(s, h)
    <2>1. db'[s][h.key] >= Own[Peer(s)][h.key]
      BY <1>1, <1>3 DEF NeedUpdate
    <2> QED BY <2>1 DEF Got, Peer
  <1> QED BY <1>2, <1>3

\* The slave hears nothing new.
LEMMA HeardSame ==
  ASSUME Base, Base', Genuine, Genuine', "young" \notin FaultKinds, NEW r \in Router,
         Effect(r), DbEffect(r), Shrunk(nbr[1], nbr'[1]) \/ Rested(nbr'[1]),
         NEW G, NEW H, Numbered(H), Heard(H), CaughtUp(1),
         nbr[1].state = "Exchange" => \A x \in Nat : x <= nbr[1].seq => G[x] = H[x]
  PROVE  Heard(G)' /\ CaughtUp(1)'
  <1>1. \A k \in Keys : nbr'[1].state \in Exchanging /\ Got(1, k) => Got(1, k)'
    BY GotKept DEF Router
  <1>2. ASSUME nbr'[1].state \in Exchanging
        PROVE  /\ nbr'[1].seq = nbr[1].seq
               /\ nbr'[1].state = nbr[1].state \/ (nbr[1].state = "Loading" /\ nbr'[1].state = "Full")
    BY <1>2 DEF Shrunk, Rested, Adjacent, Exchanging
  <1>3. CaughtUp(1)'
    <2> SUFFICES ASSUME nbr'[1].state \in {"Loading", "Full"}, NEW k \in Keys
                 PROVE  Got(1, k)'
      BY DEF CaughtUp
    <2>1. nbr[1].state \in {"Loading", "Full"}
      BY <1>2 DEF Exchanging
    <2> QED BY <1>1, <2>1 DEF CaughtUp, Exchanging
  <1>4. Heard(G)'
    <2> SUFFICES ASSUME nbr'[1].state = "Exchange"
                 PROVE  \E a \in Nat :
                          /\ Chain(G, a, nbr'[1].seq)
                          /\ \A x \in (a + 1)..nbr'[1].seq : \A h \in G[x].hdrs : Got(1, h.key)'
      BY DEF Heard
    <2>1. nbr[1].state = "Exchange" /\ nbr'[1].seq = nbr[1].seq
      BY <1>2 DEF Exchanging
    <2>2. PICK y \in Nat : y = nbr[1].seq
      BY PacketTypes DEF Base
    <2>3. PICK a \in Nat :
            Chain(H, a, y) /\ \A x \in (a + 1)..y : \A h \in H[x].hdrs : Got(1, h.key)
      BY <2>1, <2>2 DEF Heard
    <2>4. \A x \in a..y : G[x] = H[x]
      BY <2>1, <2>2
    <2>5. Chain(G, a, y)
      BY <2>3, <2>4, SameChain
    <2>6. ASSUME NEW x \in (a + 1)..y, NEW h \in G[x].hdrs PROVE Got(1, h.key)'
      <3>1. G[x] = H[x]
        BY <2>4
      <3>2. Got(1, h.key)
        BY <2>3, <2>6, <3>1
      <3>3. h.key \in Keys
        BY <2>6, <3>1 DEF Numbered, DDPacket, Header
      <3> QED BY <1>1, <2>1, <3>2, <3>3 DEF Exchanging
    <2> QED BY <2>1, <2>2, <2>5, <2>6
  <1> QED BY <1>3, <1>4

\* The slave's record when it answers.
LEMMA AnswersPoll ==
  ASSUME Base, NEW H, NEW s, Numbered(H), Log(H, s), NEW m, NEW page, IsAnswered(m, page)
  PROVE  /\ m \in DDPacket /\ m.seq \in Nat /\ H[m.seq] = m /\ m \in InFlight(1)
         /\ \/ /\ m.init /\ m.more /\ m.hdrs = {} /\ nbr[1].state \notin Exchanging
            \/ /\ ~m.init /\ nbr[1].state = "Exchange" /\ m.seq = nbr[1].seq + 1
         /\ Requested(nbr'[1]) = Requested(nbr[1]) \cup {h \in m.hdrs : NeedUpdate(1, h)}
         /\ IF m.more THEN nbr'[1].state = "Exchange" /\ nbr'[1].seq = m.seq
                      ELSE nbr'[1].state \in {"Loading", "Full"}
  <1>1. m \in Polls /\ Answers(1, m, page)
    BY DEF IsAnswered
  <1>2. m \in DDPacket /\ m.seq \in Nat /\ H[m.seq] = m /\ m \in InFlight(1)
    BY <1>1, PacketTypes DEF Base, Log, Sent, Polls
  <1>3. PICK n \in NeighborRecord :
          /\ \/ /\ nbr[1].state \notin Exchanging
                /\ m.init /\ m.more /\ m.hdrs = {}
                /\ n.summary = AllLsa(1) /\ Requested(n) = {}
             \/ /\ nbr[1].state = "Exchange"
                /\ ~m.init /\ m.seq = nbr[1].seq + 1
                /\ n.summary = nbr[1].summary /\ Requested(n) = Requested(nbr[1])
          /\ AnsweredPage(1, m, n, nbr'[1], page)
    BY <1>1 DEF Answers
  <1>4. nbr[1].state \notin Exchanging => Requested(nbr[1]) = {}
    BY AsksNothing DEF Router
  <1>5. Requested(n) = Requested(nbr[1])
    BY <1>3, <1>4
  <1>6. /\ Requested(nbr'[1]) = Requested(n) \cup {h \in m.hdrs : NeedUpdate(1, h)}
        /\ IF m.more THEN nbr'[1].state = "Exchange" /\ nbr'[1].seq = m.seq
                     ELSE nbr'[1].state \in {"Loading", "Full"}
    BY <1>3 DEF AnsweredPage, Queued
  <1> QED BY <1>2, <1>3, <1>5, <1>6

\* It hears the next packet of the chain, or opens a new one.
LEMMA HeardAnswered ==
  ASSUME Base, Base', Genuine, Genuine', "young" \notin FaultKinds,
         Effect(1), DbEffect(1), NEW H, NEW s, Numbered(H), Log(H, s), Heard(H),
         NEW m, NEW page, IsAnswered(m, page)
  PROVE  Heard(H)' /\ CaughtUp(1)'
  <1>1. /\ m \in DDPacket /\ m.seq \in Nat /\ H[m.seq] = m /\ m \in InFlight(1)
        /\ \/ /\ m.init /\ m.more /\ m.hdrs = {} /\ nbr[1].state \notin Exchanging
           \/ /\ ~m.init /\ nbr[1].state = "Exchange" /\ m.seq = nbr[1].seq + 1
        /\ Requested(nbr'[1]) = Requested(nbr[1]) \cup {h \in m.hdrs : NeedUpdate(1, h)}
        /\ IF m.more THEN nbr'[1].state = "Exchange" /\ nbr'[1].seq = m.seq
                     ELSE nbr'[1].state \in {"Loading", "Full"}
    BY AnswersPoll
  <1>2. PICK z \in Nat : z = m.seq
    BY <1>1
  <1>3. nbr'[1].state \in Exchanging
    BY <1>1 DEF Exchanging
  <1>4. \A k \in Keys : Got(1, k) => Got(1, k)'
    BY <1>3, GotKept DEF Router
  <1>5. ASSUME NEW h \in m.hdrs PROVE Got(1, h.key)' /\ h.key \in Keys
    <2>1. h \in Header
      BY <1>1 DEF DDPacket
    <2>2. HadBy(Peer(1), h.key, h.inst)
      BY <1>1 DEF Genuine, GenuineMessage, Router, Peer, IsAnswered, Answers
    <2>3. NeedUpdate(1, h) => h \in Requested(nbr'[1])
      BY <1>1
    <2>4. db'[1][h.key] >= db[1][h.key] /\ db'[1][h.key] \in Nat
      BY <1>3, <2>1, DatabaseGrows DEF Base, Router, Header, Exchanging
    <2>5. Got(1, h.key)'
      BY <2>1, <2>2, <2>3, <2>4, HeaderGot DEF Router
    <2> QED BY <2>1, <2>5 DEF Header
  <1>6. \E a \in Nat : /\ Chain(H, a, z) /\ (m.init => a = z)
                       /\ ~m.init => a < z
                       /\ \A x \in (a + 1)..z : \A h \in H[x].hdrs : Got(1, h.key)'
    <2>1. CASE m.init
      <3>1. Chain(H, z, z)
        BY <1>1, <1>2, <2>1 DEF Chain
      <3> QED BY <2>1, <3>1
    <2>2. CASE ~m.init
      <3>1. PICK y \in Nat : y = nbr[1].seq /\ z = y + 1
        BY <1>1, <1>2, <2>2, PacketTypes DEF Base
      <3>2. PICK a \in Nat :
              Chain(H, a, y) /\ \A x \in (a + 1)..y : \A h \in H[x].hdrs : Got(1, h.key)
        BY <1>1, <2>2, <3>1 DEF Heard
      <3>3. Chain(H, a, z) /\ a < z
        BY <1>1, <1>2, <2>2, <3>1, <3>2 DEF Chain
      <3>4. ASSUME NEW x \in (a + 1)..z, NEW h \in H[x].hdrs PROVE Got(1, h.key)'
        <4>1. CASE x = z
          BY <1>1, <1>2, <1>5, <3>4, <4>1
        <4>2. CASE x # z
          <5>1. x \in (a + 1)..y /\ x \in Nat
            BY <3>1, <4>2
          <5>2. Got(1, h.key)
            BY <3>2, <3>4, <5>1
          <5>3. h.key \in Keys
            BY <3>4, <5>1 DEF Numbered, DDPacket, Header
          <5> QED BY <1>4, <5>2, <5>3
        <4> QED BY <4>1, <4>2
      <3> QED BY <2>2, <3>3, <3>4
    <2> QED BY <2>1, <2>2
  <1>7. Heard(H)'
    BY <1>1, <1>2, <1>6 DEF Heard
  <1>8. CaughtUp(1)'
    <2> SUFFICES ASSUME nbr'[1].state \in {"Loading", "Full"}, NEW k \in Keys
                 PROVE  Got(1, k)'
      BY DEF CaughtUp
    <2>1. ~m.more /\ ~m.init
      BY <1>1
    <2>2. PICK a \in Nat : /\ Chain(H, a, z) /\ a < z
                           /\ \A x \in (a + 1)..z : \A h \in H[x].hdrs : Got(1, h.key)'
      BY <1>6, <2>1
    <2>3. Own[2][k] \in Nat /\ db'[1][k] \in Nat
      BY OwnAssumption, MaxInstAssumption DEF Base, TypeOK, Router, Database
    <2>4. CASE Own[2][k] > 0
      <3>1. Listed(H, a, z, k)
        BY <1>1, <1>2, <2>1, <2>2, <2>4 DEF Log, Complete
      <3> QED BY <2>2, <3>1 DEF Listed
    <2>5. CASE Own[2][k] = 0
      <3>1. db'[1][k] >= Own[Peer(1)][k]
        BY <2>3, <2>5 DEF Peer
      <3> QED BY <3>1 DEF Got, Peer
    <2> QED BY <2>3, <2>4, <2>5
  <1> QED BY <1>7, <1>8

\* All of it, for a log and a start, and what a step makes of them.
Hears(H, s) == Numbered(H) /\ Log(H, s) /\ Heard(H) /\ CaughtUp(1)
StartAfter(s, t) == IF Starts THEN t = nbr'[2].seq ELSE t = s

\* Nothing new, a new exchange, the next packet, or the next answer.
LEMMA HearsStill ==
  ASSUME Base, Base', Genuine, Genuine', "young" \notin FaultKinds, NEW r \in Router,
         Effect(r), DbEffect(r), Still, NEW H, NEW s \in Nat, Hears(H, s)
  PROVE  Numbered(H) /\ Log(H, s)' /\ Heard(H)' /\ CaughtUp(1)' /\ ~Starts
  <1>1. Numbered(H) /\ Log(H, s) /\ Heard(H) /\ CaughtUp(1)
    BY DEF Hears
  <1>2. \A x \in InUse' : x \in InUse \/ (Active /\ x = nbr[2].seq)
    BY <1>1, StillInUse
  <1>3. Log(H, s)'
    BY <1>1, <1>2, LogSame DEF Still
  <1>4. Heard(H)' /\ CaughtUp(1)'
    BY <1>1, HeardSame DEF Still
  <1>5. ~Starts
    BY DEF Still, Starts, Shrunk, Adjacent
  <1> QED BY <1>1, <1>3, <1>4, <1>5

LEMMA HearsStarts ==
  ASSUME Base, Base', Genuine, Genuine', "young" \notin FaultKinds, NEW r \in Router,
         Effect(r), DbEffect(r), Starts, StartsFresh, NEW H, NEW s \in Nat, Hears(H, s)
  PROVE  \E G : \E t \in Nat :
            /\ Numbered(G) /\ Log(G, t)' /\ Heard(G)' /\ CaughtUp(1)'
            /\ t = nbr'[2].seq
  <1>1. Numbered(H) /\ Log(H, s) /\ Heard(H) /\ CaughtUp(1)
    BY DEF Hears
  <1>2. PICK G : \E t \in Nat : /\ Numbered(G) /\ Log(G, t)'
                                /\ t = nbr'[2].seq /\ \A x \in Nat : x < t => G[x] = H[x]
    BY <1>1, LogStarts DEF Base
  <1>3. PICK t \in Nat : /\ Numbered(G) /\ Log(G, t)'
                         /\ t = nbr'[2].seq /\ \A x \in Nat : x < t => G[x] = H[x]
    BY <1>2
  <1>4. nbr[1].state = "Exchange" => \A x \in Nat : x <= nbr[1].seq => G[x] = H[x]
    <2> SUFFICES ASSUME nbr[1].state = "Exchange", NEW x \in Nat, x <= nbr[1].seq
                 PROVE  G[x] = H[x]
      OBVIOUS
    <2>1. nbr[1].seq \in InUse /\ nbr[1].seq \in Nat
      BY PacketTypes DEF Base, InUse
    <2>2. Begins /\ First = t
      BY <1>3 DEF Starts, Begins, First, Adjacent
    <2>3. nbr[1].seq < t
      BY <2>1, <2>2 DEF StartsFresh
    <2> QED BY <1>3, <2>1, <2>3
  <1>5. Shrunk(nbr[1], nbr'[1]) \/ Rested(nbr'[1])
    BY Shrunken DEF Starts, Router
  <1>6. Heard(G)' /\ CaughtUp(1)'
    BY <1>1, <1>4, <1>5, HeardSame
  <1> QED BY <1>3, <1>6

LEMMA HearsMore ==
  ASSUME Base, Base', Genuine, Genuine', "young" \notin FaultKinds, NEW r \in Router,
         Effect(r), DbEffect(r), StartsFresh, NEW H, NEW s \in Nat, Hears(H, s),
         NEW m, NEW page \in SUBSET Header, GoesOn(m, page)
  PROVE  ~Starts /\ \E G : Numbered(G) /\ Log(G, s)' /\ Heard(G)' /\ CaughtUp(1)'
  <1>1. Numbered(H) /\ Log(H, s) /\ Heard(H) /\ CaughtUp(1)
    BY DEF Hears
  <1>2. Active /\ nbr'[2].state \in {"Exchange", "Loading", "Full"}
    BY TakesAnswer
  <1>3. \E G : /\ Numbered(G) /\ Log(G, s)'
               /\ \A x \in Nat : x <= nbr[2].seq => G[x] = H[x]
    <2>1. CASE nbr'[2].state = "Exchange"
      BY <1>1, <2>1, LogGoesOn
    <2>2. CASE nbr'[2].state \in {"Loading", "Full"}
      <3>1. Log(H, s)'
        BY <1>1, <2>2, LogFinished DEF GoesOn
      <3> QED BY <1>1, <3>1
    <2> QED BY <1>2, <2>1, <2>2
  <1>4. PICK G : /\ Numbered(G) /\ Log(G, s)'
                 /\ \A x \in Nat : x <= nbr[2].seq => G[x] = H[x]
    BY <1>3
  <1>5. nbr[1].state = "Exchange" => \A x \in Nat : x <= nbr[1].seq => G[x] = H[x]
    <2> SUFFICES ASSUME nbr[1].state = "Exchange", NEW x \in Nat, x <= nbr[1].seq
                 PROVE  G[x] = H[x]
      OBVIOUS
    <2>1. nbr[1].seq \in InUse /\ nbr[1].seq \in Nat /\ nbr[2].seq \in Nat
      BY PacketTypes DEF Base, InUse
    <2>2. nbr[1].seq <= nbr[2].seq
      BY <1>1, <1>2, <2>1 DEF Log, Current
    <2> QED BY <1>4, <2>1, <2>2
  <1>6. Shrunk(nbr[1], nbr'[1]) \/ Rested(nbr'[1])
    BY Shrunken DEF GoesOn, Router
  <1>7. Heard(G)' /\ CaughtUp(1)'
    BY <1>1, <1>5, <1>6, HeardSame
  <1>8. ~Starts
    BY <1>2 DEF Starts
  <1> QED BY <1>4, <1>7, <1>8

LEMMA HearsAnswered ==
  ASSUME Base, Base', Genuine, Genuine', "young" \notin FaultKinds,
         Effect(1), DbEffect(1), NEW H, NEW s \in Nat, Hears(H, s),
         NEW m, NEW page, IsAnswered(m, page)
  PROVE  Numbered(H) /\ Log(H, s)' /\ Heard(H)' /\ CaughtUp(1)' /\ ~Starts
  <1>1. Numbered(H) /\ Log(H, s) /\ Heard(H) /\ CaughtUp(1)
    BY DEF Hears
  <1>2. Shrunk(nbr[2], nbr'[2]) \/ nbr'[2].state \notin Adjacent
    BY DEF IsAnswered, Shrunk, Adjacent, Exchanging
  <1>3. \A x \in InUse' : x \in InUse
    BY AnsweredInUse
  <1>4. Log(H, s)'
    BY <1>1, <1>2, <1>3, LogSame DEF IsAnswered
  <1>5. Heard(H)' /\ CaughtUp(1)'
    BY <1>1, HeardAnswered
  <1>6. ~Starts
    BY DEF IsAnswered, Starts
  <1> QED BY <1>1, <1>4, <1>5, <1>6

\* Every step hands over to a log and a start.
LEMMA HearsKept ==
  ASSUME Base, Base', Genuine, Genuine', KeepsAnswers, "young" \notin FaultKinds,
         NEW r \in Router, Effect(r), DbEffect(r), StartsFresh,
         NEW H, NEW s \in Nat, Hears(H, s)
  PROVE  \E G : \E t \in Nat : Hears(G, t)' /\ StartAfter(s, t)
  <1>1. CASE Still
    BY <1>1, HearsStill DEF Hears, StartAfter
  <1>2. CASE Starts
    <2>1. PICK G : \E t \in Nat :
            /\ Numbered(G) /\ Log(G, t)' /\ Heard(G)' /\ CaughtUp(1)' /\ t = nbr'[2].seq
      BY <1>2, HearsStarts
    <2> QED BY <1>2, <2>1 DEF Hears, StartAfter
  <1>3. ASSUME NEW m, NEW page \in SUBSET Header, GoesOn(m, page)
        PROVE  \E G : \E t \in Nat : Hears(G, t)' /\ StartAfter(s, t)
    <2>1. ~Starts /\ \E G : Numbered(G) /\ Log(G, s)' /\ Heard(G)' /\ CaughtUp(1)'
      BY <1>3, HearsMore
    <2> QED BY <2>1 DEF Hears, StartAfter
  <1>4. ASSUME r = 1, NEW m, NEW page, IsAnswered(m, page)
        PROVE  \E G : \E t \in Nat : Hears(G, t)' /\ StartAfter(s, t)
    <2>1. Effect(1) /\ DbEffect(1)
      BY <1>4
    <2>2. Numbered(H) /\ Log(H, s)' /\ Heard(H)' /\ CaughtUp(1)' /\ ~Starts
      BY <1>4, <2>1, HearsAnswered
    <2> QED BY <2>2 DEF Hears, StartAfter
  <1>5. CASE r = 1
    <2>1. Effect(1)
      BY <1>5
    <2> QED BY <1>1, <1>4, <1>5, <2>1, SlaveStep
  <1>6. CASE r = 2
    <2>1. Effect(2)
      BY <1>6
    <2> QED BY <1>1, <1>2, <1>3, <2>1, MasterStep
  <1> QED BY <1>5, <1>6 DEF Router

\* The slave that finished the exchange misses nothing the master started with,
\* through packets lost, repeated and overtaking each other, and though either
\* router restarts (dd.rs:89-137).
THEOREM SlaveCatchesUp ==
  ASSUME "expire" \notin FaultKinds, "young" \notin FaultKinds
  PROVE  Spec /\ [][StartsFresh]_vars => []CaughtUp(1)
  <1> DEFINE I == \E H : \E s \in Nat : Hears(H, s)
  <1>1. Init => I
    <2> SUFFICES ASSUME Init PROVE I
      OBVIOUS
    <2>1. PICK H : H = [x \in Nat |-> Opening(x)]
      OBVIOUS
    <2>2. \A x \in Nat : Opening(x) \in DDPacket /\ Opening(x).seq = x /\ Opening(x).init
      BY DDType DEF Opening, DD
    <2>3. Numbered(H) /\ \A x \in Nat : H[x].init
      BY <2>1, <2>2 DEF Numbered
    <2>4. nbr[1] = NewNeighbor /\ nbr[2] = NewNeighbor /\ net[1] = <<>>
      BY DEF Init, Router
    <2>5. nbr[1].state = "Down" /\ nbr[2].state = "Down" /\ Polls = {}
      BY <2>4 DEF NewNeighbor, Polls, InFlight
    <2>6. Complete(H)
      BY <2>3 DEF Complete, Chain
    <2>7. Log(H, 0) /\ Heard(H) /\ CaughtUp(1)
      BY <2>5, <2>6 DEF Log, Sent, Current, Active, Covering, Heard, CaughtUp
    <2> QED BY <2>3, <2>7 DEF Hears
  <1>2. /\ Base /\ Base' /\ Genuine /\ Genuine' /\ KeepsAnswers
        /\ I /\ [Next]_vars /\ [StartsFresh]_vars
        => I'
    <2> SUFFICES ASSUME Base, Base', Genuine, Genuine', KeepsAnswers, I, [Next]_vars, [StartsFresh]_vars
                 PROVE  I'
      OBVIOUS
    <2>1. PICK H : \E s \in Nat : Hears(H, s)
      OBVIOUS
    <2>2. PICK s \in Nat : Hears(H, s)
      BY <2>1
    <2>3. CASE UNCHANGED vars
      <3>1. Hears(H, s)'
        BY <2>2, <2>3 DEF vars, Hears, Log, Sent, Current, Covering, Complete, Heard, CaughtUp,
           Polls, InUse, Replies, Active, Got, Requested, InFlight
      <3> QED BY <3>1
    <2>4. ASSUME NEW r \in Router, Task(r) \/ Handler(r) \/ Disturbance(r), StartsFresh PROVE I'
      <3>1. Effect(r)
        BY <2>4, TaskEffect, HelloEffect, HandleDDEffect, HandleLSREffect, HandleLSUEffect,
           DisturbanceEffect DEF Handler
      <3>2. DbEffect(r)
        BY <2>4, StepDbEffect
      <3> QED BY <2>2, <2>4, <3>1, <3>2, HearsKept
    <2> QED BY <2>3, <2>4 DEF Next
  <1>3. I => CaughtUp(1)
    BY DEF Hears
  <1> QED BY <1>1, <1>2, <1>3, BaseAlways, GenuineAlways, AnswersAlways, PTL DEF Spec

---------------------------------------------------------------------------
(* What the master hears.  An answer left over from an earlier exchange may *)
(* come first and stand for one of this exchange, so the master does not    *)
(* hear one list of pages.  But every answer of the slave numbered x is a   *)
(* page of its list that begins no later than Quota(x - s), because the     *)
(* slave takes at most SlavePage headers off a list for each packet: what   *)
(* the master still misses is further down, where the slave has yet to go.  *)

Quota(d) == SlavePage * d
Missing(k) == Own[1][k] > 0 /\ ~Got(2, k)
Names(S, k) == \E h \in S : h.key = k

\* Where the slave's database lists k, and how much of a list is before h.
Rank(k) == Cardinality({j \in Keys : db[1][j] > 0 /\ HashOrder[1][j] < HashOrder[1][k]})
Ahead(S, h) == Cardinality({g \in S : Before(1, g, h)})

\* The slave is in the exchange that started from s; it still has to send k, after
\* d pages or more.
InSession(s) == Active /\ nbr[1].state = "Exchange" /\ nbr[1].seq >= s
Waits(S, k, d) == \E h \in S : h.key = k /\ Ahead(S, h) >= Quota(d)

Unheard(s) ==
    Active => \A k \in Keys : Missing(k) => Rank(k) >= Quota(nbr[2].seq - s)
Replied(s) ==
    Active => \A m \in Replies : m.seq = nbr[2].seq =>
        \A k \in Keys : Missing(k) /\ ~Names(m.hdrs, k) =>
            m.more /\ Rank(k) >= Quota(nbr[2].seq + 1 - s)
Spent(s) ==
    InSession(s) => \A h \in nbr[1].summary :
        Rank(h.key) >= Quota(nbr[1].seq + 1 - s) + Ahead(nbr[1].summary, h)
Awaited(s) ==
    InSession(s) /\ nbr[1].seq < nbr[2].seq => \A k \in Keys : Missing(k) =>
        Waits(nbr[1].summary, k, nbr[2].seq - (nbr[1].seq + 1))
AwaitedAfter(s) ==
    InSession(s) => \A m \in Replies : m.seq = nbr[2].seq =>
        \A k \in Keys : Missing(k) /\ ~Names(m.hdrs, k) =>
            Waits(nbr[1].summary, k, nbr[2].seq - nbr[1].seq)
Told(s) == Unheard(s) /\ Replied(s) /\ Spent(s) /\ Awaited(s) /\ AwaitedAfter(s)

\* Pages add up.
LEMMA QuotaSteps ==
  ASSUME NEW d \in Nat
  PROVE  /\ SlavePage \in Nat /\ Quota(d) \in Nat /\ Quota(0) = 0
         /\ Quota(d + 1) = Quota(d) + SlavePage /\ Quota(d + 1) \in Nat
         /\ Quota(d + 1) >= SlavePage
  <1>1. SlavePage \in Nat
    BY PageAssumption
  <1>2. SlavePage * d \in Nat /\ SlavePage * (d + 1) = SlavePage * d + SlavePage /\ SlavePage * 0 = 0
    BY <1>1
  <1> QED BY <1>1, <1>2 DEF Quota

\* A rank and what is ahead are numbers.
LEMMA CountTypes ==
  /\ \A k : Rank(k) \in Nat
  /\ \A S \in SUBSET Header : \A h : Ahead(S, h) \in Nat
  <1>1. ASSUME NEW k PROVE Rank(k) \in Nat
    <2>1. IsFiniteSet({j \in Keys : db[1][j] > 0 /\ HashOrder[1][j] < HashOrder[1][k]})
      BY KeysAssumption, FS_Subset
    <2> QED BY <2>1, FS_CardinalityType DEF Rank
  <1>2. ASSUME NEW S \in SUBSET Header, NEW h PROVE Ahead(S, h) \in Nat
    <2>1. {g \in S : Before(1, g, h)} \subseteq Header
      OBVIOUS
    <2>2. IsFiniteSet({g \in S : Before(1, g, h)})
      BY <2>1, HeaderFinite, FS_Subset
    <2> QED BY <2>2, FS_CardinalityType DEF Ahead
  <1> QED BY <1>1, <1>2

\* A page takes its number of headers off the front: the ones it leaves have all
\* of it ahead of them.
LEMMA PageCount ==
  ASSUME NEW S \in SUBSET Header, NEW page \in Pages(1, S, SlavePage), NEW h \in S
  PROVE  /\ h \in page => Ahead(S, h) < SlavePage
         /\ h \notin page => Ahead(S, h) = SlavePage + Ahead(S \ page, h)
  <1> DEFINE T == {g \in S : Before(1, g, h)}
             U == {g \in S \ page : Before(1, g, h)}
  <1>1. /\ page \subseteq S
        /\ Cardinality(page) = IF Cardinality(S) < SlavePage THEN Cardinality(S) ELSE SlavePage
        /\ \A g \in page, q \in S \ page : Before(1, g, q)
    BY DEF Pages
  <1>2. IsFiniteSet(S) /\ IsFiniteSet(page) /\ IsFiniteSet(T) /\ IsFiniteSet(U)
    BY <1>1, HeaderFinite, FS_Subset
  <1>3. /\ Cardinality(S) \in Nat /\ Cardinality(page) \in Nat /\ Cardinality(T) \in Nat
        /\ Cardinality(U) \in Nat /\ SlavePage \in Nat
    BY <1>2, FS_CardinalityType, PageAssumption
  <1>4. \A g \in S : HashOrder[1][g.key] \in Nat
    BY HashOrderAssumption DEF Header, Router
  <1>5. ASSUME h \in page PROVE Cardinality(T) < SlavePage
    <2>1. T \subseteq page /\ h \notin T
      BY <1>1, <1>4, <1>5 DEF Before
    <2>2. T # page
      BY <1>5, <2>1
    <2>3. Cardinality(T) < Cardinality(page)
      BY <1>2, <1>3, <2>1, <2>2, FS_Subset
    <2> QED BY <1>1, <1>3, <2>3
  <1>6. ASSUME h \notin page PROVE Cardinality(T) = SlavePage + Cardinality(U)
    <2>1. page # S
      BY <1>6
    <2>2. Cardinality(page) < Cardinality(S)
      BY <1>1, <1>2, <1>3, <2>1, FS_Subset
    <2>3. Cardinality(page) = SlavePage
      BY <1>1, <1>3, <2>2
    <2>4. T = page \cup U /\ page \cap U = {}
      BY <1>1, <1>6
    <2>5. Cardinality(T) = Cardinality(page) + Cardinality(U) - Cardinality(page \cap U)
      BY <1>2, <2>4, FS_Union
    <2>6. Cardinality(page \cap U) = 0
      BY <2>4, FS_EmptySet
    <2> QED BY <1>3, <2>3, <2>5, <2>6
  <1> QED BY <1>5, <1>6 DEF Ahead

\* A list made of the whole database ranks like the database.
LEMMA RankAll ==
  ASSUME TypeOK, NEW h \in AllLsa(1)
  PROVE  Rank(h.key) = Ahead(AllLsa(1), h)
  <1> DEFINE K == {j \in Keys : db[1][j] > 0 /\ HashOrder[1][j] < HashOrder[1][h.key]}
             T == {g \in AllLsa(1) : Before(1, g, h)}
             f == [j \in K |-> [key |-> j, inst |-> db[1][j]]]
  <1>1. \A j \in Keys : db[1][j] \in 0..MaxInst
    BY DEF TypeOK, Database, Router
  <1>2. ASSUME NEW j \in K PROVE f[j] \in T
    <2>1. f[j] = [key |-> j, inst |-> db[1][j]] /\ j \in Keys /\ db[1][j] > 0
      OBVIOUS
    <2>2. f[j] \in Header /\ f[j].key = j /\ f[j].inst = db[1][j]
      BY <1>1, <2>1, MaxInstAssumption DEF Header
    <2> HIDE DEF f
    <2> QED BY <2>2 DEF AllLsa, Before
  <1>3. ASSUME NEW g \in T PROVE g.key \in K /\ f[g.key] = g
    <2>1. g \in Header /\ db[1][g.key] = g.inst
      BY DEF AllLsa
    <2>2. g.key \in Keys /\ g.inst \in 1..MaxInst /\ g = [key |-> g.key, inst |-> g.inst]
      BY <2>1 DEF Header
    <2>3. g.key \in K
      BY <2>1, <2>2, MaxInstAssumption DEF Before
    <2> QED BY <2>1, <2>2, <2>3
  <1>4. \A i, j \in K : f[i] = f[j] => i = j
    OBVIOUS
  <1>5. f \in [K -> T]
    BY <1>2
  <1>6. f \in Bijection(K, T)
    <2> HIDE DEF K, T, f
    <2>1. f \in Injection(K, T)
      BY <1>4, <1>5 DEF Injection, IsInjective
    <2>2. f \in Surjection(K, T)
      BY <1>3, <1>5 DEF Surjection
    <2> QED BY <2>1, <2>2 DEF Bijection
  <1>7. IsFiniteSet(K)
    BY KeysAssumption, FS_Subset
  <1>8. Cardinality(K) = Cardinality(T)
    <2> HIDE DEF K, T, f
    <2>1. ExistsBijection(K, T)
      BY <1>6 DEF ExistsBijection
    <2> QED BY <1>7, <2>1, FS_Bijection
  <1> QED BY <1>8 DEF Rank, Ahead

\* Ranks grow with the database.
LEMMA RankGrows ==
  ASSUME \A j \in Keys : db'[1][j] >= db[1][j] /\ db'[1][j] \in Nat /\ db[1][j] \in Nat, NEW k
  PROVE  Rank(k)' >= Rank(k) /\ Rank(k)' \in Nat /\ Rank(k) \in Nat
  <1> DEFINE K == {j \in Keys : db[1][j] > 0 /\ HashOrder[1][j] < HashOrder[1][k]}
             L == {j \in Keys : db'[1][j] > 0 /\ HashOrder[1][j] < HashOrder[1][k]}
  <1>1. K \subseteq L
    OBVIOUS
  <1>2. IsFiniteSet(L)
    BY KeysAssumption, FS_Subset
  <1>3. IsFiniteSet(K)
    BY KeysAssumption, FS_Subset
  <1> HIDE DEF K, L
  <1>4. Cardinality(K) <= Cardinality(L) /\ Cardinality(K) \in Nat /\ Cardinality(L) \in Nat
    BY <1>1, <1>2, <1>3, FS_Subset, FS_CardinalityType
  <1> QED BY <1>4 DEF Rank, K, L

\* What is missing after a step was missing before it.
LEMMA MissingKept ==
  ASSUME Base, Base', Genuine, Genuine', "young" \notin FaultKinds,
         NEW r \in Router, Effect(r), DbEffect(r), Active, Active',
         ~(nbr[2].state = "Exchange" /\ nbr'[2].state = "ExStart"),
         NEW k \in Keys, Missing(k)'
  PROVE  Missing(k)
  <1>1. nbr'[2].state \in Exchanging \/ (Requested(nbr[2]) = {} /\ nbr'[2].state # "Down")
    BY AsksNothing DEF Active, Exchanging, Router
  <1>2. Got(2, k) => Got(2, k)'
    BY <1>1, GotKept DEF Router
  <1> QED BY <1>2 DEF Missing

\* Ranks grow as long as the slave does not restart.
LEMMA RankKept ==
  ASSUME TypeOK, ~Restart(1), NEW r \in Router, DbEffect(r), NEW k
  PROVE  Rank(k)' >= Rank(k) /\ Rank(k)' \in Nat /\ Rank(k) \in Nat
  <1>1. \A j \in Keys : db'[1][j] >= db[1][j] /\ db'[1][j] \in Nat /\ db[1][j] \in Nat
    BY DatabaseGrows DEF Router
  <1> QED BY <1>1, RankGrows

\* The numbers of the exchange.
LEMMA ExchangeNumbers ==
  ASSUME Base, NEW H, NEW s \in Nat, Log(H, s), Active
  PROVE  /\ nbr[2].seq \in Nat /\ s <= nbr[2].seq /\ nbr[2].seq - s \in Nat
         /\ nbr[2].seq + 1 - s \in Nat /\ nbr[2].seq + 1 - s = (nbr[2].seq - s) + 1
         /\ \A x \in InUse : x \in Nat /\ x <= nbr[2].seq
  <1>1. nbr[2].seq \in Nat /\ s <= nbr[2].seq /\ \A x \in InUse : x \in Nat /\ x <= nbr[2].seq
    BY PacketTypes DEF Base, Log, Current, Chain
  <1> QED BY <1>1

\* Nothing new is told.
LEMMA ToldStill ==
  ASSUME Base, Base', Genuine, Genuine', "young" \notin FaultKinds, ~Restart(1),
         NEW r \in Router, Effect(r), DbEffect(r), Still, NEW H, NEW s \in Nat, Hears(H, s), Told(s)
  PROVE  Told(s)'
  <1>1. ASSUME nbr'[2].state \in {"ExStart", "Exchange"}
        PROVE  Active /\ nbr'[2].state = nbr[2].state /\ nbr'[2].seq = nbr[2].seq
    BY <1>1 DEF Still, Shrunk, Active, Adjacent, Exchanging
  <1>2. ASSUME nbr'[1].state = "Exchange"
        PROVE  /\ nbr[1].state = "Exchange" /\ nbr'[1].seq = nbr[1].seq
               /\ nbr'[1].summary = nbr[1].summary
    BY <1>2 DEF Still, Shrunk, Rested, Adjacent, Exchanging
  <1>3. ASSUME nbr'[2].state \in {"ExStart", "Exchange"}, NEW k \in Keys, Missing(k)'
        PROVE  Missing(k)
    <2>1. Active'
      BY <1>3 DEF Active
    <2> QED BY <1>1, <1>3, <2>1, MissingKept
  <1>4. \A k : Rank(k)' >= Rank(k) /\ Rank(k)' \in Nat /\ Rank(k) \in Nat
    BY RankKept DEF Base
  <1>5. Active => /\ nbr[2].seq \in Nat /\ nbr[2].seq - s \in Nat /\ nbr[2].seq + 1 - s \in Nat
    BY ExchangeNumbers DEF Hears
  <1>6. \A d \in Nat : Quota(d) \in Nat
    BY QuotaSteps
  <1>7. Unheard(s)'
    <2> SUFFICES ASSUME nbr'[2].state \in {"ExStart", "Exchange"}, NEW k \in Keys, Missing(k)'
                 PROVE  Rank(k)' >= Quota(nbr'[2].seq - s)
      BY DEF Unheard, Active
    <2>1. Active /\ Missing(k) /\ nbr'[2].seq = nbr[2].seq
      BY <1>1, <1>3
    <2>2. Rank(k) >= Quota(nbr[2].seq - s) /\ Quota(nbr[2].seq - s) \in Nat
      BY <1>5, <1>6, <2>1 DEF Told, Unheard
    <2> QED BY <1>4, <2>1, <2>2
  <1>8. Replied(s)'
    <2> SUFFICES ASSUME nbr'[2].state \in {"ExStart", "Exchange"}, NEW m \in Replies',
                        m.seq = nbr'[2].seq, NEW k \in Keys, Missing(k)', ~Names(m.hdrs, k)
                 PROVE  m.more /\ Rank(k)' >= Quota(nbr'[2].seq + 1 - s)
      BY DEF Replied, Active
    <2>1. Active /\ Missing(k) /\ nbr'[2].seq = nbr[2].seq /\ m \in Replies
      BY <1>1, <1>3 DEF Still
    <2>2. /\ m.more /\ Rank(k) >= Quota(nbr[2].seq + 1 - s)
          /\ Quota(nbr[2].seq + 1 - s) \in Nat
      BY <1>5, <1>6, <2>1 DEF Told, Replied
    <2> QED BY <1>4, <2>1, <2>2
  <1>9. ASSUME InSession(s)' PROVE InSession(s) /\ Active'
    BY <1>1, <1>2, <1>9 DEF InSession, Active
  <1>10. Spent(s)'
    <2> SUFFICES ASSUME InSession(s)', NEW h \in nbr'[1].summary
                 PROVE  Rank(h.key)' >= Quota(nbr'[1].seq + 1 - s) + Ahead(nbr'[1].summary, h)
      BY DEF Spent
    <2>1. /\ InSession(s) /\ nbr'[1].seq = nbr[1].seq /\ nbr'[1].summary = nbr[1].summary
          /\ nbr[1].seq >= s
      BY <1>2, <1>9 DEF InSession
    <2>2. Rank(h.key) >= Quota(nbr[1].seq + 1 - s) + Ahead(nbr[1].summary, h)
      BY <2>1 DEF Told, Spent
    <2>3. nbr[1].seq + 1 - s \in Nat
      BY <2>1, PacketTypes DEF Base
    <2>4. Quota(nbr[1].seq + 1 - s) \in Nat /\ Ahead(nbr[1].summary, h) \in Nat
      BY <1>6, <2>3, CountTypes, PacketTypes DEF Base
    <2> QED BY <1>4, <2>1, <2>2, <2>4
  <1>11. Awaited(s)'
    <2> SUFFICES ASSUME InSession(s)', nbr'[1].seq < nbr'[2].seq, NEW k \in Keys, Missing(k)'
                 PROVE  Waits(nbr'[1].summary, k, nbr'[2].seq - (nbr'[1].seq + 1))
      BY DEF Awaited
    <2>1. /\ InSession(s) /\ nbr'[1].seq = nbr[1].seq /\ nbr'[1].summary = nbr[1].summary
          /\ nbr'[2].seq = nbr[2].seq /\ Missing(k)
      BY <1>1, <1>2, <1>3, <1>9 DEF InSession, Active
    <2> QED BY <2>1 DEF Told, Awaited
  <1>12. AwaitedAfter(s)'
    <2> SUFFICES ASSUME InSession(s)', NEW m \in Replies', m.seq = nbr'[2].seq,
                        NEW k \in Keys, Missing(k)', ~Names(m.hdrs, k)
                 PROVE  Waits(nbr'[1].summary, k, nbr'[2].seq - nbr'[1].seq)
      BY DEF AwaitedAfter
    <2>1. /\ InSession(s) /\ nbr'[1].seq = nbr[1].seq /\ nbr'[1].summary = nbr[1].summary
          /\ nbr'[2].seq = nbr[2].seq /\ Missing(k) /\ m \in Replies
      BY <1>1, <1>2, <1>3, <1>9 DEF InSession, Active, Still
    <2> QED BY <2>1 DEF Told, AwaitedAfter
  <1> QED BY <1>7, <1>8, <1>10, <1>11, <1>12 DEF Told

\* A new exchange: no answer has its number, and the slave is not in it.
LEMMA ToldStarts ==
  ASSUME Base, Base', Starts, StartsFresh, NEW t \in Nat, t = nbr'[2].seq
  PROVE  Told(t)'
  <1>1. \A x \in InUse' : x \in Nat /\ x < t
    <2>1. Begins /\ First = t
      BY DEF Starts, Begins, First, Adjacent
    <2> QED BY <2>1, MovedInUse, PacketTypes DEF Starts, StartsFresh, Base
  <1>2. Unheard(t)'
    <2>1. nbr'[2].seq - t = 0
      OBVIOUS
    <2>2. \A k : Rank(k)' \in Nat
      <3>1. \A k : IsFiniteSet({j \in Keys : db'[1][j] > 0 /\ HashOrder[1][j] < HashOrder[1][k]})
        BY KeysAssumption, FS_Subset
      <3> QED BY <3>1, FS_CardinalityType DEF Rank
    <2>3. Quota(0) = 0
      BY QuotaSteps
    <2> QED BY <2>1, <2>2, <2>3 DEF Unheard
  <1>3. \A m \in Replies' : m.seq # t
    BY <1>1 DEF InUse
  <1>4. ~InSession(t)'
    BY <1>1 DEF InSession, InUse
  <1>5. Replied(t)' /\ AwaitedAfter(t)'
    BY <1>3 DEF Replied, AwaitedAfter
  <1>6. Spent(t)' /\ Awaited(t)'
    BY <1>4 DEF Spent, Awaited
  <1> QED BY <1>2, <1>5, <1>6 DEF Told

\* The master takes an answer: what it then misses was not in it, so the answer
\* promised more and what is missing is a page further down.
LEMMA MissingMore ==
  ASSUME Base, Base', Genuine, Genuine', "young" \notin FaultKinds,
         Effect(2), DbEffect(2), StartsFresh,
         NEW m, NEW page, GoesOn(m, page), NEW k \in Keys, Missing(k)'
  PROVE  Missing(k) /\ ~Names(m.hdrs, k)
  <1>1. /\ Active /\ nbr'[2].state \in Exchanging
        /\ Requested(nbr'[2]) = Requested(nbr[2]) \cup {h \in m.hdrs : NeedUpdate(2, h)}
    BY TakesAnswer DEF Exchanging
  <1>2. Missing(k)
    <2>1. Got(2, k) => Got(2, k)'
      BY <1>1, GotKept DEF Router
    <2> QED BY <2>1 DEF Missing
  <1>3. ASSUME Names(m.hdrs, k) PROVE FALSE
    <2>1. PICK h \in m.hdrs : h.key = k
      BY <1>3 DEF Names
    <2>2. m \in DDPacket /\ m \in InFlight(2) /\ m.type = "DD"
      BY PacketTypes DEF GoesOn, Base, Advances
    <2>3. h \in Header
      BY <2>2 DEF DDPacket
    <2>4. HadBy(Peer(2), h.key, h.inst)
      BY <2>2 DEF Genuine, GenuineMessage, Router, Peer
    <2>5. NeedUpdate(2, h) => h \in Requested(nbr'[2])
      BY <1>1
    <2>6. db'[2][h.key] >= db[2][h.key] /\ db'[2][h.key] \in Nat
      BY <1>1, <2>1, DatabaseGrows DEF Base, Router, Exchanging
    <2>7. Got(2, h.key)'
      BY <2>3, <2>4, <2>5, <2>6, HeaderGot DEF Router
    <2> QED BY <2>1, <2>7 DEF Missing
  <1> QED BY <1>2, <1>3

LEMMA ToldMore ==
  ASSUME Base, Base', Genuine, Genuine', "young" \notin FaultKinds, ~Restart(1),
         Effect(2), DbEffect(2), StartsFresh, NEW H, NEW s \in Nat, Hears(H, s), Told(s),
         NEW m, NEW page, GoesOn(m, page)
  PROVE  Told(s)' /\ CaughtUp(2)'
  <1>1. /\ Active /\ nbr[2].seq = m.seq
        /\ \/ nbr'[2].state = "Exchange" /\ nbr'[2].seq = nbr[2].seq + 1
           \/ nbr'[2].state \in {"Loading", "Full"} /\ ~m.more
    BY TakesAnswer
  <1>2. m \in Replies /\ Replies' \subseteq Replies /\ (nbr'[1] = nbr[1] \/ nbr'[1].state = "Down")
    BY DEF GoesOn
  <1>3. /\ nbr[2].seq \in Nat /\ nbr[2].seq - s \in Nat
        /\ nbr[2].seq + 1 - s \in Nat /\ \A x \in InUse : x \in Nat /\ x <= nbr[2].seq
    BY <1>1, ExchangeNumbers DEF Hears
  <1>4. \A k \in Keys : Missing(k)' => Missing(k) /\ ~Names(m.hdrs, k)
    BY MissingMore
  <1>5. \A k : Rank(k)' >= Rank(k) /\ Rank(k)' \in Nat /\ Rank(k) \in Nat
    BY RankKept DEF Base, Router
  <1>6. \A d \in Nat : Quota(d) \in Nat
    BY QuotaSteps
  <1>7. \A k \in Keys : Missing(k)' => m.more /\ Rank(k) >= Quota(nbr[2].seq + 1 - s)
    BY <1>1, <1>2, <1>4 DEF Told, Replied
  <1>8. ASSUME nbr'[2].state = "Exchange" PROVE Told(s)'
    <2>1. nbr'[2].seq = nbr[2].seq + 1
      BY <1>1, <1>8
    <2>2. Unheard(s)'
      <3> SUFFICES ASSUME NEW k \in Keys, Missing(k)'
                   PROVE  Rank(k)' >= Quota(nbr'[2].seq - s)
        BY DEF Unheard
      <3>1. Rank(k) >= Quota(nbr[2].seq + 1 - s) /\ Quota(nbr[2].seq + 1 - s) \in Nat
        BY <1>3, <1>6, <1>7
      <3>2. nbr'[2].seq - s = nbr[2].seq + 1 - s
        BY <1>3, <2>1
      <3> QED BY <1>5, <3>1, <3>2
    <2>3. \A q \in Replies' : q.seq # nbr'[2].seq
      <3> SUFFICES ASSUME NEW q \in Replies' PROVE q.seq # nbr'[2].seq
        OBVIOUS
      <3>1. q.seq \in InUse
        BY <1>2 DEF InUse
      <3> QED BY <1>3, <2>1, <3>1
    <2>4. Replied(s)' /\ AwaitedAfter(s)'
      BY <2>3 DEF Replied, AwaitedAfter
    <2>5. ASSUME InSession(s)'
          PROVE  /\ InSession(s) /\ nbr'[1] = nbr[1] /\ nbr[1].seq >= s /\ nbr[1].seq \in Nat
                 /\ nbr[1].seq <= nbr[2].seq
      <3>1. nbr'[1].state = "Exchange" /\ nbr'[1].seq >= s
        BY <2>5 DEF InSession
      <3>2. nbr'[1] = nbr[1]
        BY <1>2, <3>1
      <3>3. nbr[1].seq \in InUse
        BY <3>1, <3>2 DEF InUse
      <3> QED BY <1>1, <1>3, <3>1, <3>2, <3>3 DEF InSession
    <2>6. Spent(s)'
      <3> SUFFICES ASSUME InSession(s)', NEW h \in nbr'[1].summary
                   PROVE  Rank(h.key)' >= Quota(nbr'[1].seq + 1 - s) + Ahead(nbr'[1].summary, h)
        BY DEF Spent
      <3>1. Rank(h.key) >= Quota(nbr[1].seq + 1 - s) + Ahead(nbr[1].summary, h)
        BY <2>5 DEF Told, Spent
      <3>2. nbr[1].seq + 1 - s \in Nat
        BY <2>5
      <3>3. Quota(nbr[1].seq + 1 - s) \in Nat /\ Ahead(nbr[1].summary, h) \in Nat
        BY <1>6, <3>2, CountTypes, PacketTypes DEF Base
      <3> QED BY <1>5, <2>5, <3>1, <3>3
    <2>7. Awaited(s)'
      <3> SUFFICES ASSUME InSession(s)', NEW k \in Keys, Missing(k)'
                   PROVE  Waits(nbr'[1].summary, k, nbr'[2].seq - (nbr'[1].seq + 1))
        BY DEF Awaited
      <3>1. Waits(nbr[1].summary, k, nbr[2].seq - nbr[1].seq)
        BY <1>1, <1>2, <1>4, <2>5 DEF Told, AwaitedAfter
      <3>2. nbr[2].seq - nbr[1].seq = nbr'[2].seq - (nbr'[1].seq + 1)
        BY <1>3, <2>1, <2>5
      <3> QED BY <2>5, <3>1, <3>2
    <2> QED BY <2>2, <2>4, <2>6, <2>7 DEF Told
  <1>9. ASSUME nbr'[2].state \in {"Loading", "Full"}, ~m.more PROVE Told(s)' /\ CaughtUp(2)'
    <2>1. ~Active'
      BY <1>9 DEF Active
    <2>2. Told(s)'
      BY <2>1 DEF Told, Unheard, Replied, Spent, Awaited, AwaitedAfter, InSession
    <2>3. ASSUME NEW k \in Keys PROVE Got(2, k)'
      <3>1. ~Missing(k)'
        BY <1>7, <1>9
      <3>2. CASE Own[1][k] > 0
        BY <3>1, <3>2 DEF Missing
      <3>3. CASE ~(Own[1][k] > 0)
        <4>1. Own[1][k] \in Nat /\ db'[2][k] \in Nat
          BY OwnAssumption, MaxInstAssumption DEF Base, TypeOK, Router, Database
        <4>2. db'[2][k] >= Own[Peer(2)][k]
          BY <3>3, <4>1 DEF Peer
        <4> QED BY <4>2 DEF Got, Peer
      <3> QED BY <3>2, <3>3
    <2>4. CaughtUp(2)'
      BY <2>3 DEF CaughtUp
    <2> QED BY <2>2, <2>4
  <1>10. nbr'[2].state = "Exchange" => CaughtUp(2)'
    BY DEF CaughtUp
  <1> QED BY <1>1, <1>8, <1>9, <1>10

\* What the slave has to send before it answers packet y with a page of list S.
Pending(S, y, s) ==
    /\ \A h \in S : Rank(h.key) >= Quota(y - s) + Ahead(S, h)
    /\ \A k \in Keys : Missing(k) => Waits(S, k, nbr[2].seq - y)
    /\ \A m \in Replies : m.seq = nbr[2].seq =>
          \A k \in Keys : Missing(k) /\ ~Names(m.hdrs, k) => Waits(S, k, nbr[2].seq + 1 - y)

\* A slave that opens the exchange lists its database, and one in the middle what
\* is left of it.
LEMMA PendingFirst ==
  ASSUME Base, Genuine, NEW H, NEW s \in Nat, Hears(H, s), Told(s), Active
  PROVE  Pending(AllLsa(1), s, s)
  <1>1. ASSUME NEW h \in AllLsa(1) PROVE Rank(h.key) = Ahead(AllLsa(1), h) /\ Rank(h.key) \in Nat
    BY RankAll, CountTypes DEF Base
  <1>2. s - s = 0 /\ Quota(0) = 0
    BY QuotaSteps
  <1>3. ASSUME NEW k \in Keys, Own[1][k] > 0, NEW d, Rank(k) >= Quota(d)
        PROVE  Waits(AllLsa(1), k, d)
    <2> DEFINE h == [key |-> k, inst |-> db[1][k]]
    <2>1. db[1][k] \in 0..MaxInst /\ Own[1][k] \in Nat /\ db[1][k] >= Own[1][k]
      BY OwnAssumption, MaxInstAssumption
         DEF Genuine, GenuineRecord, HadBy, Router, Base, TypeOK, Database
    <2>2. h \in AllLsa(1) /\ h.key = k
      BY <1>3, <2>1, MaxInstAssumption DEF AllLsa, Header
    <2> HIDE DEF h
    <2> QED BY <1>1, <1>3, <2>2 DEF Waits
  <1>4. \A h \in AllLsa(1) : Rank(h.key) >= Quota(s - s) + Ahead(AllLsa(1), h)
    BY <1>1, <1>2
  <1>5. \A k \in Keys : Missing(k) => Waits(AllLsa(1), k, nbr[2].seq - s)
    BY <1>3 DEF Missing, Told, Unheard
  <1>6. \A m \in Replies : m.seq = nbr[2].seq =>
          \A k \in Keys : Missing(k) /\ ~Names(m.hdrs, k) =>
            Waits(AllLsa(1), k, nbr[2].seq + 1 - s)
    BY <1>3 DEF Missing, Told, Replied
  <1> QED BY <1>4, <1>5, <1>6 DEF Pending

LEMMA PendingNext ==
  ASSUME Base, NEW s \in Nat, Told(s), InSession(s), nbr[1].seq < nbr[2].seq,
         NEW y \in Nat, y = nbr[1].seq + 1
  PROVE  Pending(nbr[1].summary, y, s)
  <1>1. nbr[1].seq \in Nat /\ nbr[2].seq \in Nat
    BY PacketTypes DEF Base
  <1>2. /\ nbr[1].seq + 1 - s = y - s /\ nbr[2].seq - (nbr[1].seq + 1) = nbr[2].seq - y
        /\ nbr[2].seq - nbr[1].seq = nbr[2].seq + 1 - y
    BY <1>1
  <1>3. \A h \in nbr[1].summary : Rank(h.key) >= Quota(y - s) + Ahead(nbr[1].summary, h)
    BY <1>2 DEF Told, Spent
  <1>4. \A k \in Keys : Missing(k) => Waits(nbr[1].summary, k, nbr[2].seq - y)
    BY <1>2 DEF Told, Awaited
  <1>5. \A m \in Replies : m.seq = nbr[2].seq =>
          \A k \in Keys : Missing(k) /\ ~Names(m.hdrs, k) =>
            Waits(nbr[1].summary, k, nbr[2].seq + 1 - y)
    BY <1>2 DEF Told, AwaitedAfter
  <1> QED BY <1>3, <1>4, <1>5 DEF Pending

\* Once a page is off the list there is one page less to wait for.
LEMMA PageOff ==
  ASSUME NEW S \in SUBSET Header, NEW page \in Pages(1, S, SlavePage), NEW k, NEW d \in Nat,
         Waits(S, k, d + 1)
  PROVE  Waits(S \ page, k, d)
  <1>1. PICK h \in S : h.key = k /\ Ahead(S, h) >= Quota(d + 1)
    BY DEF Waits
  <1>2. /\ SlavePage \in Nat /\ Quota(d) \in Nat /\ Quota(d + 1) \in Nat
        /\ Quota(d + 1) = Quota(d) + SlavePage
    BY QuotaSteps
  <1>3. Ahead(S, h) \in Nat /\ Ahead(S \ page, h) \in Nat
    BY CountTypes
  <1>4. h \notin page
    BY <1>1, <1>2, <1>3, PageCount
  <1>5. Ahead(S, h) = SlavePage + Ahead(S \ page, h)
    BY <1>4, PageCount
  <1>6. Ahead(S \ page, h) >= Quota(d)
    BY <1>1, <1>2, <1>3, <1>5
  <1> QED BY <1>1, <1>4, <1>6 DEF Waits

\* What the slave has to send when it answers packet m.
LEMMA AnswersPending ==
  ASSUME Base, Genuine, NEW H, NEW s \in Nat, Hears(H, s), Told(s), Active,
         NEW m, NEW page, IsAnswered(m, page), m.seq >= s
  PROVE  \E S \in SUBSET Header :
            /\ Pending(S, m.seq, s)
            /\ page \in Pages(1, S, IF m.more THEN SlavePage ELSE Cardinality(S))
            /\ nbr'[1].summary = S \ page
  <1>1. m \in Polls /\ Answers(1, m, page)
    BY DEF IsAnswered
  <1>2. PICK n \in NeighborRecord :
          /\ \/ /\ nbr[1].state \notin Exchanging
                /\ m.init /\ m.more /\ m.hdrs = {}
                /\ n.summary = AllLsa(1) /\ Requested(n) = {}
             \/ /\ nbr[1].state = "Exchange"
                /\ ~m.init /\ m.seq = nbr[1].seq + 1
                /\ n.summary = nbr[1].summary /\ Requested(n) = Requested(nbr[1])
          /\ AnsweredPage(1, m, n, nbr'[1], page)
    BY <1>1 DEF Answers
  <1>3. /\ page \in Pages(1, n.summary, IF m.more THEN SlavePage ELSE Cardinality(n.summary))
        /\ nbr'[1].summary = n.summary \ page
    BY <1>2 DEF AnsweredPage
  <1>4. n.summary \in SUBSET Header
    BY DEF NeighborRecord
  <1>5. m.seq \in Nat /\ H[m.seq] = m /\ m.seq <= nbr[2].seq /\ nbr[2].seq \in Nat
    BY <1>1, ExchangeNumbers DEF InUse, Hears, Log, Sent
  <1>6. Chain(H, s, nbr[2].seq)
    BY DEF Hears, Log, Current
  <1>7. CASE m.init
    <2>1. ~(s + 1 <= m.seq)
      BY <1>5, <1>6, <1>7 DEF Chain
    <2>2. m.seq = s
      BY <1>5, <2>1
    <2> QED BY <1>2, <1>3, <1>4, <1>7, <2>2, PendingFirst
  <1>8. CASE ~m.init
    <2>1. m.seq # s
      BY <1>5, <1>6, <1>8 DEF Chain
    <2>2. nbr[1].state = "Exchange" /\ m.seq = nbr[1].seq + 1 /\ n.summary = nbr[1].summary
      BY <1>2, <1>8
    <2>3. nbr[1].seq \in Nat /\ nbr[1].seq >= s /\ nbr[1].seq < nbr[2].seq
      BY <1>5, <2>1, <2>2, PacketTypes DEF Base
    <2>4. Pending(n.summary, m.seq, s)
      BY <1>5, <2>2, <2>3, PendingNext DEF InSession
    <2> QED BY <1>3, <1>4, <2>4
  <1> QED BY <1>7, <1>8

\* The slave answers: what is missing is in the page or still to be sent.
LEMMA ToldAnswered ==
  ASSUME Base, Base', Genuine, Genuine', "young" \notin FaultKinds, ~Restart(1),
         Effect(1), DbEffect(1), NEW H, NEW s \in Nat, Hears(H, s), Told(s),
         NEW m, NEW page, IsAnswered(m, page)
  PROVE  Told(s)'
  <1> SUFFICES ASSUME Active' PROVE Told(s)'
    BY DEF Told, Unheard, Replied, Spent, Awaited, AwaitedAfter, InSession
  <1>1. /\ nbr'[2] = nbr[2] /\ m \in Polls
        /\ Replies' \subseteq Replies \cup {Reply(m, page)}
    BY DEF IsAnswered, Active
  <1>2. Active
    BY <1>1 DEF Active
  <1>3. /\ nbr[2].seq \in Nat /\ nbr[2].seq - s \in Nat /\ s <= nbr[2].seq
        /\ nbr[2].seq + 1 - s \in Nat /\ \A x \in InUse : x \in Nat /\ x <= nbr[2].seq
    BY <1>2, ExchangeNumbers DEF Hears
  <1>4. \A k \in Keys : Missing(k)' => Missing(k)
    BY <1>1, <1>2, MissingKept DEF Router
  <1>5. \A k : Rank(k)' >= Rank(k) /\ Rank(k)' \in Nat /\ Rank(k) \in Nat
    BY RankKept DEF Base, Router
  <1>6. m.seq \in InUse /\ m.seq \in Nat /\ m.seq <= nbr[2].seq
    BY <1>1, <1>3 DEF InUse
  <1>7. /\ Reply(m, page).seq = m.seq /\ Reply(m, page).hdrs = page
        /\ Reply(m, page).more = m.more
    BY DEF Reply, DD
  <1>8. IF m.more THEN nbr'[1].state = "Exchange" /\ nbr'[1].seq = m.seq
                  ELSE nbr'[1].state \in {"Loading", "Full"}
    BY AnswersPoll DEF Hears
  <1>9. \A d \in Nat : Quota(d) \in Nat
    BY QuotaSteps
  <1>10. Unheard(s)'
    <2> SUFFICES ASSUME NEW k \in Keys, Missing(k)' PROVE Rank(k)' >= Quota(nbr'[2].seq - s)
      BY DEF Unheard
    <2>1. Rank(k) >= Quota(nbr[2].seq - s) /\ Quota(nbr[2].seq - s) \in Nat
      BY <1>2, <1>3, <1>4, <1>9 DEF Told, Unheard
    <2> QED BY <1>1, <1>5, <2>1
  <1>11. CASE m.seq < s
    <2>1. ~InSession(s)'
      BY <1>3, <1>6, <1>8, <1>11 DEF InSession
    <2>2. Replied(s)'
      <3> SUFFICES ASSUME NEW q \in Replies', q.seq = nbr'[2].seq, NEW k \in Keys, Missing(k)',
                          ~Names(q.hdrs, k)
                   PROVE  q.more /\ Rank(k)' >= Quota(nbr'[2].seq + 1 - s)
        BY DEF Replied
      <3>1. q \in Replies
        BY <1>1, <1>3, <1>6, <1>7, <1>11
      <3>2. q.more /\ Rank(k) >= Quota(nbr[2].seq + 1 - s) /\ Quota(nbr[2].seq + 1 - s) \in Nat
        BY <1>1, <1>2, <1>3, <1>4, <1>9, <3>1 DEF Told, Replied
      <3> QED BY <1>1, <1>5, <3>2
    <2> QED BY <1>10, <2>1, <2>2 DEF Told, Spent, Awaited, AwaitedAfter
  <1>12. CASE m.seq >= s
    <2>1. PICK S \in SUBSET Header :
            /\ Pending(S, m.seq, s)
            /\ page \in Pages(1, S, IF m.more THEN SlavePage ELSE Cardinality(S))
            /\ nbr'[1].summary = S \ page
      BY <1>2, <1>12, AnswersPending
    <2>2. PICK y \in Nat : y = m.seq
      BY <1>6
    <2>3. PICK d \in Nat : d = y - s
      BY <1>12, <2>2
    <2>4. PICK e \in Nat : e = nbr[2].seq - y
      BY <1>3, <1>6, <2>2
    <2>5. nbr[2].seq + 1 - y = e + 1 /\ y + 1 - s = d + 1
      BY <1>3, <2>3, <2>4
    <2>6. /\ \A h \in S : Rank(h.key) >= Quota(d) + Ahead(S, h)
          /\ \A k \in Keys : Missing(k) => Waits(S, k, e)
          /\ \A q \in Replies : q.seq = nbr[2].seq =>
                \A k \in Keys : Missing(k) /\ ~Names(q.hdrs, k) => Waits(S, k, e + 1)
      BY <2>1, <2>2, <2>3, <2>4, <2>5 DEF Pending
    <2>7. /\ SlavePage \in Nat /\ Quota(d) \in Nat /\ Quota(d + 1) \in Nat /\ Quota(0) = 0
          /\ Quota(d + 1) = Quota(d) + SlavePage
      BY QuotaSteps
    <2>8. ASSUME m.more, NEW h \in S \ page
          PROVE  /\ Rank(h.key) >= Quota(d + 1) + Ahead(S \ page, h)
                 /\ Ahead(S \ page, h) \in Nat
      <3>1. Ahead(S, h) = SlavePage + Ahead(S \ page, h)
        BY <2>1, <2>8, PageCount
      <3>2. Ahead(S \ page, h) \in Nat /\ Rank(h.key) \in Nat
        BY CountTypes
      <3> QED BY <2>6, <2>7, <3>1, <3>2
    <2>9. ~m.more => S \ page = {}
      <3>1. IsFiniteSet(S)
        BY HeaderFinite, FS_Subset
      <3>2. ASSUME ~m.more PROVE page \subseteq S /\ Cardinality(page) = Cardinality(S)
        BY <2>1, <3>1, <3>2, FS_CardinalityType DEF Pages
      <3> QED BY <3>1, <3>2, FS_Subset
    <2>10. ASSUME NEW k \in Keys, Missing(k), ~Names(page, k)
           PROVE  m.more /\ Waits(S \ page, k, 0) /\ Rank(k) >= Quota(d + 1)
      <3>1. PICK h \in S : h.key = k
        BY <2>6, <2>10 DEF Waits
      <3>2. h \in S \ page
        BY <2>10, <3>1 DEF Names
      <3>3. m.more
        BY <2>9, <3>2
      <3>4. Rank(k) >= Quota(d + 1) + Ahead(S \ page, h) /\ Ahead(S \ page, h) \in Nat
        BY <2>8, <3>1, <3>2, <3>3
      <3>5. Waits(S \ page, k, 0)
        BY <2>7, <3>1, <3>2, <3>4 DEF Waits
      <3> QED BY <1>5, <2>7, <3>3, <3>4, <3>5
    <2>11. Replied(s)'
      <3> SUFFICES ASSUME NEW q \in Replies', q.seq = nbr'[2].seq, NEW k \in Keys, Missing(k)',
                          ~Names(q.hdrs, k)
                   PROVE  q.more /\ Rank(k)' >= Quota(nbr'[2].seq + 1 - s)
        BY DEF Replied
      <3>1. Missing(k)
        BY <1>4
      <3>2. CASE q \in Replies
        <4>1. q.more /\ Rank(k) >= Quota(nbr[2].seq + 1 - s) /\ Quota(nbr[2].seq + 1 - s) \in Nat
          BY <1>1, <1>2, <1>3, <1>9, <3>1, <3>2 DEF Told, Replied
        <4> QED BY <1>1, <1>5, <4>1
      <3>3. CASE q = Reply(m, page)
        <4>1. q.more /\ Rank(k) >= Quota(d + 1)
          BY <1>7, <2>10, <3>1, <3>3
        <4>2. nbr'[2].seq + 1 - s = d + 1
          BY <1>7, <2>2, <2>5, <3>3
        <4> QED BY <1>5, <2>7, <4>1, <4>2
      <3> QED BY <1>1, <3>2, <3>3
    <2>12. ASSUME InSession(s)' PROVE m.more /\ nbr'[1].seq = y
      BY <1>8, <2>2, <2>12 DEF InSession
    <2>13. Spent(s)'
      <3> SUFFICES ASSUME InSession(s)', NEW h \in nbr'[1].summary
                   PROVE  Rank(h.key)' >= Quota(nbr'[1].seq + 1 - s) + Ahead(nbr'[1].summary, h)
        BY DEF Spent
      <3>1. /\ Rank(h.key) >= Quota(d + 1) + Ahead(S \ page, h)
            /\ Ahead(S \ page, h) \in Nat
        BY <2>1, <2>8, <2>12
      <3>2. nbr'[1].seq + 1 - s = d + 1
        BY <2>5, <2>12
      <3> QED BY <1>5, <2>1, <2>7, <3>1, <3>2
    <2>14. Awaited(s)'
      <3> SUFFICES ASSUME InSession(s)', nbr'[1].seq < nbr'[2].seq, NEW k \in Keys, Missing(k)'
                   PROVE  Waits(nbr'[1].summary, k, nbr'[2].seq - (nbr'[1].seq + 1))
        BY DEF Awaited
      <3>1. PICK c \in Nat : e = c + 1
        <4>1. e > 0
          BY <1>1, <1>3, <2>4, <2>12
        <4>2. e - 1 \in Nat /\ e = (e - 1) + 1
          BY <4>1
        <4> QED BY <4>2
      <3>2. Waits(S, k, c + 1)
        BY <1>4, <2>6, <3>1
      <3>3. Waits(S \ page, k, c)
        BY <2>1, <2>12, <3>2, PageOff
      <3>4. nbr'[2].seq - (nbr'[1].seq + 1) = c
        BY <1>1, <1>3, <2>4, <2>12, <3>1
      <3> QED BY <2>1, <3>3, <3>4
    <2>15. AwaitedAfter(s)'
      <3> SUFFICES ASSUME InSession(s)', NEW q \in Replies', q.seq = nbr'[2].seq,
                          NEW k \in Keys, Missing(k)', ~Names(q.hdrs, k)
                   PROVE  Waits(nbr'[1].summary, k, nbr'[2].seq - nbr'[1].seq)
        BY DEF AwaitedAfter
      <3>1. Missing(k) /\ nbr'[2].seq - nbr'[1].seq = e
        BY <1>1, <1>4, <2>4, <2>12
      <3>2. CASE q \in Replies
        <4>1. Waits(S, k, e + 1)
          BY <1>1, <2>6, <3>1, <3>2
        <4>2. Waits(S \ page, k, e)
          BY <2>1, <2>12, <4>1, PageOff
        <4> QED BY <2>1, <3>1, <4>2
      <3>3. CASE q = Reply(m, page)
        <4>1. Waits(S \ page, k, 0)
          BY <1>7, <2>10, <3>1, <3>3
        <4>2. e = 0
          BY <1>1, <1>3, <1>7, <2>2, <2>4, <3>3
        <4> QED BY <2>1, <3>1, <4>1, <4>2
      <3> QED BY <1>1, <3>2, <3>3
    <2> QED BY <1>10, <2>11, <2>13, <2>14, <2>15 DEF Told
  <1> QED BY <1>3, <1>6, <1>11, <1>12

\* A master that has finished keeps what it got.
LEMMA CaughtUpKept ==
  ASSUME Base, Base', Genuine, Genuine', "young" \notin FaultKinds,
         NEW r \in Router, Effect(r), DbEffect(r), CaughtUp(2),
         nbr'[2].state \in {"Loading", "Full"} => nbr[2].state \in {"Loading", "Full"}
  PROVE  CaughtUp(2)'
  <1> SUFFICES ASSUME nbr'[2].state \in {"Loading", "Full"}, NEW k \in Keys
               PROVE  Got(2, k)'
    BY DEF CaughtUp
  <1>1. Got(2, k) /\ nbr'[2].state \in Exchanging
    BY DEF CaughtUp, Exchanging
  <1> QED BY <1>1, GotKept DEF Router

\* Every step keeps what the master is told, with the start it hands over.
LEMMA ToldKept ==
  ASSUME Base, Base', Genuine, Genuine', KeepsAnswers,
         "young" \notin FaultKinds, ~Restart(1),
         NEW r \in Router, Effect(r), DbEffect(r), StartsFresh,
         NEW H, NEW s \in Nat, Hears(H, s), Told(s), CaughtUp(2),
         NEW t \in Nat, StartAfter(s, t)
  PROVE  Told(t)' /\ CaughtUp(2)'
  <1>1. CASE Still
    <2>1. ~Starts /\ (nbr'[2].state \in {"Loading", "Full"} => nbr[2].state \in {"Loading", "Full"})
      BY <1>1 DEF Starts, Still, Shrunk, Adjacent, Exchanging
    <2>2. t = s
      BY <2>1 DEF StartAfter
    <2>3. Told(s)'
      BY <1>1, ToldStill
    <2>4. CaughtUp(2)'
      BY <2>1, CaughtUpKept
    <2> QED BY <2>2, <2>3, <2>4
  <1>2. CASE Starts
    <2>1. t = nbr'[2].seq /\ nbr'[2].state = "ExStart"
      BY <1>2 DEF StartAfter, Starts
    <2>2. Told(t)'
      BY <1>2, <2>1, ToldStarts
    <2> QED BY <2>1, <2>2 DEF CaughtUp
  <1>3. ASSUME r = 2, NEW m, NEW page, GoesOn(m, page)
        PROVE  Told(t)' /\ CaughtUp(2)'
    <2>1. Effect(2) /\ DbEffect(2)
      BY <1>3
    <2>2. nbr'[2].state \in {"Exchange", "Loading", "Full"}
      BY <1>3, TakesAnswer
    <2>3. t = s
      BY <2>2 DEF StartAfter, Starts
    <2>4. Told(s)' /\ CaughtUp(2)'
      BY <1>3, <2>1, ToldMore
    <2> QED BY <2>3, <2>4
  <1>4. ASSUME r = 1, NEW m, NEW page, IsAnswered(m, page)
        PROVE  Told(t)' /\ CaughtUp(2)'
    <2>1. Effect(1) /\ DbEffect(1)
      BY <1>4
    <2>2. ~Starts /\ (nbr'[2].state \in {"Loading", "Full"} => nbr[2].state \in {"Loading", "Full"})
      BY <1>4 DEF IsAnswered, Starts
    <2>3. t = s
      BY <2>2 DEF StartAfter
    <2>4. Told(s)'
      BY <1>4, <2>1, ToldAnswered
    <2>5. CaughtUp(2)'
      BY <2>2, CaughtUpKept
    <2> QED BY <2>3, <2>4, <2>5
  <1>5. CASE r = 1
    <2>1. Effect(1)
      BY <1>5
    <2> QED BY <1>1, <1>4, <1>5, <2>1, SlaveStep
  <1>6. CASE r = 2
    <2>1. Effect(2)
      BY <1>6
    <2> QED BY <1>1, <1>2, <1>3, <1>6, <2>1, MasterStep
  <1> QED BY <1>5, <1>6 DEF Router

\* The slave hears the master (Hears), the master is told what the slave has (Told),
\* and either is caught up as soon as it has finished.
HearsBoth == \E H : \E s \in Nat : Hears(H, s) /\ Told(s) /\ CaughtUp(2)

LEMMA HearsBothStarts == Init => HearsBoth
  <1> SUFFICES ASSUME Init PROVE HearsBoth
    OBVIOUS
  <1>1. PICK H : H = [x \in Nat |-> Opening(x)]
    OBVIOUS
  <1>2. \A x \in Nat : Opening(x) \in DDPacket /\ Opening(x).seq = x /\ Opening(x).init
    BY DDType DEF Opening, DD
  <1>3. Numbered(H) /\ \A x \in Nat : H[x].init
    BY <1>1, <1>2 DEF Numbered
  <1>4. nbr[1] = NewNeighbor /\ nbr[2] = NewNeighbor /\ net[1] = <<>>
    BY DEF Init, Router
  <1>5. nbr[1].state = "Down" /\ nbr[2].state = "Down" /\ Polls = {}
    BY <1>4 DEF NewNeighbor, Polls, InFlight
  <1>6. Complete(H)
    BY <1>3 DEF Complete, Chain
  <1>7. Log(H, 0) /\ Heard(H) /\ CaughtUp(1) /\ CaughtUp(2)
    BY <1>5, <1>6 DEF Log, Sent, Current, Active, Covering, Heard, CaughtUp
  <1>8. Told(0)
    BY <1>5 DEF Told, Unheard, Replied, Spent, Awaited, AwaitedAfter, InSession, Active
  <1> QED BY <1>3, <1>7, <1>8 DEF HearsBoth, Hears

LEMMA HearsBothKept ==
  ASSUME "expire" \notin FaultKinds, "young" \notin FaultKinds,
         Base, Base', Genuine, Genuine', KeepsAnswers, HearsBoth, [Next]_vars, [StartsFresh]_vars,
         [~Restart(1)]_vars
  PROVE  HearsBoth'
  <1>1. PICK H : \E s \in Nat : Hears(H, s) /\ Told(s) /\ CaughtUp(2)
    BY DEF HearsBoth
  <1>2. PICK s \in Nat : Hears(H, s) /\ Told(s) /\ CaughtUp(2)
    BY <1>1
  <1>3. CASE UNCHANGED vars
    <2>1. Hears(H, s)'
      BY <1>2, <1>3 DEF vars, Hears, Log, Sent, Current, Covering, Complete, Heard, CaughtUp,
         Polls, InUse, Replies, Active, Got, Requested, InFlight
    <2>2. UNCHANGED <<nbr, db, net>>
      BY <1>3 DEF vars
    <2>3. CaughtUp(2)'
      BY <1>2, <2>2 DEF CaughtUp, Got, Requested
    <2>4. \A k : Rank(k)' = Rank(k)
      BY <2>2 DEF Rank
    <2>5. \A k : Missing(k)' <=> Missing(k)
      BY <2>2 DEF Missing, Got, Requested
    <2>6. Replies' = Replies /\ (Active' <=> Active)
      BY <2>2 DEF Replies, Active, InFlight
    <2>7. Unheard(s)' /\ Replied(s)'
      BY <1>2, <2>2, <2>4, <2>5, <2>6 DEF Told, Unheard, Replied
    <2>8. Spent(s)' /\ Awaited(s)' /\ AwaitedAfter(s)'
      BY <1>2, <2>2, <2>4, <2>5, <2>6 DEF Told, Spent, Awaited, AwaitedAfter, InSession
    <2>9. Told(s)'
      BY <2>7, <2>8 DEF Told
    <2> QED BY <2>1, <2>3, <2>9 DEF HearsBoth
  <1>4. ASSUME NEW r \in Router, Task(r) \/ Handler(r) \/ Disturbance(r), StartsFresh, ~Restart(1)
        PROVE  HearsBoth'
    <2>1. Effect(r)
      BY <1>4, TaskEffect, HelloEffect, HandleDDEffect, HandleLSREffect, HandleLSUEffect,
         DisturbanceEffect DEF Handler
    <2>2. DbEffect(r)
      BY <1>4, StepDbEffect
    <2>3. PICK G : \E t \in Nat : Hears(G, t)' /\ StartAfter(s, t)
      BY <1>2, <1>4, <2>1, <2>2, HearsKept
    <2>4. PICK t \in Nat : Hears(G, t)' /\ StartAfter(s, t)
      BY <2>3
    <2>5. Told(t)' /\ CaughtUp(2)'
      BY <1>2, <1>4, <2>1, <2>2, <2>4, ToldKept
    <2> QED BY <2>4, <2>5 DEF HearsBoth
  <1> QED BY <1>3, <1>4 DEF Next

---------------------------------------------------------------------------
(* Both ends finish with what the other started with.                      *)

\* The two routers are caught up, and so synchronised: Full asks for nothing.
LEMMA CaughtUpBoth ==
  ASSUME Base, HearsBoth
  PROVE  Synchronised /\ CaughtUp(1) /\ CaughtUp(2)
  <1>1. CaughtUp(1) /\ CaughtUp(2)
    BY DEF HearsBoth, Hears
  <1>2. ASSUME NEW r \in Router, nbr[r].state = "Full" PROVE nbr[r].req = <<>>
    BY <1>2 DEF Base, AllGood, Good
  <1>3. ASSUME NEW r \in Router, nbr[r].state \in {"Loading", "Full"}, NEW k \in Keys
        PROVE  \/ db[r][k] >= Own[Peer(r)][k]
               \/ \E i \in 1..Len(nbr[r].req) : nbr[r].req[i].key = k
    <2>1. Got(r, k)
      BY <1>1, <1>3 DEF CaughtUp, Router
    <2> QED BY <2>1 DEF Got, Requested
  <1> QED BY <1>1, <1>2, <1>3 DEF Synchronised

\* HearsBoth is an invariant of the exchange under the hypotheses of the theorems
\* below.
LEMMA HearsBothAlways ==
  ASSUME "expire" \notin FaultKinds, "young" \notin FaultKinds
  PROVE  Spec /\ [][StartsFresh]_vars /\ [][~Restart(1)]_vars => []HearsBoth
  <1>1. /\ Base /\ Base' /\ Genuine /\ Genuine' /\ KeepsAnswers /\ HearsBoth
        /\ [Next]_vars /\ [StartsFresh]_vars /\ [~Restart(1)]_vars
        => HearsBoth'
    BY HearsBothKept
  <1> QED BY <1>1, HearsBothStarts, BaseAlways, GenuineAlways, AnswersAlways, PTL DEF Spec

\* Synchronised, for any LSAs, databases, page sizes, network and losses: a router
\* that has finished the exchange has, or still asks for, everything its peer
\* started with (dd.rs:89-137, lsr.rs, lsu.rs), although packets of
\* an earlier exchange may be in flight and taken for ones of this.  Provided that
\* no lifetime ends, no update is refused as too recent, the clock goes on between
\* two exchanges and the slave is not restarted; the master may be.
THEOREM ExchangeSynchronises ==
  ASSUME "expire" \notin FaultKinds, "young" \notin FaultKinds
  PROVE  Spec /\ [][StartsFresh]_vars /\ [][~Restart(1)]_vars => []Synchronised
  <1>1. Base /\ HearsBoth => Synchronised
    BY CaughtUpBoth
  <1> QED BY <1>1, BaseAlways, HearsBothAlways, PTL

---------------------------------------------------------------------------
(* The pair implements module DatabaseSync.                                *)

Finished == [r \in Router |-> nbr[r].state = "Full"]

\* What is learnt is what the peer started with: nothing else is newer.
LEMMA LearnsOwn ==
  ASSUME TypeOK, TypeOK', Genuine, NEW r \in Router, Learns(r), db'[Peer(r)] = db[Peer(r)]
  PROVE  \E k \in Keys :
           /\ Own[Peer(r)][k] > db[r][k]
           /\ db' = [db EXCEPT ![r][k] = Own[Peer(r)][k]]
  <1>1. PICK m \in InFlight(r) :
          /\ m.type = "LSU" /\ m.lsa \in Header /\ NeedUpdate(r, m.lsa)
          /\ db'[r] = [db[r] EXCEPT ![m.lsa.key] = m.lsa.inst]
    BY DEF Learns
  <1>2. PICK k \in Keys : k = m.lsa.key
    BY <1>1 DEF Header
  <1>3. PICK i \in Nat : i = m.lsa.inst
    BY <1>1, MaxInstAssumption DEF Header
  <1>4. i > db[r][k] /\ db[r][k] \in Nat
    BY <1>1, <1>2, <1>3, MaxInstAssumption DEF NeedUpdate, TypeOK, Database
  <1>5. i \in {Own[1][k], Own[2][k]}
    BY <1>1, <1>2, <1>3, PeerType DEF Genuine, GenuineMessage, HadBy
  <1>6. db[r][k] >= Own[r][k] /\ Own[r][k] \in Nat
    BY OwnAssumption, MaxInstAssumption DEF Genuine, GenuineRecord, HadBy, Database
  <1>7. i = Own[Peer(r)][k]
    BY <1>4, <1>5, <1>6 DEF Router, Peer
  <1>8. db' = [db EXCEPT ![r][k] = i]
    <2>1. db \in [Router -> Database] /\ db' \in [Router -> Database]
      BY DEF TypeOK
    <2>2. db'[r] = [db[r] EXCEPT ![k] = i]
      BY <1>1, <1>2, <1>3
    <2>3. \A s \in Router : s = r \/ s = Peer(r)
      BY TheRouters
    <2> QED BY <2>1, <2>2, <2>3
  <1> QED BY <1>4, <1>7, <1>8

\* Every step of the pair is a step of the promise, or none.
LEMMA StepPromised ==
  ASSUME Base, Base', Genuine, CaughtUp(1)', CaughtUp(2)', NEW r \in Router,
         Effect(r), DbEffect(r)
  PROVE  Promise!Next \/ UNCHANGED <<Finished, db>>
  <1>1. /\ db \in [Router -> Database] /\ db' \in [Router -> Database]
        /\ r \in Promise!Router /\ Promise!Peer(r) = Peer(r)
        /\ \A s \in Router : s = r \/ s = Peer(r)
    BY TheRouters DEF Base, TypeOK, Promise!Router, Promise!Peer, Router, Peer
  <1>2. Finished'[Peer(r)] <=> Finished[Peer(r)]
    BY PeerType DEF Finished, Effect
  <1>3. CASE Learns(r)
    <2>1. PICK k \in Keys :
            /\ Own[Peer(r)][k] > db[r][k]
            /\ db' = [db EXCEPT ![r][k] = Own[Peer(r)][k]]
      BY <1>3, LearnsOwn DEF Base, DbEffect
    <2>2. Finished' = Finished
      <3>1. Finished'[r] <=> Finished[r]
        BY <1>3 DEF Learns, Finished
      <3> QED BY <1>1, <1>2, <3>1 DEF Finished
    <2>3. Promise!Learn(r)
      BY <1>1, <2>1, <2>2 DEF Promise!Learn, Finished
    <2> QED BY <1>1, <2>3 DEF Promise!Next
  <1>4. CASE Restart(r) /\ db'[r] = Own[r] /\ nbr'[r].state = "Down"
    <2>1. ~Finished'[r]
      BY <1>4 DEF Finished
    <2>2. Finished' = [Finished EXCEPT ![r] = FALSE]
      BY <1>1, <1>2, <2>1 DEF Finished
    <2>3. db' = [db EXCEPT ![r] = Own[r]]
      BY <1>1, <1>4 DEF DbEffect
    <2>4. Promise!Restart(r)
      BY <2>2, <2>3 DEF Promise!Restart, Finished
    <2> QED BY <1>1, <2>4 DEF Promise!Next
  <1>5. CASE db'[r] = db[r]
    <2>1. db' = db
      BY <1>1, <1>5 DEF DbEffect
    <2>2. CASE Finished'[r] <=> Finished[r]
      <3>1. Finished' = Finished
        BY <1>1, <1>2, <2>2 DEF Finished
      <3> QED BY <2>1, <3>1
    <2>3. CASE Finished[r] /\ ~Finished'[r]
      <3>1. Finished' = [Finished EXCEPT ![r] = FALSE]
        BY <1>1, <1>2, <2>3 DEF Finished
      <3>2. Promise!GiveUp(r)
        BY <2>1, <2>3, <3>1 DEF Promise!GiveUp, Finished
      <3> QED BY <1>1, <3>2 DEF Promise!Next
    <2>4. CASE ~Finished[r] /\ Finished'[r]
      <3>1. Finished' = [Finished EXCEPT ![r] = TRUE]
        BY <1>1, <1>2, <2>4 DEF Finished
      <3>2. nbr'[r].state = "Full" /\ nbr'[r].req = <<>>
        BY <2>4 DEF Finished, Base, AllGood, Good
      <3>3. ASSUME NEW k \in Keys PROVE db[r][k] >= Own[Peer(r)][k]
        <4>1. Got(r, k)'
          BY <3>2 DEF CaughtUp, Router
        <4> QED BY <2>1, <3>2, <4>1 DEF Got, Requested, Peer
      <3>4. Promise!CaughtUp(r, db[r])
        BY <1>1, <3>3 DEF Promise!CaughtUp
      <3>5. Promise!BecomeFull(r)
        BY <2>1, <2>4, <3>1, <3>4 DEF Promise!BecomeFull, Finished
      <3> QED BY <1>1, <3>5 DEF Promise!Next
    <2>5. Finished[r] \in BOOLEAN /\ Finished'[r] \in BOOLEAN
      BY DEF Finished
    <2> QED BY <2>2, <2>3, <2>4, <2>5
  <1> QED BY <1>3, <1>4, <1>5 DEF DbEffect

\* The exchange keeps its promise: seen from the rest of the daemon, which knows
\* only whether a neighbor is Full and what is in the database, a router learns
\* nothing but what its peer started with, never goes back, and is Full only with
\* all of it (flooding.rs, state.rs: exchange_done, loading_done).
THEOREM ExchangeKeepsPromise ==
  ASSUME "expire" \notin FaultKinds, "young" \notin FaultKinds
  PROVE  Spec /\ [][StartsFresh]_vars /\ [][~Restart(1)]_vars => PromiseKept
  <1>1. Init => Promise!Init
    <2> SUFFICES ASSUME Init PROVE Promise!Init
      OBVIOUS
    <2>1. \A r \in Router : ~(nbr[r].state = "Full")
      BY DEF Init, NewNeighbor
    <2>2. [r \in Router |-> nbr[r].state = "Full"] = [r \in Promise!Router |-> FALSE]
      BY <2>1 DEF Promise!Router, Router
    <2> QED BY <2>2 DEF Init, Promise!Init
  <1>2. /\ Base /\ Base' /\ Genuine /\ HearsBoth' /\ [Next]_vars
        => [Promise!Next]_<<Finished, db>>
    <2> SUFFICES ASSUME Base, Base', Genuine, HearsBoth', [Next]_vars
                 PROVE  [Promise!Next]_<<Finished, db>>
      OBVIOUS
    <2>1. CaughtUp(1)' /\ CaughtUp(2)'
      BY DEF HearsBoth, Hears
    <2>2. CASE UNCHANGED vars
      BY <2>2 DEF vars, Finished
    <2>3. ASSUME NEW r \in Router, Task(r) \/ Handler(r) \/ Disturbance(r)
          PROVE  [Promise!Next]_<<Finished, db>>
      <3>1. Effect(r) /\ DbEffect(r)
        BY <2>3, StepDbEffect, TaskEffect, HelloEffect, HandleDDEffect, HandleLSREffect,
           HandleLSUEffect, DisturbanceEffect DEF Handler
      <3> QED BY <2>1, <3>1, StepPromised
    <2> QED BY <2>2, <2>3 DEF Next
  <1>3. /\ Base /\ Base' /\ Genuine /\ HearsBoth' /\ [Next]_vars
        => [Promise!Next]_<<[r \in Router |-> nbr[r].state = "Full"], db>>
    BY <1>2 DEF Finished
  <1> QED BY <1>1, <1>3, BaseAlways, GenuineAlways, HearsBothAlways, PTL
          DEF Spec, PromiseKept, Promise!Spec
=============================================================================
