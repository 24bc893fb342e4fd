---------------------------- MODULE FloodingProofs ----------------------------
(***************************************************************************)
(* Proofs about flooding, for any number of routers, networks and LSAs in  *)
(* any topology: type correctness, that databases go forward whatever      *)
(* expires or restarts, and, where packets are only lost, that             *)
(* acknowledgments are honest and that the first instance of an LSA is on  *)
(* the list for whoever lacks it.                                          *)
(***************************************************************************)
EXTENDS Flooding, TLAPS

---------------------------------------------------------------------------
\* What the helpers return.

LEMMA NextOriginated ==
    ASSUME NEW i \in {0} \cup Instance, 2 * (i \div 2) + 2 <= 2 * MaxInst
    PROVE  2 * (i \div 2) + 2 \in Instance /\ 2 * (i \div 2) + 2 > i
BY BoundAssumption DEF Instance

LEMMA MaxAgedInstance ==
    ASSUME NEW i \in Instance
    PROVE  MaxAged(i) \in Instance /\ MaxAged(i) >= i
BY BoundAssumption DEF Instance, MaxAged

LEMMA AdjacentRouters ==
    ASSUME NEW r \in Router, NEW x \in Net
    PROVE  Adjacent(r, x) \subseteq Router /\ Receivers(r, x) \subseteq Router
BY OnAssumption DEF Adjacent, Receivers

LEMMA SendType ==
    ASSUME NEW type \in {"LSU", "ACK"}, NEW r \in Router, NEW x \in Net,
           NEW to \in SUBSET Router, NEW k \in Key, NEW i \in Instance
    PROVE  Send(type, r, x, to, k, i) \subseteq Packet
BY DEF Send, Packet

LEMMA MulticastType ==
    ASSUME NEW type \in {"LSU", "ACK"}, NEW r \in Router, NEW x \in Net,
           NEW k \in Key, NEW i \in Instance
    PROVE  Multicast(type, r, x, k, i) \subseteq Packet
BY AdjacentRouters, SendType DEF Multicast

LEMMA FloodType ==
    ASSUME NEW r \in Router, NEW k \in Key, NEW i \in Instance, NEW s, NEW y
    PROVE  Flood(r, k, i, s, y) \subseteq Packet
<1> SUFFICES ASSUME NEW x \in Net PROVE Multicast("LSU", r, x, k, i) \subseteq Packet
    BY DEF Flood, FloodedOn
<1> QED BY MulticastType

\* The acknowledgments of the LSU handler.
LEMMA AckType ==
    ASSUME NEW m \in Packet
    PROVE  DirectAck(m.to, m) \subseteq Packet /\ DelayedAck(m.to, m) \subseteq Packet
<1>1. m.to \in Router /\ m.from \in Router /\ m.on \in Net /\ m.key \in Key /\ m.inst \in Instance
    BY DEF Packet
<1> QED BY <1>1, SendType, MulticastType DEF DirectAck, DelayedAck

\* What a timer of r resends.
Resent(r, x) ==
    UNION {UNION {Send("LSU", r, x, {n}, k, db[r][k]) :
                    k \in {j \in Page(r, x, n) : db[r][j] > 0}} : n \in Adjacent(r, x)}

LEMMA ResentMember ==
    ASSUME NEW r \in Router, NEW x \in Net, NEW p \in Resent(r, x)
    PROVE  \E n \in Adjacent(r, x), k \in Key :
              db[r][k] > 0 /\ p \in Send("LSU", r, x, {n}, k, db[r][k])
<1>1. \A n : Page(r, x, n) \subseteq Key
    BY DEF Page
<1>2. PICK n \in Adjacent(r, x) :
        p \in UNION {Send("LSU", r, x, {n}, k, db[r][k]) :
                        k \in {j \in Page(r, x, n) : db[r][j] > 0}}
    BY DEF Resent
<1>3. PICK k \in {j \in Page(r, x, n) : db[r][j] > 0} : p \in Send("LSU", r, x, {n}, k, db[r][k])
    BY <1>2
<1> QED BY <1>1, <1>3

---------------------------------------------------------------------------
\* Type correctness.

LEMMA TypeInit == Init => TypeOK
BY BoundAssumption DEF Init, TypeOK

LEMMA TypeOriginate ==
    ASSUME TypeOK, NEW r \in Router, Originate(r)
    PROVE  TypeOK'
<1>1. PICK k \in Key, y \in Net :
        LET i == 2 * (db[r][k] \div 2) + 2 IN
        /\ i <= 2 * MaxInst
        /\ db' = [db EXCEPT ![r][k] = i]
        /\ fresh' = fresh \cup Young(r, k)
        /\ rxmt' = rxmt \cup Listed(r, k, r, y)
        /\ net' = net \cup Flood(r, k, i, r, y)
        /\ UNCHANGED faults
    BY DEF Originate
<1> DEFINE i == 2 * (db[r][k] \div 2) + 2
<1>2. i \in Instance
    BY <1>1, NextOriginated DEF TypeOK
<1> HIDE DEF i
<1>3. db' \in [Router -> [Key -> {0} \cup Instance]]
    BY <1>1, <1>2 DEF TypeOK, i
<1>4. net' \subseteq Packet
    BY <1>1, <1>2, FloodType DEF TypeOK, i
<1> QED BY <1>1, <1>3, <1>4 DEF TypeOK, Listed, Young

LEMMA TypeHandleLSU ==
    ASSUME TypeOK, NEW m \in net, HandleLSU(m)
    PROVE  TypeOK'
<1> DEFINE r == m.to
<1>1. m \in Packet /\ r \in Router /\ m.from \in Router /\ m.on \in Net /\ m.key \in Key
      /\ m.inst \in Instance
    BY DEF TypeOK, Packet
<1> HIDE DEF r
<1>2. DirectAck(r, m) \subseteq Packet /\ DelayedAck(r, m) \subseteq Packet
    BY <1>1, AckType DEF r
<1>3. CASE Acknowledge(r, m)
    BY <1>2, <1>3 DEF TypeOK, Acknowledge, HandleLSU
<1>4. CASE Discard(r, m)
    BY <1>4 DEF TypeOK, Discard, HandleLSU
<1>5. CASE Install(r, m)
    <2> DEFINE i == IF Flushes(r, m) THEN MaxAged(m.inst) ELSE m.inst
    <2>1. i \in Instance
        BY <1>1, MaxAgedInstance
    <2>2. /\ rxmt' = Unlisted(r, m, rxmt \cup Listed(r, m.key, m.from, m.on))
          /\ db' = [db EXCEPT ![r][m.key] = i]
          /\ fresh' = fresh \cup Young(r, m.key)
          /\ net' = (net \ {m})
                \cup Flood(r, m.key, m.inst, m.from, m.on)
                \cup (IF Acknowledges(r, m) THEN DelayedAck(r, m) ELSE {})
                \cup (IF Flushes(r, m) THEN Send("LSU", r, m.on, {m.from}, m.key, i)
                      ELSE {})
        BY <1>5 DEF Install
    <2> HIDE DEF i
    <2>3. Flood(r, m.key, m.inst, m.from, m.on) \subseteq Packet
        BY <1>1, FloodType
    <2>4. Send("LSU", r, m.on, {m.from}, m.key, i) \subseteq Packet
        BY <1>1, <2>1, SendType
    <2>5. net' \subseteq Packet
        BY <1>2, <2>2, <2>3, <2>4 DEF TypeOK
    <2>6. db' \in [Router -> [Key -> {0} \cup Instance]]
        BY <1>1, <2>1, <2>2 DEF TypeOK
    <2>7. rxmt' \subseteq Entry
        BY <2>2 DEF TypeOK, Unlisted, Listed
    <2>8. fresh' \subseteq Router \X Key
        BY <1>1, <2>2 DEF TypeOK, Young
    <2> QED BY <2>5, <2>6, <2>7, <2>8 DEF TypeOK, HandleLSU
<1>6. CASE Duplicate(r, m)
    BY <1>2, <1>6 DEF TypeOK, Duplicate, HandleLSU
<1>7. CASE SendBack(r, m)
    <2>1. db[r][m.key] \in Instance
        BY <1>1, <1>7, BoundAssumption DEF TypeOK, SendBack, Instance
    <2>2. Send("LSU", r, m.on, {m.from}, m.key, db[r][m.key]) \subseteq Packet
        BY <1>1, <2>1, SendType
    <2> QED BY <1>7, <2>2 DEF TypeOK, SendBack, HandleLSU
<1>8. CASE Ignore(r, m)
    BY <1>8 DEF TypeOK, Ignore, HandleLSU
<1> QED BY <1>3, <1>4, <1>5, <1>6, <1>7, <1>8 DEF HandleLSU, r

LEMMA TypeRemove ==
    ASSUME TypeOK, NEW r \in Router, NEW k \in Key, Remove(r, k), faults' \in 0..MaxFaults
    PROVE  TypeOK'
BY DEF TypeOK, Remove

LEMMA TypeFault ==
    ASSUME TypeOK, NEW kind, Fault(kind)
    PROVE  faults' \in 0..MaxFaults
BY BoundAssumption DEF TypeOK, Fault

LEMMA TypeRetransmit ==
    ASSUME TypeOK, NEW r \in Router, NEW x \in Net, Retransmit(r, x)
    PROVE  TypeOK'
<1>1. Resent(r, x) \subseteq Packet
    <2>1. SUFFICES ASSUME NEW p \in Resent(r, x) PROVE p \in Packet
        OBVIOUS
    <2>2. PICK n \in Adjacent(r, x), k \in Key :
            db[r][k] > 0 /\ p \in Send("LSU", r, x, {n}, k, db[r][k])
        BY ResentMember
    <2>3. db[r][k] \in Instance /\ n \in Router
        BY <2>2, BoundAssumption, AdjacentRouters DEF TypeOK, Instance
    <2> QED BY <2>2, <2>3, SendType
<1> QED BY <1>1 DEF TypeOK, Retransmit, Resent

LEMMA TypeRestart ==
    ASSUME TypeOK, NEW r \in Router, Restart(r)
    PROVE  TypeOK'
<1>1. faults' \in 0..MaxFaults
    BY TypeFault DEF Restart
<1> QED BY <1>1 DEF TypeOK, Restart

LEMMA TypeNext == TypeOK /\ [Next]_vars => TypeOK'
<1> SUFFICES ASSUME TypeOK, [Next]_vars PROVE TypeOK'
    OBVIOUS
<1>1. CASE \E m \in net : HandleLSU(m)
    BY <1>1, TypeHandleLSU
<1>2. CASE \E m \in net : HandleAck(m)
    BY <1>2 DEF TypeOK, HandleAck
<1>3. CASE \E r \in Router : Originate(r)
    BY <1>3, TypeOriginate
<1>4. CASE \E r \in Router : Flushed(r)
    BY <1>4, TypeRemove DEF Flushed, TypeOK
<1>5. CASE \E r \in Router : Settle(r)
    BY <1>5 DEF TypeOK, Settle
<1>6. CASE \E r \in Router : Expire(r)
    BY <1>6, TypeRemove, TypeFault DEF Expire
<1>7. CASE \E r \in Router : Restart(r)
    BY <1>7, TypeRestart
<1>8. CASE \E r \in Router, x \in Net : Retransmit(r, x)
    BY <1>8, TypeRetransmit
<1>9. CASE Lose
    BY <1>9, TypeFault DEF TypeOK, Lose
<1>10. CASE UNCHANGED vars
    BY <1>10 DEF TypeOK, vars
<1> QED BY <1>1, <1>2, <1>3, <1>4, <1>5, <1>6, <1>7, <1>8, <1>9, <1>10 DEF Next

\* Databases hold instances that exist, and no packet names an LSA that has been
\* removed: the timer skips what it does not find (interface/state.rs:201).
THEOREM TypeCorrect == Spec => []TypeOK
<1> QED BY TypeInit, TypeNext, PTL DEF Spec

---------------------------------------------------------------------------
\* Databases go forward.

\* Over any order of arrival, with restarts and ends of lifetimes, a copy is
\* replaced by a newer instance or removed (handler/lsu.rs:63-66, 158).
THEOREM NeverBack == Spec => Forward
<1>1. TypeOK /\ [Next]_vars =>
        [\A r \in Router, k \in Key : db'[r][k] >= db[r][k] \/ db'[r][k] = 0]_vars
    <2> SUFFICES ASSUME TypeOK, Next, NEW r \in Router, NEW k \in Key
                 PROVE  db'[r][k] >= db[r][k] \/ db'[r][k] = 0
        OBVIOUS
    <2>0. db[r][k] \in {0} \cup Instance /\ db[r][k] \in Nat
        BY BoundAssumption DEF TypeOK, Instance
    <2>1. CASE UNCHANGED db
        BY <2>0, <2>1
    <2>2. CASE \E n \in Router : Originate(n)
        <3>1. PICK n \in Router, j \in Key :
                LET i == 2 * (db[n][j] \div 2) + 2 IN
                i <= 2 * MaxInst /\ db' = [db EXCEPT ![n][j] = i]
            BY <2>2 DEF Originate
        <3>2. db[n][j] \in {0} \cup Instance
            BY DEF TypeOK
        <3>3. 2 * (db[n][j] \div 2) + 2 > db[n][j]
            BY <3>1, <3>2, NextOriginated
        <3> DEFINE i == 2 * (db[n][j] \div 2) + 2
        <3>4. i \in Instance /\ i > db[n][j] /\ db' = [db EXCEPT ![n][j] = i]
            BY <3>1, <3>2, <3>3, NextOriginated
        <3> HIDE DEF i
        <3> QED BY <2>0, <3>4, BoundAssumption DEF TypeOK, Instance
    <2>3. CASE \E m \in net : HandleLSU(m) /\ Install(m.to, m)
        <3>1. PICK m \in net : Install(m.to, m)
            BY <2>3
        <3>2. m \in Packet /\ m.inst \in Instance /\ m.to \in Router /\ m.key \in Key
            BY DEF TypeOK, Packet
        <3> DEFINE i == IF Flushes(m.to, m) THEN MaxAged(m.inst) ELSE m.inst
        <3>3. i \in Instance /\ i >= m.inst
            BY <3>2, MaxAgedInstance, BoundAssumption DEF Instance
        <3>4. db' = [db EXCEPT ![m.to][m.key] = i] /\ db[m.to][m.key] < m.inst
            BY <3>1 DEF Install, NeedUpdate
        <3> HIDE DEF i
        <3> QED BY <2>0, <3>2, <3>3, <3>4, BoundAssumption DEF TypeOK, Instance
    <2>4. CASE \E n \in Router : Flushed(n) \/ Expire(n)
        <3>1. PICK n \in Router, j \in Key : db' = [db EXCEPT ![n][j] = 0]
            BY <2>4 DEF Flushed, Expire, Remove
        <3> QED BY <2>0, <3>1 DEF TypeOK
    <2>5. CASE \E n \in Router : Restart(n)
        BY <2>0, <2>5 DEF TypeOK, Restart
    <2>6. \A m \in net : HandleLSU(m) => UNCHANGED db \/ Install(m.to, m)
        BY DEF HandleLSU, Acknowledge, Discard, Duplicate, SendBack, Ignore
    <2> QED BY <2>1, <2>2, <2>3, <2>4, <2>5, <2>6 DEF Next, HandleAck, Settle, Retransmit, Lose
<1> QED BY <1>1, TypeCorrect, PTL DEF Spec, Forward

---------------------------------------------------------------------------
\* Where packets are lost and nothing else fails, no copy ever reaches MaxAge or
\* is removed.

LossOnly == FaultKinds \subseteq {"loss"}

\* Nothing is flushed,
Alive ==
    /\ \A r \in Router, k \in Key : ~AtMaxAge(db[r][k])
    /\ \A m \in net : ~AtMaxAge(m.inst)

\* the originator has the newest instance of its LSA,
Source == \A r \in Router, k \in Key : db[Origin[k]][k] >= db[r][k]

\* and whoever sent a packet has what it carries.
Held == \A m \in net : db[m.from][m.key] >= m.inst

IInv == TypeOK /\ Alive /\ Source /\ Held

LEMMA Sent ==
    ASSUME NEW type, NEW r, NEW x, NEW to, NEW k, NEW i,
           NEW p \in Send(type, r, x, to, k, i)
    PROVE  p.type = type /\ p.from = r /\ p.key = k /\ p.inst = i
BY DEF Send

LEMMA Flooded ==
    ASSUME NEW r, NEW k, NEW i, NEW s, NEW y, NEW p \in Flood(r, k, i, s, y)
    PROVE  p.from = r /\ p.key = k /\ p.inst = i
<1>1. PICK x \in FloodedOn(r, s, y) : p \in Multicast("LSU", r, x, k, i)
    BY DEF Flood
<1> QED BY <1>1, Sent DEF Multicast

LEMMA Acked ==
    ASSUME NEW r, NEW m, NEW p \in DirectAck(r, m) \cup DelayedAck(r, m)
    PROVE  p.from = r /\ p.key = m.key /\ p.inst = m.inst
BY Sent DEF DirectAck, DelayedAck, Multicast

LEMMA Values ==
    ASSUME TypeOK
    PROVE  /\ \A r \in Router, k \in Key : db[r][k] \in Nat
           /\ \A m \in net : /\ m.from \in Router /\ m.to \in Router /\ m.key \in Key
                            /\ m.inst \in Nat /\ m.inst > 0
BY BoundAssumption DEF TypeOK, Packet, Instance

\* A step that takes databases forward, and adds packets which their senders
\* can answer for, leaves Held alone.
LEMMA HeldStep ==
    ASSUME IInv, TypeOK', NEW new,
           net' \subseteq net \cup new,
           \A r \in Router, k \in Key : db'[r][k] >= db[r][k],
           \A p \in new : ~AtMaxAge(p.inst) /\ db'[p.from][p.key] >= p.inst
    PROVE  Held' /\ \A m \in net' : ~AtMaxAge(m.inst)
<1> SUFFICES ASSUME NEW m \in net' PROVE ~AtMaxAge(m.inst) /\ db'[m.from][m.key] >= m.inst
    BY DEF Held
<1>1. CASE m \in new
    BY <1>1
<1>2. CASE m \in net
    <2>1. /\ m.from \in Router /\ m.key \in Key /\ m.inst \in Nat
          /\ db[m.from][m.key] \in Nat /\ db[m.from][m.key] >= m.inst
        BY <1>2, Values DEF IInv, Held
    <2>2. db'[m.from][m.key] \in Nat /\ db'[m.from][m.key] >= db[m.from][m.key]
        BY <2>1, BoundAssumption DEF TypeOK, Instance
    <2> QED BY <1>2, <2>1, <2>2 DEF IInv, Alive
<1> QED BY <1>1, <1>2

LEMMA HonestInit == Init => IInv
BY TypeInit, OriginAssumption DEF Init, IInv, Alive, Source, Held, AtMaxAge

\* What the packets of a step that leaves the databases alone must be.
LEMMA QuietStep ==
    ASSUME IInv, TypeOK', UNCHANGED db, NEW new,
           net' \subseteq net \cup new,
           \A p \in new : p.from \in Router /\ p.key \in Key /\ p.inst = db[p.from][p.key]
    PROVE  IInv'
<1>1. \A r \in Router, k \in Key : db'[r][k] >= db[r][k]
    BY Values DEF IInv
<1>2. \A p \in new : ~AtMaxAge(p.inst) /\ db'[p.from][p.key] >= p.inst
    BY Values DEF IInv, Alive
<1>3. Held' /\ \A m \in net' : ~AtMaxAge(m.inst)
    BY <1>1, <1>2, HeldStep
<1> QED BY <1>3 DEF IInv, Alive, Source

LEMMA LosingStep ==
    ASSUME IInv, TypeOK', UNCHANGED db, net' \subseteq net
    PROVE  IInv'
<1> DEFINE new == {}
<1>1. net' \subseteq net \cup new
    OBVIOUS
<1>2. \A p \in new : p.from \in Router /\ p.key \in Key /\ p.inst = db[p.from][p.key]
    OBVIOUS
<1> HIDE DEF new
<1> QED BY <1>1, <1>2, QuietStep

\* An instance that is newer than r's copy comes to r as another router's LSA,
LEMMA NewsIsForeign ==
    ASSUME IInv, NEW m \in net, NeedUpdate(m.to, m)
    PROVE  Origin[m.key] # m.to /\ db[Origin[m.key]][m.key] >= m.inst
<1>1. /\ m.from \in Router /\ m.to \in Router /\ m.key \in Key /\ m.inst \in Nat
      /\ Origin[m.key] \in Router
    BY Values, OriginAssumption DEF IInv
<1>2. /\ db[m.from][m.key] \in Nat /\ db[m.to][m.key] \in Nat
      /\ db[Origin[m.key]][m.key] \in Nat
    BY <1>1, Values DEF IInv
<1>3. db[m.from][m.key] >= m.inst /\ db[Origin[m.key]][m.key] >= db[m.from][m.key]
    BY <1>1 DEF IInv, Held, Source
<1> QED BY <1>1, <1>2, <1>3 DEF NeedUpdate

\* so it is installed as it is.
LEMMA InstalledAsIs ==
    ASSUME IInv, NEW m \in net, Install(m.to, m)
    PROVE  /\ ~Flushes(m.to, m)
           /\ db[m.to][m.key] < m.inst
           /\ db' = [db EXCEPT ![m.to][m.key] = m.inst]
           /\ rxmt' = Unlisted(m.to, m, rxmt \cup Listed(m.to, m.key, m.from, m.on))
           /\ net' \subseteq net \cup Flood(m.to, m.key, m.inst, m.from, m.on)
                            \cup DelayedAck(m.to, m)
<1>1. NeedUpdate(m.to, m)
    BY DEF Install
<1>2. ~Flushes(m.to, m)
    BY <1>1, NewsIsForeign DEF Flushes
<1> QED BY <1>1, <1>2 DEF Install, NeedUpdate

LEMMA HonestOriginate ==
    ASSUME IInv, TypeOK', NEW r \in Router, Originate(r)
    PROVE  IInv'
<1>1. PICK k \in Key, y \in Net :
        LET i == 2 * (db[r][k] \div 2) + 2 IN
        /\ Origin[k] = r /\ i <= 2 * MaxInst
        /\ db' = [db EXCEPT ![r][k] = i]
        /\ net' = net \cup Flood(r, k, i, r, y)
    BY DEF Originate
<1> DEFINE i == 2 * (db[r][k] \div 2) + 2
<1>2. db[r][k] \in {0} \cup Instance /\ db[r][k] \in Nat
    BY Values DEF IInv, TypeOK
<1>3. i \in Nat /\ i > db[r][k] /\ ~AtMaxAge(i)
    BY <1>1, <1>2, NextOriginated, BoundAssumption DEF Instance, AtMaxAge
<1>4. /\ Origin[k] = r /\ db' = [db EXCEPT ![r][k] = i]
      /\ net' = net \cup Flood(r, k, i, r, y)
    BY <1>1
<1> HIDE DEF i
<1>5. db'[r][k] = i
      /\ \A n \in Router, j \in Key : <<n, j>> # <<r, k>> => db'[n][j] = db[n][j]
    BY <1>4 DEF IInv, TypeOK
<1>6. \A n \in Router, j \in Key : db'[n][j] >= db[n][j]
    BY <1>3, <1>5, Values DEF IInv
<1>7. \A p \in Flood(r, k, i, r, y) : ~AtMaxAge(p.inst) /\ db'[p.from][p.key] >= p.inst
    BY <1>3, <1>5, Flooded
<1>8. Held' /\ \A m \in net' : ~AtMaxAge(m.inst)
    BY <1>4, <1>6, <1>7, HeldStep
<1>9. Source'
    <2> SUFFICES ASSUME NEW n \in Router, NEW j \in Key PROVE db'[Origin[j]][j] >= db'[n][j]
        BY DEF Source
    <2>1. /\ Origin[j] \in Router /\ db[n][j] \in Nat /\ db[Origin[j]][j] \in Nat
          /\ db[Origin[j]][j] >= db[n][j]
        BY OriginAssumption, Values DEF IInv, Source
    <2> QED BY <1>3, <1>4, <1>5, <2>1
<1>10. \A n \in Router, j \in Key : ~AtMaxAge(db'[n][j])
    BY <1>3, <1>5 DEF IInv, Alive
<1> QED BY <1>8, <1>9, <1>10 DEF IInv, Alive

LEMMA HonestInstall ==
    ASSUME IInv, TypeOK', NEW m \in net, Install(m.to, m)
    PROVE  IInv'
<1>1. /\ m.from \in Router /\ m.to \in Router /\ m.key \in Key /\ m.inst \in Nat
      /\ db[m.to][m.key] \in Nat /\ ~AtMaxAge(m.inst)
    BY Values DEF IInv, Alive
<1> DEFINE new == Flood(m.to, m.key, m.inst, m.from, m.on) \cup DelayedAck(m.to, m)
<1>2. /\ db[m.to][m.key] < m.inst
      /\ db' = [db EXCEPT ![m.to][m.key] = m.inst]
      /\ net' \subseteq net \cup new
    BY InstalledAsIs
<1>3. db'[m.to][m.key] = m.inst
      /\ \A n \in Router, j \in Key : <<n, j>> # <<m.to, m.key>> => db'[n][j] = db[n][j]
    BY <1>1, <1>2 DEF IInv, TypeOK
<1>4. \A n \in Router, j \in Key : db'[n][j] >= db[n][j]
    BY <1>1, <1>2, <1>3, Values DEF IInv
<1>5. \A p \in new : ~AtMaxAge(p.inst) /\ db'[p.from][p.key] >= p.inst
    BY <1>1, <1>3, Flooded, Acked
<1> HIDE DEF new
<1>6. Held' /\ \A p \in net' : ~AtMaxAge(p.inst)
    BY <1>2, <1>4, <1>5, HeldStep
<1>7. Source'
    <2> SUFFICES ASSUME NEW n \in Router, NEW j \in Key PROVE db'[Origin[j]][j] >= db'[n][j]
        BY DEF Source
    <2>1. /\ Origin[j] \in Router /\ db[n][j] \in Nat /\ db[Origin[j]][j] \in Nat
          /\ db[Origin[j]][j] >= db[n][j]
        BY OriginAssumption, Values DEF IInv, Source
    <2>2. Origin[m.key] # m.to /\ db[Origin[m.key]][m.key] >= m.inst
        BY NewsIsForeign DEF Install
    <2> QED BY <1>1, <1>3, <2>1, <2>2
<1>8. \A n \in Router, j \in Key : ~AtMaxAge(db'[n][j])
    BY <1>1, <1>3 DEF IInv, Alive
<1> QED BY <1>6, <1>7, <1>8 DEF IInv, Alive

LEMMA HonestHandleLSU ==
    ASSUME IInv, TypeOK', NEW m \in net, HandleLSU(m)
    PROVE  IInv'
<1>1. m.from \in Router /\ m.to \in Router /\ m.key \in Key /\ m.inst \in Nat
    BY Values DEF IInv
<1>2. CASE Acknowledge(m.to, m)
    BY <1>2 DEF Acknowledge, Unknown, IInv, Alive
<1>3. CASE Discard(m.to, m) \/ Ignore(m.to, m)
    <2>1. UNCHANGED db /\ net' \subseteq net
        BY <1>3 DEF Discard, Ignore
    <2> QED BY <2>1, LosingStep
<1>4. CASE Install(m.to, m)
    BY <1>4, HonestInstall
<1>5. CASE Duplicate(m.to, m)
    <2> DEFINE new == DirectAck(m.to, m) \cup DelayedAck(m.to, m)
    <2>1. UNCHANGED db /\ net' \subseteq net \cup new
        BY <1>5 DEF Duplicate
    <2>2. \A p \in new : p.from \in Router /\ p.key \in Key /\ p.inst = db[p.from][p.key]
        BY <1>1, <1>5, Acked DEF Duplicate
    <2> HIDE DEF new
    <2> QED BY <2>1, <2>2, QuietStep
<1>6. CASE SendBack(m.to, m)
    <2> DEFINE new == Send("LSU", m.to, m.on, {m.from}, m.key, db[m.to][m.key])
    <2>1. UNCHANGED db /\ net' \subseteq net \cup new
        BY <1>6 DEF SendBack
    <2>2. \A p \in new : p.from \in Router /\ p.key \in Key /\ p.inst = db[p.from][p.key]
        BY <1>1, Sent
    <2> HIDE DEF new
    <2> QED BY <2>1, <2>2, QuietStep
<1> QED BY <1>2, <1>3, <1>4, <1>5, <1>6 DEF HandleLSU

LEMMA HonestRetransmit ==
    ASSUME IInv, TypeOK', NEW r \in Router, NEW x \in Net, Retransmit(r, x)
    PROVE  IInv'
<1>1. UNCHANGED db /\ net' \subseteq net \cup Resent(r, x)
    BY DEF Retransmit, Resent
<1>2. \A p \in Resent(r, x) : p.from \in Router /\ p.key \in Key /\ p.inst = db[p.from][p.key]
    <2> SUFFICES ASSUME NEW p \in Resent(r, x)
                 PROVE  p.from \in Router /\ p.key \in Key /\ p.inst = db[p.from][p.key]
        OBVIOUS
    <2>1. PICK n \in Adjacent(r, x), k \in Key :
            p \in Send("LSU", r, x, {n}, k, db[r][k])
        BY ResentMember
    <2> QED BY <2>1, Sent
<1> QED BY <1>1, <1>2, QuietStep

LEMMA NothingRemoved ==
    ASSUME LossOnly, IInv, NEW r \in Router
    PROVE  ~Flushed(r) /\ ~Expire(r) /\ ~Restart(r)
BY DEF LossOnly, IInv, Alive, Flushed, Expire, Restart, Fault

LEMMA HonestNext == LossOnly /\ IInv /\ [Next]_vars => IInv'
<1> SUFFICES ASSUME LossOnly, IInv, [Next]_vars PROVE IInv'
    OBVIOUS
<1>0. TypeOK'
    BY TypeNext DEF IInv
<1>1. CASE \E m \in net : HandleLSU(m)
    BY <1>0, <1>1, HonestHandleLSU
<1>2. CASE (\E m \in net : HandleAck(m)) \/ Lose \/ (\E r \in Router : Settle(r)) \/ UNCHANGED vars
    <2>1. UNCHANGED db /\ net' \subseteq net
        BY <1>2 DEF HandleAck, Lose, Settle, vars
    <2> QED BY <1>0, <2>1, LosingStep
<1>3. CASE \E r \in Router : Originate(r)
    BY <1>0, <1>3, HonestOriginate
<1>4. CASE \E r \in Router, x \in Net : Retransmit(r, x)
    BY <1>0, <1>4, HonestRetransmit
<1> QED BY <1>1, <1>2, <1>3, <1>4, NothingRemoved DEF Next

\* Where packets are only lost, whoever acknowledges an instance has it or a
\* newer one (handler/lsu.rs, steps 5e and 7).
THEOREM AcksAreHonest == LossOnly /\ Spec => []NoFalseAck
<1> SUFFICES ASSUME LossOnly PROVE Spec => []NoFalseAck
    OBVIOUS
<1>1. IInv => NoFalseAck
    BY DEF IInv, Held, NoFalseAck
<1>2. IInv /\ [Next]_vars => IInv'
    BY HonestNext
<1> QED BY <1>1, <1>2, HonestInit, PTL DEF Spec

---------------------------------------------------------------------------
\* The first instance of an LSA.

\* No LSA is originated twice, so whoever has a copy has the same.
LEMMA OneInstance ==
    ASSUME IInv, MaxInst <= 1
    PROVE  /\ \A r \in Router, k \in Key : db[r][k] \in {0, 2}
           /\ \A m \in net : m.inst = 2
<1>1. \A i \in {0} \cup Instance : ~AtMaxAge(i) => i \in {0, 2}
    <2> SUFFICES ASSUME NEW i \in Nat, i <= 3, i % 2 # 1 PROVE i \in {0, 2}
        BY BoundAssumption DEF Instance, AtMaxAge
    <2>1. i = 0 \/ i = 1 \/ i = 2 \/ i = 3
        OBVIOUS
    <2> QED BY <2>1
<1>2. \A m \in net : m.inst \in Instance
    BY DEF IInv, TypeOK, Packet
<1> QED BY <1>1, <1>2, Values DEF IInv, TypeOK, Alive

\* An entry that a step takes away was for a neighbor that has the LSA.
LEMMA ListedStep ==
    ASSUME IInv, IInv', MaxInst <= 1, UnackedListed, UNCHANGED db,
           \A r \in Router, x \in Net, n \in Router, k \in Key :
              LET e == [by |-> r, on |-> x, to |-> n, key |-> k] IN
              e \in rxmt /\ e \notin rxmt' => db[n][k] >= db[r][k]
    PROVE  UnackedListed'
<1> SUFFICES ASSUME NEW r \in Router, NEW x \in Net, NEW k \in Key, NEW n \in Adjacent(r, x),
                    db'[r][k] > db'[n][k]
             PROVE  [by |-> r, on |-> x, to |-> n, key |-> k] \in rxmt'
    BY DEF UnackedListed, Adjacent
<1>1. n \in Router
    BY AdjacentRouters
<1>2. db[r][k] > db[n][k] /\ ~(db[n][k] >= db[r][k])
    BY <1>1, Values DEF IInv
<1> QED BY <1>1, <1>2 DEF UnackedListed

\* A router that installs what it did not have lists it for everyone but the
\* sender.
LEMMA ListedInstall ==
    ASSUME IInv, IInv', MaxInst <= 1, UnackedListed, NEW m \in net, Install(m.to, m)
    PROVE  UnackedListed'
<1> SUFFICES ASSUME NEW r \in Router, NEW x \in Net, NEW k \in Key, NEW n \in Adjacent(r, x),
                    db'[r][k] > db'[n][k]
             PROVE  [by |-> r, on |-> x, to |-> n, key |-> k] \in rxmt'
    BY DEF UnackedListed, Adjacent
<1>1. /\ m.to \in Router /\ m.key \in Key /\ m.from \in Router /\ n \in Router /\ m.inst = 2
      /\ db[m.to][m.key] \in {0, 2} /\ db[n][k] \in {0, 2} /\ db[r][k] \in {0, 2}
    BY Values, OneInstance, AdjacentRouters DEF IInv
<1>2. /\ db[m.to][m.key] = 0
      /\ db' = [db EXCEPT ![m.to][m.key] = 2]
      /\ rxmt' = rxmt \cup Listed(m.to, m.key, m.from, m.on)
    BY <1>1, InstalledAsIs DEF Unlisted
<1>3. db'[m.to][m.key] = 2
      /\ \A q \in Router, j \in Key : <<q, j>> # <<m.to, m.key>> => db'[q][j] = db[q][j]
    BY <1>1, <1>2 DEF IInv, TypeOK
<1>4. CASE r = m.to /\ k = m.key
    <2>1. ~(n = m.from /\ x = m.on)
        <3>1. db[m.from][m.key] >= 2
            BY <1>1 DEF IInv, Held
        <3>2. db[m.from][m.key] = 2
            BY <1>1, <3>1, OneInstance
        <3> QED BY <1>1, <1>3, <1>4, <3>2
    <2> QED BY <1>1, <1>2, <1>4, <2>1 DEF Listed, Wanting, Entry
<1>5. CASE ~(r = m.to /\ k = m.key)
    <2>1. db[r][k] > db[n][k]
        BY <1>1, <1>3, <1>5
    <2> QED BY <1>2, <2>1 DEF UnackedListed
<1> QED BY <1>4, <1>5

\* So does the originator.
LEMMA ListedOriginate ==
    ASSUME IInv, IInv', MaxInst <= 1, UnackedListed, NEW o \in Router, Originate(o)
    PROVE  UnackedListed'
<1> SUFFICES ASSUME NEW r \in Router, NEW x \in Net, NEW k \in Key, NEW n \in Adjacent(r, x),
                    db'[r][k] > db'[n][k]
             PROVE  [by |-> r, on |-> x, to |-> n, key |-> k] \in rxmt'
    BY DEF UnackedListed, Adjacent
<1>1. n \in Router /\ n # r
    BY AdjacentRouters DEF Adjacent
<1>2. PICK j \in Key, y \in Net :
        /\ 2 * (db[o][j] \div 2) + 2 <= 2 * MaxInst
        /\ db' = [db EXCEPT ![o][j] = 2 * (db[o][j] \div 2) + 2]
        /\ rxmt' = rxmt \cup Listed(o, j, o, y)
    BY DEF Originate
<1>3. /\ \A q \in Router, i \in Key : <<q, i>> # <<o, j>> => db'[q][i] = db[q][i]
      /\ db'[o][j] = 2 * (db[o][j] \div 2) + 2
    BY <1>2 DEF IInv, TypeOK
<1>4. db[o][j] \in {0, 2} /\ db[r][k] \in {0, 2} /\ db[n][k] \in {0, 2}
    BY <1>1, OneInstance
<1>5. db'[o][j] = 2
    <2>1. ~(4 <= 2 * MaxInst)
        BY BoundAssumption
    <2>2. db[o][j] = 2 => 2 * (db[o][j] \div 2) + 2 = 4
        OBVIOUS
    <2> QED BY <1>2, <1>3, <1>4, <2>1, <2>2
<1>6. CASE r = o /\ k = j
    BY <1>1, <1>2, <1>6 DEF Listed, Wanting, Entry
<1>7. CASE ~(r = o /\ k = j)
    <2>1. db[r][k] > db[n][k]
        BY <1>1, <1>3, <1>4, <1>5, <1>7
    <2> QED BY <1>2, <2>1 DEF UnackedListed
<1> QED BY <1>6, <1>7

LEMMA ListedNext ==
    ASSUME LossOnly, MaxInst <= 1, IInv, IInv', UnackedListed, [Next]_vars
    PROVE  UnackedListed'
<1>1. CASE \E m \in net : HandleLSU(m)
    <2>1. PICK m \in net : HandleLSU(m)
        BY <1>1
    <2>2. CASE Install(m.to, m)
        BY <2>2, ListedInstall
    <2>3. CASE Duplicate(m.to, m)
        <3>1. UNCHANGED db /\ db[m.to][m.key] = m.inst
              /\ rxmt' = rxmt \ {[by |-> m.to, on |-> m.on, to |-> m.from, key |-> m.key]}
            BY <2>3 DEF Duplicate
        <3>2. db[m.from][m.key] >= db[m.to][m.key]
            BY <3>1 DEF IInv, Held
        <3> QED BY <3>1, <3>2, ListedStep
    <2>4. CASE UNCHANGED <<db, rxmt>>
        BY <2>4, ListedStep
    <2> QED BY <2>1, <2>2, <2>3, <2>4 DEF HandleLSU, Acknowledge, Discard, SendBack, Ignore
<1>2. CASE \E m \in net : HandleAck(m)
    <2>1. PICK m \in net : HandleAck(m)
        BY <1>2
    <2>2. UNCHANGED db
          /\ rxmt' = rxmt \ {[by |-> m.to, on |-> m.on, to |-> m.from, key |-> m.key]}
        BY <2>1 DEF HandleAck
    <2>3. m.to \in Router /\ m.key \in Key /\ m.from \in Router
        BY Values DEF IInv
    <2>4. m.inst = 2 /\ db[m.to][m.key] \in {0, 2} /\ db[m.from][m.key] >= m.inst
          /\ db[m.from][m.key] \in Nat
        BY <2>3, OneInstance, Values DEF IInv, Held
    <2>5. db[m.from][m.key] >= db[m.to][m.key]
        BY <2>4
    <2> QED BY <2>2, <2>5, ListedStep
<1>3. CASE \E r \in Router : Originate(r)
    BY <1>3, ListedOriginate
<1>4. CASE UNCHANGED <<db, rxmt>>
    BY <1>4, ListedStep
<1> QED BY <1>1, <1>2, <1>3, <1>4, NothingRemoved DEF Next, Settle, Retransmit, Lose, vars

\* Where packets are only lost, in any topology, a router that has the first
\* instance of an LSA has it on its list for every neighbor that lacks it
\* (neighbor/mod.rs:38).  For the second instance this is false (run relist).
THEOREM FirstIsListed == LossOnly /\ MaxInst <= 1 /\ Spec => []UnackedListed
<1> SUFFICES ASSUME LossOnly, MaxInst <= 1 PROVE Spec => []UnackedListed
    OBVIOUS
<1>1. Init => UnackedListed
    BY AdjacentRouters DEF Init, UnackedListed
<1>2. IInv /\ [Next]_vars => IInv'
    BY HonestNext
<1>3. IInv /\ IInv' /\ UnackedListed /\ [Next]_vars => UnackedListed'
    BY ListedNext
<1> QED BY <1>1, <1>2, <1>3, HonestInit, PTL DEF Spec
=============================================================================
