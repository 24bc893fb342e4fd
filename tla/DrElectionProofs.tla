--------------------------- MODULE DrElectionProofs ---------------------------
(***************************************************************************)
(* Invariants of module DrElection, for any set of routers, priorities and *)
(* faults.                                                                 *)
(***************************************************************************)
EXTENDS DrElection, WellFoundedInduction, TLAPS

---------------------------------------------------------------------------
(* The best candidate exists.                                              *)

\* A set of numbers that is not empty has a smallest one.
LEMMA SmallestExists ==
  ASSUME NEW S \in SUBSET Nat, S # {}
  PROVE  \E i \in S : \A j \in S : i <= j
  <1> DEFINE less == OpToRel(<, Nat)
  <1>1. PICK i \in S : \A j \in S : <<j, i>> \notin less
    BY NatLessThanWellFounded, WFMin
  <1>2. \A j \in S : ~ (j < i)
    BY <1>1 DEF OpToRel
  <1> QED BY <1>2

\* What the election compares.
Comparable(c) == c.priority \in Byte /\ c.id \in 1..MaxAddress

\* Counting priorities down from the highest reverses their order.
LEMMA ComplementReverses ==
  ASSUME NEW x \in Byte, NEW y \in Byte, MaxPriority - x <= MaxPriority - y
  PROVE  x >= y
  <1>1. x \in Int /\ y \in Int /\ MaxPriority \in Int
    BY DEF Byte, MaxPriority
  <1> HIDE DEF Byte, MaxPriority
  <1> QED BY <1>1

\* Among candidates one beats all: first the priority decides, then the id.
LEMMA BestExists ==
  ASSUME NEW S, S # {}, \A c \in S : Comparable(c)
  PROVE  \E c \in S : \A d \in S : Beats(c, d)
  <1> DEFINE P == {MaxPriority - c.priority : c \in S}
  <1>1. P \in SUBSET Nat /\ P # {}
    BY DEF Comparable, Byte, MaxPriority
  <1>2. PICK p \in P : \A q \in P : p <= q
    BY <1>1, SmallestExists
  <1>3. PICK b \in S : MaxPriority - b.priority = p
    BY <1>2
  <1>4. ASSUME NEW d \in S PROVE b.priority >= d.priority
    <2>1. b.priority \in Byte /\ d.priority \in Byte
      BY DEF Comparable
    <2>2. MaxPriority - d.priority \in P
      OBVIOUS
    <2>3. MaxPriority - b.priority <= MaxPriority - d.priority
      BY <1>2, <1>3, <2>2
    <2> QED BY <2>1, <2>3, ComplementReverses
  <1> DEFINE T == {c \in S : c.priority = b.priority}
             I == {MaxAddress - c.id : c \in T}
  <1>5. I \in SUBSET Nat /\ I # {}
    BY <1>3, RouterAssumption DEF Comparable
  <1>6. PICK i \in I : \A j \in I : i <= j
    BY <1>5, SmallestExists
  <1>7. PICK c \in T : MaxAddress - c.id = i
    BY <1>6
  <1>8. \A d \in T : c.id >= d.id
    BY <1>6, <1>7, RouterAssumption DEF Comparable
  <1>9. ASSUME NEW d \in S PROVE Beats(c, d)
    <2>1. CASE d.priority = b.priority
      BY <2>1, <1>7, <1>8 DEF Beats
    <2>2. CASE d.priority # b.priority
      BY <2>2, <1>4, <1>7 DEF Beats, Comparable, Byte
    <2> QED BY <2>1, <2>2
  <1> QED BY <1>7, <1>9

\* Whoever is chosen is one of the candidates, or nobody.
LEMMA BestIsOne ==
  ASSUME NEW S, \A c \in S : Comparable(c)
  PROVE  Best(S) = None \/ \E c \in S : Best(S) = c.id
  BY BestExists DEF Best

LEMMA ElectedIsOne ==
  ASSUME NEW S, \A c \in S : Comparable(c), NEW x \in {ElectDR(S), ElectBDR(S)}
  PROVE  x = None \/ \E c \in S : x = c.id
  <1> DEFINE rest == {c \in S : ~ClaimsDR(c)}
             backups == {c \in rest : ClaimsBDR(c)}
             claims == {c \in S : ClaimsDR(c)}
  <1>1. \A R \in {rest, backups, claims} : Best(R) = None \/ \E c \in S : Best(R) = c.id
    BY BestIsOne
  <1>2. ElectBDR(S) \in {Best(rest), Best(backups)}
    BY DEF ElectBDR
  <1>3. ElectDR(S) \in {ElectBDR(S), Best(claims)}
    BY DEF ElectDR
  <1> QED BY <1>1, <1>2, <1>3

---------------------------------------------------------------------------
(* The election leaves a good interface, whatever it started from.         *)

\* A well formed interface of r, on which r is not its own neighbor.
Typed(r, f) == f \in Interface /\ f.nbr[r] = NewNeighbor

HeardBy(r, f) ==
    \A d \in {f.dr, f.bdr} \ {None, r} : f.nbr[d].state \in Bidirectional

Follows(r, f, s) ==
    (Priority[r] > 0 /\ f.state \in Elected /\ f.nbr[s].state \in Bidirectional)
        => (f.nbr[s].state = "Adj" <=> JudgeConnect(r, f, s))

\* Before the first election there is no DR and no BDR.
Idle(f) == f.state \notin Elected => f.dr = None /\ f.bdr = None

Good(r, f) == HeardBy(r, f) /\ (\A s \in Router : Follows(r, f, s)) /\ Idle(f)

\* The candidates are r and the neighbors it hears and that hear it.
LEMMA CandidatesHeard ==
  ASSUME NEW r \in Router, NEW f, Typed(r, f), NEW c \in Candidates(r, f)
  PROVE  /\ Comparable(c)
         /\ c.id \in Router
         /\ c.id = r \/ f.nbr[c.id].state \in Bidirectional
  <1>1. CASE c = Candidate(r, Priority[r], f.dr, f.bdr)
    BY <1>1, RouterAssumption, PriorityAssumption DEF Candidate, Comparable
  <1>2. CASE \E s \in {t \in Router : f.nbr[t].state \in Bidirectional} :
               c = Candidate(s, f.nbr[s].priority, f.nbr[s].dr, f.nbr[s].bdr)
    BY <1>2, RouterAssumption DEF Candidate, Comparable, Typed, Interface, Neighbor
  <1> QED BY <1>1, <1>2 DEF Candidates

\* AdjOK? changes nothing but the states of neighbors that are heard.
LEMMA AdjOkEffect ==
  ASSUME NEW r \in Router, NEW f, Typed(r, f)
  PROVE  /\ Typed(r, AdjOk(r, f))
         /\ AdjOk(r, f).dr = f.dr /\ AdjOk(r, f).bdr = f.bdr
         /\ AdjOk(r, f).state = f.state
         /\ \A s \in Router :
              /\ AdjOk(r, f).nbr[s].state \in Bidirectional <=> f.nbr[s].state \in Bidirectional
              /\ Follows(r, AdjOk(r, f), s)
  <1> DEFINE g == AdjOk(r, f)
             n(s) == IF f.nbr[s].state \notin Bidirectional THEN f.nbr[s]
                     ELSE [f.nbr[s] EXCEPT !.state =
                             IF JudgeConnect(r, f, s) THEN "Adj" ELSE "TwoWay"]
  <1>1. f \in Interface
    BY DEF Typed
  <1>2. g = [f EXCEPT !.nbr = [s \in Router |-> n(s)]]
    BY DEF AdjOk
  <1>3. ASSUME NEW s \in Router
        PROVE  /\ n(s) \in Neighbor
               /\ n(s).dr = f.nbr[s].dr /\ n(s).bdr = f.nbr[s].bdr
               /\ n(s).state \in Bidirectional <=> f.nbr[s].state \in Bidirectional
               /\ f.nbr[s].state \in Bidirectional
                    => (n(s).state = "Adj" <=> JudgeConnect(r, f, s))
    <2>1. f.nbr[s] \in Neighbor
      BY <1>1 DEF Interface
    <2> QED BY <2>1 DEF Neighbor, NeighborState, Bidirectional
  <1> HIDE DEF n
  <1>4. /\ g.dr = f.dr /\ g.bdr = f.bdr /\ g.state = f.state
        /\ g.nbr = [s \in Router |-> n(s)]
        /\ g \in Interface
    BY <1>1, <1>2, <1>3 DEF Interface
  <1>5. n(r) = NewNeighbor
    BY DEF Typed, n, NewNeighbor, Bidirectional
  <1> HIDE DEF g
  <1>6. ASSUME NEW s \in Router PROVE JudgeConnect(r, g, s) <=> JudgeConnect(r, f, s)
    BY <1>3, <1>4 DEF JudgeConnect
  <1>7. Typed(r, g)
    BY <1>4, <1>5 DEF Typed
  <1>8. ASSUME NEW s \in Router
        PROVE  /\ g.nbr[s].state \in Bidirectional <=> f.nbr[s].state \in Bidirectional
               /\ Follows(r, g, s)
    BY <1>3, <1>4, <1>6 DEF Follows
  <1> QED BY <1>4, <1>7, <1>8 DEF g

\* The election gives roles only to r and to neighbors that are heard, and
\* makes the adjacencies follow.
LEMMA SelectDrGood ==
  ASSUME NEW r \in Router, NEW f, Typed(r, f)
  PROVE  /\ Typed(r, SelectDr(r, f))
         /\ Good(r, SelectDr(r, f))
         /\ SelectDr(r, f).state \in Elected
  <1> DEFINE S   == Candidates(r, f)
             dr  == ElectDR(S)
             bdr == IF ElectBDR(S) = dr THEN None ELSE ElectBDR(S)
             st  == IF dr = r THEN "DR" ELSE IF bdr = r THEN "Backup" ELSE "DROther"
             g   == [f EXCEPT !.dr = dr, !.bdr = bdr, !.state = st]
  <1>1. \A x \in {dr, bdr} :
          x = None \/ (x \in Router /\ (x = r \/ f.nbr[x].state \in Bidirectional))
    <2>1. \A c \in S : Comparable(c)
      BY CandidatesHeard
    <2>2. \A x \in {ElectDR(S), ElectBDR(S)} : x = None \/ \E c \in S : x = c.id
      BY <2>1, ElectedIsOne
    <2> QED BY <2>2, CandidatesHeard
  <1>2. SelectDr(r, f) = AdjOk(r, g)
    BY DEF SelectDr
  <1> HIDE DEF dr, bdr
  <1>3. /\ g.dr = dr /\ g.bdr = bdr /\ g.nbr = f.nbr /\ g.state \in Elected
        /\ Typed(r, g)
    BY <1>1 DEF Typed, Interface, Designated, InterfaceState, Elected
  <1> HIDE DEF g
  <1>4. HeardBy(r, AdjOk(r, g))
    BY <1>1, <1>3, AdjOkEffect DEF HeardBy
  <1> QED BY <1>2, <1>3, <1>4, AdjOkEffect DEF Good, Idle

\* So do the events that may elect.
LEMMA NeighborChangeGood ==
  ASSUME NEW r \in Router, NEW f, Typed(r, f)
  PROVE  /\ Typed(r, NeighborChange(r, f))
         /\ f.state \in Elected => NeighborChange(r, f).state \in Elected
         /\ f.state \in Elected \/ Good(r, f) => Good(r, NeighborChange(r, f))
  BY SelectDrGood DEF NeighborChange

LEMMA WaitOverGood ==
  ASSUME NEW r \in Router, NEW f, Typed(r, f)
  PROVE  /\ Typed(r, WaitOver(r, f))
         /\ f.state \in Elected => WaitOver(r, f) = f
         /\ f.state = "Waiting" \/ Good(r, f) => Good(r, WaitOver(r, f))
  BY SelectDrGood DEF WaitOver, Elected

\* A neighbor that is lost takes its role and its adjacency with it.
LEMMA LostGood ==
  ASSUME NEW r \in Router, NEW s \in Router \ {r}, NEW f, Typed(r, f), Idle(f),
         NEW state \in {"Init", "Down"}
  PROVE  Typed(r, Lost(r, f, s, state)) /\ Good(r, Lost(r, f, s, state))
  <1> DEFINE g == [f EXCEPT !.nbr[s].state = state]
  <1>1. Typed(r, g) /\ g.state = f.state /\ Idle(g)
    BY DEF Typed, Interface, Neighbor, NeighborState, Idle
  <1>2. CASE g.state \in Elected
    BY <1>1, <1>2, NeighborChangeGood DEF Lost
  <1>3. CASE g.state \notin Elected
    <2> HIDE DEF g
    <2>1. Good(r, g)
      BY <1>1, <1>3 DEF Good, HeardBy, Follows, Idle
    <2> QED BY <1>1, <2>1, NeighborChangeGood DEF Lost, g
  <1> QED BY <1>2, <1>3

---------------------------------------------------------------------------
(* The hello handler.                                                      *)

\* All is good but for the adjacency with s.
Nearly(r, f, s) ==
    HeardBy(r, f) /\ (\A t \in Router \ {s} : Follows(r, f, t)) /\ Idle(f)

\* What a hello says can only upset the adjacency with the neighbor it is
\* from, and only if the neighbor makes or withdraws a claim.
LEMMA HelloReceivedEffect ==
  ASSUME NEW r \in Router, NEW s \in Router \ {r}, NEW f, Typed(r, f), Good(r, f),
         NEW m \in Hello
  PROVE  LET g == HelloReceived(f, s, m)
         IN /\ Typed(r, g) /\ Nearly(r, g, s)
            /\ g.nbr[s].state \in {"Init"} \cup Bidirectional
            /\ \/ Changed(m.dr, f.nbr[s].dr, s) \/ Changed(m.bdr, f.nbr[s].bdr, s)
               \/ Follows(r, g, s)
  <1> DEFINE g == HelloReceived(f, s, m)
             state == IF f.nbr[s].state \in {"Absent", "Down"} THEN "Init" ELSE f.nbr[s].state
             n == [state |-> state, dr |-> m.dr, bdr |-> m.bdr, priority |-> m.priority]
  <1>1. f \in Interface /\ f.nbr[s] \in Neighbor
    BY DEF Typed, Interface
  <1>2. n \in Neighbor /\ state \in {"Init"} \cup Bidirectional
    BY <1>1 DEF Neighbor, NeighborState, Hello
  <1>3. g = [f EXCEPT !.nbr[s] = n]
    BY <1>1 DEF HelloReceived, Interface
  <1> HIDE DEF n
  <1>4. /\ g.dr = f.dr /\ g.bdr = f.bdr /\ g.state = f.state
        /\ g.nbr[s] = n /\ \A t \in Router \ {s} : g.nbr[t] = f.nbr[t]
        /\ Typed(r, g)
    BY <1>1, <1>2, <1>3 DEF Typed, Interface
  <1>5. /\ n.state = state /\ n.dr = m.dr /\ n.bdr = m.bdr
        /\ state \in Bidirectional <=> f.nbr[s].state \in Bidirectional
        /\ state \in Bidirectional => state = f.nbr[s].state
    BY <1>1 DEF n, Neighbor, NeighborState, Bidirectional
  <1> HIDE DEF g, state
  <1>6. HeardBy(r, g)
    <2> SUFFICES ASSUME NEW d \in {g.dr, g.bdr} \ {None, r}
                 PROVE  g.nbr[d].state \in Bidirectional
      BY DEF HeardBy
    <2>1. d \in Router /\ f.nbr[d].state \in Bidirectional
      BY <1>1, <1>4 DEF Good, HeardBy, Interface, Designated
    <2> QED BY <2>1, <1>4, <1>5
  <1>7. ASSUME NEW t \in Router \ {s} PROVE Follows(r, g, t)
    BY <1>4 DEF Good, Follows, JudgeConnect
  <1>8. Idle(g)
    BY <1>4 DEF Good, Idle
  <1>9. ASSUME ~Changed(m.dr, f.nbr[s].dr, s), ~Changed(m.bdr, f.nbr[s].bdr, s)
        PROVE  Follows(r, g, s)
    <2>1. JudgeConnect(r, g, s) <=> JudgeConnect(r, f, s)
      BY <1>4, <1>5, <1>9 DEF JudgeConnect, Changed
    <2> QED BY <2>1, <1>4, <1>5 DEF Good, Follows
  <1> QED BY <1>2, <1>4, <1>5, <1>6, <1>7, <1>8, <1>9 DEF Nearly, g

\* A neighbor that becomes bidirectional gets the adjacency it should have.
LEMMA TwoWayEffect ==
  ASSUME NEW r \in Router, NEW s \in Router \ {r}, NEW f, Typed(r, f), Nearly(r, f, s)
  PROVE  LET g == TwoWayReceived(r, f, s)
         IN /\ Typed(r, g) /\ Nearly(r, g, s)
            /\ Follows(r, f, s) => Follows(r, g, s)
  <1> DEFINE state == IF JudgeConnect(r, f, s) THEN "Adj" ELSE "TwoWay"
             g == [f EXCEPT !.nbr[s].state = state]
  <1>1. CASE f.nbr[s].state # "Init"
    BY <1>1 DEF TwoWayReceived
  <1>2. CASE f.nbr[s].state = "Init"
    <2>1. f \in Interface /\ f.nbr[s] \in Neighbor /\ state \in Bidirectional
      BY DEF Typed, Interface, Bidirectional
    <2>2. TwoWayReceived(r, f, s) = g
      BY <1>2 DEF TwoWayReceived
    <2>3. state = "Adj" <=> JudgeConnect(r, f, s)
      OBVIOUS
    <2> HIDE DEF state
    <2>4. /\ g.dr = f.dr /\ g.bdr = f.bdr /\ g.state = f.state
          /\ g.nbr[s].state = state /\ g.nbr[s].dr = f.nbr[s].dr /\ g.nbr[s].bdr = f.nbr[s].bdr
          /\ \A t \in Router \ {s} : g.nbr[t] = f.nbr[t]
          /\ Typed(r, g)
      BY <2>1 DEF Typed, Interface, Neighbor, NeighborState
    <2> HIDE DEF g
    <2>5. HeardBy(r, g)
      <3> SUFFICES ASSUME NEW d \in {g.dr, g.bdr} \ {None, r}
                   PROVE  g.nbr[d].state \in Bidirectional
        BY DEF HeardBy
      <3>1. d \in Router /\ f.nbr[d].state \in Bidirectional
        BY <2>1, <2>4 DEF Nearly, HeardBy, Interface, Designated
      <3> QED BY <3>1, <2>1, <2>4
    <2>6. ASSUME NEW t \in Router \ {s} PROVE Follows(r, g, t)
      BY <2>4 DEF Nearly, Follows, JudgeConnect
    <2>7. Follows(r, g, s)
      BY <2>3, <2>4 DEF Follows, JudgeConnect
    <2>8. Idle(g)
      BY <2>4 DEF Nearly, Idle
    <2> QED BY <2>2, <2>4, <2>5, <2>6, <2>7, <2>8 DEF Nearly
  <1> QED BY <1>1, <1>2

\* The last part of the handler puts right what a claim has upset.
LEMMA ClaimsHeardGood ==
  ASSUME NEW r \in Router, NEW s \in Router \ {r}, NEW f, Typed(r, f), Nearly(r, f, s),
         NEW old, NEW m,
         \/ Changed(m.dr, old.dr, s) \/ Changed(m.bdr, old.bdr, s)
         \/ Follows(r, f, s)
  PROVE  LET g == BdrHeard(r, DrHeard(r, f, s, old, m), s, old, m)
         IN Typed(r, g) /\ Good(r, g)
  <1> DEFINE d == DrHeard(r, f, s, old, m)
             g == BdrHeard(r, d, s, old, m)
  <1>1. Typed(r, d)
    BY NeighborChangeGood, WaitOverGood DEF DrHeard
  <1>2. Typed(r, g)
    BY <1>1, NeighborChangeGood, WaitOverGood DEF BdrHeard
  <1>3. CASE Follows(r, f, s)
    <2>1. Good(r, f)
      BY <1>3 DEF Nearly, Good
    <2>2. Good(r, d)
      BY <2>1, NeighborChangeGood, WaitOverGood DEF DrHeard
    <2> QED BY <1>1, <1>2, <2>2, NeighborChangeGood, WaitOverGood DEF BdrHeard
  <1>4. CASE ~Follows(r, f, s)
    <2>1. f.state \in Elected /\ f.state # "Waiting"
      BY <1>4 DEF Follows, Elected
    <2>2. CASE Changed(m.dr, old.dr, s)
      <3>1. d = NeighborChange(r, f)
        BY <2>1, <2>2 DEF DrHeard
      <3>2. Good(r, d)
        BY <2>1, <3>1, NeighborChangeGood
      <3> QED BY <1>1, <1>2, <3>2, NeighborChangeGood, WaitOverGood DEF BdrHeard
    <2>3. CASE ~Changed(m.dr, old.dr, s)
      <3>1. d = f
        BY <2>1, <2>3 DEF DrHeard
      <3>2. g = NeighborChange(r, f)
        BY <1>4, <2>1, <2>3, <3>1 DEF BdrHeard
      <3> QED BY <1>2, <2>1, <3>2, NeighborChangeGood
    <2> QED BY <2>2, <2>3
  <1> QED BY <1>2, <1>3, <1>4

\* The handler leaves a good interface good.
LEMMA HandledGood ==
  ASSUME NEW r \in Router, NEW s \in Router \ {r}, NEW f, Typed(r, f), Good(r, f),
         NEW m \in Hello
  PROVE  Typed(r, Handled(r, f, s, m)) /\ Good(r, Handled(r, f, s, m))
  <1> DEFINE old == f.nbr[s]
             g == HelloReceived(f, s, m)
             k == TwoWayReceived(r, g, s)
             h == PriorityHeard(r, k, old, m)
  <1>1. /\ Typed(r, g) /\ Nearly(r, g, s)
        /\ g.nbr[s].state \in {"Init"} \cup Bidirectional
        /\ \/ Changed(m.dr, old.dr, s) \/ Changed(m.bdr, old.bdr, s)
           \/ Follows(r, g, s)
    BY HelloReceivedEffect
  <1> HIDE DEF g
  <1>2. CASE r \notin m.seen
    <2>1. Handled(r, f, s, m) = OneWayReceived(r, g, s)
      BY <1>2 DEF Handled, g
    <2>2. CASE g.nbr[s].state \in Bidirectional
      BY <1>1, <2>1, <2>2, LostGood DEF OneWayReceived, Nearly
    <2>3. CASE g.nbr[s].state \notin Bidirectional
      <3>1. Good(r, g)
        BY <1>1, <2>3 DEF Nearly, Good, Follows
      <3> QED BY <1>1, <2>1, <2>3, <3>1 DEF OneWayReceived
    <2> QED BY <2>2, <2>3
  <1>3. CASE r \in m.seen
    <2>1. Handled(r, f, s, m) = BdrHeard(r, DrHeard(r, h, s, old, m), s, old, m)
      BY <1>3 DEF Handled, g
    <2>2. /\ Typed(r, k) /\ Nearly(r, k, s)
          /\ Follows(r, g, s) => Follows(r, k, s)
      BY <1>1, TwoWayEffect
    <2> HIDE DEF k
    <2>3. Typed(r, h)
      BY <2>2, NeighborChangeGood DEF PriorityHeard
    <2>4. h = k \/ Good(r, h)
      BY <2>2, NeighborChangeGood DEF PriorityHeard, NeighborChange
    <2>5. /\ Nearly(r, h, s)
          /\ \/ Changed(m.dr, old.dr, s) \/ Changed(m.bdr, old.bdr, s)
             \/ Follows(r, h, s)
      BY <1>1, <2>2, <2>4 DEF Good, Nearly
    <2> HIDE DEF h, old
    <2> QED BY <2>1, <2>3, <2>5, ClaimsHeardGood
  <1> QED BY <1>2, <1>3

---------------------------------------------------------------------------
(* The invariant.                                                          *)

IInv == TypeOK /\ \A r \in Router : Good(r, iface[r])

\* An action that changes the interface of one router preserves the invariant
\* if it leaves that interface good.
LEMMA OneInterface ==
  ASSUME IInv, NEW r \in Router, NEW f, Typed(r, f), Good(r, f),
         iface' = [iface EXCEPT ![r] = f],
         air' \in [Router -> [hello : Hello, to : SUBSET Router]],
         \A s \in Router : s \notin air'[s].to,
         faults' \in 0..MaxFaults
  PROVE  IInv'
  <1>1. /\ iface' \in [Router -> Interface]
        /\ \A s \in Router : iface'[s] = IF s = r THEN f ELSE iface[s]
    BY DEF IInv, TypeOK, Typed
  <1>2. \A s \in Router : iface'[s].nbr[s] = NewNeighbor
    BY <1>1 DEF IInv, TypeOK, Typed
  <1>3. \A s \in Router : Good(s, iface'[s])
    BY <1>1 DEF IInv
  <1>4. TypeOK'
    BY <1>1, <1>2 DEF TypeOK
  <1>5. (\A s \in Router : Good(s, iface[s]))'
    BY <1>3
  <1> QED BY <1>4, <1>5 DEF IInv

\* One fault more is still within the bound.
LEMMA FaultCounted ==
  ASSUME IInv, NEW kind, Fault(kind)
  PROVE  faults' \in 0..MaxFaults
  BY BoundAssumption DEF IInv, TypeOK, Fault

\* An interface without neighbors.
LEMMA ClearedGood ==
  ASSUME NEW r \in Router, NEW state \in Off
  PROVE  Typed(r, Cleared(state)) /\ Good(r, Cleared(state))
  <1>1. NewNeighbor \in Neighbor
    BY DEF NewNeighbor, Neighbor, NeighborState, Designated, Byte, MaxPriority
  <1>2. [s \in Router |-> NewNeighbor] \in [Router -> Neighbor]
    BY <1>1
  <1>3. Cleared(state) \in Interface
    BY <1>2 DEF Cleared, Interface, InterfaceState, Designated
  <1> QED BY <1>3 DEF Cleared, Typed, Good, HeardBy, Follows, Idle, Off, Elected

LEMMA Initially == Init => IInv
  <1> SUFFICES ASSUME Init PROVE IInv
    OBVIOUS
  <1>1. \A r \in Router : Typed(r, iface[r]) /\ Good(r, iface[r])
    BY ClearedGood DEF Init, Off
  <1>2. air \in [Router -> [hello : Hello, to : SUBSET Router]]
    <2>1. [dr |-> None, bdr |-> None, priority |-> 0, seen |-> {}] \in Hello
      BY DEF Hello, Designated, Byte, MaxPriority
    <2> QED BY <2>1 DEF Init
  <1>3. \A r \in Router : r \notin air[r].to
    BY DEF Init
  <1>4. iface \in [Router -> Interface]
    BY <1>1 DEF Init, Typed
  <1>5. faults \in 0..MaxFaults
    BY BoundAssumption DEF Init
  <1> QED BY <1>1, <1>2, <1>3, <1>4, <1>5 DEF IInv, TypeOK, Typed

\* A step of a router's own state machine, its timers or the network.
LEMMA Inductive == IInv /\ [Next]_vars => IInv'
  <1> SUFFICES ASSUME IInv, [Next]_vars PROVE IInv'
    OBVIOUS
  <1>1. /\ \A r \in Router : Typed(r, iface[r]) /\ Good(r, iface[r]) /\ r \notin air[r].to
        /\ air \in [Router -> [hello : Hello, to : SUBSET Router]]
        /\ iface \in [Router -> Interface]
        /\ faults \in 0..MaxFaults
    BY DEF IInv, TypeOK, Typed
  <1>2. ASSUME NEW r \in Router, InterfaceUp(r) PROVE IInv'
    <2> DEFINE state == IF Priority[r] = 0 THEN "DROther" ELSE "Waiting"
               f == [iface[r] EXCEPT !.state = state]
    <2>1. iface' = [iface EXCEPT ![r] = f]
      BY <1>2 DEF InterfaceUp
    <2>2. /\ Typed(r, f)
          /\ f.state = state /\ f.dr = iface[r].dr /\ f.bdr = iface[r].bdr /\ f.nbr = iface[r].nbr
      BY <1>1 DEF Typed, Interface, InterfaceState, Elected
    <2>3. iface[r].dr = None /\ iface[r].bdr = None
      BY <1>1, <1>2 DEF InterfaceUp, Good, Idle, Elected
    <2> HIDE DEF f
    <2>4. HeardBy(r, f) /\ Idle(f)
      BY <2>2, <2>3 DEF HeardBy, Idle
    <2>5. \A s \in Router : Follows(r, f, s)
      BY <2>2, PriorityAssumption DEF Follows, Elected, Byte
    <2> QED BY <1>1, <1>2, <2>1, <2>2, <2>4, <2>5, OneInterface DEF InterfaceUp, Good
  <1>3. ASSUME NEW r \in Router, NEW state \in Off, NEW kind, GoOff(r, state, kind) PROVE IInv'
    BY <1>1, <1>3, ClearedGood, FaultCounted, OneInterface DEF GoOff
  <1>4. ASSUME NEW r \in Router, UnloopInd(r) PROVE IInv'
    <2> DEFINE f == [iface[r] EXCEPT !.state = "Down"]
    <2>1. Typed(r, f) /\ f.state = "Down" /\ f.dr = iface[r].dr /\ f.bdr = iface[r].bdr
      BY <1>1 DEF Typed, Interface, InterfaceState, Off
    <2>2. iface[r].dr = None /\ iface[r].bdr = None
      BY <1>1, <1>4 DEF UnloopInd, Good, Idle, Elected
    <2>3. iface' = [iface EXCEPT ![r] = f]
      BY <1>4 DEF UnloopInd
    <2> HIDE DEF f
    <2>4. Good(r, f)
      BY <2>1, <2>2 DEF Good, HeardBy, Follows, Idle, Elected
    <2> QED BY <1>1, <1>4, <2>1, <2>3, <2>4, OneInterface DEF UnloopInd
  <1>5. ASSUME NEW r \in Router, WaitTimer(r) PROVE IInv'
    <2>1. iface' = [iface EXCEPT ![r] = WaitOver(r, iface[r])]
      BY <1>5 DEF WaitTimer
    <2> QED BY <1>1, <1>5, <2>1, WaitOverGood, OneInterface DEF WaitTimer
  <1>6. ASSUME NEW s \in Router, SendHello(s) PROVE IInv'
    <2> DEFINE nbr == [n \in Router |-> IF iface[s].nbr[n].state = "Down" THEN NewNeighbor
                                        ELSE iface[s].nbr[n]]
               f == [iface[s] EXCEPT !.nbr = nbr]
               m == [dr |-> iface[s].dr, bdr |-> iface[s].bdr, priority |-> Priority[s],
                     seen |-> {n \in Router : nbr[n].state # "Absent"}]
    <2>1. /\ iface' = [iface EXCEPT ![s] = f]
          /\ air' = [air EXCEPT ![s] = [hello |-> m, to |-> Router \ {s}]]
          /\ faults' = faults
      BY <1>6 DEF SendHello
    <2>2. iface[s] \in Interface /\ iface[s].nbr[s] = NewNeighbor
      BY <1>1 DEF Typed
    <2>3. NewNeighbor \in Neighbor
      BY DEF NewNeighbor, Neighbor, NeighborState, Designated, Byte, MaxPriority
    <2>4. nbr \in [Router -> Neighbor] /\ nbr[s] = NewNeighbor
      BY <2>2, <2>3 DEF Interface
    <2>5. ASSUME NEW n \in Router
          PROVE  \/ nbr[n] = iface[s].nbr[n]
                 \/ /\ nbr[n].state \notin Bidirectional
                    /\ iface[s].nbr[n].state \notin Bidirectional
      BY DEF NewNeighbor, Bidirectional
    <2>6. m \in Hello
      BY <2>2, PriorityAssumption DEF Hello, Interface
    <2> HIDE DEF nbr, m
    <2>7. /\ f.dr = iface[s].dr /\ f.bdr = iface[s].bdr /\ f.state = iface[s].state /\ f.nbr = nbr
          /\ Typed(s, f)
      BY <2>2, <2>4 DEF Interface, Typed
    <2> HIDE DEF f
    <2>8. Idle(f)
      BY <1>1, <2>7 DEF Good, Idle
    <2>9. HeardBy(s, f)
      <3> SUFFICES ASSUME NEW d \in {f.dr, f.bdr} \ {None, s}
                   PROVE  f.nbr[d].state \in Bidirectional
        BY DEF HeardBy
      <3>1. d \in Router /\ iface[s].nbr[d].state \in Bidirectional
        BY <1>1, <2>2, <2>7 DEF Good, HeardBy, Interface, Designated
      <3> QED BY <3>1, <2>5, <2>7
    <2>10. ASSUME NEW n \in Router PROVE Follows(s, f, n)
      BY <1>1, <2>5, <2>7 DEF Good, Follows, JudgeConnect
    <2>11. /\ air' \in [Router -> [hello : Hello, to : SUBSET Router]]
           /\ \A n \in Router : n \notin air'[n].to
      BY <1>1, <2>1, <2>6
    <2> QED BY <1>1, <2>1, <2>7, <2>8, <2>9, <2>10, <2>11, OneInterface DEF Good
  <1>7. ASSUME NEW r \in Router, NEW s \in Router, Receive(r, s) PROVE IInv'
    <2>1. s # r /\ air[s].hello \in Hello
      BY <1>1, <1>7 DEF Receive
    <2>2. iface' = [iface EXCEPT ![r] = Handled(r, iface[r], s, air[s].hello)]
      BY <1>7 DEF Receive
    <2>3. /\ air' \in [Router -> [hello : Hello, to : SUBSET Router]]
          /\ \A n \in Router : n \notin air'[n].to
      BY <1>1, <1>7 DEF Receive
    <2> DEFINE f == Handled(r, iface[r], s, air[s].hello)
    <2>4. Typed(r, f) /\ Good(r, f)
      BY <1>1, <2>1, HandledGood
    <2> HIDE DEF f
    <2>5. faults' \in 0..MaxFaults
      BY <1>1, <1>7 DEF Receive
    <2> QED BY <2>2, <2>3, <2>4, <2>5, OneInterface DEF f
  <1>8. ASSUME NEW r \in Router, NEW s \in Router, InactivityTimer(r, s) PROVE IInv'
    <2>1. s # r
      BY <1>1, <1>8 DEF InactivityTimer, Typed, NewNeighbor
    <2>2. iface' = [iface EXCEPT ![r] = Lost(r, iface[r], s, "Down")] /\ air' = air
      BY <1>8 DEF InactivityTimer
    <2>3. faults' \in 0..MaxFaults
      BY <1>1, <1>8, FaultCounted DEF InactivityTimer
    <2>4. Typed(r, Lost(r, iface[r], s, "Down")) /\ Good(r, Lost(r, iface[r], s, "Down"))
      BY <1>1, <2>1, LostGood DEF Good
    <2> QED BY <1>1, <2>2, <2>3, <2>4, OneInterface
  <1>9. ASSUME NEW r \in Router, NEW s \in Router, Lose(r, s) PROVE IInv'
    <2>1. /\ air' \in [Router -> [hello : Hello, to : SUBSET Router]]
          /\ \A n \in Router : n \notin air'[n].to
      BY <1>1, <1>9 DEF Lose
    <2>2. iface' = iface /\ faults' \in 0..MaxFaults
      BY <1>9, FaultCounted DEF Lose
    <2> QED BY <2>1, <2>2 DEF IInv, TypeOK
  <1>10. ASSUME NEW r \in Router, NEW s \in Router, ReceiveDD(r, s) PROVE IInv'
    <2> DEFINE f == TwoWayReceived(r, iface[r], s)
    <2>1. s # r
      BY <1>1, <1>10 DEF ReceiveDD, Typed, NewNeighbor
    <2>2. iface' = [iface EXCEPT ![r] = f] /\ air' = air /\ faults' = faults
      BY <1>10 DEF ReceiveDD
    <2>3. Nearly(r, iface[r], s) /\ Follows(r, iface[r], s)
      BY <1>1 DEF Good, Nearly
    <2>4. Typed(r, f) /\ Nearly(r, f, s) /\ Follows(r, f, s)
      BY <1>1, <2>1, <2>3, TwoWayEffect
    <2> HIDE DEF f
    <2>5. Good(r, f)
      BY <2>4 DEF Good, Nearly
    <2> QED BY <1>1, <2>2, <2>4, <2>5, OneInterface
  <1>11. CASE UNCHANGED vars
    BY <1>11 DEF IInv, TypeOK, vars
  <1> QED BY <1>2, <1>3, <1>4, <1>5, <1>6, <1>7, <1>8, <1>9, <1>10, <1>11
      DEF Next, InterfaceDown, LoopInd, Off

THEOREM Invariant == Spec => []IInv
  <1>1. Init => IInv
    BY Initially
  <1>2. IInv /\ [Next]_vars => IInv'
    BY Inductive
  <1> QED BY <1>1, <1>2, PTL DEF Spec

\* Interfaces, neighbor records and hellos are always well formed, and no
\* router becomes its own neighbor: it does not hear its own hellos.
THEOREM TypeCorrect == Spec => []TypeOK
  <1>1. IInv => TypeOK
    BY DEF IInv
  <1> QED BY <1>1, Invariant, PTL

\* A DR or BDR other than the router itself is always a neighbor it hears and
\* is heard by, through every order of hellos, losses, timeouts and restarts.
THEOREM RolesAreHeard == Spec => []ElectedAreHeard
  <1>1. IInv => ElectedAreHeard
    BY DEF IInv, Good, HeardBy, ElectedAreHeard
  <1> QED BY <1>1, Invariant, PTL

\* A router that may be elected keeps exactly the adjacencies that judge_connect
\* asks for, whichever event changed a role, a claim or a neighbor's state.
THEOREM AdjacenciesFollow == Spec => []AdjacencyFollowsRoles
  <1>1. IInv => AdjacencyFollowsRoles
    BY DEF IInv, Good, Follows, AdjacencyFollowsRoles
  <1> QED BY <1>1, Invariant, PTL

---------------------------------------------------------------------------
(* No preemption.                                                          *)

\* Whoever says it is DR may be elected.
Eligible(r, f) ==
    /\ f.dr = r => Priority[r] > 0
    /\ \A s \in Router : f.nbr[s].dr = s => f.nbr[s].priority > 0

\* For r, d is DR by its own word, or d is r.
Backs(r, f, d) == d = r \/ (f.nbr[d].state \in Bidirectional /\ f.nbr[d].dr = d)

\* The DR is still d, or another router that says so.
Keeps(r, f, d) == f.dr = d \/ (f.dr \in Router \ {r} /\ Backs(r, f, f.dr))

\* An election, or none, that changes nothing of what the neighbors say.
Respects(r, f, g) ==
    /\ Typed(r, g) /\ Eligible(r, g)
    /\ \A d \in Router : Backs(r, g, d) <=> Backs(r, f, d)
    /\ f.state \in Elected =>
         /\ g.state \in Elected
         /\ \A d \in Router : Backs(r, f, d) /\ Keeps(r, f, d) => Keeps(r, g, d)

\* No election respects everything, and elections add up.
LEMMA RespectsAdd ==
  ASSUME NEW r, NEW f, NEW g, NEW h, Respects(r, f, g), Respects(r, g, h)
  PROVE  Respects(r, f, h)
  BY DEF Respects

LEMMA RespectsSame ==
  ASSUME NEW r, NEW f, Typed(r, f), Eligible(r, f)
  PROVE  Respects(r, f, f)
  BY DEF Respects

\* AdjOK? leaves what the neighbors say alone.
LEMMA AdjOkClaims ==
  ASSUME NEW r \in Router, NEW f, Typed(r, f), NEW s \in Router
  PROVE  /\ AdjOk(r, f).nbr[s].dr = f.nbr[s].dr
         /\ AdjOk(r, f).nbr[s].priority = f.nbr[s].priority
         /\ AdjOk(r, f).nbr[s].state \in Bidirectional <=> f.nbr[s].state \in Bidirectional
  <1> DEFINE n(t) == IF f.nbr[t].state \notin Bidirectional THEN f.nbr[t]
                     ELSE [f.nbr[t] EXCEPT !.state =
                             IF JudgeConnect(r, f, t) THEN "Adj" ELSE "TwoWay"]
  <1>1. f \in Interface /\ f.nbr[s] \in Neighbor
    BY DEF Typed, Interface
  <1>2. AdjOk(r, f) = [f EXCEPT !.nbr = [t \in Router |-> n(t)]]
    BY DEF AdjOk
  <1>3. n(s).dr = f.nbr[s].dr /\ n(s).priority = f.nbr[s].priority
    BY <1>1 DEF Neighbor
  <1> HIDE DEF n
  <1>4. AdjOk(r, f).nbr[s] = n(s)
    BY <1>1, <1>2 DEF Interface
  <1> QED BY <1>3, <1>4, AdjOkEffect

\* Who is elected while somebody says it is DR: one that says so.
LEMMA ClaimantElected ==
  ASSUME NEW r \in Router, NEW f, Typed(r, f), Eligible(r, f),
         NEW d \in Router, Backs(r, f, d), Keeps(r, f, d)
  PROVE  LET e == ElectDR(Candidates(r, f)) IN
         e = d \/ (e \in Router \ {r} /\ Backs(r, f, e))
  <1> DEFINE S == Candidates(r, f)
             claims == {c \in S : ClaimsDR(c)}
             own == Candidate(r, Priority[r], f.dr, f.bdr)
             other(s) == Candidate(s, f.nbr[s].priority, f.nbr[s].dr, f.nbr[s].bdr)
  <1>1. ASSUME NEW s \in Router, f.nbr[s].state \in Bidirectional, f.nbr[s].dr = s
        PROVE  claims # {}
    <2>1. other(s) \in S /\ ClaimsDR(other(s))
      BY <1>1 DEF Eligible, Candidates, Candidate, ClaimsDR
    <2> QED BY <2>1
  <1>2. ASSUME f.dr = r PROVE claims # {}
    <2>1. own \in S /\ ClaimsDR(own)
      BY <1>2 DEF Eligible, Candidates, Candidate, ClaimsDR
    <2> QED BY <2>1
  <1>3. claims # {}
    BY <1>1, <1>2 DEF Backs, Keeps
  <1>4. \A c \in S : Comparable(c)
    BY CandidatesHeard
  <1>5. PICK c \in claims : Best(claims) = c.id
    BY <1>3, <1>4, BestExists DEF Best
  <1>6. ElectDR(S) = c.id
    BY <1>3, <1>5 DEF ElectDR
  <1>7. CASE c = own
    <2>1. c.id = r /\ f.dr = r
      BY <1>5, <1>7 DEF Candidate, ClaimsDR
    <2>2. r = d
      BY <2>1 DEF Keeps
    <2> QED BY <1>6, <2>1, <2>2
  <1>8. ASSUME NEW s \in Router, f.nbr[s].state \in Bidirectional, c = other(s)
        PROVE  ElectDR(S) \in Router \ {r} /\ Backs(r, f, ElectDR(S))
    <2>1. c.id = s /\ f.nbr[s].dr = s
      BY <1>5, <1>8 DEF Candidate, ClaimsDR
    <2>2. s # r
      BY <1>8 DEF Typed, NewNeighbor, Bidirectional
    <2> QED BY <1>6, <1>8, <2>1, <2>2 DEF Backs
  <1> QED BY <1>7, <1>8 DEF Candidates

\* Only routers of a priority that is not zero are elected.
LEMMA ElectedEligible ==
  ASSUME NEW r \in Router, NEW f, Typed(r, f), ElectDR(Candidates(r, f)) = r
  PROVE  Priority[r] > 0
  <1> DEFINE S == Candidates(r, f)
  <1>1. \A c \in S : Comparable(c)
    BY CandidatesHeard
  <1>2. r # None
    BY RouterAssumption DEF None
  <1>3. PICK c \in S : c.id = r
    BY <1>1, <1>2, ElectedIsOne
  <1>4. c.priority > 0
    BY DEF Candidates
  <1>5. CASE c = Candidate(r, Priority[r], f.dr, f.bdr)
    BY <1>4, <1>5 DEF Candidate
  <1>6. ASSUME NEW s \in Router, f.nbr[s].state \in Bidirectional,
               c = Candidate(s, f.nbr[s].priority, f.nbr[s].dr, f.nbr[s].bdr)
        PROVE  FALSE
    BY <1>3, <1>6 DEF Candidate, Typed, NewNeighbor, Bidirectional
  <1> QED BY <1>5, <1>6 DEF Candidates

\* The election takes the role from nobody who claims it.
LEMMA SelectDrRespects ==
  ASSUME NEW r \in Router, NEW f, Typed(r, f), Eligible(r, f)
  PROVE  Respects(r, f, SelectDr(r, f))
  <1> DEFINE S   == Candidates(r, f)
             dr  == ElectDR(S)
             bdr == IF ElectBDR(S) = dr THEN None ELSE ElectBDR(S)
             st  == IF dr = r THEN "DR" ELSE IF bdr = r THEN "Backup" ELSE "DROther"
             g   == [f EXCEPT !.dr = dr, !.bdr = bdr, !.state = st]
             h   == SelectDr(r, f)
  <1>1. Typed(r, h) /\ h.state \in Elected
    BY SelectDrGood
  <1>2. h = AdjOk(r, g)
    BY DEF SelectDr
  <1>3. f \in Interface
    BY DEF Typed
  <1>4. dr \in Designated /\ bdr \in Designated
    <2>1. \A c \in S : Comparable(c) /\ c.id \in Router
      BY CandidatesHeard
    <2>2. \A x \in {ElectDR(S), ElectBDR(S)} : x = None \/ \E c \in S : x = c.id
      BY <2>1, ElectedIsOne
    <2> QED BY <2>1, <2>2 DEF Designated
  <1>5. dr = r => Priority[r] > 0
    BY ElectedEligible
  <1>6. \A d \in Router : Backs(r, f, d) /\ Keeps(r, f, d) =>
           dr = d \/ (dr \in Router \ {r} /\ Backs(r, f, dr))
    BY ClaimantElected
  <1> HIDE DEF dr, bdr
  <1>7. /\ g.dr = dr /\ g.nbr = f.nbr
        /\ Typed(r, g)
    BY <1>3, <1>4 DEF Typed, Interface, InterfaceState, Elected
  <1> HIDE DEF g
  <1>8. h.dr = dr
    BY <1>2, <1>7, AdjOkEffect
  <1>9. ASSUME NEW s \in Router
        PROVE  /\ h.nbr[s].dr = f.nbr[s].dr /\ h.nbr[s].priority = f.nbr[s].priority
               /\ h.nbr[s].state \in Bidirectional <=> f.nbr[s].state \in Bidirectional
    BY <1>2, <1>7, AdjOkClaims
  <1> HIDE DEF h
  <1>10. Eligible(r, h)
    BY <1>5, <1>8, <1>9 DEF Eligible
  <1>11. \A d \in Router : Backs(r, h, d) <=> Backs(r, f, d)
    BY <1>9 DEF Backs
  <1>12. \A d \in Router : Backs(r, f, d) /\ Keeps(r, f, d) => Keeps(r, h, d)
    BY <1>6, <1>8, <1>11 DEF Keeps
  <1> QED BY <1>1, <1>10, <1>11, <1>12 DEF Respects, h

LEMMA EventsRespect ==
  ASSUME NEW r \in Router, NEW f, Typed(r, f), Eligible(r, f)
  PROVE  Respects(r, f, NeighborChange(r, f)) /\ Respects(r, f, WaitOver(r, f))
  BY SelectDrRespects, RespectsSame DEF NeighborChange, WaitOver

\* The last part of the hello handler.
LEMMA ClaimsRespect ==
  ASSUME NEW r \in Router, NEW s, NEW f, Typed(r, f), Eligible(r, f), NEW old, NEW m
  PROVE  Respects(r, f, BdrHeard(r, DrHeard(r, PriorityHeard(r, f, old, m), s, old, m), s, old, m))
  <1> DEFINE h == PriorityHeard(r, f, old, m)
             d == DrHeard(r, h, s, old, m)
  <1>1. Respects(r, f, h)
    BY EventsRespect, RespectsSame DEF PriorityHeard
  <1> HIDE DEF h
  <1>2. Respects(r, h, d)
    BY <1>1, EventsRespect, RespectsSame DEF DrHeard, Respects
  <1> HIDE DEF d
  <1>3. Respects(r, d, BdrHeard(r, d, s, old, m))
    BY <1>2, EventsRespect, RespectsSame DEF BdrHeard, Respects
  <1>4. Respects(r, f, d)
    BY <1>1, <1>2, RespectsAdd
  <1>5. Respects(r, f, BdrHeard(r, d, s, old, m))
    BY <1>3, <1>4, RespectsAdd
  <1> QED BY <1>5 DEF d, h

\* What r's interface turns into, from f to g, leaves the DR its role unless it
\* gives it up, is lost, or another router takes it over.
Yields(r, f, g) ==
    /\ Eligible(r, g)
    /\ f.state \in Elected /\ g.state \in Elected /\ f.dr \in Router /\ Backs(r, g, f.dr)
         => Keeps(r, g, f.dr)

\* A change to a neighbor, and then an election or none.
LEMMA ElectionYields ==
  ASSUME NEW r \in Router, NEW f, NEW k, NEW g, k.dr = f.dr, k.state = f.state, Respects(r, k, g)
  PROVE  Yields(r, f, g)
  <1>1. Eligible(r, g)
    BY DEF Respects
  <1>2. ASSUME f.state \in Elected, f.dr \in Router, Backs(r, g, f.dr)
        PROVE  Keeps(r, g, f.dr)
    <2>1. Backs(r, k, f.dr) /\ Keeps(r, k, f.dr)
      BY <1>2 DEF Respects, Keeps
    <2> QED BY <1>2, <2>1 DEF Respects
  <1> QED BY <1>1, <1>2 DEF Yields

\* A router that loses or meets a neighbor does not change what that neighbor said.
LEMMA MovedEligible ==
  ASSUME NEW r \in Router, NEW s \in Router \ {r}, NEW f, Typed(r, f), Eligible(r, f),
         NEW state \in NeighborState
  PROVE  LET g == [f EXCEPT !.nbr[s].state = state] IN
         Typed(r, g) /\ Eligible(r, g) /\ g.dr = f.dr /\ g.state = f.state
  <1> DEFINE g == [f EXCEPT !.nbr[s].state = state]
  <1>1. f \in Interface /\ f.nbr[s] \in Neighbor
    BY DEF Typed, Interface
  <1>2. /\ g.dr = f.dr /\ g.state = f.state /\ Typed(r, g)
        /\ g.nbr[s].dr = f.nbr[s].dr /\ g.nbr[s].priority = f.nbr[s].priority
        /\ \A t \in Router \ {s} : g.nbr[t] = f.nbr[t]
    BY <1>1 DEF Typed, Interface, Neighbor
  <1> HIDE DEF g
  <1>3. Eligible(r, g)
    BY <1>2 DEF Eligible
  <1> QED BY <1>2, <1>3 DEF g

LEMMA LostYields ==
  ASSUME NEW r \in Router, NEW s \in Router \ {r}, NEW f, Typed(r, f), Eligible(r, f),
         NEW state \in {"Init", "Down"}
  PROVE  Yields(r, f, Lost(r, f, s, state))
  <1> DEFINE g == [f EXCEPT !.nbr[s].state = state]
  <1>1. Typed(r, g) /\ Eligible(r, g) /\ g.dr = f.dr /\ g.state = f.state
    BY MovedEligible DEF NeighborState
  <1> HIDE DEF g
  <1>2. Respects(r, g, NeighborChange(r, g))
    BY <1>1, EventsRespect
  <1>3. Yields(r, f, NeighborChange(r, g))
    BY <1>1, <1>2, ElectionYields
  <1> QED BY <1>3 DEF Lost, g

LEMMA TwoWayEligible ==
  ASSUME NEW r \in Router, NEW s \in Router \ {r}, NEW f, Typed(r, f), Eligible(r, f)
  PROVE  LET g == TwoWayReceived(r, f, s) IN
         Typed(r, g) /\ Eligible(r, g) /\ g.dr = f.dr /\ g.state = f.state
  <1> DEFINE state == IF JudgeConnect(r, f, s) THEN "Adj" ELSE "TwoWay"
  <1>1. state \in NeighborState
    BY DEF NeighborState, Bidirectional
  <1> HIDE DEF state
  <1>2. LET g == [f EXCEPT !.nbr[s].state = state] IN
        Typed(r, g) /\ Eligible(r, g) /\ g.dr = f.dr /\ g.state = f.state
    BY <1>1, MovedEligible
  <1> QED BY <1>2 DEF TwoWayReceived, state

\* The hello handler.
LEMMA HandledYields ==
  ASSUME NEW r \in Router, NEW s \in Router \ {r}, NEW f, Typed(r, f), Eligible(r, f),
         NEW m \in Hello, m.dr = s => m.priority > 0
  PROVE  Yields(r, f, Handled(r, f, s, m))
  <1> DEFINE old == f.nbr[s]
             g == HelloReceived(f, s, m)
             k == TwoWayReceived(r, g, s)
             state == IF f.nbr[s].state \in {"Absent", "Down"} THEN "Init" ELSE f.nbr[s].state
             n == [state |-> state, dr |-> m.dr, bdr |-> m.bdr, priority |-> m.priority]
  <1>1. f \in Interface /\ f.nbr[s] \in Neighbor
    BY DEF Typed, Interface
  <1>2. n \in Neighbor
    BY <1>1 DEF Neighbor, NeighborState, Hello
  <1>3. g = [f EXCEPT !.nbr[s] = n]
    BY <1>1 DEF HelloReceived, Interface
  <1>4. n.dr = m.dr /\ n.priority = m.priority
    OBVIOUS
  <1> HIDE DEF n, g
  <1>5. /\ g.dr = f.dr /\ g.state = f.state /\ Typed(r, g)
        /\ g.nbr[s] = n /\ \A t \in Router \ {s} : g.nbr[t] = f.nbr[t]
    BY <1>1, <1>2, <1>3 DEF Typed, Interface
  <1>6. Eligible(r, g)
    BY <1>4, <1>5 DEF Eligible
  <1>7. CASE r \notin m.seen
    <2>1. Handled(r, f, s, m) = OneWayReceived(r, g, s)
      BY <1>7 DEF Handled, g
    <2>2. Respects(r, g, g)
      BY <1>5, <1>6, RespectsSame
    <2>3. Yields(r, f, g)
      BY <1>5, <2>2, ElectionYields
    <2>4. Yields(r, g, Lost(r, g, s, "Init"))
      BY <1>5, <1>6, LostYields
    <2>5. Yields(r, f, Lost(r, g, s, "Init"))
      BY <1>5, <2>4 DEF Yields
    <2> QED BY <2>1, <2>3, <2>5 DEF OneWayReceived
  <1>8. CASE r \in m.seen
    <2> DEFINE h == PriorityHeard(r, k, old, m)
    <2>1. Handled(r, f, s, m) = BdrHeard(r, DrHeard(r, h, s, old, m), s, old, m)
      BY <1>8 DEF Handled, g
    <2>2. Typed(r, k) /\ Eligible(r, k) /\ k.dr = g.dr /\ k.state = g.state
      BY <1>5, <1>6, TwoWayEligible
    <2> HIDE DEF k, old
    <2>3. Respects(r, k, BdrHeard(r, DrHeard(r, h, s, old, m), s, old, m))
      BY <2>2, ClaimsRespect
    <2> HIDE DEF h
    <2> QED BY <1>5, <2>1, <2>2, <2>3, ElectionYields
  <1> QED BY <1>7, <1>8

\* Whoever says in a hello that it is DR may be elected.
EligibleHello(s) == air[s].hello.dr = s => air[s].hello.priority > 0
AllEligible == \A r \in Router : Eligible(r, iface[r]) /\ EligibleHello(r)

\* An interface on which no role changes yields.
LEMMA SameYields ==
  ASSUME NEW r \in Router, NEW f, NEW g, Eligible(r, g), g.dr = f.dr
  PROVE  Yields(r, f, g)
  BY DEF Yields, Keeps

\* A step of one router.
LEMMA OneYields ==
  ASSUME IInv, AllEligible, NEW r \in Router, NEW g, Yields(r, iface[r], g),
         iface' = [iface EXCEPT ![r] = g],
         \A s \in Router : air'[s].hello = air[s].hello
  PROVE  AllEligible' /\ \A s \in Router : Yields(s, iface[s], iface'[s])
  <1>1. \A s \in Router : iface'[s] = IF s = r THEN g ELSE iface[s]
    BY DEF IInv, TypeOK
  <1>2. ASSUME NEW s \in Router
        PROVE  Yields(s, iface[s], iface'[s]) /\ Eligible(s, iface'[s])
    <2>1. CASE s = r
      BY <1>1, <2>1 DEF Yields
    <2>2. CASE s # r
      BY <1>1, <2>2, SameYields DEF AllEligible
    <2> QED BY <2>1, <2>2
  <1>3. ASSUME NEW s \in Router PROVE EligibleHello(s)'
    BY DEF AllEligible, EligibleHello
  <1>4. AllEligible'
    BY <1>2, <1>3 DEF AllEligible, Eligible
  <1> QED BY <1>2, <1>4

\* Every step leaves those that hear each other their DR.
LEMMA StepYields ==
  ASSUME IInv, AllEligible, [Next]_vars
  PROVE  AllEligible' /\ \A s \in Router : Yields(s, iface[s], iface'[s])
  <1>1. /\ \A r \in Router : Typed(r, iface[r]) /\ Eligible(r, iface[r]) /\ EligibleHello(r)
        /\ \A r \in Router : r \notin air[r].to
        /\ air \in [Router -> [hello : Hello, to : SUBSET Router]]
        /\ iface \in [Router -> Interface]
    BY DEF IInv, AllEligible, TypeOK, Typed
  <1>2. ASSUME NEW r \in Router, NEW state, iface' = [iface EXCEPT ![r].state = state],
               UNCHANGED air
        PROVE  AllEligible' /\ \A s \in Router : Yields(s, iface[s], iface'[s])
    <2> DEFINE f == [iface[r] EXCEPT !.state = state]
    <2>1. f.dr = iface[r].dr /\ f.nbr = iface[r].nbr /\ iface' = [iface EXCEPT ![r] = f]
      BY <1>1, <1>2 DEF Interface
    <2> HIDE DEF f
    <2>2. Eligible(r, f)
      BY <1>1, <2>1 DEF Eligible
    <2> QED BY <1>2, <2>1, <2>2, SameYields, OneYields
  <1>3. ASSUME NEW r \in Router, InterfaceUp(r) \/ UnloopInd(r)
        PROVE  AllEligible' /\ \A s \in Router : Yields(s, iface[s], iface'[s])
    BY <1>2, <1>3 DEF InterfaceUp, UnloopInd
  <1>4. ASSUME NEW r \in Router, NEW state \in Off, NEW kind, GoOff(r, state, kind)
        PROVE  AllEligible' /\ \A s \in Router : Yields(s, iface[s], iface'[s])
    <2>1. Eligible(r, Cleared(state)) /\ Cleared(state).state \notin Elected
      BY RouterAssumption DEF Cleared, Eligible, NewNeighbor, None, Off, Elected
    <2>2. Yields(r, iface[r], Cleared(state))
      BY <2>1 DEF Yields
    <2> QED BY <1>4, <2>2, OneYields DEF GoOff
  <1>5. ASSUME NEW r \in Router, WaitTimer(r)
        PROVE  AllEligible' /\ \A s \in Router : Yields(s, iface[s], iface'[s])
    <2>1. Yields(r, iface[r], WaitOver(r, iface[r]))
      BY <1>1, EventsRespect, ElectionYields
    <2> QED BY <1>5, <2>1, OneYields DEF WaitTimer
  <1>6. ASSUME NEW r \in Router, SendHello(r)
        PROVE  AllEligible' /\ \A s \in Router : Yields(s, iface[s], iface'[s])
    <2> DEFINE nbr == [n \in Router |-> IF iface[r].nbr[n].state = "Down" THEN NewNeighbor
                                        ELSE iface[r].nbr[n]]
               f == [iface[r] EXCEPT !.nbr = nbr]
               m == [dr |-> iface[r].dr, bdr |-> iface[r].bdr, priority |-> Priority[r],
                     seen |-> {n \in Router : nbr[n].state # "Absent"}]
    <2>1. /\ iface' = [iface EXCEPT ![r] = f]
          /\ air' = [air EXCEPT ![r] = [hello |-> m, to |-> Router \ {r}]]
      BY <1>6 DEF SendHello
    <2>2. \A n \in Router : nbr[n] = iface[r].nbr[n] \/ nbr[n].dr = None
      BY DEF NewNeighbor
    <2>3. m.dr = iface[r].dr /\ m.priority = Priority[r]
      OBVIOUS
    <2> HIDE DEF nbr, m
    <2>4. f.dr = iface[r].dr /\ f.nbr = nbr
      BY <1>1 DEF Interface
    <2> HIDE DEF f
    <2>5. Eligible(r, f)
      BY <1>1, <2>2, <2>4, RouterAssumption DEF Eligible, None
    <2>6. \A s \in Router : iface'[s] = IF s = r THEN f ELSE iface[s]
      BY <1>1, <2>1
    <2>7. \A s \in Router : Yields(s, iface[s], iface'[s]) /\ Eligible(s, iface'[s])
      BY <1>1, <2>4, <2>5, <2>6, SameYields
    <2>8. \A s \in Router : air'[s].hello = IF s = r THEN m ELSE air[s].hello
      BY <1>1, <2>1
    <2>9. \A s \in Router : EligibleHello(s)'
      BY <1>1, <2>3, <2>8 DEF EligibleHello, Eligible
    <2>10. AllEligible'
      BY <2>7, <2>9 DEF AllEligible, Eligible
    <2> QED BY <2>7, <2>10
  <1>7. ASSUME NEW r \in Router, NEW s \in Router, Receive(r, s)
        PROVE  AllEligible' /\ \A t \in Router : Yields(t, iface[t], iface'[t])
    <2>1. s # r /\ air[s].hello \in Hello
      BY <1>1, <1>7 DEF Receive
    <2>2. /\ iface' = [iface EXCEPT ![r] = Handled(r, iface[r], s, air[s].hello)]
          /\ \A t \in Router : air'[t].hello = air[t].hello
      BY <1>1, <1>7 DEF Receive
    <2>3. Yields(r, iface[r], Handled(r, iface[r], s, air[s].hello))
      BY <1>1, <2>1, HandledYields DEF EligibleHello
    <2> QED BY <2>2, <2>3, OneYields
  <1>8. ASSUME NEW r \in Router, NEW s \in Router, InactivityTimer(r, s)
        PROVE  AllEligible' /\ \A t \in Router : Yields(t, iface[t], iface'[t])
    <2>1. s # r
      BY <1>1, <1>8 DEF InactivityTimer, Typed, NewNeighbor
    <2>2. Yields(r, iface[r], Lost(r, iface[r], s, "Down"))
      BY <1>1, <2>1, LostYields
    <2> QED BY <1>8, <2>2, OneYields DEF InactivityTimer
  <1>9. ASSUME NEW r \in Router, NEW s \in Router, ReceiveDD(r, s)
        PROVE  AllEligible' /\ \A t \in Router : Yields(t, iface[t], iface'[t])
    <2>1. s # r
      BY <1>1, <1>9 DEF ReceiveDD, Typed, NewNeighbor
    <2>2. Yields(r, iface[r], TwoWayReceived(r, iface[r], s))
      BY <1>1, <2>1, TwoWayEligible, SameYields
    <2> QED BY <1>9, <2>2, OneYields DEF ReceiveDD
  <1>10. ASSUME iface' = iface, \A s \in Router : air'[s].hello = air[s].hello
         PROVE  AllEligible' /\ \A s \in Router : Yields(s, iface[s], iface'[s])
    <2>1. \A s \in Router : Yields(s, iface[s], iface'[s])
      BY <1>1, <1>10, SameYields
    <2>2. AllEligible'
      BY <1>10 DEF AllEligible, Eligible, EligibleHello
    <2> QED BY <2>1, <2>2
  <1>11. ASSUME NEW r \in Router, NEW s \in Router, Lose(r, s)
         PROVE  AllEligible' /\ \A t \in Router : Yields(t, iface[t], iface'[t])
    <2>1. iface' = iface /\ \A t \in Router : air'[t].hello = air[t].hello
      BY <1>1, <1>11 DEF Lose
    <2> QED BY <1>10, <2>1
  <1>12. CASE UNCHANGED vars
    BY <1>10, <1>12 DEF vars
  <1> QED BY <1>3, <1>4, <1>5, <1>6, <1>7, <1>8, <1>9, <1>11, <1>12
      DEF Next, InterfaceDown, LoopInd, Off

\* A DR that a router hears, and that says it is DR, stays that router's DR, or
\* yields to another one that says so: a newcomer of higher priority
\* takes nothing over (select_dr, interface/state.rs:263).  The up to three
\* elections of one hello, each with the roles the last one gave, are one step.
THEOREM DrStays == Spec => NoPreemption
  <1>1. Init => AllEligible
    <2> SUFFICES ASSUME Init, NEW r \in Router PROVE Eligible(r, iface[r]) /\ EligibleHello(r)
      BY DEF AllEligible
    <2>1. iface[r] = Cleared("Down") /\ air[r].hello.dr = None
      BY DEF Init
    <2> QED BY <2>1, RouterAssumption DEF Cleared, Eligible, EligibleHello, NewNeighbor, None
  <1>2. IInv /\ AllEligible /\ [Next]_vars => AllEligible'
    BY StepYields
  <1>3. IInv /\ AllEligible /\ [Next]_vars =>
          [\A r \in Router :
              LET d == iface[r].dr
                  e == iface'[r].dr
              IN (/\ iface[r].state \in Elected /\ iface'[r].state \in Elected
                  /\ d # None /\ e # d
                  /\ d # r => /\ iface'[r].nbr[d].state \in Bidirectional
                            /\ iface'[r].nbr[d].dr = d)
                 => e \in Router \ {r} /\ iface'[r].nbr[e].dr = e]_vars
    <2> SUFFICES ASSUME IInv, AllEligible, [Next]_vars, NEW r \in Router,
                        NEW d, d = iface[r].dr, NEW e, e = iface'[r].dr,
                        iface[r].state \in Elected, iface'[r].state \in Elected,
                        d # None, e # d,
                        d # r => /\ iface'[r].nbr[d].state \in Bidirectional
                                 /\ iface'[r].nbr[d].dr = d
                 PROVE  e \in Router \ {r} /\ iface'[r].nbr[e].dr = e
      OBVIOUS
    <2>1. Yields(r, iface[r], iface'[r])
      BY StepYields
    <2>2. d \in Router
      BY DEF IInv, TypeOK, Interface, Designated
    <2>3. Backs(r, iface'[r], d)
      BY DEF Backs
    <2>4. Keeps(r, iface'[r], d)
      BY <2>1, <2>2, <2>3 DEF Yields
    <2> QED BY <2>4 DEF Keeps, Backs
  <1> QED BY <1>1, <1>2, <1>3, Invariant, PTL DEF Spec, NoPreemption
=============================================================================
