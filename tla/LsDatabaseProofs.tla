-------------------------- MODULE LsDatabaseProofs --------------------------
(***************************************************************************)
(* What cmp of LsaHeader guarantees, and what it does not, for any headers *)
(* (module LsaOrder), and the invariants of module LsDatabase, for any     *)
(* LSAs, contents, lifetimes, sequence numbers and bounds.                 *)
(***************************************************************************)
EXTENDS LsDatabase, TLAPS

-----------------------------------------------------------------------------
(* The order of headers                                                    *)

\* Comparing the other way round gives the opposite answer: the contract of
\* Rust's Ord that sort, ==, < and >= on headers rely on.
THEOREM Antisymmetric ==
  ASSUME NEW a \in LsaHeader, NEW b \in LsaHeader
  PROVE  Newer(a, b) <=> Older(b, a)
  BY AgeAssumption DEF LsaHeader, Newer, Older, SameButAge, FarApart, AbsDiff

\* No instance is newer than another that is newer than it: two routers that
\* compare the same two headers agree on which copy to keep (lsu.rs, step 5).
THEOREM Asymmetric ==
  ASSUME NEW a \in LsaHeader, NEW b \in LsaHeader, Newer(a, b)
  PROVE  ~Newer(b, a)
  BY AgeAssumption DEF LsaHeader, Newer, SameButAge, FarApart, AbsDiff

\* "Newer" is transitive: a chain of replacements in a database (insert_lsa
\* installs only what is newer) never comes back to where it began, at one
\* moment in time.
THEOREM Transitive ==
  ASSUME NEW a \in LsaHeader, NEW b \in LsaHeader, NEW c \in LsaHeader,
         Newer(a, b), Newer(b, c)
  PROVE  Newer(a, c)
  BY AgeAssumption DEF LsaHeader, Newer, SameButAge, FarApart, AbsDiff

\* "Same" is not transitive, so == on headers is no equivalence, although
\* lsa.rs derives Eq (lsa.rs:115): ages 0, D - 1 and D with threshold D.
THEOREM SameIsNoEquivalence ==
  ASSUME MaxAgeDiff > 1, MaxAgeDiff < MaxAge
  PROVE  \E a, b, c \in LsaHeader : Same(a, b) /\ Same(b, c) /\ Newer(a, c)
<1> DEFINE H(n) == [seq |-> 0, sum |-> 0, age |-> n]
<1>1. /\ H(0) \in LsaHeader
      /\ H(MaxAgeDiff - 1) \in LsaHeader
      /\ H(MaxAgeDiff) \in LsaHeader
  BY AgeAssumption DEF LsaHeader
<1>2. Same(H(0), H(MaxAgeDiff - 1)) /\ Same(H(MaxAgeDiff - 1), H(MaxAgeDiff))
  BY AgeAssumption DEF Same, Newer, Older, SameButAge, FarApart, AbsDiff
<1>3. Newer(H(0), H(MaxAgeDiff))
  BY AgeAssumption DEF Newer, SameButAge, FarApart, AbsDiff
<1> QED
  BY <1>1, <1>2, <1>3

\* An order by sequence number or content outlives any wait: what a handler
\* found newer is still newer when it is installed later (lsu.rs:111 and 131).
THEOREM OrderSurvivesAging ==
  ASSUME NEW a \in LsaHeader, NEW b \in LsaHeader, NEW m \in Nat, NEW n \in Nat,
         Newer(a, b), ~SameButAge(a, b)
  PROVE  Newer(Aged(a, m), Aged(b, n))
  BY AgeAssumption DEF LsaHeader, Newer, SameButAge, Aged

\* An order by age does not: of two copies of one instance the older one
\* reaches MaxAge first, and is the newer one from then on.
THEOREM AgeOrderTurns ==
  ASSUME NEW a \in LsaHeader, NEW b \in LsaHeader,
         SameButAge(a, b), Newer(a, b), a.age # MaxAge
  PROVE  \E n \in Nat : Newer(Aged(b, n), Aged(a, n))
<1> DEFINE n == MaxAge - b.age
<1>1. n \in Nat /\ b.age \in Nat /\ a.age \in Nat
  BY AgeAssumption DEF LsaHeader
<1>2. a.age < b.age
  BY AgeAssumption DEF LsaHeader, Newer, SameButAge
<1>3. Aged(b, n) = [seq |-> b.seq, sum |-> b.sum, age |-> MaxAge]
  BY <1>1, AgeAssumption DEF LsaHeader, Aged
<1>4. Aged(a, n) = [seq |-> a.seq, sum |-> a.sum, age |-> a.age + n]
      /\ a.age + n < MaxAge
  BY <1>1, <1>2, AgeAssumption DEF LsaHeader, Aged
<1>5. Newer(Aged(b, n), Aged(a, n))
  BY <1>1, <1>3, <1>4, AgeAssumption DEF LsaHeader, Newer, SameButAge
<1> QED
  BY <1>1, <1>5

-----------------------------------------------------------------------------
(* Types                                                                   *)

\* An entry made from a header is an entry.
LEMMA EntryType ==
  ASSUME NEW h \in Header, NEW t \in {"sleep", "running"}, NEW f \in BOOLEAN
  PROVE  Entry(h, t, f) \in Entries
  BY DEF Entry, Entries, Header

\* Aging keeps a header within its lifetime.
LEMMA AgedType ==
  ASSUME NEW e \in Entries, NEW f \in BOOLEAN
  PROVE  Entry(Aged(e, 1), e.task, f) \in Entries
  BY AgeAssumption DEF Entry, Entries, Aged

\* insert_lsa leaves a well-formed database behind.
LEMMA InsertType ==
  ASSUME TypeOK, NEW k \in Keys, NEW h \in Header, Insert(k, h)
  PROVE  /\ db' \in [Keys -> Entries \cup {none}]
         /\ overtaken' \in [Keys -> Nat]
  <1>1. CASE NeedUpdate(k, h)
    <2>1. Entry(h, "sleep", TRUE) \in Entries
      BY EntryType
    <2>2. \E n \in {0, 1} : overtaken' = [overtaken EXCEPT ![k] = @ + n]
      BY <1>1 DEF Insert, Dropped
    <2>3. overtaken' \in [Keys -> Nat]
      BY <2>2 DEF TypeOK
    <2>4. db' \in [Keys -> Entries \cup {none}]
      BY <1>1, <2>1 DEF Insert, TypeOK
    <2> QED BY <2>3, <2>4
  <1>2. CASE ~NeedUpdate(k, h)
    BY <1>2 DEF Insert, TypeOK
  <1> QED BY <1>1, <1>2

LEMMA RecalculateType ==
  ASSUME TypeOK, Recalculate
  PROVE  routed' \in [Keys -> Contents \cup {none}] /\ stale' \in Nat
  <1>1. \A k \in Keys : Usable(k) \in Contents \cup {none}
    BY DEF Usable, Has, TypeOK, Entries
  <1> QED BY <1>1 DEF Recalculate

LEMMA TypeInit == Init => TypeOK
  <1> SUFFICES ASSUME Init PROVE TypeOK
    OBVIOUS
  <1>1. /\ db \in [Keys -> Entries \cup {none}]
        /\ overtaken \in [Keys -> Nat]
        /\ leaving \in [Keys -> Nat]
        /\ routed \in [Keys -> Contents \cup {none}]
    BY DEF Init
  <1>2. bounds \in [ticks : Nat, arrivals : Nat, changes : Nat]
    BY DEF Init
  <1> QED BY <1>1, <1>2 DEF Init, TypeOK

LEMMA HandleType ==
  ASSUME TypeOK, Handle
  PROVE  TypeOK'
  <1>0. pc \in Handlings
    BY DEF TypeOK, Handle, Compare, Lookup, Install, InstallRecalc, Flush,
           Answer, Idle, Pollings
  <1>1. CASE Compare
    <2>1. db[pc.key] \in Entries \cup {none}
      BY <1>0 DEF TypeOK, Handlings
    <2>2. pc' \in {Idle} \cup Handlings
      BY <1>0, <1>1, <2>1 DEF Compare, Handling, Handlings
    <2> QED BY <1>1, <2>2 DEF Compare, TypeOK
  <1>2. CASE Lookup
    <2>1. db[pc.key] \in Entries \cup {none}
      BY <1>0 DEF TypeOK, Handlings
    <2>2. pc' \in {Idle} \cup Handlings
      BY <1>0, <1>2, <2>1 DEF Lookup, Handling, Handlings
    <2> QED BY <1>2, <2>2 DEF Lookup, TypeOK
  <1>3. CASE Install
    <2>1. pc.key \in Keys /\ pc.lsa \in Header
      BY <1>0 DEF Handlings
    <2>2. pc' \in Handlings
      BY <1>0, <1>3 DEF Install, Handlings
    <2> QED BY <1>3, <2>1, <2>2, InsertType DEF Install, TypeOK
  <1>4. CASE InstallRecalc
    <2>1. pc' \in {Idle} \cup Handlings
      BY <1>0, <1>4 DEF InstallRecalc, Handlings
    <2> QED BY <1>4, <2>1, RecalculateType DEF InstallRecalc, TypeOK
  <1>5. CASE Flush
    <2>1. pc.key \in Keys /\ [pc.lsa EXCEPT !.age = MaxAge] \in Header
      BY <1>0, AgeAssumption DEF Handlings, Header
    <2> QED BY <1>5, <2>1, InsertType DEF Flush, TypeOK
  <1>6. CASE Answer
    BY <1>6 DEF Answer, TypeOK
  <1> QED BY <1>1, <1>2, <1>3, <1>4, <1>5, <1>6 DEF Handle

LEMMA PollerType ==
  ASSUME TypeOK, Poller
  PROVE  TypeOK'
  <1>1. CASE Poll
    <2>1. want \in Contents /\ Own \in Keys /\ InitialSeq \in InitialSeq..MaxSeq
      BY DatabaseAssumption DEF TypeOK
    <2>2. ASSUME Has(Own), db[Own].seq # MaxSeq
          PROVE  db[Own].seq + 1 \in InitialSeq..MaxSeq
      BY <2>1, <2>2, DatabaseAssumption DEF Has, TypeOK, Entries
    <2>3. \/ pc' = pc /\ pc = Idle
          \/ /\ ~(Has(Own) /\ db[Own].seq = MaxSeq)
             /\ pc' = [at |-> "originate", sum |-> want,
                       seq |-> IF Has(Own) THEN db[Own].seq + 1 ELSE InitialSeq]
      BY <1>1 DEF Poll
    <2>4. pc' \in {Idle} \cup Pollings
      BY <2>1, <2>2, <2>3 DEF Pollings
    <2> QED BY <1>1, <2>4 DEF Poll, TypeOK
  <1>2. CASE Originate
    <2>1. [seq |-> pc.seq, sum |-> pc.sum, age |-> 0] \in Header
      BY <1>2, AgeAssumption
      DEF Originate, TypeOK, Idle, Handlings, Pollings, Header
    <2>2. Own \in Keys
      BY DatabaseAssumption
    <2>3. pc' \in Pollings
      BY <1>2 DEF Originate, Pollings
    <2> QED BY <1>2, <2>1, <2>2, <2>3, InsertType DEF Originate, TypeOK
  <1>3. CASE OriginateRecalc
    BY <1>3, RecalculateType DEF OriginateRecalc, TypeOK
  <1> QED BY <1>1, <1>2, <1>3 DEF Poller

LEMMA ExpiryType ==
  ASSUME TypeOK, NEW k \in Keys, ExpiryTask(k)
  PROVE  TypeOK'
  <1>1. CASE Wake(k)
    <2>1. [db[k] EXCEPT !.task = "running"] \in Entries
      BY <1>1 DEF Wake, Has, TypeOK, Entries
    <2> QED BY <1>1, <2>1 DEF Wake, TypeOK
  <1>2. CASE Expire(k)
    BY <1>2 DEF Expire, TypeOK
  <1>3. CASE RemoveOther(k)
    <2>1. overtaken[k] \in Nat \ {0}
      BY <1>3 DEF RemoveOther, TypeOK
    <2>2. PICK n \in {0, 1} : overtaken' = [overtaken EXCEPT ![k] = @ + n - 1]
      BY <1>3 DEF RemoveOther
    <2>3. overtaken' \in [Keys -> Nat]
      BY <2>1, <2>2 DEF TypeOK
    <2> QED BY <1>3, <2>3 DEF RemoveOther, TypeOK
  <1>4. CASE RecalculateAndEnd(k)
    <2>1. leaving' \in [Keys -> Nat]
      BY <1>4 DEF RecalculateAndEnd, TypeOK
    <2>2. routed' \in [Keys -> Contents \cup {none}] /\ stale' \in Nat
      BY <1>4, RecalculateType DEF RecalculateAndEnd, TypeOK
    <2> QED BY <1>4, <2>1, <2>2 DEF RecalculateAndEnd, TypeOK
  <1> QED BY <1>1, <1>2, <1>3, <1>4 DEF ExpiryTask

LEMMA TypeStep == TypeOK /\ [Next]_vars => TypeOK'
  <1> SUFFICES ASSUME TypeOK, [Next]_vars PROVE TypeOK'
    OBVIOUS
  <1>1. ASSUME NEW a \in Arrivals, Receive(a[1], a[2]) PROVE TypeOK'
    <2>1. a[1] \in Keys /\ a[2] \in Header
      BY <1>1, ArrivalsAssumption
    <2>2. pc' \in {Idle} \cup Handlings
      BY <1>1, <2>1 DEF Receive, Handling, Handlings
    <2> QED BY <1>1, <2>2 DEF Receive, TypeOK
  <1>2. CASE Change
    <2>1. bounds' \in [ticks : Nat, arrivals : Nat, changes : Nat]
      BY <1>2 DEF Change, TypeOK
    <2>2. want' \in Contents
      BY <1>2 DEF Change
    <2> QED BY <1>2, <2>1, <2>2 DEF Change, TypeOK
  <1>3. CASE Tick
    <2>1. db' \in [Keys -> Entries \cup {none}]
      BY <1>3, AgedType DEF Tick, Has, TypeOK
    <2>2. bounds' \in [ticks : Nat, arrivals : Nat, changes : Nat]
      BY <1>3 DEF Tick, TypeOK
    <2>3. stale' \in Nat
      BY <1>3 DEF Tick, TypeOK
    <2> QED BY <1>3, <2>1, <2>2, <2>3 DEF Tick, TypeOK
  <1>4. CASE UNCHANGED vars
    BY <1>4 DEF vars, TypeOK
  <1> QED
    BY <1>1, <1>2, <1>3, <1>4, HandleType, PollerType, ExpiryType DEF Next

\* The database, the tasks and the counters stay well formed; no sequence
\* number is ever past MaxSequenceNumber.
THEOREM TypeCorrect == Spec => []TypeOK
  BY TypeInit, TypeStep, PTL DEF Spec
-----------------------------------------------------------------------------
(* The inductive invariant                                                 *)

\* A task runs only when the lifetime of its entry is over.
RunningIsDying ==
  \A k \in Keys : (Has(k) /\ db[k].task = "running") => db[k].age = MaxAge

\* While the handler compares, only the end of a lifetime, or an overtaken
\* task, takes the copy away.
ComparedCopy ==
  pc.at = "again" =>
    \/ pc.old.age = MaxAge
    \/ struck
    \/ Has(pc.key) /\ db[pc.key].age = pc.old.age

\* An LSA of its own was installed and calculated with at most age ticks ago;
\* between the two, the routes have not been calculated yet.
Recomputing == \/ pc.at = "recalc" /\ pc.key = Own
               \/ pc.at = "recompute"
OwnIsYounger == (Has(Own) /\ ~Recomputing) => stale <= db[Own].age

\* A poll in this tick found a young instance or calculated the routes.
PolledIsYoung == (polled /\ alive) => stale < Refresh

\* The routes were calculated just before the own LSA is flushed.
JustCalculated == pc.at = "flush" => stale = 0

IInv == /\ JustCalculated
        /\ TypeOK /\ RunningIsDying /\ ComparedCopy
        /\ OwnIsYounger /\ PolledIsYoung /\ StaleBound

LEMMA InvInit == Init => IInv
  BY TypeInit, DatabaseAssumption
  DEF Init, IInv, RunningIsDying, ComparedCopy, OwnIsYounger, PolledIsYoung,
      StaleBound, Has, Idle, JustCalculated

\* A new entry sleeps.
LEMMA InsertSleeps ==
  ASSUME TypeOK, NEW k \in Keys, NEW h \in Header, Insert(k, h), RunningIsDying
  PROVE  RunningIsDying'
  <1>1. CASE NeedUpdate(k, h)
    BY <1>1 DEF Insert, RunningIsDying, Has, TypeOK, Entry
  <1>2. CASE ~NeedUpdate(k, h)
    BY <1>2 DEF Insert, RunningIsDying, Has
  <1> QED BY <1>1, <1>2

\* Another entry than that of k is left alone.
LEMMA InsertLeaves ==
  ASSUME TypeOK, NEW k \in Keys, NEW h \in Header, Insert(k, h),
         NEW j \in Keys, j # k
  PROVE  db'[j] = db[j]
  BY DEF Insert, TypeOK

\* Nothing a handler does makes the routes staler, and it calculates them
\* before it closes.
LEMMA HandleInv ==
  ASSUME IInv, Handle
  PROVE  IInv'
  <1>0. pc \in Handlings
    BY DEF IInv, TypeOK, Handle, Compare, Lookup, Install, InstallRecalc, Flush,
           Answer, Idle, Pollings
  <1>1. TypeOK'
    BY HandleType DEF IInv
  <1>2. pc.key \in Keys /\ pc.lsa \in Header /\ Own \in Keys
    BY <1>0, DatabaseAssumption DEF Handlings
  <1>3. CASE Compare
    <2>1. ~NeedUpdate(pc.key, pc.lsa) => Has(pc.key)
      BY DEF NeedUpdate
    <2>2. ComparedCopy'
      BY <1>0, <1>3, <2>1 DEF Compare, ComparedCopy, Handling, Handlings, Idle, Has
    <2>3. ~Recomputing /\ JustCalculated'
      BY <1>0, <1>3 DEF Compare, Recomputing, JustCalculated, Handling, Handlings, Idle
    <2> QED
      BY <1>1, <1>3, <2>2, <2>3
      DEF Compare, IInv, RunningIsDying, OwnIsYounger, PolledIsYoung, StaleBound,
          Has
  <1>4. CASE Lookup
    <2>1. ComparedCopy' /\ ~Recomputing /\ JustCalculated'
      BY <1>0, <1>4
      DEF Lookup, ComparedCopy, Recomputing, JustCalculated, Handling, Handlings,
          Idle
    <2> QED
      BY <1>1, <1>4, <2>1
      DEF Lookup, IInv, RunningIsDying, OwnIsYounger, PolledIsYoung, StaleBound, Has
  <1>5. CASE Install
    <2>1. RunningIsDying'
      BY <1>2, <1>5, InsertSleeps DEF Install, IInv
    <2>2. ComparedCopy' /\ pc'.at = "recalc" /\ pc'.key = pc.key
      BY <1>0, <1>5 DEF Install, ComparedCopy, Handlings
    <2>3. ~Recomputing
      BY <1>5 DEF Install, Recomputing
    <2>4. OwnIsYounger'
      <3>1. CASE pc.key = Own
        BY <2>2, <3>1 DEF OwnIsYounger, Recomputing
      <3>2. CASE pc.key # Own
        <4>1. db'[Own] = db[Own] /\ stale' = stale
          BY <1>2, <1>5, <3>2, InsertLeaves DEF Install, IInv
        <4> QED BY <2>3, <4>1 DEF OwnIsYounger, IInv, Has
      <3> QED BY <3>1, <3>2
    <2> QED
      BY <1>1, <1>5, <2>1, <2>2, <2>4
      DEF Install, IInv, PolledIsYoung, StaleBound, JustCalculated
  <1>6. CASE InstallRecalc
    <2>1. stale' = 0 /\ db' = db /\ ComparedCopy'
      BY <1>0, <1>6 DEF InstallRecalc, Recalculate, ComparedCopy, Handlings, Idle
    <2>2. OwnIsYounger'
      BY <1>1, <1>2, <2>1, AgeAssumption DEF OwnIsYounger, Has, TypeOK, Entries
    <2> QED
      BY <1>1, <2>1, <2>2, DatabaseAssumption
      DEF IInv, RunningIsDying, PolledIsYoung, StaleBound, Has, JustCalculated
  <1>7. CASE Flush
    <2> DEFINE h == [pc.lsa EXCEPT !.age = MaxAge]
    <2>1. h \in Header
      BY <1>2, AgeAssumption DEF Header
    <2>2. RunningIsDying'
      BY <1>2, <1>7, <2>1, InsertSleeps DEF Flush, IInv
    <2>3. ComparedCopy' /\ ~Recomputing /\ JustCalculated'
      BY <1>7 DEF Flush, ComparedCopy, Recomputing, JustCalculated, Idle
    <2>4. OwnIsYounger'
      <3>1. CASE db'[Own] = db[Own]
        BY <1>7, <2>3, <3>1 DEF Flush, OwnIsYounger, IInv, Has
      <3>2. CASE db'[Own] # db[Own]
        <4>1. pc.key = Own /\ NeedUpdate(pc.key, h)
          BY <1>2, <1>7, <2>1, <3>2, InsertLeaves DEF Flush, Insert, IInv
        <4>2. db'[Own].age = MaxAge
          BY <1>2, <1>7, <4>1 DEF Flush, Insert, Entry, IInv, TypeOK, Header
        <4>3. stale <= MaxAge
          BY <1>7, AgeAssumption DEF Flush, IInv, JustCalculated
        <4> QED BY <1>7, <4>2, <4>3 DEF Flush, OwnIsYounger
      <3> QED BY <3>1, <3>2
    <2> QED
      BY <1>1, <1>7, <2>2, <2>3, <2>4 DEF Flush, IInv, PolledIsYoung, StaleBound
  <1>8. CASE Answer
    <2>1. ComparedCopy' /\ ~Recomputing /\ JustCalculated'
      BY <1>8 DEF Answer, ComparedCopy, Recomputing, JustCalculated, Idle
    <2> QED
      BY <1>1, <1>8, <2>1
      DEF Answer, IInv, RunningIsDying, OwnIsYounger, PolledIsYoung, StaleBound, Has
  <1> QED BY <1>3, <1>4, <1>5, <1>6, <1>7, <1>8 DEF Handle

\* A poll leaves behind an instance that is young, or new routes.
LEMMA PollerInv ==
  ASSUME IInv, Poller
  PROVE  IInv'
  <1>1. TypeOK'
    BY PollerType DEF IInv
  <1>2. Own \in Keys
    BY DatabaseAssumption
  <1>3. CASE Poll
    <2>0. pc.at = "idle" /\ pc'.at \in {"idle", "originate"}
      <3>1. pc = Idle
        BY <1>3 DEF Poll
      <3>2. pc' = pc \/ \E x, y : pc' = [at |-> "originate", sum |-> x, seq |-> y]
        BY <1>3 DEF Poll
      <3> QED BY <3>1, <3>2 DEF Idle
    <2>1. ComparedCopy' /\ ~Recomputing /\ ~Recomputing' /\ JustCalculated'
      BY <2>0 DEF ComparedCopy, Recomputing, JustCalculated
    <2>2. UNCHANGED <<db, stale>> /\ (alive' => alive)
      BY <1>3 DEF Poll
    <2>3. PolledIsYoung'
      <3>1. CASE polled' /\ ~polled
        <4>1. Has(Own) /\ db[Own].age < Refresh
          BY <1>3, <3>1 DEF Poll
        <4>2. stale <= db[Own].age /\ db[Own].age \in Int
          BY <1>2, <2>1, <4>1 DEF IInv, OwnIsYounger, Has, TypeOK, Entries
        <4>3. stale \in Int /\ Refresh \in Int
          BY DatabaseAssumption DEF IInv, TypeOK
        <4> QED BY <2>2, <4>1, <4>2, <4>3 DEF PolledIsYoung
      <3>2. CASE ~(polled' /\ ~polled)
        BY <2>2, <3>2 DEF PolledIsYoung, IInv
      <3> QED BY <3>1, <3>2
    <2> QED
      BY <1>1, <2>1, <2>2, <2>3
      DEF IInv, RunningIsDying, OwnIsYounger, StaleBound, Has
  <1>4. CASE Originate
    <2>1. [seq |-> pc.seq, sum |-> pc.sum, age |-> 0] \in Header
      BY <1>4, AgeAssumption
      DEF Originate, IInv, TypeOK, Idle, Handlings, Pollings, Header
    <2>2. RunningIsDying'
      BY <1>2, <1>4, <2>1, InsertSleeps DEF Originate, IInv
    <2> QED
      BY <1>1, <1>4, <2>2
      DEF Originate, IInv, ComparedCopy, OwnIsYounger, Recomputing,
          PolledIsYoung, StaleBound, JustCalculated
  <1>5. CASE OriginateRecalc
    <2>1. stale' = 0 /\ db' = db
      BY <1>5 DEF OriginateRecalc, Recalculate
    <2>2. OwnIsYounger'
      BY <1>1, <1>2, <2>1, AgeAssumption DEF OwnIsYounger, Has, TypeOK, Entries
    <2> QED
      BY <1>1, <1>5, <2>1, <2>2, DatabaseAssumption
      DEF OriginateRecalc, IInv, RunningIsDying, ComparedCopy, PolledIsYoung,
          StaleBound, JustCalculated, Has, Idle
  <1> QED BY <1>3, <1>4, <1>5 DEF Poller

\* An expiry task takes away what is dying, or says that it did not.
LEMMA ExpiryInv ==
  ASSUME IInv, NEW k \in Keys, ExpiryTask(k)
  PROVE  IInv'
  <1>1. TypeOK'
    BY ExpiryType DEF IInv
  <1>2. Own \in Keys
    BY DatabaseAssumption
  <1>3. ASSUME db' = [db EXCEPT ![k] = none]
        PROVE  /\ RunningIsDying'
               /\ \A j \in Keys : Has(j)' => Has(j) /\ db'[j] = db[j]
    <2>1. \A j \in Keys : Has(j)' => j # k /\ Has(j) /\ db'[j] = db[j]
      BY <1>3 DEF Has, IInv, TypeOK
    <2> QED BY <2>1 DEF RunningIsDying, IInv
  <1>4. CASE Wake(k)
    <2>1. \A j \in Keys : /\ Has(j)' <=> Has(j)
                          /\ Has(j) => db'[j].age = db[j].age
      BY <1>4, NoneAssumption DEF Wake, Has, IInv, TypeOK, Entries
    <2>2. RunningIsDying'
      BY <1>4, <2>1 DEF Wake, RunningIsDying, IInv, TypeOK, Has
    <2>3. ComparedCopy'
      <3>1. pc.at = "again" => pc.key \in Keys
        BY DEF IInv, TypeOK, Handlings, Pollings, Idle
      <3> QED BY <1>4, <2>1, <3>1 DEF Wake, ComparedCopy, IInv
    <2> QED
      BY <1>1, <1>2, <1>4, <2>1, <2>2, <2>3
      DEF Wake, IInv, OwnIsYounger, Recomputing, PolledIsYoung, StaleBound,
          JustCalculated
  <1>5. CASE Expire(k)
    <2>1. db[k].age = MaxAge
      BY <1>5 DEF Expire, IInv, RunningIsDying
    <2>2. ComparedCopy'
      <3>1. pc.at = "again" => pc.key \in Keys
        BY DEF IInv, TypeOK, Handlings, Pollings, Idle
      <3>2. pc.key \in Keys /\ pc.key # k => db'[pc.key] = db[pc.key]
        BY <1>5 DEF Expire, IInv, TypeOK
      <3> QED BY <1>5, <2>1, <3>1, <3>2 DEF Expire, ComparedCopy, IInv, Has
    <2> QED
      BY <1>1, <1>2, <1>3, <1>5, <2>2
      DEF Expire, IInv, OwnIsYounger, Recomputing, PolledIsYoung, StaleBound,
          JustCalculated
  <1>6. CASE RemoveOther(k)
    <2>1. struck' = (struck \/ (Has(k) /\ db[k].age # MaxAge))
      BY <1>6 DEF RemoveOther
    <2>2. ComparedCopy'
      <3>1. pc.at = "again" => pc.key \in Keys
        BY DEF IInv, TypeOK, Handlings, Pollings, Idle
      <3>2. pc.key \in Keys /\ pc.key # k => db'[pc.key] = db[pc.key]
        BY <1>6 DEF RemoveOther, IInv, TypeOK
      <3> QED
        BY <1>6, <2>1, <3>1, <3>2 DEF RemoveOther, ComparedCopy, IInv, Has
    <2>3. polled' => polled
      BY <1>6 DEF RemoveOther
    <2> QED
      BY <1>1, <1>2, <1>3, <1>6, <2>2, <2>3
      DEF RemoveOther, IInv, OwnIsYounger, Recomputing, PolledIsYoung,
          StaleBound, JustCalculated
  <1>7. CASE RecalculateAndEnd(k)
    <2>1. stale' = 0 \/ stale' = stale
      BY <1>7 DEF RecalculateAndEnd, Recalculate
    <2>2. db' = db /\ pc' = pc /\ polled' = polled /\ alive' = alive
      BY <1>7 DEF RecalculateAndEnd
    <2>3. OwnIsYounger'
      <3>1. Has(Own)' => db'[Own].age >= 0
        BY <1>1, <1>2, AgeAssumption DEF Has, TypeOK, Entries
      <3> QED BY <2>1, <2>2, <3>1 DEF OwnIsYounger, Recomputing, IInv, Has
    <2> QED
      BY <1>1, <1>7, <2>1, <2>2, <2>3, DatabaseAssumption
      DEF RecalculateAndEnd, IInv, RunningIsDying, ComparedCopy, PolledIsYoung,
          StaleBound, JustCalculated, Has
  <1> QED BY <1>4, <1>5, <1>6, <1>7 DEF ExpiryTask

LEMMA InvStep == IInv /\ [Next]_vars => IInv'
  <1> SUFFICES ASSUME IInv, [Next]_vars PROVE IInv'
    OBVIOUS
  <1>1. TypeOK'
    BY TypeStep DEF IInv
  <1>2. ASSUME NEW a \in Arrivals, Receive(a[1], a[2]) PROVE IInv'
    <2>1. ~Recomputing /\ ComparedCopy' /\ JustCalculated'
      BY <1>2 DEF Receive, Recomputing, ComparedCopy, JustCalculated, Handling, Idle
    <2> QED
      BY <1>1, <1>2, <2>1
      DEF Receive, IInv, RunningIsDying, OwnIsYounger, PolledIsYoung, StaleBound,
          Has
  <1>3. CASE Change
    BY <1>1, <1>3
    DEF Change, IInv, RunningIsDying, ComparedCopy, OwnIsYounger, Recomputing,
        PolledIsYoung, StaleBound, JustCalculated, Has
  <1>4. CASE Tick
    <2>1. \A k \in Keys : Has(k)' => /\ Has(k) /\ db[k].age # MaxAge
                                    /\ db'[k].age = db[k].age + 1
                                    /\ db'[k].task = db[k].task
      <3> SUFFICES ASSUME NEW k \in Keys, Has(k)'
                   PROVE  /\ Has(k) /\ db[k].age # MaxAge
                          /\ db'[k].age = db[k].age + 1
                          /\ db'[k].task = db[k].task
        OBVIOUS
      <3>1. Has(k) /\ db[k].age # MaxAge
        BY <1>4 DEF Tick, Has
      <3>2. db'[k] = Entry(Aged(db[k], 1), db[k].task, FALSE)
        BY <1>4, <3>1 DEF Tick
      <3>3. db[k].age \in 0..MaxAge
        BY <3>1 DEF Has, IInv, TypeOK, Entries
      <3> QED BY <3>1, <3>2, <3>3, AgeAssumption DEF Entry, Aged
    <2>2. stale' \in {0, stale + 1} /\ ~polled' /\ pc' = pc /\ alive' = alive
      BY <1>4 DEF Tick
    <2>3. stale \in Nat /\ Refresh \in Nat \ {0} /\ Own \in Keys
      BY DatabaseAssumption DEF IInv, TypeOK
    <2>4. ~Recomputing /\ ComparedCopy' /\ JustCalculated'
      BY <1>4 DEF Tick, Recomputing, ComparedCopy, JustCalculated, Idle
    <2>5. OwnIsYounger'
      <3>1. ASSUME Has(Own)' PROVE stale' <= db'[Own].age
        <4>1. stale <= db[Own].age /\ db'[Own].age = db[Own].age + 1
          BY <2>1, <2>3, <2>4, <3>1 DEF IInv, OwnIsYounger
        <4>2. db[Own].age \in Nat
          BY <2>1, <2>3, <3>1, AgeAssumption DEF Has, IInv, TypeOK, Entries
        <4> QED BY <2>2, <2>3, <4>1, <4>2
      <3> QED BY <3>1 DEF OwnIsYounger
    <2>6. StaleBound'
      <3>1. alive => polled
        BY <1>4 DEF Tick
      <3> QED BY <2>2, <2>3, <3>1 DEF StaleBound, PolledIsYoung, IInv
    <2>7. RunningIsDying'
      BY <2>1 DEF RunningIsDying, IInv
    <2> QED
      BY <1>1, <2>2, <2>4, <2>5, <2>6, <2>7 DEF IInv, PolledIsYoung
  <1>5. CASE UNCHANGED vars
    BY <1>1, <1>5
    DEF vars, IInv, RunningIsDying, ComparedCopy, OwnIsYounger, Recomputing,
        PolledIsYoung, StaleBound, JustCalculated, Has
  <1> QED
    BY <1>2, <1>3, <1>4, <1>5, HandleInv, PollerInv, ExpiryInv DEF Next

LEMMA InvCorrect == Spec => []IInv
  BY InvInit, InvStep, PTL DEF Spec

\* The unwrap of lsu.rs:169 fails only when the copy just compared was at the
\* end of its lifetime, or an overtaken expiry task has removed a live one.
THEOREM LookupsAgree == Spec => []PanicsOnlyDying
  <1>1. IInv => PanicsOnlyDying
    BY DEF IInv, ComparedCopy, PanicsOnlyDying, CopyMissing
  <1> QED BY <1>1, InvCorrect, PTL

\* While the poller lives, the routes never rest on a past database for more
\* than LsRefreshTime, whichever expiry tasks end before they recalculate.
THEOREM RoutesCatchUp == Spec => []StaleBound
  <1>1. IInv => StaleBound
    BY DEF IInv
  <1> QED BY <1>1, InvCorrect, PTL

\* What replaces an entry is newer than it, at that moment.
THEOREM NeverBack == Spec => Forward
  <1>1. ASSUME TypeOK, [Next]_vars, NEW k \in Keys, Replaced(k)
        PROVE  Newer(db'[k], db[k])
    <2>1. ASSUME NEW j \in Keys, NEW h \in Header, Insert(j, h)
          PROVE  Newer(db'[k], db[k])
      <3>1. k = j /\ NeedUpdate(k, h)
        BY <1>1, <2>1 DEF Replaced, Insert, TypeOK
      <3>2. db'[k] = Entry(h, "sleep", TRUE)
        BY <2>1, <3>1, <1>1 DEF Insert, TypeOK
      <3>3. Older(db[k], h)
        BY <1>1, <3>1 DEF Replaced, NeedUpdate
      <3> QED
        BY <1>1, <3>2, <3>3, AgeAssumption, DatabaseAssumption
        DEF Entry, Older, Newer, SameButAge, FarApart, AbsDiff, Header, TypeOK,
            Entries, Replaced, Has
    <2>2. CASE Install \/ Flush \/ Originate
      <3>1. \E j \in Keys, h \in Header : Insert(j, h)
        <4>1. CASE Install
          BY <1>1, <4>1 DEF Install, TypeOK, Handlings, Pollings, Idle
        <4>2. CASE Flush
          <5>1. pc.key \in Keys /\ [pc.lsa EXCEPT !.age = MaxAge] \in Header
            BY <1>1, <4>2, AgeAssumption
            DEF Flush, TypeOK, Handlings, Pollings, Idle, Header
          <5> QED BY <4>2, <5>1 DEF Flush
        <4>3. CASE Originate
          <5>1. [seq |-> pc.seq, sum |-> pc.sum, age |-> 0] \in Header
            BY <1>1, <4>3, AgeAssumption
            DEF Originate, TypeOK, Idle, Handlings, Pollings, Header
          <5> QED BY <4>3, <5>1, DatabaseAssumption DEF Originate
        <4> QED BY <2>2, <4>1, <4>2, <4>3
      <3> QED BY <2>1, <3>1
    <2>3. CASE Tick
      BY <1>1, <2>3, NoneAssumption DEF Tick, Replaced, Has, Entry, TypeOK
    <2>4. ASSUME NEW j \in Keys, Wake(j) PROVE FALSE
      BY <1>1, <2>4 DEF Wake, Replaced, Has, TypeOK, Entries
    <2>5. ASSUME NEW j \in Keys, db' = [db EXCEPT ![j] = none] PROVE FALSE
      BY <1>1, <2>5 DEF Replaced, Has, TypeOK
    <2>6. db' # db
      BY <1>1 DEF Replaced
    <2> QED
      BY <1>1, <2>2, <2>3, <2>4, <2>5, <2>6
      DEF Next, vars, Receive, Handle, Compare, Lookup, InstallRecalc, Answer,
          Poller, Poll, OriginateRecalc, Change, ExpiryTask, Expire, RemoveOther,
          RecalculateAndEnd
  <1>2. TypeOK /\ [Next]_vars
          => [\A k \in Keys : Replaced(k) => Newer(db'[k], db[k])]_db
    BY <1>1
  <1> QED BY <1>2, TypeCorrect, PTL DEF Spec, Forward
=============================================================================
