------------------------- MODULE LockProtocolProofs -------------------------
(***************************************************************************)
(* For any number of interfaces and tasks: the locks are taken in one      *)
(* order, so that some job can always go on, and the LSU handler keeps its *)
(* sender.                                                                 *)
(*                                                                         *)
(* What a task holds and waits for is tied to its phase (TaskInv).  A step *)
(* of another task can only give it what it waits for (Kept), which TaskInv*)
(* survives; so each action has to be looked at for its own task alone.    *)
(***************************************************************************)
EXTENDS LockProtocol, SequenceTheorems, WellFoundedInduction, TLAPS

\* The locks a task may hold, and wait for, in its phase.
Taken(t) == IF Kind[t] = "expiry" THEN {} ELSE Interfaces

Holdable(t) ==
  IF phase[t] = "idle" THEN {}
  ELSE IF phase[t] = "own" THEN {Own[t]}
  ELSE IF phase[t] \in {"upgrade", "work"} THEN Interfaces
  ELSE IF phase[t] = "database" THEN Taken(t) \cup {Database}
  ELSE Taken(t) \cup {Database, Static}

Awaitable(t) ==
  IF phase[t] \in {"idle", "work"} THEN {}
  ELSE IF phase[t] = "own" THEN {Own[t]}
  ELSE IF phase[t] = "upgrade" THEN Interfaces
  ELSE IF phase[t] = "database" THEN {Database}
  ELSE {Static}

\* upgrade_lock takes the interfaces from the first on.
InOrder(t) ==
  phase[t] = "upgrade" =>
    \A k \in Locks : owner[k] = t \/ Waits(t, k) =>
      \A j \in Locks : j < k => owner[j] = t

HasOwn(t) == phase[t] = "own" => owner[Own[t]] = t \/ Waits(t, Own[t])

Everything(t) ==
  (Kind[t] \in {"update", "poller"} /\ phase[t] \in {"work", "database", "static"})
    => \A i \in Interfaces : owner[i] = t

Alone(t) == Kind[t] = "expiry" => phase[t] \in {"idle", "database", "static"}

TaskInv(t) ==
  /\ \A k \in Locks : owner[k] = t => k \in Holdable(t)
  /\ \A k \in Locks : Waits(t, k) => k \in Awaitable(t)
  /\ \A k, l \in Locks : owner[k] = t /\ Waits(t, l) => k < l
  /\ InOrder(t)
  /\ HasOwn(t)
  /\ Everything(t)
  /\ Alone(t)

\* A lock somebody waits for is taken, and nobody waits twice.
QueueInv ==
  \A l \in Locks : /\ queue[l] # <<>> => owner[l] # none
                   /\ \A i, j \in DOMAIN queue[l] : queue[l][i] = queue[l][j] => i = j

IInv == TypeOK /\ QueueInv /\ (\A t \in Tasks : TaskInv(t)) /\ SenderStays

\* What a step of another task may do to t's locks.
Kept(t) ==
  /\ phase'[t] = phase[t]
  /\ \A k \in Locks :
       /\ owner[k] = t => owner'[k] = t
       /\ owner'[k] = t => owner[k] = t \/ (Waits(t, k) /\ ~Waits(t, k)')
       /\ Waits(t, k)' => Waits(t, k)
       /\ Waits(t, k) => Waits(t, k)' \/ owner'[k] = t

-----------------------------------------------------------------------------
(* Mutexes                                                                 *)

LEMMA LocksInOrder ==
  /\ Interfaces \subseteq Locks /\ Interfaces \subseteq Int
  /\ Database \in Locks /\ Static \in Locks /\ Locks \subseteq Int
  /\ \A i \in Interfaces : i < Database /\ i < Static
  /\ Database < Static
  /\ \A t \in Tasks : Own[t] \in Interfaces
  BY LockAssumption DEF Interfaces, Database, Static, Locks

\* A task waits for one lock at a time.
LEMMA OneWait ==
  ASSUME NEW t \in Tasks, TaskInv(t), NEW k \in Locks, NEW l \in Locks,
         Waits(t, k), Waits(t, l)
  PROVE  k = l
  <1>1. k \in Awaitable(t) /\ l \in Awaitable(t)
    BY DEF TaskInv
  <1>2. CASE phase[t] # "upgrade"
    BY <1>1, <1>2 DEF Awaitable
  <1>3. CASE phase[t] = "upgrade"
    <2>1. ~(k < l) /\ ~(l < k)
      <3>1. \A i \in Locks, j \in Locks : Waits(t, j) /\ i < j => owner[i] = t
        BY <1>3 DEF TaskInv, InOrder
      <3>2. ~(k < k) /\ ~(l < l)
        BY LocksInOrder
      <3> QED BY <3>1, <3>2 DEF TaskInv
    <2> QED BY <2>1, LocksInOrder
  <1> QED BY <1>2, <1>3

LEMMA KeptInv ==
  ASSUME NEW t \in Tasks, TaskInv(t), Kept(t)
  PROVE  TaskInv(t)'
  <1>1. Holdable(t)' = Holdable(t) /\ Awaitable(t)' = Awaitable(t)
    BY DEF Kept, Holdable, Awaitable, Taken
  <1>2. Awaitable(t) \subseteq Holdable(t)
    BY LocksInOrder DEF Awaitable, Holdable, Taken
  <1>3. \A k \in Locks : owner'[k] = t => k \in Holdable(t)
    BY <1>2 DEF Kept, TaskInv
  <1>4. \A k \in Locks : Waits(t, k)' => k \in Awaitable(t)
    BY DEF Kept, TaskInv
  <1>5. \A k, l \in Locks : owner'[k] = t /\ Waits(t, l)' => k < l
    <2> SUFFICES ASSUME NEW k \in Locks, NEW l \in Locks, owner'[k] = t, Waits(t, l)'
                 PROVE  k < l
      OBVIOUS
    <2>1. Waits(t, l) /\ (owner[k] = t \/ (Waits(t, k) /\ ~Waits(t, k)'))
      BY DEF Kept
    <2>2. owner[k] = t
      <3>1. Waits(t, k) => k = l
        BY <2>1, OneWait
      <3> QED BY <2>1, <3>1
    <2> QED BY <2>1, <2>2 DEF TaskInv
  <1>6. InOrder(t)'
    <2> SUFFICES ASSUME phase[t] = "upgrade", NEW k \in Locks,
                        owner'[k] = t \/ Waits(t, k)', NEW j \in Locks, j < k
                 PROVE  owner'[j] = t
      BY DEF InOrder, Kept
    <2>1. owner[k] = t \/ Waits(t, k)
      BY DEF Kept
    <2>2. owner[j] = t
      BY <2>1 DEF TaskInv, InOrder
    <2> QED BY <2>2 DEF Kept
  <1>7. HasOwn(t)'
    BY LocksInOrder DEF HasOwn, Kept, TaskInv
  <1>8. Everything(t)'
    BY LocksInOrder DEF Everything, Kept, TaskInv
  <1>9. Alone(t)'
    BY DEF Alone, Kept, TaskInv
  <1> QED BY <1>1, <1>3, <1>4, <1>5, <1>6, <1>7, <1>8, <1>9 DEF TaskInv

\* Taking a lock, or the last place in its queue.
LEMMA LockStep ==
  ASSUME TypeOK, QueueInv, NEW t \in Tasks, NEW l \in Locks,
         Lock(t, l), ~Waits(t, l), owner[l] # t
  PROVE  /\ owner' \in [Locks -> Tasks \cup {none}]
         /\ queue' \in [Locks -> Seq(Tasks)]
         /\ QueueInv'
         /\ owner'[l] = t \/ Waits(t, l)'
         /\ ~(owner'[l] = t /\ Waits(t, l)')
         /\ \A k \in Locks : k # l =>
              (owner'[k] = t <=> owner[k] = t) /\ (Waits(t, k)' <=> Waits(t, k))
         /\ \A s \in Tasks \ {t} : \A k \in Locks :
              (owner'[k] = s <=> owner[k] = s) /\ (Waits(s, k)' <=> Waits(s, k))
  <1>1. CASE owner[l] = none
    <2>1. owner' = [owner EXCEPT ![l] = t] /\ queue' = queue
      BY <1>1 DEF Lock
    <2> QED BY <1>1, <2>1, LockAssumption DEF TypeOK, QueueInv, Waits
  <1>2. CASE owner[l] # none
    <2>1. queue' = [queue EXCEPT ![l] = Append(@, t)] /\ owner' = owner
      BY <1>2 DEF Lock
    <2> DEFINE q == queue[l]
    <2>2. q \in Seq(Tasks)
      BY DEF TypeOK
    <2>3. /\ queue'[l] = Append(q, t)
          /\ \A k \in Locks : k # l => queue'[k] = queue[k]
          /\ queue' \in [Locks -> Seq(Tasks)]
      BY <2>1, <2>2 DEF TypeOK
    <2>4. /\ DOMAIN queue'[l] = DOMAIN q \cup {Len(q) + 1}
          /\ DOMAIN q = 1..Len(q) /\ Len(q) \in Nat
          /\ \A i \in DOMAIN q : queue'[l][i] = q[i]
          /\ queue'[l][Len(q) + 1] = t
      BY <2>2, <2>3
    <2>5. \A i \in DOMAIN q : q[i] # t
      BY DEF Waits
    <2>6. \A i, j \in DOMAIN queue'[l] : queue'[l][i] = queue'[l][j] => i = j
      BY <2>4, <2>5 DEF QueueInv
    <2>7. \A s \in Tasks : Waits(s, l)' <=> Waits(s, l) \/ s = t
      BY <2>4 DEF Waits
    <2>8. \A s \in Tasks, k \in Locks : k # l => (Waits(s, k)' <=> Waits(s, k))
      BY <2>3 DEF Waits
    <2>9. QueueInv'
      BY <1>2, <2>1, <2>3, <2>6 DEF QueueInv
    <2> QED BY <2>1, <2>3, <2>7, <2>8, <2>9 DEF TypeOK
  <1> QED BY <1>1, <1>2

\* Giving up some locks, each to its first waiter.
LEMMA HeadLeaves ==
  ASSUME NEW q \in Seq(Tasks), q # <<>>,
         \A i, j \in DOMAIN q : q[i] = q[j] => i = j
  PROVE  /\ Head(q) \in Tasks /\ Tail(q) \in Seq(Tasks)
         /\ \A i, j \in DOMAIN Tail(q) : Tail(q)[i] = Tail(q)[j] => i = j
         /\ \A s : (\E i \in DOMAIN Tail(q) : Tail(q)[i] = s)
                     <=> (\E i \in DOMAIN q : q[i] = s) /\ s # Head(q)
  <1>1. /\ Head(q) = q[1] /\ Tail(q) \in Seq(Tasks) /\ Len(q) \in Nat \ {0}
        /\ DOMAIN q = 1..Len(q) /\ DOMAIN Tail(q) = 1..Len(q) - 1
        /\ \A i \in 1..Len(q) - 1 : Tail(q)[i] = q[i + 1]
    OBVIOUS
  <1>2. \A i \in 1..Len(q) - 1 : i + 1 \in 1..Len(q) /\ i + 1 # 1
    BY <1>1
  <1>3. \A i \in 1..Len(q) : i # 1 => i - 1 \in 1..Len(q) - 1 /\ (i - 1) + 1 = i
    BY <1>1
  <1>4. \A i, j \in DOMAIN Tail(q) : Tail(q)[i] = Tail(q)[j] => i = j
    BY <1>1, <1>2
  <1>5. \A i \in DOMAIN Tail(q) : Tail(q)[i] # Head(q)
    BY <1>1, <1>2
  <1>6. \A i \in DOMAIN q : q[i] = Head(q) \/ \E j \in DOMAIN Tail(q) : Tail(q)[j] = q[i]
    BY <1>1, <1>3
  <1>7. \A i \in DOMAIN Tail(q) : \E j \in DOMAIN q : Tail(q)[i] = q[j]
    BY <1>1, <1>2
  <1>8. Head(q) \in Tasks
    BY <1>1
  <1> QED BY <1>1, <1>4, <1>5, <1>6, <1>7, <1>8

\* One lock passes on.
LEMMA PassStep ==
  ASSUME TypeOK, QueueInv, NEW k \in Locks, owner'[k] = Heir(k), queue'[k] = Rest(k)
  PROVE  /\ owner'[k] \in Tasks \cup {none} /\ queue'[k] \in Seq(Tasks)
         /\ queue'[k] # <<>> => owner'[k] # none
         /\ \A i, j \in DOMAIN queue'[k] : queue'[k][i] = queue'[k][j] => i = j
         /\ \A s \in Tasks : (Waits(s, k)' <=> Waits(s, k) /\ owner'[k] # s)
         /\ \A s \in Tasks : (owner'[k] = s => Waits(s, k))
  <1>1. queue[k] \in Seq(Tasks)
    BY DEF TypeOK
  <1>2. CASE queue[k] = <<>>
    <2>1. owner'[k] = none /\ queue'[k] = <<>>
      BY <1>2 DEF Heir, Rest
    <2>2. \A s : ~Waits(s, k) /\ ~Waits(s, k)'
      BY <1>2, <2>1 DEF Waits
    <2> QED BY <2>1, <2>2, LockAssumption
  <1>3. CASE queue[k] # <<>>
    <2>1. owner'[k] = Head(queue[k]) /\ queue'[k] = Tail(queue[k])
      BY <1>3 DEF Heir, Rest
    <2>2. \A i, j \in DOMAIN queue[k] : queue[k][i] = queue[k][j] => i = j
      BY DEF QueueInv
    <2>3. /\ Head(queue[k]) \in Tasks /\ Tail(queue[k]) \in Seq(Tasks)
          /\ \A i, j \in DOMAIN Tail(queue[k]) :
               Tail(queue[k])[i] = Tail(queue[k])[j] => i = j
          /\ \A s : (\E i \in DOMAIN Tail(queue[k]) : Tail(queue[k])[i] = s)
                      <=> (\E i \in DOMAIN queue[k] : queue[k][i] = s)
                            /\ s # Head(queue[k])
      BY <1>1, <1>3, <2>2, HeadLeaves
    <2>4. Head(queue[k]) = queue[k][1] /\ 1 \in DOMAIN queue[k]
      BY <1>1, <1>3
    <2> QED BY <2>1, <2>3, <2>4, LockAssumption DEF Waits
  <1> QED BY <1>2, <1>3

LEMMA UnlockStep ==
  ASSUME TypeOK, QueueInv, NEW t \in Tasks, NEW S \in SUBSET Held(t), Unlock(S)
  PROVE  /\ owner' \in [Locks -> Tasks \cup {none}]
         /\ queue' \in [Locks -> Seq(Tasks)]
         /\ QueueInv'
         /\ \A s \in Tasks : \A k \in Locks : k \notin S =>
              (owner'[k] = s <=> owner[k] = s) /\ (Waits(s, k)' <=> Waits(s, k))
         /\ \A s \in Tasks : \A k \in S :
              (owner'[k] = s => Waits(s, k) /\ ~Waits(s, k)')
              /\ (Waits(s, k)' <=> Waits(s, k) /\ owner'[k] # s)
  <1>0. S \subseteq Locks
    BY DEF Held
  <1>1. ASSUME NEW k \in Locks, k \notin S
        PROVE  owner'[k] = owner[k] /\ queue'[k] = queue[k]
    BY <1>1 DEF Unlock, PassOn
  <1>2. ASSUME NEW k \in S
        PROVE  /\ owner'[k] \in Tasks \cup {none} /\ queue'[k] \in Seq(Tasks)
               /\ queue'[k] # <<>> => owner'[k] # none
               /\ \A i, j \in DOMAIN queue'[k] : queue'[k][i] = queue'[k][j] => i = j
               /\ \A s \in Tasks : (Waits(s, k)' <=> Waits(s, k) /\ owner'[k] # s)
               /\ \A s \in Tasks : (owner'[k] = s => Waits(s, k))
    <2>1. k \in Locks /\ owner'[k] = Heir(k) /\ queue'[k] = Rest(k)
      BY <1>0, <1>2 DEF Unlock, PassOn
    <2> QED BY <2>1, PassStep
  <1>3. owner' \in [Locks -> Tasks \cup {none}]
    <2>1. \A k \in Locks : owner'[k] \in Tasks \cup {none}
      BY <1>1, <1>2 DEF TypeOK
    <2> QED BY <2>1 DEF Unlock, PassOn
  <1>4. queue' \in [Locks -> Seq(Tasks)]
    <2>1. \A k \in Locks : queue'[k] \in Seq(Tasks)
      BY <1>1, <1>2 DEF TypeOK
    <2> QED BY <2>1 DEF Unlock
  <1>5. QueueInv'
    <2>1. \A k \in Locks : /\ queue'[k] # <<>> => owner'[k] # none
                           /\ \A i, j \in DOMAIN queue'[k] :
                                queue'[k][i] = queue'[k][j] => i = j
      BY <1>1, <1>2 DEF QueueInv
    <2> QED BY <2>1 DEF QueueInv
  <1>6. \A s \in Tasks : \A k \in Locks : k \notin S =>
          (owner'[k] = s <=> owner[k] = s) /\ (Waits(s, k)' <=> Waits(s, k))
    BY <1>1 DEF Waits
  <1>7. \A s \in Tasks : \A k \in S :
              (owner'[k] = s => Waits(s, k) /\ ~Waits(s, k)')
              /\ (Waits(s, k)' <=> Waits(s, k) /\ owner'[k] # s)
    BY <1>2
  <1> QED BY <1>3, <1>4, <1>5, <1>6, <1>7

\* Both keep what belongs to others.
LEMMA OthersKept ==
  ASSUME TypeOK, NEW t \in Tasks, NEW S \in SUBSET Held(t), NEW s \in Tasks \ {t},
         phase'[s] = phase[s],
         \A k \in Locks : k \notin S =>
           (owner'[k] = s <=> owner[k] = s) /\ (Waits(s, k)' <=> Waits(s, k)),
         \A k \in S : (owner'[k] = s => Waits(s, k) /\ ~Waits(s, k)')
                      /\ (Waits(s, k)' <=> Waits(s, k) /\ owner'[k] # s)
  PROVE  Kept(s)
  BY DEF Kept, Held

\* A task leaves the queue it is in.
LEMMA LeaveQueue ==
  ASSUME NEW q \in Seq(Tasks), NEW i \in DOMAIN q,
         \A j, k \in DOMAIN q : q[j] = q[k] => j = k
  PROVE  /\ RemoveAt(q, i) \in Seq(Tasks)
         /\ \A j, k \in DOMAIN RemoveAt(q, i) :
              RemoveAt(q, i)[j] = RemoveAt(q, i)[k] => j = k
         /\ \A s : (\E j \in DOMAIN RemoveAt(q, i) : RemoveAt(q, i)[j] = s)
                     <=> (\E j \in DOMAIN q : q[j] = s) /\ s # q[i]
  <1> DEFINE r == RemoveAt(q, i)
  <1>1. Len(q) \in Nat /\ DOMAIN q = 1..Len(q) /\ i \in 1..Len(q)
    OBVIOUS
  <1>2. /\ r \in Seq(Tasks) /\ DOMAIN r = 1..Len(q) - 1
        /\ \A j \in 1..Len(q) - 1 : r[j] = IF j < i THEN q[j] ELSE q[j + 1]
    <2> DEFINE a == SubSeq(q, 1, i - 1)
               b == SubSeq(q, i + 1, Len(q))
    <2>1. a \in Seq(Tasks) /\ Len(a) = i - 1 /\ \A j \in 1..i - 1 : a[j] = q[j]
      <3>1. 1 \in Int /\ i - 1 \in Int /\ \A j \in 1..i - 1 : q[j] \in Tasks
        BY <1>1
      <3>2. /\ a \in Seq(Tasks) /\ Len(a) = IF 1 <= i - 1 THEN (i - 1) - 1 + 1 ELSE 0
            /\ \A j \in 1..(i - 1) - 1 + 1 : a[j] = q[1 + j - 1]
        BY <3>1, SubSeqProperties
      <3> HIDE DEF a
      <3> QED BY <1>1, <3>2
    <2>2. /\ b \in Seq(Tasks) /\ Len(b) = Len(q) - i
          /\ \A j \in 1..Len(q) - i : b[j] = q[i + j]
      <3>1. i + 1 \in Int /\ Len(q) \in Int /\ \A j \in i + 1..Len(q) : q[j] \in Tasks
        BY <1>1
      <3>2. /\ b \in Seq(Tasks)
            /\ Len(b) = IF i + 1 <= Len(q) THEN Len(q) - (i + 1) + 1 ELSE 0
            /\ \A j \in 1..Len(q) - (i + 1) + 1 : b[j] = q[(i + 1) + j - 1]
        BY <3>1, SubSeqProperties
      <3> HIDE DEF b
      <3>3. Len(q) - (i + 1) + 1 = Len(q) - i
        BY <1>1
      <3>4. \A j \in 1..Len(q) - i : (i + 1) + j - 1 = i + j
        BY <1>1
      <3> QED BY <1>1, <3>2, <3>3, <3>4
    <2>3. r = a \o b
      BY DEF RemoveAt
    <2> HIDE DEF a, b, r
    <2>4. /\ r \in Seq(Tasks) /\ Len(r) = Len(a) + Len(b)
          /\ \A j \in 1..Len(r) : r[j] = IF j <= Len(a) THEN a[j] ELSE b[j - Len(a)]
      <3>1. /\ a \o b \in Seq(Tasks) /\ Len(a \o b) = Len(a) + Len(b)
            /\ \A j \in 1..Len(a) + Len(b) :
                 (a \o b)[j] = IF j <= Len(a) THEN a[j] ELSE b[j - Len(a)]
        BY <2>1, <2>2, ConcatProperties, ZenonT(30)
      <3> QED BY <2>3, <3>1
    <2>5. Len(r) = Len(q) - 1
      BY <1>1, <2>1, <2>2, <2>4
    <2>6. ASSUME NEW j \in 1..Len(q) - 1
          PROVE  r[j] = IF j < i THEN q[j] ELSE q[j + 1]
      <3>1. CASE j < i
        BY <1>1, <2>1, <2>2, <2>4, <2>5, <3>1
      <3>2. CASE ~(j < i)
        <4>1. j - (i - 1) \in 1..Len(q) - i /\ i + (j - (i - 1)) = j + 1
          BY <1>1, <3>2
        <4>2. r[j] = b[j - (i - 1)]
          BY <1>1, <2>1, <2>4, <2>5, <3>2
        <4> QED BY <2>2, <3>2, <4>1, <4>2
      <3> QED BY <3>1, <3>2
    <2> QED BY <2>4, <2>5, <2>6
  <1> HIDE DEF r
  <1>3. \A j, k \in DOMAIN r : r[j] = r[k] => j = k
    <2> SUFFICES ASSUME NEW j \in DOMAIN r, NEW k \in DOMAIN r, r[j] = r[k]
                 PROVE  j = k
      OBVIOUS
    <2> DEFINE at(m) == IF m < i THEN m ELSE m + 1
    <2>1. \A m \in DOMAIN r : at(m) \in DOMAIN q /\ r[m] = q[at(m)]
      BY <1>1, <1>2
    <2>2. at(j) = at(k)
      BY <2>1
    <2> QED BY <1>1, <1>2, <2>2
  <1>4. \A j \in DOMAIN r : r[j] # q[i] /\ \E k \in DOMAIN q : r[j] = q[k]
    BY <1>1, <1>2
  <1>5. \A j \in DOMAIN q : j = i \/ \E k \in DOMAIN r : r[k] = q[j]
    <2> SUFFICES ASSUME NEW j \in DOMAIN q, j # i
                 PROVE  \E k \in DOMAIN r : r[k] = q[j]
      OBVIOUS
    <2>1. CASE j < i
      BY <1>1, <1>2, <2>1
    <2>2. CASE i < j
      <3>1. j - 1 \in DOMAIN r /\ ~(j - 1 < i) /\ (j - 1) + 1 = j
        BY <1>1, <1>2, <2>2
      <3> QED BY <1>2, <3>1
    <2> QED BY <1>1, <2>1, <2>2
  <1>6. \A s : (\E j \in DOMAIN r : r[j] = s) <=> (\E j \in DOMAIN q : q[j] = s) /\ s # q[i]
    BY <1>4, <1>5
  <1> QED BY <1>2, <1>3, <1>6 DEF r

-----------------------------------------------------------------------------
(* The steps of a task                                                     *)

\* A task's step leaves the rest to Kept.
LEMMA Finishing ==
  ASSUME IInv, NEW t \in Tasks, TypeOK', QueueInv', TaskInv(t)',
         \A s \in Tasks \ {t} : Kept(s),
         \A i \in Interfaces : nbr'[i] = nbr[i] \/ owner[i] = t,
         (Kind[t] = "update" /\ phase'[t] \in {"work", "database", "static"})
           => nbr'[Own[t]]
  PROVE  IInv'
  <1>1. \A s \in Tasks : TaskInv(s)'
    BY KeptInv DEF IInv
  <1>2. SenderStays'
    <2> SUFFICES ASSUME NEW s \in Tasks \ {t}, Kind[s] = "update",
                        phase'[s] \in {"work", "database", "static"}
                 PROVE  nbr'[Own[s]]
      BY DEF SenderStays
    <2>1. phase[s] \in {"work", "database", "static"} /\ Own[s] \in Interfaces
      BY LocksInOrder DEF Kept
    <2>2. nbr[Own[s]] /\ owner[Own[s]] = s
      BY <2>1 DEF IInv, SenderStays, TaskInv, Everything
    <2> QED BY <2>1, <2>2
  <1> QED BY <1>1, <1>2 DEF IInv

\* What waits for nothing and takes one lock.
LEMMA LockKeeps ==
  ASSUME IInv, NEW t \in Tasks, NEW l \in Locks, Lock(t, l), Ready(t), owner[l] # t,
         \A s \in Tasks \ {t} : phase'[s] = phase[s]
  PROVE  /\ owner' \in [Locks -> Tasks \cup {none}]
         /\ queue' \in [Locks -> Seq(Tasks)]
         /\ QueueInv'
         /\ owner'[l] = t \/ Waits(t, l)'
         /\ ~(owner'[l] = t /\ Waits(t, l)')
         /\ \A k \in Locks : k # l => (owner'[k] = t <=> owner[k] = t) /\ ~Waits(t, k)'
         /\ \A s \in Tasks \ {t} : Kept(s)
  <1>1. ~Waits(t, l) /\ TypeOK /\ QueueInv
    BY DEF Ready, IInv
  <1>2. /\ owner' \in [Locks -> Tasks \cup {none}]
        /\ queue' \in [Locks -> Seq(Tasks)]
        /\ QueueInv'
        /\ owner'[l] = t \/ Waits(t, l)'
        /\ ~(owner'[l] = t /\ Waits(t, l)')
        /\ \A k \in Locks : k # l =>
             (owner'[k] = t <=> owner[k] = t) /\ (Waits(t, k)' <=> Waits(t, k))
        /\ \A s \in Tasks \ {t} : \A k \in Locks :
             (owner'[k] = s <=> owner[k] = s) /\ (Waits(s, k)' <=> Waits(s, k))
    BY <1>1, LockStep
  <1>3. \A s \in Tasks \ {t} : Kept(s)
    BY <1>2 DEF Kept
  <1> QED BY <1>2, <1>3 DEF Ready

\* What waits for nothing and gives locks up.
LEMMA UnlockKeeps ==
  ASSUME IInv, NEW t \in Tasks, NEW S \in SUBSET Held(t), Unlock(S), Ready(t),
         \A s \in Tasks \ {t} : phase'[s] = phase[s]
  PROVE  /\ owner' \in [Locks -> Tasks \cup {none}]
         /\ queue' \in [Locks -> Seq(Tasks)]
         /\ QueueInv'
         /\ \A k \in Locks : owner'[k] = t <=> owner[k] = t /\ k \notin S
         /\ Ready(t)'
         /\ \A s \in Tasks \ {t} : Kept(s)
  <1>1. TypeOK /\ QueueInv
    BY DEF IInv
  <1>2. /\ owner' \in [Locks -> Tasks \cup {none}]
        /\ queue' \in [Locks -> Seq(Tasks)]
        /\ QueueInv'
        /\ \A s \in Tasks : \A k \in Locks : k \notin S =>
             (owner'[k] = s <=> owner[k] = s) /\ (Waits(s, k)' <=> Waits(s, k))
        /\ \A s \in Tasks : \A k \in S :
             (owner'[k] = s => Waits(s, k) /\ ~Waits(s, k)')
             /\ (Waits(s, k)' <=> Waits(s, k) /\ owner'[k] # s)
    BY <1>1, UnlockStep
  <1>3. \A s \in Tasks \ {t} : Kept(s)
    BY <1>1, <1>2, OthersKept
  <1> QED BY <1>2, <1>3 DEF Ready, Held

\* Steps that take or give no lock.
LEMMA NoLockKeeps ==
  ASSUME IInv, NEW t \in Tasks, UNCHANGED <<owner, queue>>,
         \A s \in Tasks \ {t} : phase'[s] = phase[s]
  PROVE  /\ QueueInv'
         /\ \A s \in Tasks : \A k \in Locks : Waits(s, k)' <=> Waits(s, k)
         /\ \A s \in Tasks \ {t} : Kept(s)
  BY DEF IInv, QueueInv, Waits, Kept

LEMMA GoStep ==
  ASSUME TypeOK, NEW t \in Tasks, NEW p \in Phases, Go(t, p)
  PROVE  /\ phase' \in [Tasks -> Phases] /\ phase'[t] = p
         /\ \A s \in Tasks \ {t} : phase'[s] = phase[s]
  BY DEF TypeOK, Go

LEMMA BeginStep == ASSUME IInv, NEW t \in Tasks, Begin(t) PROVE IInv'
  <1>1. /\ TypeOK /\ phase[t] = "idle" /\ TaskInv(t)
        /\ sections' = [sections EXCEPT ![t] = 0] /\ UNCHANGED nbr
    BY DEF Begin, IInv
  <1>5. sections' \in [Tasks -> 0..MaxSections]
    BY <1>1, LockAssumption DEF TypeOK
  <1>2. Ready(t) /\ \A k \in Locks : owner[k] # t
    BY <1>1 DEF TaskInv, Holdable, Awaitable, Ready
  <1>3. CASE Kind[t] = "expiry"
    <2>1. Go(t, "database") /\ Lock(t, Database) /\ Database \in Locks
      BY <1>3, LocksInOrder DEF Begin
    <2>2. /\ phase' \in [Tasks -> Phases] /\ phase'[t] = "database"
          /\ \A s \in Tasks \ {t} : phase'[s] = phase[s]
      BY <1>1, <2>1, GoStep DEF Phases
    <2>3. /\ owner' \in [Locks -> Tasks \cup {none}]
          /\ queue' \in [Locks -> Seq(Tasks)]
          /\ QueueInv'
          /\ owner'[Database] = t \/ Waits(t, Database)'
          /\ ~(owner'[Database] = t /\ Waits(t, Database)')
          /\ \A k \in Locks : k # Database =>
               (owner'[k] = t <=> owner[k] = t) /\ ~Waits(t, k)'
          /\ \A s \in Tasks \ {t} : Kept(s)
      BY <1>2, <2>1, <2>2, LockKeeps
    <2>4. TypeOK'
      BY <1>1, <1>5, <2>2, <2>3 DEF TypeOK
    <2>5. TaskInv(t)'
      BY <1>2, <1>3, <2>2, <2>3
      DEF TaskInv, Holdable, Awaitable, InOrder, HasOwn, Everything, Alone
    <2> QED BY <1>1, <1>3, <2>3, <2>4, <2>5, Finishing
  <1>4. CASE Kind[t] # "expiry"
    <2>1. Go(t, "own") /\ Lock(t, Own[t]) /\ Own[t] \in Locks
      BY <1>4, LocksInOrder DEF Begin
    <2>2. /\ phase' \in [Tasks -> Phases] /\ phase'[t] = "own"
          /\ \A s \in Tasks \ {t} : phase'[s] = phase[s]
      BY <1>1, <2>1, GoStep DEF Phases
    <2>3. /\ owner' \in [Locks -> Tasks \cup {none}]
          /\ queue' \in [Locks -> Seq(Tasks)]
          /\ QueueInv'
          /\ owner'[Own[t]] = t \/ Waits(t, Own[t])'
          /\ ~(owner'[Own[t]] = t /\ Waits(t, Own[t])')
          /\ \A k \in Locks : k # Own[t] =>
               (owner'[k] = t <=> owner[k] = t) /\ ~Waits(t, k)'
          /\ \A s \in Tasks \ {t} : Kept(s)
      BY <1>2, <2>1, <2>2, LockKeeps
    <2>4. TypeOK'
      BY <1>1, <1>5, <2>2, <2>3 DEF TypeOK
    <2>5. TaskInv(t)'
      BY <1>2, <1>4, <2>2, <2>3
      DEF TaskInv, Holdable, Awaitable, InOrder, HasOwn, Everything, Alone
    <2> QED BY <1>1, <2>2, <2>3, <2>4, <2>5, Finishing
  <1> QED BY <1>3, <1>4

LEMMA ServeStep == ASSUME IInv, NEW t \in Tasks, Serve(t) PROVE IInv'
  <1>1. /\ TypeOK /\ TaskInv(t) /\ phase[t] = "own" /\ Ready(t)
        /\ Kind[t] \in {"packet", "timer"} /\ Go(t, "work")
        /\ UNCHANGED <<owner, queue, sections>> /\ Own[t] \in Interfaces
    BY LocksInOrder DEF Serve, IInv
  <1>2. /\ phase' \in [Tasks -> Phases] /\ phase'[t] = "work"
        /\ \A s \in Tasks \ {t} : phase'[s] = phase[s]
    BY <1>1, GoStep DEF Phases
  <1>3. /\ QueueInv'
        /\ \A s \in Tasks : \A k \in Locks : Waits(s, k)' <=> Waits(s, k)
        /\ \A s \in Tasks \ {t} : Kept(s)
    BY <1>1, <1>2, NoLockKeeps
  <1>4. owner[Own[t]] = t
    BY <1>1, LocksInOrder DEF TaskInv, HasOwn, Ready
  <1>5. /\ nbr' \in [Interfaces -> BOOLEAN]
        /\ \A i \in Interfaces : nbr'[i] = nbr[i] \/ i = Own[t]
    BY <1>1 DEF Serve, TypeOK
  <1>6. TypeOK'
    BY <1>1, <1>2, <1>5 DEF TypeOK
  <1>7. TaskInv(t)'
    BY <1>1, <1>2, <1>3
    DEF TaskInv, Holdable, Awaitable, InOrder, HasOwn, Everything, Alone, Ready
  <1> QED BY <1>1, <1>3, <1>4, <1>5, <1>6, <1>7, Finishing

LEMMA UpgradeStep == ASSUME IInv, NEW t \in Tasks, Upgrade(t) PROVE IInv'
  <1>1. /\ TypeOK /\ TaskInv(t) /\ phase[t] = "own" /\ Ready(t)
        /\ Kind[t] \in {"update", "poller"} /\ Go(t, "upgrade")
        /\ Unlock({Own[t]}) /\ UNCHANGED sections /\ Own[t] \in Interfaces
    BY LocksInOrder DEF Upgrade, IInv, Given
  <1>2. /\ phase' \in [Tasks -> Phases] /\ phase'[t] = "upgrade"
        /\ \A s \in Tasks \ {t} : phase'[s] = phase[s]
    BY <1>1, GoStep DEF Phases
  <1>3. owner[Own[t]] = t /\ {Own[t]} \in SUBSET Held(t)
    BY <1>1, LocksInOrder DEF TaskInv, HasOwn, Ready, Held
  <1>4. /\ owner' \in [Locks -> Tasks \cup {none}]
        /\ queue' \in [Locks -> Seq(Tasks)]
        /\ QueueInv'
        /\ \A k \in Locks : owner'[k] = t <=> owner[k] = t /\ k \notin {Own[t]}
        /\ Ready(t)'
        /\ \A s \in Tasks \ {t} : Kept(s)
    BY <1>1, <1>2, <1>3, UnlockKeeps
  <1>5. /\ nbr' \in [Interfaces -> BOOLEAN]
        /\ \A i \in Interfaces : nbr'[i] = nbr[i] \/ i = Own[t]
    BY <1>1 DEF Upgrade, TypeOK
  <1>6. TypeOK'
    BY <1>1, <1>2, <1>4, <1>5 DEF TypeOK
  <1>7. \A k \in Locks : owner'[k] # t /\ ~Waits(t, k)'
    BY <1>1, <1>4 DEF TaskInv, Holdable, Ready
  <1>8. TaskInv(t)'
    BY <1>1, <1>2, <1>7
    DEF TaskInv, Holdable, Awaitable, InOrder, HasOwn, Everything, Alone
  <1> QED BY <1>2, <1>3, <1>4, <1>5, <1>6, <1>8, Finishing

LEMMA TakeNextStep == ASSUME IInv, NEW t \in Tasks, TakeNext(t) PROVE IInv'
  <1>1. /\ TypeOK /\ TaskInv(t) /\ phase[t] = "upgrade" /\ Ready(t)
        /\ UNCHANGED <<phase, sections, nbr>>
    BY DEF TakeNext, IInv
  <1>2. PICK i \in Missing(t) : (\A j \in Missing(t) : i <= j) /\ Lock(t, i)
    BY DEF TakeNext
  <1>3. i \in Interfaces /\ i \in Locks /\ owner[i] # t
    BY LocksInOrder DEF Missing
  <1>4. /\ owner' \in [Locks -> Tasks \cup {none}]
        /\ queue' \in [Locks -> Seq(Tasks)]
        /\ QueueInv'
        /\ owner'[i] = t \/ Waits(t, i)'
        /\ ~(owner'[i] = t /\ Waits(t, i)')
        /\ \A k \in Locks : k # i => (owner'[k] = t <=> owner[k] = t) /\ ~Waits(t, k)'
        /\ \A s \in Tasks \ {t} : Kept(s)
    BY <1>1, <1>2, <1>3, LockKeeps
  <1>5. TypeOK'
    BY <1>1, <1>4 DEF TypeOK
  <1>6. \A k \in Locks : owner[k] = t => k \in Interfaces
    BY <1>1 DEF TaskInv, Holdable
  <1>7. \A j \in Locks : j < i => owner[j] = t
    <2> SUFFICES ASSUME NEW j \in Locks, j < i PROVE owner[j] = t
      OBVIOUS
    <2>1. j \in Interfaces
      BY <1>3, LockAssumption DEF Interfaces, Locks
    <2>2. ~(i <= j)
      BY <1>3, <2>1, LocksInOrder
    <2> QED BY <1>2, <2>1, <2>2 DEF Missing
  <1>8. \A k \in Locks : owner[k] = t => \A j \in Locks : j < k => owner[j] = t
    BY <1>1 DEF TaskInv, InOrder
  <1>9. \A k \in Locks : owner[k] = t => k < i
    <2> SUFFICES ASSUME NEW k \in Locks, owner[k] = t PROVE k < i
      OBVIOUS
    <2>1. ~(i < k) /\ k # i
      BY <1>3, <1>8
    <2> QED BY <1>3, <2>1, LocksInOrder
  <1>10. InOrder(t)'
    <2> SUFFICES ASSUME NEW k \in Locks, owner'[k] = t \/ Waits(t, k)',
                        NEW j \in Locks, j < k
                 PROVE  owner'[j] = t
      BY DEF InOrder
    <2>1. CASE k = i
      BY <1>3, <1>4, <1>7, <2>1, LocksInOrder
    <2>2. CASE k # i
      <3>1. owner[k] = t
        BY <1>4, <2>2
      <3>2. owner[j] = t /\ j # i
        BY <1>3, <1>8, <3>1
      <3> QED BY <1>4, <3>2
    <2> QED BY <2>1, <2>2
  <1>11. \A k, l \in Locks : owner'[k] = t /\ Waits(t, l)' => k < l
    BY <1>4, <1>9
  <1>12. TaskInv(t)'
    BY <1>1, <1>3, <1>4, <1>6, <1>10, <1>11
    DEF TaskInv, Holdable, Awaitable, HasOwn, Everything, Alone
  <1> QED BY <1>1, <1>4, <1>5, <1>12, Finishing

LEMMA HasAllStep == ASSUME IInv, NEW t \in Tasks, HasAll(t) PROVE IInv'
  <1>1. /\ TypeOK /\ TaskInv(t) /\ phase[t] = "upgrade" /\ Ready(t)
        /\ Missing(t) = {} /\ Known(t) /\ Go(t, "work")
        /\ UNCHANGED <<owner, queue, sections, nbr>>
    BY DEF HasAll, IInv
  <1>2. /\ phase' \in [Tasks -> Phases] /\ phase'[t] = "work"
        /\ \A s \in Tasks \ {t} : phase'[s] = phase[s]
    BY <1>1, GoStep DEF Phases
  <1>3. /\ QueueInv'
        /\ \A s \in Tasks : \A k \in Locks : Waits(s, k)' <=> Waits(s, k)
        /\ \A s \in Tasks \ {t} : Kept(s)
    BY <1>1, <1>2, NoLockKeeps
  <1>4. TypeOK'
    BY <1>1, <1>2 DEF TypeOK
  <1>5. TaskInv(t)'
    BY <1>1, <1>2, <1>3
    DEF TaskInv, Holdable, Awaitable, InOrder, HasOwn, Everything, Alone, Ready, Missing
  <1> QED BY <1>1, <1>3, <1>4, <1>5, Finishing DEF Known

\* A job ends: Panic and Finish.
LEMMA EndStep ==
  ASSUME IInv, NEW t \in Tasks, Ready(t), Unlock(Held(t)), Go(t, "idle"),
         UNCHANGED <<sections, nbr>>
  PROVE  IInv'
  <1>1. TypeOK /\ TaskInv(t)
    BY DEF IInv
  <1>2. /\ phase' \in [Tasks -> Phases] /\ phase'[t] = "idle"
        /\ \A s \in Tasks \ {t} : phase'[s] = phase[s]
    BY <1>1, GoStep DEF Phases
  <1>3. /\ owner' \in [Locks -> Tasks \cup {none}]
        /\ queue' \in [Locks -> Seq(Tasks)]
        /\ QueueInv'
        /\ \A k \in Locks : owner'[k] = t <=> owner[k] = t /\ k \notin Held(t)
        /\ Ready(t)'
        /\ \A s \in Tasks \ {t} : Kept(s)
    BY <1>2, UnlockKeeps
  <1>4. TypeOK'
    BY <1>1, <1>2, <1>3 DEF TypeOK
  <1>5. \A k \in Locks : owner'[k] # t /\ ~Waits(t, k)'
    BY <1>3 DEF Ready, Held
  <1>6. TaskInv(t)'
    BY <1>2, <1>5
    DEF TaskInv, Holdable, Awaitable, InOrder, HasOwn, Everything, Alone
  <1> QED BY <1>2, <1>3, <1>4, <1>6, Finishing

LEMMA UseStep == ASSUME IInv, NEW t \in Tasks, Use(t) PROVE IInv'
  <1>1. /\ TypeOK /\ TaskInv(t) /\ phase[t] = "work"
        /\ sections[t] < MaxSections
        /\ sections' = [sections EXCEPT ![t] = @ + 1]
        /\ Go(t, "database") /\ Lock(t, Database) /\ UNCHANGED nbr
    BY DEF Use, IInv
  <1>2. /\ Ready(t) /\ Kind[t] # "expiry" /\ Database \in Locks
        /\ \A k \in Locks : owner[k] = t => k \in Interfaces
    BY <1>1, LocksInOrder DEF TaskInv, Holdable, Awaitable, Alone, Ready
  <1>3. owner[Database] # t
    BY <1>2, LocksInOrder
  <1>4. /\ phase' \in [Tasks -> Phases] /\ phase'[t] = "database"
        /\ \A s \in Tasks \ {t} : phase'[s] = phase[s]
    BY <1>1, GoStep DEF Phases
  <1>5. /\ owner' \in [Locks -> Tasks \cup {none}]
        /\ queue' \in [Locks -> Seq(Tasks)]
        /\ QueueInv'
        /\ owner'[Database] = t \/ Waits(t, Database)'
        /\ ~(owner'[Database] = t /\ Waits(t, Database)')
        /\ \A k \in Locks : k # Database =>
             (owner'[k] = t <=> owner[k] = t) /\ ~Waits(t, k)'
        /\ \A s \in Tasks \ {t} : Kept(s)
    BY <1>1, <1>2, <1>3, <1>4, LockKeeps
  <1>6. sections' \in [Tasks -> 0..MaxSections]
    BY <1>1, LockAssumption DEF TypeOK
  <1>7. TypeOK'
    BY <1>1, <1>4, <1>5, <1>6 DEF TypeOK
  <1>8. \A k, l \in Locks : owner'[k] = t /\ Waits(t, l)' => k < l
    BY <1>2, <1>5, LocksInOrder
  <1>9. Everything(t)'
    BY <1>1, <1>4, <1>5, LocksInOrder DEF TaskInv, Everything
  <1>10. TaskInv(t)'
    BY <1>2, <1>4, <1>5, <1>8, <1>9
    DEF TaskInv, Holdable, Awaitable, Taken, InOrder, HasOwn, Alone
  <1> QED BY <1>1, <1>4, <1>5, <1>7, <1>10, Finishing DEF IInv, SenderStays

LEMMA UseStaticStep == ASSUME IInv, NEW t \in Tasks, UseStatic(t) PROVE IInv'
  <1>1. /\ TypeOK /\ TaskInv(t) /\ phase[t] = "database" /\ Ready(t)
        /\ Go(t, "static") /\ Lock(t, Static) /\ UNCHANGED <<sections, nbr>>
    BY DEF UseStatic, IInv
  <1>2. Static \in Locks /\ \A k \in Locks : owner[k] = t => k \in Taken(t) \cup {Database}
    BY <1>1, LocksInOrder DEF TaskInv, Holdable
  <1>3. owner[Static] # t
    BY <1>2, LocksInOrder DEF Taken
  <1>4. /\ phase' \in [Tasks -> Phases] /\ phase'[t] = "static"
        /\ \A s \in Tasks \ {t} : phase'[s] = phase[s]
    BY <1>1, GoStep DEF Phases
  <1>5. /\ owner' \in [Locks -> Tasks \cup {none}]
        /\ queue' \in [Locks -> Seq(Tasks)]
        /\ QueueInv'
        /\ owner'[Static] = t \/ Waits(t, Static)'
        /\ ~(owner'[Static] = t /\ Waits(t, Static)')
        /\ \A k \in Locks : k # Static =>
             (owner'[k] = t <=> owner[k] = t) /\ ~Waits(t, k)'
        /\ \A s \in Tasks \ {t} : Kept(s)
    BY <1>1, <1>2, <1>3, <1>4, LockKeeps
  <1>6. TypeOK'
    BY <1>1, <1>4, <1>5 DEF TypeOK
  <1>7. \A k, l \in Locks : owner'[k] = t /\ Waits(t, l)' => k < l
    BY <1>2, <1>5, LocksInOrder DEF Taken
  <1>8. Everything(t)'
    BY <1>1, <1>4, <1>5, LocksInOrder DEF TaskInv, Everything
  <1>9. TaskInv(t)'
    BY <1>1, <1>2, <1>4, <1>5, <1>7, <1>8
    DEF TaskInv, Holdable, Awaitable, Taken, InOrder, HasOwn, Alone
  <1> QED BY <1>1, <1>4, <1>5, <1>6, <1>9, Finishing DEF IInv, SenderStays

LEMMA EndUseStep == ASSUME IInv, NEW t \in Tasks, EndUse(t) PROVE IInv'
  <1> DEFINE S == {Database, Static} \cap Held(t)
             p == IF Kind[t] = "expiry" THEN "idle" ELSE "work"
  <1>1. /\ TypeOK /\ TaskInv(t) /\ phase[t] \in {"database", "static"} /\ Ready(t)
        /\ Unlock(S) /\ Go(t, p) /\ UNCHANGED <<sections, nbr>>
    BY DEF EndUse, IInv
  <1>2. /\ phase' \in [Tasks -> Phases] /\ phase'[t] = p
        /\ \A s \in Tasks \ {t} : phase'[s] = phase[s]
    BY <1>1, GoStep DEF Phases
  <1>3. S \in SUBSET Held(t)
    OBVIOUS
  <1>4. /\ owner' \in [Locks -> Tasks \cup {none}]
        /\ queue' \in [Locks -> Seq(Tasks)]
        /\ QueueInv'
        /\ \A k \in Locks : owner'[k] = t <=> owner[k] = t /\ k \notin S
        /\ Ready(t)'
        /\ \A s \in Tasks \ {t} : Kept(s)
    <2> HIDE DEF S
    <2> QED BY <1>1, <1>2, <1>3, UnlockKeeps
  <1>5. TypeOK'
    BY <1>1, <1>2, <1>4 DEF TypeOK
  <1>6. \A k \in Locks : owner'[k] = t => k \in Taken(t)
    <2>1. \A k \in Locks : owner[k] = t => k \in Taken(t) \cup {Database, Static}
      BY <1>1 DEF TaskInv, Holdable
    <2> QED BY <1>4, <2>1 DEF Held
  <1>7. \A k \in Locks : k \in Interfaces => (owner'[k] = t <=> owner[k] = t)
    BY <1>4, LocksInOrder
  <1>8. Everything(t)'
    BY <1>1, <1>7, LocksInOrder DEF TaskInv, Everything
  <1>9. TaskInv(t)'
    BY <1>1, <1>2, <1>4, <1>6, <1>8
    DEF TaskInv, Holdable, Awaitable, Taken, InOrder, HasOwn, Alone, Ready
  <1> QED BY <1>1, <1>2, <1>4, <1>5, <1>9, Finishing DEF IInv, SenderStays

LEMMA AbortStep == ASSUME IInv, NEW t \in Tasks, Abort(t) PROVE IInv'
  <1>1. /\ TypeOK /\ QueueInv /\ TaskInv(t) /\ Kind[t] \in {"timer", "expiry"}
        /\ PassOn(Held(t)) /\ Go(t, "idle") /\ UNCHANGED <<sections, nbr>>
    BY DEF Abort, IInv
  <1>0. PICK l \in Locks : \E i \in DOMAIN queue[l] :
          /\ queue[l][i] = t
          /\ queue' = [m \in Locks |-> IF m = l THEN RemoveAt(queue[l], i)
                                       ELSE IF m \in Held(t) THEN Rest(m) ELSE queue[m]]
    BY DEF Abort
  <1>2. PICK i \in DOMAIN queue[l] :
          /\ queue[l][i] = t
          /\ queue' = [m \in Locks |-> IF m = l THEN RemoveAt(queue[l], i)
                                       ELSE IF m \in Held(t) THEN Rest(m) ELSE queue[m]]
    BY <1>0
  <1>3. Waits(t, l)
    BY <1>2 DEF Waits
  <1>4. l \notin Held(t)
    BY <1>1, <1>3, LocksInOrder DEF TaskInv, Held
  <1>5. /\ phase' \in [Tasks -> Phases] /\ phase'[t] = "idle"
        /\ \A s \in Tasks \ {t} : phase'[s] = phase[s]
    BY <1>1, GoStep DEF Phases
  <1>6. /\ owner'[l] = owner[l] /\ owner[l] # none
        /\ queue'[l] \in Seq(Tasks)
        /\ \A j, k \in DOMAIN queue'[l] : queue'[l][j] = queue'[l][k] => j = k
        /\ \A s \in Tasks : (Waits(s, l)' <=> Waits(s, l) /\ s # t)
    <2> DEFINE q == queue[l]
    <2>1. q \in Seq(Tasks) /\ i \in DOMAIN q /\ q[i] = t /\ queue'[l] = RemoveAt(q, i)
      BY <1>1, <1>2 DEF TypeOK
    <2>2. \A j, k \in DOMAIN q : q[j] = q[k] => j = k
      BY <1>1 DEF QueueInv
    <2>3. /\ RemoveAt(q, i) \in Seq(Tasks)
          /\ \A j, k \in DOMAIN RemoveAt(q, i) :
               RemoveAt(q, i)[j] = RemoveAt(q, i)[k] => j = k
          /\ \A s : (\E j \in DOMAIN RemoveAt(q, i) : RemoveAt(q, i)[j] = s)
                      <=> (\E j \in DOMAIN q : q[j] = s) /\ s # q[i]
      <3> HIDE DEF q
      <3> QED BY <2>1, <2>2, LeaveQueue
    <2>4. q # <<>>
      BY <2>1
    <2>5. owner[l] # none
      BY <1>1, <2>4 DEF QueueInv
    <2>6. owner'[l] = owner[l]
      BY <1>1, <1>4 DEF PassOn
    <2> QED BY <2>1, <2>3, <2>5, <2>6 DEF Waits
  <1>7. ASSUME NEW k \in Held(t)
        PROVE  /\ owner'[k] \in Tasks \cup {none} /\ queue'[k] \in Seq(Tasks)
               /\ queue'[k] # <<>> => owner'[k] # none
               /\ \A m, n \in DOMAIN queue'[k] : queue'[k][m] = queue'[k][n] => m = n
               /\ \A s \in Tasks : (Waits(s, k)' <=> Waits(s, k) /\ owner'[k] # s)
               /\ \A s \in Tasks : (owner'[k] = s => Waits(s, k))
    <2>1. k \in Locks /\ owner'[k] = Heir(k) /\ queue'[k] = Rest(k)
      BY <1>1, <1>2, <1>4, <1>7 DEF PassOn, Held
    <2> QED BY <1>1, <2>1, PassStep
  <1>8. ASSUME NEW k \in Locks, k # l, k \notin Held(t)
        PROVE  owner'[k] = owner[k] /\ queue'[k] = queue[k]
    BY <1>1, <1>2, <1>8 DEF PassOn
  <1>9. owner' \in [Locks -> Tasks \cup {none}] /\ queue' \in [Locks -> Seq(Tasks)]
    <2>1. \A k \in Locks : owner'[k] \in Tasks \cup {none} /\ queue'[k] \in Seq(Tasks)
      BY <1>1, <1>6, <1>7, <1>8 DEF TypeOK
    <2>2. owner' = [k \in Locks |-> owner'[k]] /\ queue' = [k \in Locks |-> queue'[k]]
      BY <1>1, <1>2 DEF PassOn
    <2> QED BY <2>1, <2>2
  <1>10. TypeOK'
    BY <1>1, <1>5, <1>9 DEF TypeOK
  <1>11. QueueInv'
    <2>1. \A k \in Locks :
            /\ queue'[k] # <<>> => owner'[k] # none
            /\ \A m, n \in DOMAIN queue'[k] : queue'[k][m] = queue'[k][n] => m = n
      BY <1>1, <1>6, <1>7, <1>8 DEF QueueInv
    <2> QED BY <2>1 DEF QueueInv
  <1>12. ASSUME NEW s \in Tasks \ {t} PROVE Kept(s)
    <2>1. ASSUME NEW k \in Locks
          PROVE  /\ owner[k] = s => owner'[k] = s
                 /\ owner'[k] = s => owner[k] = s \/ (Waits(s, k) /\ ~Waits(s, k)')
                 /\ Waits(s, k)' => Waits(s, k)
                 /\ Waits(s, k) => Waits(s, k)' \/ owner'[k] = s
      <3>1. CASE k = l
        BY <1>6, <3>1
      <3>2. CASE k \in Held(t)
        BY <1>7, <3>2 DEF Held
      <3>3. CASE k # l /\ k \notin Held(t)
        BY <1>8, <3>3 DEF Waits
      <3> QED BY <3>1, <3>2, <3>3
    <2> QED BY <1>5, <2>1 DEF Kept
  <1>13. \A k \in Locks : owner'[k] # t /\ ~Waits(t, k)'
    <2> SUFFICES ASSUME NEW k \in Locks PROVE owner'[k] # t /\ ~Waits(t, k)'
      OBVIOUS
    <2>1. Waits(t, k) => k = l
      BY <1>1, <1>3, OneWait
    <2>2. CASE k = l
      BY <1>4, <1>6, <2>2 DEF Held
    <2>3. CASE k \in Held(t)
      BY <1>4, <1>7, <2>1, <2>3
    <2>4. CASE k # l /\ k \notin Held(t)
      BY <1>8, <2>1, <2>4 DEF Held, Waits
    <2> QED BY <2>2, <2>3, <2>4
  <1>14. TaskInv(t)'
    BY <1>5, <1>13
    DEF TaskInv, Holdable, Awaitable, InOrder, HasOwn, Everything, Alone
  <1> QED BY <1>1, <1>5, <1>10, <1>11, <1>12, <1>14, Finishing

-----------------------------------------------------------------------------
(* Theorems                                                                *)

\* The least number of a set.
LEMMA SmallestExists ==
  ASSUME NEW S \in SUBSET Nat, S # {}
  PROVE  \E i \in S : \A j \in S : i <= j
  <1>1. PICK i \in S : \A j \in S : <<j, i>> \notin OpToRel(<, Nat)
    BY NatLessThanWellFounded, WFMin
  <1>2. \A j \in S : ~ (j < i)
    BY <1>1 DEF OpToRel
  <1> QED BY <1>2

LEMMA Invariance == Spec => []IInv
  <1>1. Init => IInv
    <2> SUFFICES ASSUME Init PROVE IInv
      OBVIOUS
    <2>1. TypeOK
      BY LockAssumption DEF Init, TypeOK, Phases
    <2>2. \A t \in Tasks : \A l \in Locks : owner[l] # t /\ ~Waits(t, l)
      BY LockAssumption DEF Init, Waits
    <2>3. \A t \in Tasks : TaskInv(t)
      BY <2>2 DEF Init, TaskInv, Holdable, Awaitable, InOrder, HasOwn, Everything, Alone
    <2> QED BY <2>1, <2>3 DEF Init, IInv, QueueInv, SenderStays
  <1>2. IInv /\ [Next]_vars => IInv'
    <2> SUFFICES ASSUME IInv, [Next]_vars PROVE IInv'
      OBVIOUS
    <2>1. ASSUME NEW t \in Tasks, Continue(t) PROVE IInv'
      <3>1. CASE Panic(t) \/ Finish(t)
        <4>1. Ready(t)
          BY <3>1 DEF Panic, Finish, IInv, TaskInv, Awaitable, Ready
        <4> QED BY <3>1, <4>1, EndStep DEF Panic, Finish
      <3> QED
        BY <2>1, <3>1, ServeStep, UpgradeStep, TakeNextStep, HasAllStep, UseStep,
           UseStaticStep, EndUseStep DEF Continue
    <2>2. CASE UNCHANGED vars
      BY <2>2 DEF vars, IInv, TypeOK, QueueInv, TaskInv, Holdable, Awaitable, Taken,
         InOrder, HasOwn, Everything, Alone, SenderStays, Waits
    <2> QED BY <2>1, <2>2, BeginStep, AbortStep DEF Next
  <1> QED BY <1>1, <1>2, PTL DEF Spec

\* The state of locks, queues and tasks is well formed, for any number of
\* interfaces and tasks.
THEOREM TypeCorrect == Spec => []TypeOK
  <1>1. IInv => TypeOK
    BY DEF IInv
  <1> QED BY <1>1, Invariance, PTL

\* The highest lock that somebody waits for belongs to a task that waits for
\* nothing: there is no deadlock, for any number of interfaces and tasks.
THEOREM NoDeadlock == Spec => []Unblocked
  <1>1. IInv => Unblocked
    <2> SUFFICES ASSUME IInv, NEW t \in Tasks, ~Ready(t)
                 PROVE  \E s \in Tasks : phase[s] # "idle" /\ Ready(s)
      BY DEF Unblocked
    <2> DEFINE Wanted(l) == l \in Locks /\ \E s \in Tasks : Waits(s, l)
               D == {d \in Nat : Wanted(Static - d)}
    <2>1. PICK l \in Locks : Waits(t, l)
      BY DEF Ready
    <2>2. Static - l \in Nat /\ Static - (Static - l) = l
      BY LockAssumption DEF Locks, Static
    <2>3. D \in SUBSET Nat /\ D # {}
      BY <2>1, <2>2
    <2>4. PICK d \in D : \A e \in D : d <= e
      <3> HIDE DEF D
      <3> QED BY <2>3, SmallestExists
    <2> DEFINE m == Static - d
    <2>5. m \in Locks /\ (\E s \in Tasks : Waits(s, m)) /\ d \in Nat
      BY <2>4
    <2>6. ASSUME NEW k \in Locks, m < k, NEW s \in Tasks, Waits(s, k) PROVE FALSE
      <3>1. Static - k \in Nat /\ Static - (Static - k) = k
        BY LockAssumption DEF Locks, Static
      <3>2. Static - k \in D
        BY <2>6, <3>1
      <3>3. d <= Static - k
        BY <2>4, <3>2
      <3>4. k \in Int /\ Static \in Int
        BY LocksInOrder
      <3> QED BY <2>5, <2>6, <3>3, <3>4
    <2> HIDE DEF m
    <2>7. queue[m] # <<>>
      BY <2>5 DEF Waits
    <2>8. owner[m] \in Tasks
      BY <2>5, <2>7 DEF IInv, TypeOK, QueueInv
    <2>9. TaskInv(owner[m])
      BY <2>8 DEF IInv
    <2>10. phase[owner[m]] # "idle"
      BY <2>5, <2>9 DEF TaskInv, Holdable
    <2>11. Ready(owner[m])
      BY <2>5, <2>6, <2>8, <2>9 DEF Ready, TaskInv
    <2> QED BY <2>8, <2>10, <2>11
  <1> QED BY <1>1, Invariance, PTL

\* Whatever other tasks do, the neighbor an LSU came from stays known while the
\* LSU is handled.
THEOREM SenderSafe == Spec => []SenderStays
  <1>1. IInv => SenderStays
    BY DEF IInv
  <1> QED BY <1>1, Invariance, PTL
=============================================================================
