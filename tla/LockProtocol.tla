---------------------------- MODULE LockProtocol ----------------------------
(***************************************************************************)
(* The locks of the daemon (database/mod.rs): one mutex per interface,     *)
(* DATABASE and STATIC_DB (the AS-external LSAs).  Mutexes are those of    *)
(* tokio: waiters form a queue, and a lock given up goes to the first.     *)
(*                                                                         *)
(* A packet handler or a timer takes its interface.  The LSU handler and   *)
(* the poller take all interfaces: upgrade_lock gives theirs up and then   *)
(* takes one after the other, in the order of INTERFACES.  DATABASE is     *)
(* taken inside, STATIC_DB inside DATABASE.  The end of an LSA's lifetime  *)
(* takes DATABASE alone.  Every task does one such job after the other.    *)
(***************************************************************************)
EXTENDS Integers, Sequences, SequencesExt

CONSTANTS
  Tasks,
  Kind,           \* task -> what it does
  Own,            \* task -> its interface
  Count,          \* how many interfaces there are
  none,
  MaxSections     \* bound: uses of DATABASE in one job

Kinds == {"packet", "timer", "update", "poller", "expiry"}
Interfaces == 1..Count

\* Locks are numbered in the order in which they nest
Database == Count + 1
Static == Count + 2
Locks == 1..Count + 2

ASSUME LockAssumption ==
  /\ Count \in Nat \ {0}
  /\ Kind \in [Tasks -> Kinds] /\ Own \in [Tasks -> Interfaces]
  /\ none \notin Tasks
  /\ MaxSections \in Nat

VARIABLES
  owner,      \* lock -> the task that has it, or none
  queue,      \* lock -> the tasks that wait for it
  phase,      \* task -> where it is
  sections,   \* task -> uses of DATABASE in this job
  nbr         \* interface -> is the neighbor that sends packets known?

vars == <<owner, queue, phase, sections, nbr>>

Phases == {"idle", "own", "upgrade", "work", "database", "static"}

Held(t) == {l \in Locks : owner[l] = t}
Waits(t, l) == \E i \in DOMAIN queue[l] : queue[l][i] = t
Ready(t) == \A l \in Locks : ~Waits(t, l)

Init ==
  /\ owner = [l \in Locks |-> none]
  /\ queue = [l \in Locks |-> <<>>]
  /\ phase = [t \in Tasks |-> "idle"]
  /\ sections = [t \in Tasks |-> 0]
  /\ nbr = [i \in Interfaces |-> FALSE]

-----------------------------------------------------------------------------
(* Mutex                                                                   *)

Lock(t, l) ==
  IF owner[l] = none
  THEN owner' = [owner EXCEPT ![l] = t] /\ UNCHANGED queue
  ELSE queue' = [queue EXCEPT ![l] = Append(@, t)] /\ UNCHANGED owner

\* A guard is dropped: the lock goes to its first waiter
Heir(l) == IF queue[l] = <<>> THEN none ELSE Head(queue[l])
Rest(l) == IF queue[l] = <<>> THEN <<>> ELSE Tail(queue[l])

PassOn(S) == owner' = [l \in Locks |-> IF l \in S THEN Heir(l) ELSE owner[l]]

Unlock(S) ==
  /\ PassOn(S)
  /\ queue' = [l \in Locks |-> IF l \in S THEN Rest(l) ELSE queue[l]]

Go(t, p) == phase' = [phase EXCEPT ![t] = p]

-----------------------------------------------------------------------------
(* Jobs                                                                    *)

Begin(t) ==
  /\ phase[t] = "idle"
  /\ sections' = [sections EXCEPT ![t] = 0]
  /\ IF Kind[t] = "expiry" THEN Go(t, "database") /\ Lock(t, Database)
     ELSE Go(t, "own") /\ Lock(t, Own[t])
  /\ UNCHANGED nbr

\* The interface is ours.  A packet makes its sender known; the hello timer may
\* forget it (shrink_neighbors), and the poller resets an interface that is down
Serve(t) ==
  /\ phase[t] = "own" /\ Ready(t)
  /\ Kind[t] \in {"packet", "timer"}
  /\ IF Kind[t] = "packet" THEN nbr' = [nbr EXCEPT ![Own[t]] = TRUE]
     ELSE \E b \in BOOLEAN : nbr' = [nbr EXCEPT ![Own[t]] = @ /\ b]
  /\ Go(t, "work")
  /\ UNCHANGED <<owner, queue, sections>>

\* Mutant of Given: upgrade_lock keeps the interface it has
GivenNothing(t) == {}

\* What upgrade_lock gives up first
Given(t) == {Own[t]}

Upgrade(t) ==
  /\ phase[t] = "own" /\ Ready(t)
  /\ Kind[t] \in {"update", "poller"}
  /\ IF Kind[t] = "update" THEN nbr' = [nbr EXCEPT ![Own[t]] = TRUE]
     ELSE \E b \in BOOLEAN : nbr' = [nbr EXCEPT ![Own[t]] = @ /\ b]
  /\ Unlock(Given(t))
  /\ Go(t, "upgrade")
  /\ UNCHANGED sections

\* Mutant of Missing: the interfaces after its own
MissingLater(t) == {i \in Own[t] + 1..Count : owner[i] # t}

\* The interfaces get_interfaces_impl has yet to lock
Missing(t) == {i \in Interfaces : owner[i] # t}

\* Mutant of TakeNext: in any order
TakeAny(t) ==
  /\ phase[t] = "upgrade" /\ Ready(t)
  /\ \E i \in Missing(t) : Lock(t, i)
  /\ UNCHANGED <<phase, sections, nbr>>

TakeNext(t) ==
  /\ phase[t] = "upgrade" /\ Ready(t)
  /\ \E i \in Missing(t) : /\ \A j \in Missing(t) : i <= j
                           /\ Lock(t, i)
  /\ UNCHANGED <<phase, sections, nbr>>

\* Mutant of Known: the LSU handler does not look for the sender
KnownOrNot(t) == TRUE

\* The LSU handler looks its sender up again; the poller needs nobody
Known(t) == Kind[t] = "update" => nbr[Own[t]]

HasAll(t) ==
  /\ phase[t] = "upgrade" /\ Ready(t)
  /\ Missing(t) = {}
  /\ Known(t)
  /\ Go(t, "work")
  /\ UNCHANGED <<owner, queue, sections, nbr>>

\* unwrap (lsu.rs:55) finds no neighbor: the task ends, and drops its guards
Panic(t) ==
  /\ phase[t] = "upgrade" /\ Ready(t)
  /\ Missing(t) = {}
  /\ ~Known(t)
  /\ Unlock(Held(t))
  /\ Go(t, "idle")
  /\ UNCHANGED <<sections, nbr>>

Use(t) ==
  /\ phase[t] = "work"
  /\ sections[t] < MaxSections
  /\ sections' = [sections EXCEPT ![t] = @ + 1]
  /\ Go(t, "database") /\ Lock(t, Database)
  /\ UNCHANGED nbr

\* Area's operations look at the AS-external LSAs as well
UseStatic(t) ==
  /\ phase[t] = "database" /\ Ready(t)
  /\ Go(t, "static") /\ Lock(t, Static)
  /\ UNCHANGED <<sections, nbr>>

\* The end of the statement drops both
EndUse(t) ==
  /\ phase[t] \in {"database", "static"} /\ Ready(t)
  /\ Unlock({Database, Static} \cap Held(t))
  /\ Go(t, IF Kind[t] = "expiry" THEN "idle" ELSE "work")
  /\ UNCHANGED <<sections, nbr>>

Finish(t) ==
  /\ phase[t] = "work"
  /\ Unlock(Held(t))
  /\ Go(t, "idle")
  /\ UNCHANGED <<sections, nbr>>

\* A timer's handle is aborted, or the one of a lifetime dropped with its LSA,
\* while the task waits: it leaves the queue and drops its guards
Abort(t) ==
  /\ Kind[t] \in {"timer", "expiry"}
  /\ \E l \in Locks : \E i \in DOMAIN queue[l] :
       /\ queue[l][i] = t
       /\ queue' = [m \in Locks |-> IF m = l THEN RemoveAt(queue[l], i)
                                   ELSE IF m \in Held(t) THEN Rest(m) ELSE queue[m]]
  /\ PassOn(Held(t))
  /\ Go(t, "idle")
  /\ UNCHANGED <<sections, nbr>>

Continue(t) ==
  \/ Serve(t) \/ Upgrade(t) \/ TakeNext(t) \/ HasAll(t) \/ Panic(t)
  \/ Use(t) \/ UseStatic(t) \/ EndUse(t) \/ Finish(t)

Next == \E t \in Tasks : Begin(t) \/ Continue(t) \/ Abort(t)

\* A task that has what it waits for goes on
Fairness == \A t \in Tasks : WF_vars(Continue(t))

Spec == Init /\ [][Next]_vars
FairSpec == Spec /\ Fairness

-----------------------------------------------------------------------------
(* Properties                                                              *)

TypeOK ==
  /\ owner \in [Locks -> Tasks \cup {none}]
  /\ queue \in [Locks -> Seq(Tasks)]
  /\ phase \in [Tasks -> Phases]
  /\ sections \in [Tasks -> 0..MaxSections]
  /\ nbr \in [Interfaces -> BOOLEAN]

\* Whoever waits, some job can go on: tasks that take one interface, tasks that
\* take them all, and tasks that take DATABASE without any (area/mod.rs:187,
\* against rule 1 of database/mod.rs:43) never wait for each other in a circle.
Unblocked ==
  (\E t \in Tasks : ~Ready(t)) => \E t \in Tasks : phase[t] # "idle" /\ Ready(t)

\* Once the LSU handler has found its sender again, nothing takes the sender
\* away before the handler ends: lsu.rs:55 and flooding.rs:76 unwrap it once more
\* after every use of the database.
SenderStays ==
  \A t \in Tasks : (Kind[t] = "update" /\ phase[t] \in {"work", "database", "static"})
                      => nbr[Own[t]]

\* A task gets the lock it waits for, or is aborted, although jobs begin all the
\* time and timers leave the queue in the middle.
Served ==
  \A t \in Tasks : ~Ready(t) ~> Ready(t)
=============================================================================
