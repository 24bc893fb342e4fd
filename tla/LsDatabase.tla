----------------------------- MODULE LsDatabase -----------------------------
(***************************************************************************)
(* The link state database of one area of one router (area/mod.rs,         *)
(* area/lsa.rs) under the tasks that use it: the LSU handler, the poller   *)
(* that originates the router-LSA (gen_lsa.rs), and one expiry task per    *)
(* entry.  An action is one critical section of DATABASE, so everything    *)
(* that is looked up in one section and used in a later one may be stale.  *)
(* Handler and poller hold all interface locks and exclude each other; the *)
(* expiry tasks hold none.                                                 *)
(*                                                                         *)
(* A tick is MaxAgeDiff seconds; whatever is due within a tick happens     *)
(* within it.  The checksum, which also stands for what the LSA says, is   *)
(* sum.                                                                    *)
(***************************************************************************)
EXTENDS LsaOrder, FiniteSets

CONSTANTS Keys, Own,        \* LSAs, and the router's own router-LSA
          Refresh,          \* LsRefreshTime in ticks
          InitialSeq, MaxSeq,
          Contents,         \* what an LSA may say
          Arrivals,         \* the <<LSA, header>> that updates may bring
          none,             \* no LSA
          MaxTicks, MaxArrivals, MaxChanges    \* bounds

ASSUME DatabaseAssumption ==
  /\ Own \in Keys
  /\ Refresh \in 1..MaxAge
  /\ InitialSeq \in Int /\ MaxSeq \in Int /\ InitialSeq < MaxSeq
  /\ Contents \subseteq Int /\ Contents # {}
  /\ MaxTicks \in Nat /\ MaxArrivals \in Nat /\ MaxChanges \in Nat

VARIABLES
  db,        \* LSA -> the entry, or none
  overtaken, \* LSA -> expiry tasks that run although their entry was replaced
  leaving,   \* LSA -> expiry tasks that have removed an entry and may recalculate
  pc,        \* what the handler or the poller is about to do
  routed,    \* LSA -> what it said when the routes were last calculated, or none
  want,      \* what the router-LSA should say now
  polled,    \* whether a poll ended after the last tick and the last change
  alive,     \* whether the poller task is
  stale,     \* ticks since the routes last agreed with the database
  struck,    \* whether an overtaken task removed an entry that was alive
  bounds     \* [ticks, arrivals, changes] so far

vars == <<db, overtaken, leaving, pc, routed, want, polled, alive, stale,
          struck, bounds>>

Header == [seq : InitialSeq..MaxSeq, sum : Contents, age : 0..MaxAge]

\* An entry: the header, its age up to date, the expiry task ("sleep" until
\* the lifetime ends, then "running"), and whether it was installed in this
\* tick, maybe within MinLSArrival.
Entry(h, t, f) == [seq |-> h.seq, sum |-> h.sum, age |-> h.age,
                   task |-> t, fresh |-> f]
Entries == [seq : InitialSeq..MaxSeq, sum : Contents, age : 0..MaxAge,
            task : {"sleep", "running"}, fresh : BOOLEAN]

ASSUME NoneAssumption == none \notin Entries /\ none \notin Contents
ASSUME ArrivalsAssumption == Arrivals \subseteq Keys \X Header

Has(k) == db[k] # none

\* get_all_area_lsa: what a calculation of the routes starts from
Usable(k) == IF Has(k) /\ db[k].age # MaxAge THEN db[k].sum ELSE none

Idle == [at |-> "idle"]
Handling(step, k, h, x) == [at |-> step, key |-> k, lsa |-> h, old |-> x]
Handlings == [at : {"compare", "lookup", "install", "recalc", "flush", "again"},
              key : Keys, lsa : Header, old : Entries \cup {none}]
Pollings == [at : {"originate"}, seq : InitialSeq..MaxSeq, sum : Contents]
              \cup [at : {"recompute"}]

TypeOK ==
  /\ db \in [Keys -> Entries \cup {none}]
  /\ overtaken \in [Keys -> Nat]
  /\ leaving \in [Keys -> Nat]
  /\ pc \in {Idle} \cup Handlings \cup Pollings
  /\ routed \in [Keys -> Contents \cup {none}]
  /\ want \in Contents
  /\ polled \in BOOLEAN /\ alive \in BOOLEAN /\ struck \in BOOLEAN
  /\ stale \in Nat
  /\ bounds \in [ticks : Nat, arrivals : Nat, changes : Nat]

Init ==
  /\ db = [k \in Keys |-> none]
  /\ overtaken = [k \in Keys |-> 0] /\ leaving = [k \in Keys |-> 0]
  /\ pc = Idle
  /\ routed = [k \in Keys |-> none]
  /\ want \in Contents
  /\ polled = FALSE /\ alive = TRUE /\ stale = 0 /\ struck = FALSE
  /\ bounds = [ticks |-> 0, arrivals |-> 0, changes |-> 0]

-----------------------------------------------------------------------------
(* The operations of Area.                                                 *)

\* The entry of k goes away and its LsaTimer aborts the task.  A task that has
\* begun to run is stopped at its next wait for a lock; if no lock is taken
\* when it asks, it does not wait (n = 1).
Dropped(k, n) ==
  /\ n \in IF Has(k) /\ db[k].task = "running" THEN {0, 1} ELSE {0}
  /\ overtaken' = [overtaken EXCEPT ![k] = @ + n]

\* Mutant of NeedUpdate: > instead of >=
NeedUpdateIfSame(k, h) == ~Has(k) \/ ~Newer(db[k], h)
NeedUpdate(k, h) == ~Has(k) \/ Older(db[k], h)

\* insert_lsa looks again before it replaces the entry
Insert(k, h) ==
  IF NeedUpdate(k, h)
  THEN /\ db' = [db EXCEPT ![k] = Entry(h, "sleep", TRUE)]
       /\ \E n \in {0, 1} : Dropped(k, n)
  ELSE UNCHANGED <<db, overtaken>>

\* recalc_routing
Recalculate == routed' = [k \in Keys |-> Usable(k)] /\ stale' = 0

-----------------------------------------------------------------------------
(* handle_one of handler/lsu.rs, from step 4 on.                           *)

\* Step 4: an LSA that is at its end, and not in the database, is only
\* acknowledged when no neighbor is in Exchange or Loading (quiet).
Receive(k, h) ==
  /\ pc = Idle
  /\ bounds.arrivals < MaxArrivals
  /\ bounds' = [bounds EXCEPT !.arrivals = @ + 1]
  /\ \E quiet \in BOOLEAN :
       pc' = IF h.age = MaxAge /\ ~Has(k) /\ quiet
             THEN Idle ELSE Handling("compare", k, h, none)
  /\ UNCHANGED <<db, overtaken, leaving, routed, want, polled, alive, stale,
                 struck>>

\* Step 5, and step 6, which ends the handling if the LSA is on the request list
Compare ==
  /\ pc.at = "compare"
  /\ IF NeedUpdate(pc.key, pc.lsa)
     THEN pc' = [pc EXCEPT !.at = "lookup"]
     ELSE \/ pc' = Idle
          \/ pc' = Handling("again", pc.key, pc.lsa, db[pc.key])
  /\ UNCHANGED <<db, overtaken, leaving, routed, want, polled, alive, stale,
                 struck, bounds>>

\* Step 5a: a copy younger than MinLSArrival is not replaced
Lookup ==
  /\ pc.at = "lookup"
  /\ \/ /\ Has(pc.key) /\ db[pc.key].fresh
        /\ pc' = Idle
     \/ pc' = Handling("install", pc.key, pc.lsa, db[pc.key])
  /\ UNCHANGED <<db, overtaken, leaving, routed, want, polled, alive, stale,
                 struck, bounds>>

\* Step 5d
Install ==
  /\ pc.at = "install"
  /\ Insert(pc.key, pc.lsa)
  /\ pc' = [pc EXCEPT !.at = "recalc"]
  /\ polled' = (polled /\ pc.key # Own)
  /\ UNCHANGED <<leaving, routed, want, alive, stale, struck, bounds>>

\* Step 5d, and 5f: an LSA of this router that it did not have is to age out
InstallRecalc ==
  /\ pc.at = "recalc"
  /\ Recalculate
  /\ pc' = IF pc.key = Own /\ pc.old = none
           THEN [pc EXCEPT !.at = "flush"] ELSE Idle
  /\ UNCHANGED <<db, overtaken, leaving, want, polled, alive, struck, bounds>>

Flush ==
  /\ pc.at = "flush"
  /\ Insert(pc.key, [pc.lsa EXCEPT !.age = MaxAge])
  /\ pc' = Idle
  /\ UNCHANGED <<leaving, routed, want, polled, alive, stale, struck, bounds>>

\* Steps 7 and 8 unwrap the copy: without one the handler panics
CopyMissing == pc.at = "again" /\ ~Has(pc.key)

Answer ==
  /\ pc.at = "again"
  /\ pc' = Idle
  /\ UNCHANGED <<db, overtaken, leaving, routed, want, polled, alive, stale,
                 struck, bounds>>

-----------------------------------------------------------------------------
(* gen_lsa_impl of gen_lsa.rs, called by the poller.                       *)

\* Mutant of Poll: no assert_ne
PollPastMax ==
  /\ pc = Idle /\ alive
  /\ IF Has(Own) /\ db[Own].age < Refresh /\ db[Own].sum = want
     THEN polled' = TRUE /\ UNCHANGED pc
     ELSE /\ pc' = [at |-> "originate", sum |-> want,
                    seq |-> IF Has(Own) THEN db[Own].seq + 1 ELSE InitialSeq]
          /\ UNCHANGED polled
  /\ UNCHANGED <<db, overtaken, leaving, routed, want, alive, stale, struck,
                 bounds>>

\* Mutant of Poll: the contents are not compared
PollYoung ==
  /\ pc = Idle /\ alive
  /\ IF Has(Own) /\ db[Own].seq = MaxSeq
     THEN alive' = FALSE /\ UNCHANGED <<pc, polled>>
     ELSE IF Has(Own) /\ db[Own].age < Refresh
     THEN polled' = TRUE /\ UNCHANGED <<pc, alive>>
     ELSE /\ pc' = [at |-> "originate", sum |-> want,
                    seq |-> IF Has(Own) THEN db[Own].seq + 1 ELSE InitialSeq]
          /\ UNCHANGED <<alive, polled>>
  /\ UNCHANGED <<db, overtaken, leaving, routed, want, stale, struck, bounds>>

\* The old instance; at MaxSequenceNumber the poller panics, and an instance
\* that is young and says the same is left alone.
Poll ==
  /\ pc = Idle /\ alive
  /\ IF Has(Own) /\ db[Own].seq = MaxSeq
     THEN alive' = FALSE /\ UNCHANGED <<pc, polled>>
     ELSE IF Has(Own) /\ db[Own].age < Refresh /\ db[Own].sum = want
     THEN polled' = TRUE /\ UNCHANGED <<pc, alive>>
     ELSE /\ pc' = [at |-> "originate", sum |-> want,
                    seq |-> IF Has(Own) THEN db[Own].seq + 1 ELSE InitialSeq]
          /\ UNCHANGED <<alive, polled>>
  /\ UNCHANGED <<db, overtaken, leaving, routed, want, stale, struck, bounds>>

Originate ==
  /\ pc.at = "originate"
  /\ Insert(Own, [seq |-> pc.seq, sum |-> pc.sum, age |-> 0])
  /\ pc' = [at |-> "recompute"]
  /\ UNCHANGED <<leaving, routed, want, polled, alive, stale, struck, bounds>>

\* Mutant of OriginateRecalc: the routes are not calculated again
OriginateOnly ==
  /\ pc.at = "recompute"
  /\ pc' = Idle /\ polled' = TRUE
  /\ UNCHANGED <<db, overtaken, leaving, routed, want, alive, stale, struck,
                 bounds>>

OriginateRecalc ==
  /\ pc.at = "recompute"
  /\ Recalculate
  /\ pc' = Idle /\ polled' = TRUE
  /\ UNCHANGED <<db, overtaken, leaving, want, alive, struck, bounds>>

\* A neighbor or an interface changes, which takes an interface lock
Change ==
  /\ pc = Idle
  /\ bounds.changes < MaxChanges
  /\ bounds' = [bounds EXCEPT !.changes = @ + 1]
  /\ want' \in Contents \ {want}
  /\ polled' = FALSE
  /\ UNCHANGED <<db, overtaken, leaving, pc, routed, alive, stale, struck>>

-----------------------------------------------------------------------------
(* refresh_lsa of area/mod.rs, in the task of LsaTimer::new.               *)

\* Mutant of Wake: the timer is set for the refresh, not for the lifetime
WakeEarly(k) ==
  /\ Has(k) /\ db[k].task = "sleep" /\ db[k].age >= Refresh
  /\ db' = [db EXCEPT ![k].task = "running"]
  /\ UNCHANGED <<overtaken, leaving, pc, routed, want, polled, alive, stale,
                 struck, bounds>>

\* The sleep is over, the task runs up to where it asks for DATABASE
Wake(k) ==
  /\ Has(k) /\ db[k].task = "sleep" /\ db[k].age = MaxAge
  /\ db' = [db EXCEPT ![k].task = "running"]
  /\ UNCHANGED <<overtaken, leaving, pc, routed, want, polled, alive, stale,
                 struck, bounds>>

\* Mutant of Expire: looks for the entry among the external LSAs
ExpireElsewhere(k) ==
  /\ Has(k) /\ db[k].task = "running"
  /\ leaving[k] = 0
  /\ leaving' = [leaving EXCEPT ![k] = @ + 1]
  /\ UNCHANGED <<db, overtaken, pc, routed, want, polled, alive, stale, struck,
                 bounds>>

\* It removes the entry, and with it its own handle
Expire(k) ==
  /\ Has(k) /\ db[k].task = "running"
  /\ db' = [db EXCEPT ![k] = none]
  /\ leaving' = [leaving EXCEPT ![k] = @ + 1]
  /\ UNCHANGED <<overtaken, pc, routed, want, polled, alive, stale, struck,
                 bounds>>

\* A task whose entry was replaced removes what is there now
RemoveOther(k) ==
  /\ overtaken[k] > 0
  /\ db' = [db EXCEPT ![k] = none]
  /\ \E n \in IF Has(k) /\ db[k].task = "running" THEN {0, 1} ELSE {0} :
       overtaken' = [overtaken EXCEPT ![k] = @ + n - 1]
  /\ leaving' = [leaving EXCEPT ![k] = @ + 1]
  /\ struck' = (struck \/ (Has(k) /\ db[k].age # MaxAge))
  /\ polled' = (polled /\ k # Own)
  /\ UNCHANGED <<pc, routed, want, alive, stale, bounds>>

\* It recalculates, unless it has to wait for the lock: it has been aborted
RecalculateAndEnd(k) ==
  /\ leaving[k] > 0
  /\ leaving' = [leaving EXCEPT ![k] = @ - 1]
  /\ Recalculate \/ UNCHANGED <<routed, stale>>
  /\ UNCHANGED <<db, overtaken, pc, want, polled, alive, struck, bounds>>

-----------------------------------------------------------------------------
(* Time                                                                    *)

\* Time passes when nothing is due: no section is open, no lifetime is over,
\* and the poller, which runs every 8 seconds, has polled or is dead.
Tick ==
  /\ bounds.ticks < MaxTicks
  /\ pc = Idle /\ (polled \/ ~alive)
  /\ \A k \in Keys : /\ overtaken[k] = 0 /\ leaving[k] = 0
                     /\ Has(k) => db[k].age # MaxAge
  /\ bounds' = [bounds EXCEPT !.ticks = @ + 1]
  /\ db' = [k \in Keys |->
              IF Has(k) THEN Entry(Aged(db[k], 1), db[k].task, FALSE) ELSE none]
  /\ stale' = IF \A k \in Keys : routed[k] = Usable(k) THEN 0 ELSE stale + 1
  /\ polled' = FALSE
  /\ UNCHANGED <<overtaken, leaving, pc, routed, want, alive, struck>>

Handle == Compare \/ Lookup \/ Install \/ InstallRecalc \/ Flush \/ Answer
Poller == Poll \/ Originate \/ OriginateRecalc
ExpiryTask(k) == Wake(k) \/ Expire(k) \/ RemoveOther(k) \/ RecalculateAndEnd(k)

Next ==
  \/ \E a \in Arrivals : Receive(a[1], a[2])
  \/ Handle \/ Poller \/ Change \/ Tick
  \/ \E k \in Keys : ExpiryTask(k)

\* Tasks that can run do, and the poller polls again and again
Fairness == /\ WF_vars(Handle) /\ WF_vars(Poller)
            /\ \A k \in Keys : WF_vars(ExpiryTask(k))

Spec == Init /\ [][Next]_vars /\ Fairness

-----------------------------------------------------------------------------
(* Properties                                                              *)

\* need_update and get_lsa are two lookups (lsu.rs:106, 169): the copy that
\* was compared is missing, and the unwrap panics, only if that copy was at
\* the end of its lifetime, or an overtaken expiry task removed a live one.
PanicsOnlyDying == CopyMissing => pc.old.age = MaxAge \/ struck

\* An expiry task may end before it has recalculated (area/mod.rs:191), so
\* routes may rest on LSAs that are gone; while the poller lives, its own
\* refreshes recalculate them, so never for longer than LsRefreshTime.
StaleBound == alive => stale <= Refresh

\* A step puts another entry for the one of k, with a sleeping task of its own
Replaced(k) == /\ Has(k) /\ db'[k] # none
               /\ db'[k].fresh /\ db'[k].task = "sleep" /\ db'[k] # db[k]

\* What replaces an entry is newer than it at that moment (area/lsa.rs:1-3),
\* however old the comparison is that let it through (lsu.rs:106 and 131).
Forward ==
  [][\A k \in Keys : Replaced(k) => Newer(db'[k], db[k])]_db

\* Whatever is received, flushed or removed by an overtaken task, the
\* router's own LSA comes back and says what it should (gen_lsa.rs:134).
Restored == []<>(alive => Usable(Own) = want)

\* Every LSA that reaches MaxAge is removed or replaced (area/lsa.rs:3).
Expires ==
  \A k \in Keys : (Has(k) /\ db[k].age = MaxAge)
                     ~> (Has(k) => db[k].age # MaxAge)
=============================================================================
