------------------------------ MODULE DrElection ------------------------------
(***************************************************************************)
(* The routers of one broadcast network find each other and elect the DR   *)
(* and the BDR: the hello handler, the interface state machine, the part   *)
(* of the neighbor state machine below the database exchange, and the      *)
(* wait, hello and inactivity timers.                                      *)
(*                                                                         *)
(* A handler or a timer holds the interface lock from its first line to    *)
(* its last, so it is one step.  A router is its number, which is both its *)
(* id and its address.  ExStart and all above it are one state, Adj: what  *)
(* happens there is module Adjacency.                                      *)
(***************************************************************************)
EXTENDS Naturals

CONSTANTS
    Router,
    MaxAddress,  \* the largest address
    Priority,    \* Priority[r]: router_priority, a byte
    Heard,       \* the wait timer ends only after all that are up were heard
    DDFirst,     \* a DD packet may arrive before the hello that lists r
    FaultKinds,  \* which faults may happen
    MaxFaults    \* bound: how many of them

None == 0   \* the address 0.0.0.0

MaxPriority == 255
Byte == 0..MaxPriority

ASSUME RouterAssumption == MaxAddress \in Nat /\ Router \subseteq 1..MaxAddress
ASSUME PriorityAssumption == Priority \in [Router -> Byte]
ASSUME ModeAssumption == Heard \in BOOLEAN /\ DDFirst \in BOOLEAN
ASSUME BoundAssumption == MaxFaults \in Nat

Designated == Router \cup {None}
Elected == {"DROther", "Backup", "DR"}
Off == {"Down", "Loopback"}
InterfaceState == Off \cup {"Waiting"} \cup Elected
Bidirectional == {"TwoWay", "Adj"}
NeighborState == {"Absent", "Down", "Init"} \cup Bidirectional

Neighbor  == [state : NeighborState, dr : Designated, bdr : Designated, priority : Byte]
Interface == [state : InterfaceState, dr : Designated, bdr : Designated,
              nbr : [Router -> Neighbor]]
Hello     == [dr : Designated, bdr : Designated, priority : Byte, seen : SUBSET Router]

NewNeighbor == [state |-> "Absent", dr |-> None, bdr |-> None, priority |-> 0]

\* A reset interface has no neighbors and no DR.
Cleared(state) ==
    [state |-> state, dr |-> None, bdr |-> None, nbr |-> [s \in Router |-> NewNeighbor]]

VARIABLES
    iface,   \* iface[r]: r's interface on the network
    air,     \* air[s]: s's last hello, and who may still receive it
    faults   \* faults so far

vars == <<iface, air, faults>>

Init ==
    /\ iface = [r \in Router |-> Cleared("Down")]
    /\ air = [s \in Router |->
                [hello |-> [dr |-> None, bdr |-> None, priority |-> 0, seen |-> {}],
                 to |-> {}]]
    /\ faults = 0

Fault(kind) ==
    /\ kind \in FaultKinds
    /\ faults < MaxFaults
    /\ faults' = faults + 1

---------------------------------------------------------------------------
\* The election (select_dr).  f is r's interface.

\* judge_connect: on a broadcast network, when either end is DR or BDR.  What
\* counts for the neighbor is what it says of itself.
JudgeConnect(r, f, s) ==
    \/ r \in {f.dr, f.bdr}
    \/ s \in {f.nbr[s].dr, f.nbr[s].bdr}

Candidate(s, priority, dr, bdr) ==
    [id |-> s, priority |-> priority, dr |-> dr, bdr |-> bdr]

Candidates(r, f) ==
    {c \in {Candidate(r, Priority[r], f.dr, f.bdr)} \cup
           {Candidate(s, f.nbr[s].priority, f.nbr[s].dr, f.nbr[s].bdr) :
              s \in {t \in Router : f.nbr[t].state \in Bidirectional}} :
       c.priority > 0}

Beats(c, d) ==
    \/ c.priority > d.priority
    \/ c.priority = d.priority /\ c.id >= d.id

\* The best of some candidates, or None.
Best(S) ==
    IF S = {} THEN None
    ELSE (CHOOSE c \in S : \A d \in S : Beats(c, d)).id

ClaimsDR(c) == c.dr = c.id
ClaimsBDR(c) == c.bdr = c.id

\* Step 2: among those that do not claim to be DR, claims to be BDR come first.
ElectBDR(S) ==
    LET rest == {c \in S : ~ClaimsDR(c)}
        backups == {c \in rest : ClaimsBDR(c)}
    IN Best(IF backups = {} THEN rest ELSE backups)

\* Mutant of ElectDR: the best candidate, whether it claims to be DR or not.
ElectBest(S) == Best(S)

\* Step 3: the best that claims to be DR, or else the new BDR.
ElectDR(S) ==
    LET claims == {c \in S : ClaimsDR(c)}
    IN IF claims = {} THEN ElectBDR(S) ELSE Best(claims)

\* Mutant of AdjOk: adjacencies are torn down, but not formed.
AdjOkTearsDown(r, f) ==
    [f EXCEPT !.nbr = [s \in Router |->
        IF f.nbr[s].state = "Adj" /\ ~JudgeConnect(r, f, s)
        THEN [f.nbr[s] EXCEPT !.state = "TwoWay"] ELSE f.nbr[s]]]

\* Step 7: AdjOK? for every neighbor.
AdjOk(r, f) ==
    [f EXCEPT !.nbr = [s \in Router |->
        IF f.nbr[s].state \notin Bidirectional THEN f.nbr[s]
        ELSE [f.nbr[s] EXCEPT !.state = IF JudgeConnect(r, f, s) THEN "Adj" ELSE "TwoWay"]]]

\* The candidates are not collected again in the second round of the loop
\* (step 4), which therefore elects the same.
SelectDr(r, f) ==
    LET S   == Candidates(r, f)
        dr  == ElectDR(S)
        bdr == IF ElectBDR(S) = dr THEN None ELSE ElectBDR(S)
    IN AdjOk(r, [f EXCEPT !.dr = dr, !.bdr = bdr,
                          !.state = IF dr = r THEN "DR"
                                    ELSE IF bdr = r THEN "Backup" ELSE "DROther"])

---------------------------------------------------------------------------
\* Interface and neighbor events.

\* BackupSeen and WaitTimer.
WaitOver(r, f) == IF f.state = "Waiting" THEN SelectDr(r, f) ELSE f

NeighborChange(r, f) == IF f.state \in Elected THEN SelectDr(r, f) ELSE f

\* Mutant of Lost: NeighborChange is not raised.
LostQuietly(r, f, s, state) == [f EXCEPT !.nbr[s].state = state]

\* 1-WayReceived and InactivityTimer, which take the neighbor s back.
Lost(r, f, s, state) ==
    NeighborChange(r, [f EXCEPT !.nbr[s].state = state])

OneWayReceived(r, f, s) ==
    IF f.nbr[s].state \in Bidirectional THEN Lost(r, f, s, "Init") ELSE f

TwoWayReceived(r, f, s) ==
    IF f.nbr[s].state # "Init" THEN f
    ELSE [f EXCEPT !.nbr[s].state = IF JudgeConnect(r, f, s) THEN "Adj" ELSE "TwoWay"]

\* The record after HelloReceived, with what the hello says.
HelloReceived(f, s, m) ==
    [f EXCEPT !.nbr[s] = [state |-> IF @.state \in {"Absent", "Down"} THEN "Init" ELSE @.state,
                          dr |-> m.dr, bdr |-> m.bdr, priority |-> m.priority]]

\* The claim of the neighbor in m is not the one it made before.
Changed(claim, before, s) == (claim = s) # (before = s)

PriorityHeard(r, f, old, m) ==
    IF m.priority # old.priority THEN NeighborChange(r, f) ELSE f

\* Mutant of DrHeard: a claim that is withdrawn is not noticed.
DrHeardClaim(r, f, s, old, m) ==
    IF m.dr = s /\ m.bdr = None /\ f.state = "Waiting" THEN WaitOver(r, f)
    ELSE IF m.dr = s /\ old.dr # s THEN NeighborChange(r, f) ELSE f

DrHeard(r, f, s, old, m) ==
    IF m.dr = s /\ m.bdr = None /\ f.state = "Waiting" THEN WaitOver(r, f)
    ELSE IF Changed(m.dr, old.dr, s) THEN NeighborChange(r, f) ELSE f

BdrHeard(r, f, s, old, m) ==
    IF m.bdr = s /\ f.state = "Waiting" THEN WaitOver(r, f)
    ELSE IF Changed(m.bdr, old.bdr, s) THEN NeighborChange(r, f) ELSE f

\* The hello handler: r's interface after m from s.
Handled(r, f, s, m) ==
    LET old == f.nbr[s]
        g   == HelloReceived(f, s, m)
        h   == PriorityHeard(r, TwoWayReceived(r, g, s), old, m)
    IN IF r \notin m.seen THEN OneWayReceived(r, g, s)
       ELSE BdrHeard(r, DrHeard(r, h, s, old, m), s, old, m)

---------------------------------------------------------------------------
\* Actions.

\* The poller finds the link up.
InterfaceUp(r) ==
    /\ iface[r].state = "Down"
    /\ iface' = [iface EXCEPT ![r].state = IF Priority[r] = 0 THEN "DROther" ELSE "Waiting"]
    /\ UNCHANGED <<air, faults>>

\* The poller finds it down, or a loopback (and resets it again at every poll
\* that does); or the process is started again.
GoOff(r, state, kind) ==
    /\ iface' = [iface EXCEPT ![r] = Cleared(state)]
    /\ UNCHANGED air
    /\ Fault(kind)

InterfaceDown(r) == GoOff(r, "Down", "down")
LoopInd(r) == GoOff(r, "Loopback", "loop")

UnloopInd(r) ==
    /\ iface[r].state = "Loopback"
    /\ iface' = [iface EXCEPT ![r].state = "Down"]
    /\ UNCHANGED <<air, faults>>

Up(r) == iface[r].state \notin Off

WaitTimer(r) ==
    /\ iface[r].state = "Waiting"
    /\ Heard => \A s \in Router \ {r} : Up(s) => iface[r].nbr[s].state \in Bidirectional
    /\ iface' = [iface EXCEPT ![r] = WaitOver(r, @)]
    /\ UNCHANGED <<air, faults>>

\* Mutant of SendHello: the sender receives its own multicast.
SendHelloToAll(s) ==
    /\ Up(s) /\ air[s].to = {}
    /\ air' = [air EXCEPT ![s] =
                 [hello |-> [dr |-> iface[s].dr, bdr |-> iface[s].bdr, priority |-> Priority[s],
                             seen |-> {n \in Router : iface[s].nbr[n].state # "Absent"}],
                  to |-> Router]]
    /\ UNCHANGED <<iface, faults>>

\* The hello timer.  Neighbors that are Down are forgotten first.  A hello has
\* arrived or is lost before the next one is sent.
SendHello(s) ==
    LET nbr == [n \in Router |-> IF iface[s].nbr[n].state = "Down" THEN NewNeighbor
                                 ELSE iface[s].nbr[n]]
    IN
    /\ Up(s) /\ air[s].to = {}
    /\ iface' = [iface EXCEPT ![s].nbr = nbr]
    /\ air' = [air EXCEPT ![s] =
                 [hello |-> [dr |-> iface[s].dr, bdr |-> iface[s].bdr, priority |-> Priority[s],
                             seen |-> {n \in Router : nbr[n].state # "Absent"}],
                  to |-> Router \ {s}]]
    /\ UNCHANGED faults

\* Hellos are handled whatever the state of the interface is.
Receive(r, s) ==
    /\ r \in air[s].to
    /\ iface' = [iface EXCEPT ![r] = Handled(r, @, s, air[s].hello)]
    /\ air' = [air EXCEPT ![s].to = @ \ {r}]
    /\ UNCHANGED faults

\* A DD packet shows that s hears r, just as a hello would that lists r.
ReceiveDD(r, s) ==
    /\ DDFirst
    /\ iface[s].nbr[r].state = "Adj"
    /\ iface[r].nbr[s].state = "Init"
    /\ iface' = [iface EXCEPT ![r] = TwoWayReceived(r, @, s)]
    /\ UNCHANGED <<air, faults>>

\* No hello of s for 40 seconds: s is off, or so many hellos were lost.
InactivityTimer(r, s) ==
    /\ iface[r].nbr[s].state \notin {"Absent", "Down"}
    /\ r \notin air[s].to
    /\ iface' = [iface EXCEPT ![r] = Lost(r, @, s, "Down")]
    /\ UNCHANGED air
    /\ IF Up(s) THEN Fault("silence") ELSE UNCHANGED faults

Lose(r, s) ==
    /\ r \in air[s].to
    /\ air' = [air EXCEPT ![s].to = @ \ {r}]
    /\ UNCHANGED iface
    /\ Fault("loss")

Next ==
    \E r \in Router :
        \/ InterfaceUp(r) \/ InterfaceDown(r) \/ LoopInd(r) \/ UnloopInd(r)
        \/ WaitTimer(r) \/ SendHello(r)
        \/ \E s \in Router :
            Receive(r, s) \/ ReceiveDD(r, s) \/ InactivityTimer(r, s) \/ Lose(r, s)

Spec == Init /\ [][Next]_vars

---------------------------------------------------------------------------
\* Interfaces, neighbor records and hellos are well formed, and no router is
\* its own neighbor.
TypeOK ==
    /\ iface \in [Router -> Interface]
    /\ air \in [Router -> [hello : Hello, to : SUBSET Router]]
    /\ faults \in 0..MaxFaults
    /\ \A r \in Router : iface[r].nbr[r] = NewNeighbor /\ r \notin air[r].to

\* A router that is DR or BDR for r is r itself or a neighbor r hears and is
\* heard by: every event that takes a neighbor back must elect again.
ElectedAreHeard ==
    \A r \in Router : \A d \in {iface[r].dr, iface[r].bdr} \ {None, r} :
        iface[r].nbr[d].state \in Bidirectional

\* Adjacencies are exactly those the roles call for, whatever order claims,
\* elections and changes of a neighbor's state come in.  A router of priority 0
\* is excepted: it becomes DROther without an election, and may bring neighbors
\* along that it met while its interface was down.
AdjacencyFollowsRoles ==
    \A r, s \in Router :
        (/\ Priority[r] > 0 /\ iface[r].state \in Elected
         /\ iface[r].nbr[s].state \in Bidirectional)
            => (iface[r].nbr[s].state = "Adj" <=> JudgeConnect(r, iface[r], s))

\* The DR stays DR for r, while it says that it is DR and r hears it (or is
\* it), unless another one that says so too takes over: a newcomer of higher
\* priority never does, and no split is healed by electing a third.
NoPreemption ==
    [][\A r \in Router :
        LET d == iface[r].dr
            e == iface'[r].dr
        IN (/\ iface[r].state \in Elected /\ iface'[r].state \in Elected
            /\ d # None /\ e # d
            /\ d # r => /\ iface'[r].nbr[d].state \in Bidirectional
                      /\ iface'[r].nbr[d].dr = d)
           => e \in Router \ {r} /\ iface'[r].nbr[e].dr = e]_vars

\* A neighbor that is heard and says it is DR is taken for what it says, unless
\* another one that says so is: hello.rs:54.
ClaimHonoured ==
    \A r, s \in Router :
        (/\ iface[r].state \in Elected
         /\ iface[r].nbr[s].state \in Bidirectional /\ iface[r].nbr[s].dr = s)
            => iface[r].dr \in {r, s} \cup {t \in Router : iface[r].nbr[t].dr = t}
=============================================================================
