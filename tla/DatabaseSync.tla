---------------------------- MODULE DatabaseSync ----------------------------
(***************************************************************************)
(* What database exchange promises to the rest of the daemon: a router     *)
(* learns only what its peer has had, never goes back to an older          *)
(* instance, and is Full only with everything the peer started with.       *)
(* DD packets, requests, tasks and the network are not visible here.       *)
(***************************************************************************)
EXTENDS Naturals

CONSTANTS Keys, Own

VARIABLES full,  \* full[r]: r's neighbor record is in state Full
          db     \* db[r][k]: the instance of k in r's database

Router == {1, 2}
Peer(r) == 3 - r

CaughtUp(r, d) == \A k \in Keys : d[k] >= Own[Peer(r)][k]

Init ==
    /\ full = [r \in Router |-> FALSE]
    /\ db = Own

\* r installs one newer instance, which its peer has, or had when it started.
Learn(r) ==
    \E k \in Keys : \E i \in {db[Peer(r)][k], Own[Peer(r)][k]} :
        /\ i > db[r][k]
        /\ db' = [db EXCEPT ![r][k] = i]
        /\ UNCHANGED full

BecomeFull(r) ==
    /\ ~full[r]
    /\ CaughtUp(r, db[r])
    /\ full' = [full EXCEPT ![r] = TRUE]
    /\ UNCHANGED db

GiveUp(r) ==
    /\ full[r]
    /\ full' = [full EXCEPT ![r] = FALSE]
    /\ UNCHANGED db

\* A restarted router has only its own LSAs.
Restart(r) ==
    /\ full' = [full EXCEPT ![r] = FALSE]
    /\ db' = [db EXCEPT ![r] = Own[r]]

Next == \E r \in Router : Learn(r) \/ BecomeFull(r) \/ GiveUp(r) \/ Restart(r)

Spec == Init /\ [][Next]_<<full, db>>
=============================================================================
