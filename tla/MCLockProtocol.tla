--------------------------- MODULE MCLockProtocol ---------------------------
(* Two interfaces: LSUs and the hello timer of the first, the poller and     *)
(* other packets of the second, and an LSA that expires.                     *)
EXTENDS LockProtocol

CONSTANTS update1, poller2, timer1, packet2, expiry1

MCTasks == {update1, poller2, timer1, packet2, expiry1}
MCKind == (update1 :> "update") @@ (poller2 :> "poller") @@ (timer1 :> "timer")
            @@ (packet2 :> "packet") @@ (expiry1 :> "expiry")
MCOwn == (update1 :> 1) @@ (poller2 :> 2) @@ (timer1 :> 1)
           @@ (packet2 :> 2) @@ (expiry1 :> 1)
=============================================================================
