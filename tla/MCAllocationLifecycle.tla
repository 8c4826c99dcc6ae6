----------------------- MODULE MCAllocationLifecycle -----------------------
(* Two clients behind one IP and one client on its own. *)
EXTENDS AllocationLifecycle, TLC

CONSTANTS c1, c2, c3, p1, p2

MCSharedIp == c1 :> p1 @@ c2 :> p1
MCClientIp == c1 :> p1 @@ c2 :> p1 @@ c3 :> p2
============================================================================
