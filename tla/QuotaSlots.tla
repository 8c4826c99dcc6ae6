---------------------------- MODULE QuotaSlots ----------------------------
(***************************************************************************)
(* What the rate limiter and those who use it promise about the            *)
(* allocations of one IP: the slots taken are the ones held, a slot is     *)
(* reserved only below the quota, only a slot that is held is given back,  *)
(* once, and nothing else, the limiter's own cleanup included, changes     *)
(* either.  RateLimiter implements this for any callers that keep to it,   *)
(* AllocationLifecycle shows that the server's tasks do.                   *)
(***************************************************************************)
EXTENDS Naturals

CONSTANT
  MaxPerIp           \* the quota; 0 allows any number

VARIABLES
  slots,             \* the slots the limiter counts as taken
  held               \* the allocations and reservations that stand for them

vars == <<slots, held>>

Init == slots = 0 /\ held = 0

Reserve ==
  /\ MaxPerIp > 0 => slots < MaxPerIp
  /\ slots' = slots + 1
  /\ held' = held + 1

Release ==
  /\ held > 0
  /\ slots' = slots - 1
  /\ held' = held - 1

Next == Reserve \/ Release

Spec == Init /\ [][Next]_vars
============================================================================
