------------------------- MODULE ClientAllocations -------------------------
(***************************************************************************)
(* What the allocation table and the per-IP quota promise their callers,   *)
(* with no map, index, lock, handler or cleanup pass in sight: a client    *)
(* holds at most one allocation, an allocation id is granted once, and     *)
(* an allocation is granted on, and ends before, the slot it is charged    *)
(* to.  AllocationLifecycle implements this.                               *)
(***************************************************************************)
EXTENDS Naturals, FiniteSets

CONSTANTS Clients, IPs, ClientIp, Ids, None, MaxPerIp

VARIABLES
  held,   \* the allocation each client has
  slots,  \* the slots each IP is charged for
  used    \* the ids that were granted or thrown away

vars == <<held, slots, used>>

HeldBy(p) == {i \in Ids : \E c \in Clients : ClientIp[c] = p /\ held[c] = i}

\* The IP is charged for more than the allocations its clients have.
SlotFree(p) == slots[p] > Cardinality(HeldBy(p))

Init ==
  /\ held = [c \in Clients |-> None]
  /\ slots = [p \in IPs |-> 0]
  /\ used = {}

Reserve(p) ==
  /\ MaxPerIp > 0 => slots[p] < MaxPerIp
  /\ slots' = [slots EXCEPT ![p] = @ + 1]
  /\ UNCHANGED <<held, used>>

Release(p) ==
  /\ SlotFree(p)
  /\ slots' = [slots EXCEPT ![p] = @ - 1]
  /\ UNCHANGED <<held, used>>

Grant(c, i) ==
  /\ held[c] = None /\ i \notin used
  /\ SlotFree(ClientIp[c])
  /\ held' = [held EXCEPT ![c] = i]
  /\ used' = used \cup {i}
  /\ UNCHANGED slots

End(c) ==
  /\ held[c] # None
  /\ held' = [held EXCEPT ![c] = None]
  /\ UNCHANGED <<slots, used>>

\* The loser of two Allocates throws its id away.
Discard(i) ==
  /\ i \notin used
  /\ used' = used \cup {i}
  /\ UNCHANGED <<held, slots>>

Next ==
  \/ \E p \in IPs : Reserve(p) \/ Release(p)
  \/ \E c \in Clients : End(c) \/ \E i \in Ids : Grant(c, i)
  \/ \E i \in Ids : Discard(i)

Spec == Init /\ [][Next]_vars
============================================================================
