---------------------------- MODULE RateLimiter ----------------------------
(***************************************************************************)
(* The rate limiter's entry of one client IP: the window of recent         *)
(* Allocate requests and the count of allocations.                         *)
(*                                                                         *)
(* check_allocation_request, cancel_reservation and record_deallocation    *)
(* each hold the entry's shard, and so does cleanup() while it judges the  *)
(* entry: every operation is one step.  A timestamp is kept as its age.    *)
(***************************************************************************)
EXTENDS Naturals, Sequences, FiniteSetsExt

CONSTANTS
  MaxRequests,  \* max_requests_per_minute, 0 = unlimited
  MaxPerIp,     \* max_allocations_per_ip, 0 = unlimited
  Window,       \* 60 s, in ticks of the model
  MaxHeld,      \* bound: allocations held when there is no quota
  Absent        \* the IP has no entry

ASSUME LimiterAssumption ==
  /\ MaxRequests \in Nat /\ MaxPerIp \in Nat /\ MaxHeld \in Nat
  /\ Window \in Nat \ {0}
  /\ Absent \notin [request_times : Seq(0..Window), allocation_count : Nat]

VARIABLES
  entry,    \* the RateLimitEntry, or Absent
  held,     \* reservations and allocations the callers have not returned
  recent    \* ages of the requests let through in the last Window

vars == <<entry, held, recent>>

\* The types: an entry is one of Entries or Absent, held a number and recent
\* a sequence of ages below Window.
Ages == 0..Window
Entries == [request_times : Seq(Ages), allocation_count : Nat]

Init == entry = Absent /\ held = 0 /\ recent = <<>>

----------------------------------------------------------------------------
(* Helpers *)

\* entries.entry(ip).or_default()
OrDefault ==
  IF entry = Absent THEN [request_times |-> <<>>, allocation_count |-> 0] ELSE entry

\* now.duration_since(oldest) >= window, and the wrong comparison.
OldLate(age) == age > Window
Old(age) == age >= Window

\* The while loop over request_times.front(): pops up to the first recent one.
PopOld(times) ==
  LET young == {k \in DOMAIN times : ~Old(times[k])}
  IN  IF young = {} THEN <<>> ELSE SubSeq(times, Min(young), Len(times))

\* The request times once the old ones are gone, when they are kept at all.
Pruned == IF MaxRequests > 0 THEN PopOld(OrDefault.request_times) ELSE OrDefault.request_times

\* Wrong: one request more.
WindowFullLate == MaxRequests > 0 /\ Len(Pruned) > MaxRequests

WindowFull == MaxRequests > 0 /\ Len(Pruned) >= MaxRequests

\* push_back(now)
Pushed == IF MaxRequests > 0 THEN Append(Pruned, 0) ELSE Pruned

QuotaFull == MaxPerIp > 0 /\ OrDefault.allocation_count >= MaxPerIp

----------------------------------------------------------------------------
(* check_allocation_request *)

\* Wrong: a refused request extends the window.
TooManyRequestsPushed ==
  /\ WindowFull
  /\ entry' = [OrDefault EXCEPT !.request_times = Append(Tail(Pruned), 0)]
  /\ UNCHANGED <<held, recent>>

\* The window is full: the old times are gone, the request is not recorded.
TooManyRequests ==
  /\ WindowFull
  /\ entry' = [OrDefault EXCEPT !.request_times = Pruned]
  /\ UNCHANGED <<held, recent>>

\* The quota is full: the request has already taken its place in the window.
QuotaExceeded ==
  /\ ~WindowFull /\ QuotaFull
  /\ entry' = [OrDefault EXCEPT !.request_times = Pushed]
  /\ recent' = Append(recent, 0)
  /\ UNCHANGED held

\* Allowed: the slot is reserved in the same access.
Reserve ==
  /\ ~WindowFull /\ ~QuotaFull
  /\ MaxPerIp = 0 => held < MaxHeld
  /\ entry' = [request_times |-> Pushed,
               allocation_count |-> OrDefault.allocation_count + 1]
  /\ held' = held + 1
  /\ recent' = Append(recent, 0)

----------------------------------------------------------------------------
(* cancel_reservation, record_deallocation: saturating_sub(1) if there is an *)
(* entry.  The callers give back what they hold, once (AllocationLifecycle). *)

Release ==
  /\ held > 0
  /\ held' = held - 1
  /\ entry' = IF entry = Absent THEN entry
              ELSE [entry EXCEPT !.allocation_count = IF @ > 0 THEN @ - 1 ELSE 0]
  /\ UNCHANGED recent

----------------------------------------------------------------------------
(* cleanup, the last pass of the cleanup task *)

\* Wrong: an entry without recent requests goes, whatever it counts.
KeepRecent(times, count) == times # <<>>

\* The closure's verdict.
KeepEntry(times, count) == count > 0 \/ times # <<>>

Cleanup ==
  /\ entry # Absent
  /\ LET times == PopOld(entry.request_times) IN
       entry' = IF KeepEntry(times, entry.allocation_count)
                  THEN [entry EXCEPT !.request_times = times] ELSE Absent
  /\ UNCHANGED <<held, recent>>

----------------------------------------------------------------------------
(* Time *)

\* Every age grows; those of Window and more are not told apart.
Aged(times) ==
  [k \in DOMAIN times |-> IF times[k] < Window THEN times[k] + 1 ELSE Window]

\* The ages below Window, which come last.
Younger(times) ==
  LET young == {k \in DOMAIN times : times[k] < Window}
  IN  IF young = {} THEN <<>> ELSE SubSeq(times, Min(young), Len(times))

Tick ==
  /\ entry' = IF entry = Absent THEN entry
              ELSE [entry EXCEPT !.request_times = Aged(@)]
  /\ recent' = Younger(Aged(recent))
  /\ UNCHANGED held

Next ==
  \/ TooManyRequests \/ QuotaExceeded \/ Reserve
  \/ Release \/ Cleanup \/ Tick

Spec == Init /\ [][Next]_vars

\* The clock runs, and the cleanup task's ticker with it.
FairSpec == Spec /\ WF_vars(Tick) /\ WF_vars(Cleanup)

----------------------------------------------------------------------------
(* Properties *)

\* cleanup(), which drops entries, and the default entry that replaces them
\* lose no slot: the quota counts exactly what the callers hold.
CountExact == OrDefault.allocation_count = held

\* The window a request is judged by is exactly the requests let through in
\* the last 60 s: none is forgotten when cleanup() drops the entry, none
\* counts longer.
WindowExact == MaxRequests > 0 => Pruned = recent

\* "Maximum requests per minute": no 60 s see more requests go through, and a
\* request is refused only while that many have.
RequestsBounded ==
  [][MaxRequests > 0 =>
       /\ Len(recent') <= MaxRequests
       /\ TooManyRequests => Len(recent) = MaxRequests]_vars

\* An IP that holds nothing and asks for nothing leaves the map, so that it
\* does not grow with every IP ever seen ("Remove entries with no allocations
\* and no recent requests").
IdleForgotten ==
  held = 0 /\ recent = <<>> ~> entry = Absent \/ held > 0 \/ recent # <<>>

----------------------------------------------------------------------------
(* What AllocationLifecycle relies on *)

Slots == INSTANCE QuotaSlots WITH slots <- OrDefault.allocation_count, held <- held

\* The map of entries, the window, the early returns and cleanup() implement
\* QuotaSlots: the count of an IP changes only where check_allocation_request
\* reserves below the quota and where a caller gives a slot back.
KeepsSlots == Slots!Spec
============================================================================
