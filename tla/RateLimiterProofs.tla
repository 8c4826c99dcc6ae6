------------------------- MODULE RateLimiterProofs -------------------------
(***************************************************************************)
(* Proofs about RateLimiter: the quota of an IP counts what its callers    *)
(* hold and never more than it allows, and its window is exactly the       *)
(* requests let through in the last minute, for every limit; its callers   *)
(* see the slots of QuotaSlots.                                            *)
(***************************************************************************)
EXTENDS RateLimiter, SequenceTheorems, WellFoundedInduction, TLAPS

\* An IP without an entry holds nothing: what cleanup() drops was worth
\* nothing, and or_default() brings it back as it was.
CountInv ==
  /\ held \in Nat
  /\ entry \in Entries \cup {Absent}
  /\ entry = Absent => held = 0
  /\ entry # Absent => entry.allocation_count = held
  /\ MaxPerIp > 0 => held <= MaxPerIp

----------------------------------------------------------------------------
(* The window keeps its type *)

\* The least of some numbers is one of them.
LEMMA MinIn ==
  ASSUME NEW S \in SUBSET Nat, S # {}
  PROVE  Min(S) \in S /\ \A k \in S : Min(S) <= k
  <1>1. PICK x \in S : \A y \in S : ~(<<y, x>> \in OpToRel(<, Nat))
    BY Zenon, WFMin, NatLessThanWellFounded
  <1>2. ASSUME NEW y \in S PROVE x <= y
    <2>1. <<y, x>> \in Nat \X Nat /\ <<y, x>>[1] = y /\ <<y, x>>[2] = x
      OBVIOUS
    <2>2. ~(<<y, x>>[1] < <<y, x>>[2])
      BY Zenon, <1>1, <2>1 DEF OpToRel
    <2> QED
      BY <2>1, <2>2
  <1> QED
    BY Zenon, <1>2 DEF Min

\* The pruning loop returns a part of what it is given.
LEMMA PopOldType ==
  ASSUME NEW times \in Seq(Ages)
  PROVE  PopOld(times) \in Seq(Ages)
  <1> DEFINE young == {k \in DOMAIN times : ~Old(times[k])}
  <1>1. young \subseteq 1..Len(times) /\ Len(times) \in Nat
    OBVIOUS
  <1>2. CASE young = {}
    BY <1>2 DEF PopOld
  <1>3. CASE young # {}
    <2>1. Min(young) \in 1..Len(times)
      <3> HIDE DEF young
      <3>1. 1..Len(times) \subseteq Nat
        BY <1>1
      <3>2. young \in SUBSET Nat
        BY Zenon, <1>1, <3>1
      <3> QED
        BY Zenon, <1>1, <1>3, <3>2, MinIn
    <2> DEFINE first == Min(young)
    <2> HIDE DEF first, young
    <2>2. first \in Int /\ first >= 1 /\ Len(times) \in Int
      BY <1>1, <2>1 DEF first
    <2>3. \A i \in first..Len(times) : times[i] \in Ages
      BY <1>1, <2>2
    <2>4. SubSeq(times, first, Len(times)) \in Seq(Ages)
      BY <2>2, <2>3, SubSeqProperties
    <2> QED
      BY <1>3, <2>4 DEF PopOld, first, young
  <1> QED
    BY <1>2, <1>3

\* One tick later.
LEMMA AgedType ==
  ASSUME NEW times \in Seq(Ages)
  PROVE  Aged(times) \in Seq(Ages) /\ Len(Aged(times)) = Len(times)
  <1>1. DOMAIN times = 1..Len(times) /\ Len(times) \in Nat
    OBVIOUS
  <1>2. \A k \in 1..Len(times) :
          (IF times[k] < Window THEN times[k] + 1 ELSE Window) \in Ages
    BY LimiterAssumption DEF Ages
  <1> DEFINE aged == [k \in 1..Len(times) |-> IF times[k] < Window THEN times[k] + 1 ELSE Window]
  <1>3. aged \in [1..Len(times) -> Ages]
    BY Zenon, <1>2
  <1>4. Aged(times) = aged
    BY Zenon, <1>1 DEF Aged
  <1> HIDE DEF aged
  <1> QED
    BY <1>1, <1>3, <1>4

\* The entry a request finds or makes.
LEMMA DefaultEntry ==
  ASSUME CountInv
  PROVE  /\ OrDefault \in Entries
         /\ OrDefault.allocation_count = held
         /\ Pruned \in Seq(Ages)
         /\ Pushed \in Seq(Ages)
  <1>1. OrDefault \in Entries /\ OrDefault.allocation_count = held
    BY DEF OrDefault, CountInv, Entries
  <1>2. OrDefault.request_times \in Seq(Ages)
    BY <1>1 DEF Entries
  <1>3. Pruned \in Seq(Ages)
    BY <1>2, PopOldType DEF Pruned
  <1>4. Pushed \in Seq(Ages)
    <2>1. 0 \in Ages
      BY LimiterAssumption DEF Ages
    <2> QED
      BY <1>3, <2>1, AppendProperties DEF Pushed
  <1> QED
    BY <1>1, <1>3, <1>4

----------------------------------------------------------------------------
(* The count *)

\* An entry written by a request is not Absent.
LEMMA Written ==
  ASSUME NEW times \in Seq(Ages), NEW n \in Nat
  PROVE  /\ [request_times |-> times, allocation_count |-> n] \in Entries
         /\ [request_times |-> times, allocation_count |-> n] # Absent
  BY LimiterAssumption DEF Entries, Ages

\* What a request does to the window leaves the count alone.
LEMMA WindowStep ==
  ASSUME CountInv, NEW times \in Seq(Ages), held' = held,
         entry' = [OrDefault EXCEPT !.request_times = times]
  PROVE  CountInv'
  <1>1. entry' = [request_times |-> times, allocation_count |-> held]
    BY ZenonT(40), DefaultEntry DEF Entries
  <1>2. held \in Nat /\ (MaxPerIp > 0 => held <= MaxPerIp)
    BY DEF CountInv
  <1>3. entry' \in Entries /\ entry' # Absent
    BY ZenonT(40), <1>1, <1>2, Written
  <1> QED
    BY <1>1, <1>2, <1>3 DEF CountInv

LEMMA ReserveStep ==
  ASSUME CountInv, Reserve
  PROVE  CountInv'
  <1>1. held \in Nat /\ held' = held + 1
    BY DEF CountInv, Reserve
  <1>2. entry' = [request_times |-> Pushed, allocation_count |-> held + 1]
    BY DefaultEntry DEF Reserve
  <1>3. MaxPerIp > 0 => held + 1 <= MaxPerIp
    BY <1>1, DefaultEntry, LimiterAssumption DEF Reserve, QuotaFull
  <1> QED
    BY <1>1, <1>2, <1>3, DefaultEntry, Written DEF CountInv

LEMMA ReleaseStep ==
  ASSUME CountInv, Release
  PROVE  CountInv'
  <1>1. held \in Nat /\ held' \in Nat /\ held > 0 /\ held' = held - 1 /\ entry # Absent
    BY DEF CountInv, Release
  <1>2. entry \in Entries /\ entry.allocation_count = held
    BY <1>1 DEF CountInv
  <1>3. entry' = [request_times |-> entry.request_times, allocation_count |-> held - 1]
    BY <1>1, <1>2 DEF Release, Entries
  <1>4. entry.request_times \in Seq(Ages)
    BY <1>2 DEF Entries
  <1>5. MaxPerIp > 0 => held - 1 <= MaxPerIp
    BY <1>1, LimiterAssumption DEF CountInv
  <1> QED
    BY <1>1, <1>3, <1>4, <1>5, Written DEF CountInv

LEMMA CleanupStep ==
  ASSUME CountInv, Cleanup
  PROVE  CountInv'
  <1> DEFINE times == PopOld(entry.request_times)
  <1>1. entry \in Entries /\ entry.allocation_count = held /\ held \in Nat /\ held' = held
    BY DEF CountInv, Cleanup
  <1>2. times \in Seq(Ages)
    BY <1>1, PopOldType DEF Entries
  <1> HIDE DEF times
  <1>3. CASE KeepEntry(times, entry.allocation_count)
    <2>1. entry' = [request_times |-> times, allocation_count |-> held]
      BY <1>1, <1>3 DEF Cleanup, Entries, times
    <2> QED
      BY <1>1, <1>2, <2>1, Written DEF CountInv
  <1>4. CASE ~KeepEntry(times, entry.allocation_count)
    <2>1. entry' = Absent /\ held = 0
      BY <1>1, <1>4 DEF Cleanup, KeepEntry, times
    <2> QED
      BY <1>1, <2>1, LimiterAssumption DEF CountInv
  <1> QED
    BY <1>3, <1>4

LEMMA TickStep ==
  ASSUME CountInv, Tick
  PROVE  CountInv'
  <1>1. CASE entry = Absent
    BY <1>1 DEF Tick, CountInv
  <1>2. CASE entry # Absent
    <2> DEFINE times == Aged(entry.request_times)
    <2>1. /\ entry \in Entries /\ entry.allocation_count = held
          /\ held \in Nat /\ held' = held
      BY <1>2 DEF CountInv, Tick
    <2>2. times \in Seq(Ages)
      BY <2>1, AgedType DEF Entries
    <2>3. entry' = [request_times |-> times, allocation_count |-> held]
      BY ZenonT(40), <1>2, <2>1 DEF Tick, Entries
    <2> QED
      BY ZenonT(40), <2>1, <2>2, <2>3, Written DEF CountInv
  <1> QED
    BY <1>1, <1>2

THEOREM CountCorrect == Spec => []CountInv
  <1>1. Init => CountInv
    BY LimiterAssumption DEF Init, CountInv
  <1>2. CountInv /\ [Next]_vars => CountInv'
    <2> SUFFICES ASSUME CountInv, [Next]_vars PROVE CountInv'
      OBVIOUS
    <2>1. CASE TooManyRequests
      BY <2>1, WindowStep, DefaultEntry DEF TooManyRequests
    <2>2. CASE QuotaExceeded
      BY <2>2, WindowStep, DefaultEntry DEF QuotaExceeded
    <2>3. CASE UNCHANGED vars
      BY <2>3 DEF CountInv, vars
    <2> QED
      BY <2>1, <2>2, <2>3, ReserveStep, ReleaseStep, CleanupStep, TickStep DEF Next
  <1> QED
    BY <1>1, <1>2, PTL DEF Spec

----------------------------------------------------------------------------
(* The properties *)

\* cleanup() and or_default() lose no slot, whatever the quota and the window.
THEOREM CountExactCorrect == Spec => []CountExact
  <1>1. CountInv => CountExact
    BY DefaultEntry DEF CountExact
  <1> QED
    BY <1>1, CountCorrect, PTL

\* An IP never holds more allocations than max_allocations_per_ip.
THEOREM QuotaKept == Spec => [](MaxPerIp > 0 => held <= MaxPerIp)
  BY CountCorrect, PTL DEF CountInv

----------------------------------------------------------------------------
(* The window *)

\* request_times is what the callers saw let through, behind times that are
\* too old to count and have not been popped yet.
Behind(times, young) ==
  /\ Len(young) <= Len(times)
  /\ \A k \in 1..(Len(times) - Len(young)) : times[k] = Window
  /\ \A k \in 1..Len(young) : times[Len(times) - Len(young) + k] = young[k]

\* Ages are in the order of the requests, the oldest first.
Descending(times) ==
  \A j, k \in 1..Len(times) : j <= k => times[k] <= times[j]

Ordered(young) ==
  /\ young \in Seq(Nat)
  /\ \A k \in 1..Len(young) : young[k] < Window
  /\ Descending(young)

WindowInv ==
  MaxRequests > 0 =>
    /\ Ordered(recent) /\ Len(recent) <= MaxRequests
    /\ Behind(OrDefault.request_times, recent)

\* What is below Window comes last in a window whose ages do not grow.
LEMMA YoungerBehind ==
  ASSUME NEW times \in Seq(Ages),
         Descending(times)
  PROVE  Ordered(Younger(times)) /\ Behind(times, Younger(times))
  <1> DEFINE young == {k \in DOMAIN times : times[k] < Window}
             n == Len(times)
  <1>0. n \in Nat /\ DOMAIN times = 1..n /\ \A k \in 1..n : times[k] \in Ages
    OBVIOUS
  <1>1. n \in Nat /\ DOMAIN times = 1..n /\ \A k \in 1..n : times[k] \in 0..Window
    BY Zenon, <1>0 DEF Ages
  <1>2. Window \in Nat /\ 1..n \subseteq Nat
    BY <1>1, LimiterAssumption
  <1> HIDE DEF n
  <1>3. CASE young = {}
    <2>1. Younger(times) = <<>>
      BY Zenon, <1>3 DEF Younger
    <2>2. \A k \in 1..n : times[k] = Window
      BY <1>1, <1>2, <1>3
    <2>3. Ordered(<<>>)
      BY DEF Ordered, Descending
    <2>4. Behind(times, <<>>)
      BY <1>1, <2>2 DEF Behind, n
    <2> QED
      BY <2>1, <2>3, <2>4
  <1>4. CASE young # {}
    <2> DEFINE m == Min(young)
               last == SubSeq(times, m, n)
    <2>1. young \subseteq 1..n /\ young \in SUBSET Nat
      BY <1>1, <1>2
    <2>2. m \in young /\ \A k \in young : m <= k
      BY Zenon, <1>4, <2>1, MinIn
    <2>3. m \in 1..n /\ times[m] < Window
      BY <1>1, <2>2
    <2>4. ASSUME NEW k \in 1..(m - 1) PROVE times[k] = Window
      <3>1. k \in 1..n /\ ~(m <= k)
        BY <1>1, <2>3
      <3>2. k \notin young
        BY Zenon, <2>2, <3>1
      <3> QED
        BY <1>1, <1>2, <3>1, <3>2
    <2>5. Younger(times) = last
      BY Zenon, <1>4 DEF Younger, n
    <2> HIDE DEF young, m
    <2>6. /\ last \in Seq(Nat)
          /\ Len(last) = n - m + 1
          /\ \A i \in 1..(n - m + 1) : last[i] = times[m + i - 1]
      <3>1. \A i \in m..n : times[i] \in Nat
        BY <1>1, <1>2, <2>3
      <3> QED
        BY <1>1, <2>3, <3>1, SubSeqProperties
    <2> HIDE DEF last
    <2>7. ASSUME NEW i \in 1..(n - m + 1)
          PROVE  /\ m + i - 1 \in 1..n /\ m <= m + i - 1
                 /\ last[i] < Window
      <3> DEFINE p == m + i - 1
      <3>1. p \in 1..n /\ m <= p
        BY <1>1, <2>3
      <3>2. last[i] = times[p]
        BY Zenon, <2>6
      <3> HIDE DEF p
      <3>3. times[p] <= times[m]
        BY Zenon, <2>3, <3>1 DEF n, Descending
      <3>4. times[p] \in Nat /\ times[m] \in Nat
        BY <1>1, <1>2, <2>3, <3>1
      <3> QED
        BY <1>2, <2>3, <3>1, <3>2, <3>3, <3>4 DEF p
    <2>8. ASSUME NEW j \in 1..(n - m + 1), NEW k \in 1..(n - m + 1), j <= k
          PROVE  last[k] <= last[j]
      <3> DEFINE p == m + j - 1
                 q == m + k - 1
      <3>1. p <= q
        BY <1>1, <2>3, <2>8
      <3>2. p \in 1..n /\ q \in 1..n
        BY Zenon, <2>7
      <3>3. last[j] = times[p] /\ last[k] = times[q]
        BY Zenon, <2>6
      <3> HIDE DEF p, q
      <3> QED
        BY Zenon, <3>1, <3>2, <3>3 DEF n, Descending
    <2>9. Ordered(last)
      <3>1. Descending(last)
        BY Zenon, <2>6, <2>8 DEF Descending
      <3> QED
        BY Zenon, <2>6, <2>7, <3>1 DEF Ordered
    <2>10. Behind(times, last)
      <3>1. n - Len(last) = m - 1 /\ Len(last) <= n
        BY <1>1, <2>3, <2>6
      <3>2. \A i \in 1..(n - m + 1) : m - 1 + i = m + i - 1
        BY <1>1, <2>3
      <3> QED
        BY <2>4, <2>6, <3>1, <3>2 DEF Behind, n
    <2> QED
      BY <2>5, <2>9, <2>10
  <1> QED
    BY <1>3, <1>4

\* The pruning loop leaves what is recent.
LEMMA PopOldIs ==
  ASSUME NEW times \in Seq(Ages), NEW young, Ordered(young), Behind(times, young)
  PROVE  PopOld(times) = young
  <1> DEFINE kept == {k \in DOMAIN times : ~Old(times[k])}
             d == Len(times) - Len(young)
  <1>1. /\ young \in Seq(Nat) /\ Len(young) \in Nat /\ Len(times) \in Nat
        /\ d \in Nat /\ DOMAIN times = 1..Len(times) /\ DOMAIN young = 1..Len(young)
    BY DEF Ordered, Behind
  <1>2. \A k \in 1..d : times[k] = Window
    BY DEF Behind
  <1>3. \A k \in 1..Len(young) : times[d + k] = young[k] /\ young[k] < Window
    BY DEF Behind, Ordered
  <1>4. \A k \in (d + 1)..Len(times) : times[k] < Window
    <2> SUFFICES ASSUME NEW k \in (d + 1)..Len(times) PROVE times[k] < Window
      OBVIOUS
    <2> DEFINE i == k - d
    <2>1. i \in 1..Len(young) /\ d + i = k
      BY <1>1
    <2> HIDE DEF i
    <2>2. times[d + i] = young[i] /\ young[i] < Window
      BY Zenon, <1>3, <2>1
    <2> QED
      BY Zenon, <2>1, <2>2
  <1>5. kept = (d + 1)..Len(times)
    <2>1. \A k \in 1..Len(times) : times[k] \in Nat /\ Window \in Nat
      BY LimiterAssumption DEF Ages
    <2> HIDE DEF d
    <2>2. \A k \in 1..Len(times) : k \in 1..d \/ k \in (d + 1)..Len(times)
      BY <1>1
    <2>3. \A k \in (d + 1)..Len(times) : k \in 1..Len(times) /\ k \notin 1..d
      BY <1>1
    <2>4. \A k \in 1..Len(times) : Old(times[k]) <=> k \in 1..d
      BY <1>2, <1>4, <2>1, <2>2, <2>3 DEF Old
    <2> QED
      BY Zenon, <1>1, <2>2, <2>3, <2>4
  <1> HIDE DEF d
  <1>6. CASE Len(young) = 0
    <2>1. kept = {}
      BY <1>1, <1>5, <1>6 DEF d
    <2> QED
      BY <1>1, <1>6, <2>1 DEF PopOld
  <1>7. CASE Len(young) > 0
    <2>1. d + 1 \in kept /\ \A k \in kept : d + 1 <= k
      BY <1>1, <1>5, <1>7 DEF d
    <2> HIDE DEF kept
    <2>2. kept \subseteq Nat
      BY <1>1, <1>5
    <2>3. Min(kept) = d + 1
      <3>1. Min(kept) \in kept /\ \A k \in kept : Min(kept) <= k
        BY Zenon, <2>1, <2>2, MinIn
      <3>2. Min(kept) \in Nat /\ Min(kept) <= d + 1 /\ d + 1 <= Min(kept)
        BY Zenon, <2>1, <2>2, <3>1
      <3> QED
        BY <1>1, <3>2
    <2> DEFINE left == SubSeq(times, d + 1, Len(times))
    <2>4. /\ left \in Seq(Nat) /\ Len(left) = Len(young)
          /\ \A i \in 1..Len(young) : left[i] = times[d + i]
      <3>1. \A i \in (d + 1)..Len(times) : times[i] \in Nat
        <4>1. \A i \in (d + 1)..Len(times) : times[i] \in Ages
          BY <1>1
        <4>2. Ages \subseteq Nat
          BY LimiterAssumption DEF Ages
        <4> QED
          BY Zenon, <4>1, <4>2
      <3>2. /\ left \in Seq(Nat)
            /\ Len(left) = IF d + 1 <= Len(times) THEN Len(times) - (d + 1) + 1 ELSE 0
            /\ \A i \in 1..(Len(times) - (d + 1) + 1) : left[i] = times[d + 1 + i - 1]
        BY <1>1, <3>1, SubSeqProperties
      <3> HIDE DEF left
      <3>3. Len(times) - (d + 1) + 1 = Len(young) /\ d + 1 <= Len(times)
        BY <1>1, <1>7 DEF d
      <3>4. \A i \in 1..Len(young) : d + 1 + i - 1 = d + i
        BY <1>1
      <3> QED
        BY <3>2, <3>3, <3>4
    <2>5. PopOld(times) = left
      BY Zenon, <2>1, <2>3 DEF PopOld, kept
    <2> HIDE DEF left
    <2>6. left = young
      BY Zenon, <1>1, <1>3, <2>4, SeqEqual
    <2> QED
      BY <2>5, <2>6
  <1> QED
    BY <1>1, <1>6, <1>7

\* A window lies behind itself.
LEMMA BehindSelf ==
  ASSUME NEW times \in Seq(Nat)
  PROVE  Behind(times, times)
  <1>1. Len(times) \in Nat
    OBVIOUS
  <1>2. Len(times) - Len(times) = 0 /\ \A k \in 1..Len(times) : 0 + k = k
    BY <1>1
  <1> QED
    BY <1>1, <1>2 DEF Behind

\* A request is the youngest of its window.
LEMMA OrderedAppend ==
  ASSUME NEW young, Ordered(young)
  PROVE  Ordered(Append(young, 0)) /\ Len(Append(young, 0)) = Len(young) + 1
  <1> DEFINE more == Append(young, 0)
             n == Len(young)
  <1>1. young \in Seq(Nat) /\ n \in Nat /\ \A k \in 1..n : young[k] \in Nat
    BY DEF Ordered
  <1>2. /\ more \in Seq(Nat) /\ Len(more) = n + 1
        /\ \A k \in 1..n : more[k] = young[k]
        /\ more[n + 1] = 0
    BY <1>1, AppendProperties
  <1> HIDE DEF more, n
  <1>3. \A k \in 1..(n + 1) : k \in 1..n \/ k = n + 1
    BY <1>1
  <1>4. \A k \in 1..n : young[k] < Window
    BY DEF Ordered, n
  <1>5. ASSUME NEW k \in 1..(n + 1) PROVE more[k] < Window
    BY <1>2, <1>3, <1>4, LimiterAssumption
  <1>6. ASSUME NEW j \in 1..(n + 1), NEW k \in 1..(n + 1), j <= k
        PROVE  more[k] <= more[j]
    <2>1. CASE k = n + 1
      <3>1. more[j] \in Nat
        BY <1>1, <1>2, <1>3
      <3> QED
        BY <1>2, <2>1, <3>1
    <2>2. CASE k # n + 1
      <3>1. j \in 1..n /\ k \in 1..n
        BY <1>1, <1>6, <2>2
      <3>2. young[k] <= young[j]
        BY Zenon, <1>6, <3>1 DEF Ordered, Descending, n
      <3> QED
        BY Zenon, <1>2, <3>1, <3>2
    <2> QED
      BY <2>1, <2>2
  <1>7. Descending(more)
    BY Zenon, <1>2, <1>6 DEF Descending
  <1> QED
    BY Zenon, <1>2, <1>5, <1>7 DEF Ordered, more, n

\* Ageing keeps the order.
LEMMA AgedDescending ==
  ASSUME NEW times \in Seq(Ages), Descending(times)
  PROVE  Descending(Aged(times))
  <1>1. Len(Aged(times)) = Len(times)
    BY AgedType
  <1> SUFFICES ASSUME NEW j \in 1..Len(times), NEW k \in 1..Len(times), j <= k
               PROVE  Aged(times)[k] <= Aged(times)[j]
    BY Zenon, <1>1 DEF Descending
  <1>2. times[k] <= times[j]
    BY Zenon DEF Descending
  <1>3. times[k] \in 0..Window /\ times[j] \in 0..Window
    <2>1. times[k] \in Ages /\ times[j] \in Ages
      BY ElementOfSeq
    <2> QED
      BY Zenon, <2>1 DEF Ages
  <1>4. /\ Aged(times)[k] = IF times[k] < Window THEN times[k] + 1 ELSE Window
        /\ Aged(times)[j] = IF times[j] < Window THEN times[j] + 1 ELSE Window
    BY Zenon, LenProperties DEF Aged
  <1> QED
    BY <1>2, <1>3, <1>4, LimiterAssumption

\* Ageing keeps what is behind what.
LEMMA AgedBehind ==
  ASSUME NEW times \in Seq(Ages), NEW young \in Seq(Ages), Behind(times, young)
  PROVE  Behind(Aged(times), Aged(young))
  <1> DEFINE d == Len(times) - Len(young)
  <1>1. /\ Len(Aged(times)) = Len(times) /\ Len(Aged(young)) = Len(young)
        /\ Len(times) \in Nat /\ Len(young) \in Nat
    BY AgedType
  <1>2. Len(young) <= Len(times) /\ d \in Nat
    BY <1>1 DEF Behind
  <1>3. /\ \A k \in 1..d : times[k] = Window
        /\ \A k \in 1..Len(young) : times[d + k] = young[k]
    BY Zenon DEF Behind
  <1>4. /\ \A k \in 1..d : k \in 1..Len(times)
        /\ \A k \in 1..Len(young) : d + k \in 1..Len(times)
    BY <1>1, <1>2
  <1> HIDE DEF d
  <1>5. /\ \A k \in 1..Len(times) :
             Aged(times)[k] = IF times[k] < Window THEN times[k] + 1 ELSE Window
        /\ \A k \in 1..Len(young) :
             Aged(young)[k] = IF young[k] < Window THEN young[k] + 1 ELSE Window
    BY Zenon, LenProperties DEF Aged
  <1>6. ~(Window < Window)
    BY LimiterAssumption
  <1>7. \A k \in 1..d : Aged(times)[k] = Window
    BY Zenon, <1>3, <1>4, <1>5, <1>6
  <1>8. \A k \in 1..Len(young) : Aged(times)[d + k] = Aged(young)[k]
    BY Zenon, <1>3, <1>4, <1>5
  <1> QED
    BY Zenon, <1>1, <1>2, <1>7, <1>8 DEF Behind, d

LEMMA BehindTrans ==
  ASSUME NEW s \in Seq(Nat), NEW t \in Seq(Nat), NEW u \in Seq(Nat),
         Behind(s, t), Behind(t, u)
  PROVE  Behind(s, u)
  <1> DEFINE l == Len(s)
             m == Len(t)
             n == Len(u)
  <1>1. l \in Nat /\ m \in Nat /\ n \in Nat /\ m <= l /\ n <= m
    BY DEF Behind
  <1>2. /\ \A k \in 1..(l - m) : s[k] = Window
        /\ \A k \in 1..m : s[l - m + k] = t[k]
        /\ \A k \in 1..(m - n) : t[k] = Window
        /\ \A k \in 1..n : t[m - n + k] = u[k]
    BY Zenon DEF Behind
  <1> HIDE DEF l, m, n
  <1>3. ASSUME NEW k \in 1..(l - n) PROVE s[k] = Window
    <2>1. CASE k \in 1..(l - m)
      BY Zenon, <1>2, <2>1
    <2>2. CASE k \notin 1..(l - m)
      <3> DEFINE i == k - (l - m)
      <3>1. i \in 1..m /\ i \in 1..(m - n) /\ l - m + i = k
        BY <1>1, <2>2
      <3> HIDE DEF i
      <3> QED
        BY Zenon, <1>2, <3>1
    <2> QED
      BY <2>1, <2>2
  <1>4. ASSUME NEW k \in 1..n PROVE s[l - n + k] = u[k]
    <2> DEFINE i == m - n + k
    <2>1. i \in 1..m /\ l - m + i = l - n + k
      BY <1>1
    <2>2. t[i] = u[k]
      BY Zenon, <1>2
    <2> HIDE DEF i
    <2> QED
      BY Zenon, <1>2, <2>1, <2>2
  <1>5. n <= l
    BY <1>1
  <1> QED
    BY Zenon, <1>3, <1>4, <1>5 DEF Behind, l, m, n

LEMMA OrderedAges ==
  ASSUME NEW young, Ordered(young)
  PROVE  young \in Seq(Ages) /\ young \in Seq(Nat) /\ Descending(young)
  <1>1. young \in Seq(Nat) /\ Len(young) \in Nat /\ Descending(young)
    BY DEF Ordered
  <1>2. \A k \in 1..Len(young) : young[k] \in Nat /\ young[k] < Window
    BY <1>1 DEF Ordered
  <1>3. \A k \in 1..Len(young) : young[k] \in Ages
    BY <1>2, LimiterAssumption DEF Ages
  <1> QED
    BY <1>1, <1>3

\* What the next request is judged by.
LEMMA WindowIs ==
  ASSUME CountInv, WindowInv, MaxRequests > 0
  PROVE  /\ OrDefault.request_times \in Seq(Ages)
         /\ PopOld(OrDefault.request_times) = recent
         /\ Pruned = recent /\ Pushed = Append(recent, 0)
         /\ WindowFull <=> Len(recent) >= MaxRequests
         /\ Ordered(recent) /\ Len(recent) <= MaxRequests
  <1>1. OrDefault.request_times \in Seq(Ages)
    BY DefaultEntry DEF Entries
  <1>2. Ordered(recent) /\ Behind(OrDefault.request_times, recent) /\ Len(recent) <= MaxRequests
    BY DEF WindowInv
  <1>3. PopOld(OrDefault.request_times) = recent
    BY Zenon, <1>1, <1>2, PopOldIs
  <1> QED
    BY Zenon, <1>1, <1>2, <1>3 DEF Pruned, Pushed, WindowFull

\* A step after which request_times is just what was let through.
LEMMA WindowClean ==
  ASSUME Ordered(recent'), Len(recent') <= MaxRequests, OrDefault'.request_times = recent'
  PROVE  WindowInv'
  BY Zenon, OrderedAges, BehindSelf DEF WindowInv

\* Time: what is let through leaves the window as its age reaches Window, and
\* the ages in request_times grow in step.
LEMMA TickWindow ==
  ASSUME CountInv, WindowInv, MaxRequests > 0, Tick
  PROVE  WindowInv'
  <1> DEFINE times == OrDefault.request_times
             young == Younger(Aged(recent))
  <1>1. /\ times \in Seq(Ages) /\ Ordered(recent) /\ Len(recent) <= MaxRequests
        /\ Behind(times, recent)
    BY Zenon, WindowIs DEF WindowInv
  <1>2. recent \in Seq(Ages) /\ Descending(recent)
    BY Zenon, <1>1, OrderedAges
  <1>3. /\ Aged(times) \in Seq(Ages) /\ Aged(recent) \in Seq(Ages)
        /\ Len(Aged(recent)) = Len(recent)
    BY Zenon, <1>1, <1>2, AgedType
  <1>4. Behind(Aged(times), Aged(recent))
    BY Zenon, <1>1, <1>2, AgedBehind
  <1>5. Ordered(young) /\ Behind(Aged(recent), young)
    BY Zenon, <1>2, <1>3, AgedDescending, YoungerBehind
  <1>6. Aged(times) \in Seq(Nat) /\ Aged(recent) \in Seq(Nat) /\ young \in Seq(Nat)
    <2>1. Ages \subseteq Nat
      BY DEF Ages
    <2> QED
      BY Zenon, <1>3, <1>5, <2>1, OrderedAges, SeqMonotonic
  <1>7. Behind(Aged(times), young)
    BY Zenon, <1>4, <1>5, <1>6, BehindTrans
  <1>8. Len(young) <= MaxRequests
    <2>1. Len(young) <= Len(Aged(recent))
      BY Zenon, <1>5 DEF Behind
    <2>2. Len(young) \in Nat /\ Len(recent) \in Nat
      BY <1>2, <1>6
    <2> HIDE DEF young
    <2> QED
      BY <1>1, <1>3, <2>1, <2>2, LimiterAssumption
  <1>9. OrDefault'.request_times = Aged(times)
    <2>1. CASE entry = Absent
      <3>1. times = <<>> /\ OrDefault'.request_times = <<>>
        BY <2>1 DEF OrDefault, Tick
      <3>2. Aged(<<>>) = <<>>
        BY DEF Aged
      <3> HIDE DEF times
      <3> QED
        BY Zenon, <3>1, <3>2
    <2>2. CASE entry # Absent
      <3>1. entry \in Entries /\ times = entry.request_times
        BY Zenon, <2>2 DEF CountInv, OrDefault
      <3>2. entry' = [entry EXCEPT !.request_times = Aged(times)]
        BY Zenon, <2>2, <3>1 DEF Tick
      <3>3. entry'.request_times = Aged(times)
        BY <3>1, <3>2 DEF Entries
      <3>4. entry' # Absent
        BY <2>2, <3>1, <3>2, <1>3, LimiterAssumption DEF Entries, Ages
      <3> QED
        BY Zenon, <3>3, <3>4 DEF OrDefault
    <2> QED
      BY <2>1, <2>2
  <1>10. recent' = young
    BY Zenon DEF Tick
  <1> HIDE DEF times, young
  <1> QED
    BY Zenon, <1>5, <1>7, <1>8, <1>9, <1>10 DEF WindowInv

LEMMA WindowNext ==
  ASSUME CountInv, WindowInv, [Next]_vars, CountInv', MaxRequests > 0
  PROVE  WindowInv'
  <1>1. ASSUME NEW times \in Seq(Ages), NEW n \in Nat,
               entry' = [request_times |-> times, allocation_count |-> n]
        PROVE  OrDefault'.request_times = times
    <2>1. entry' # Absent
      BY <1>1, Written
    <2> QED
      BY <1>1, <2>1 DEF OrDefault
  <1>2. OrDefault \in Entries /\ recent \in Seq(Ages) /\ held \in Nat
    BY Zenon, DefaultEntry, WindowIs, OrderedAges DEF CountInv
  <1>3. ASSUME NEW times \in Seq(Ages), entry' = [OrDefault EXCEPT !.request_times = times]
        PROVE  OrDefault'.request_times = times
    <2>1. /\ entry' = [request_times |-> times, allocation_count |-> OrDefault.allocation_count]
          /\ OrDefault.allocation_count \in Nat
      BY Zenon, <1>2, <1>3 DEF Entries
    <2> QED
      BY Zenon, <1>1, <2>1
  <1>4. CASE TooManyRequests
    BY Zenon, <1>2, <1>3, <1>4, WindowIs, WindowClean DEF TooManyRequests
  <1>5. ASSUME ~WindowFull, recent' = Append(recent, 0), OrDefault'.request_times = Pushed
        PROVE  WindowInv'
    <2>1. Ordered(recent') /\ Len(recent') = Len(recent) + 1
      BY Zenon, <1>5, WindowIs, OrderedAppend
    <2>2. Len(recent) \in Nat /\ ~(Len(recent) >= MaxRequests)
      BY <1>2, <1>5, WindowIs
    <2>3. Len(recent') <= MaxRequests
      BY <2>1, <2>2, LimiterAssumption
    <2> QED
      BY Zenon, <1>5, <2>1, <2>3, WindowIs, WindowClean
  <1>6. Pushed \in Seq(Ages) /\ OrDefault.allocation_count + 1 \in Nat
    BY <1>2, DefaultEntry
  <1>7. CASE QuotaExceeded
    BY Zenon, <1>3, <1>5, <1>6, <1>7 DEF QuotaExceeded
  <1>8. CASE Reserve
    BY Zenon, <1>1, <1>5, <1>6, <1>8 DEF Reserve
  <1>9. ASSUME OrDefault'.request_times = OrDefault.request_times, recent' = recent
        PROVE  WindowInv'
    BY Zenon, <1>9 DEF WindowInv
  <1>10. CASE Release
    <2>1. held > 0 /\ recent' = recent /\ entry # Absent
      BY <1>10 DEF Release, CountInv
    <2>2. entry \in Entries /\ OrDefault = entry
      BY Zenon, <2>1 DEF CountInv, OrDefault
    <2>3. /\ entry' = [request_times |-> entry.request_times, allocation_count |-> held - 1]
          /\ held - 1 \in Nat /\ entry.request_times \in Seq(Ages)
      <3>1. entry.allocation_count = held /\ held - 1 \in Nat
        BY <1>2, <2>1 DEF CountInv
      <3> QED
        BY <1>10, <2>1, <2>2, <3>1 DEF Release, Entries
    <2>4. OrDefault'.request_times = entry.request_times
      BY Zenon, <1>1, <2>3
    <2> QED
      BY Zenon, <1>9, <2>1, <2>2, <2>4
  <1>11. CASE Cleanup
    <2>1. entry # Absent /\ OrDefault = entry /\ recent' = recent
      BY Zenon, <1>11 DEF Cleanup, OrDefault
    <2>2. PopOld(entry.request_times) = recent
      BY Zenon, <2>1, WindowIs
    <2>3. CASE entry' = Absent
      <3>1. recent = <<>>
        <4>1. entry' = IF KeepEntry(recent, entry.allocation_count)
                         THEN [entry EXCEPT !.request_times = recent] ELSE Absent
          BY Zenon, <1>11, <2>2 DEF Cleanup
        <4>2. /\ [entry EXCEPT !.request_times = recent] =
                   [request_times |-> recent, allocation_count |-> entry.allocation_count]
              /\ entry.allocation_count \in Nat
          <5>1. entry \in Entries
            BY Zenon, <1>2, <2>1
          <5> QED
            BY <5>1 DEF Entries
        <4>3. [entry EXCEPT !.request_times = recent] # Absent
          BY Zenon, <1>2, <4>2, Written
        <4> QED
          BY Zenon, <2>3, <4>1, <4>3 DEF KeepEntry
      <3>2. OrDefault'.request_times = <<>>
        BY <2>3 DEF OrDefault
      <3> QED
        BY Zenon, <2>1, <3>1, <3>2, WindowIs, WindowClean
    <2>4. CASE entry' # Absent
      <3>1. entry' = [OrDefault EXCEPT !.request_times = recent]
        BY Zenon, <1>11, <2>1, <2>2, <2>4 DEF Cleanup
      <3> QED
        BY Zenon, <1>2, <1>3, <2>1, <3>1, WindowIs, WindowClean
    <2> QED
      BY <2>3, <2>4
  <1>12. CASE Tick
    BY Zenon, <1>12, TickWindow
  <1>13. CASE UNCHANGED vars
    BY Zenon, <1>9, <1>13 DEF vars, OrDefault
  <1> QED
    BY Zenon, <1>4, <1>7, <1>8, <1>10, <1>11, <1>12, <1>13 DEF Next

THEOREM WindowCorrect == Spec => []WindowInv
  <1>1. Init => WindowInv
    BY LimiterAssumption DEF Init, WindowInv, OrDefault, Ordered, Descending, Behind
  <1>2. CountInv /\ CountInv' /\ WindowInv /\ [Next]_vars => WindowInv'
    BY Zenon, WindowNext DEF WindowInv
  <1> QED
    BY <1>1, <1>2, CountCorrect, PTL DEF Spec

\* check_allocation_request judges by exactly the requests let through in the
\* last 60 s, whatever cleanup() drops and however often it runs.
THEOREM WindowExactCorrect == Spec => []WindowExact
  <1>1. CountInv /\ WindowInv => WindowExact
    BY Zenon, WindowIs DEF WindowExact
  <1> QED
    BY <1>1, CountCorrect, WindowCorrect, PTL

\* max_requests_per_minute holds in every 60 s, and no request is refused
\* before that many were let through.
THEOREM RequestsBoundedCorrect == Spec => RequestsBounded
  <1> DEFINE Bounded == MaxRequests > 0 =>
        /\ Len(recent') <= MaxRequests
        /\ TooManyRequests => Len(recent) = MaxRequests
  <1>1. CountInv /\ WindowInv /\ WindowInv' => Bounded
    <2> SUFFICES ASSUME CountInv, WindowInv, WindowInv', MaxRequests > 0
                 PROVE  /\ Len(recent') <= MaxRequests
                        /\ TooManyRequests => Len(recent) = MaxRequests
      OBVIOUS
    <2>1. Len(recent') <= MaxRequests
      BY Zenon DEF WindowInv
    <2>2. Len(recent) <= MaxRequests /\ Len(recent) \in Nat
      BY DEF WindowInv, Ordered
    <2>3. TooManyRequests => Len(recent) >= MaxRequests
      BY Zenon, WindowIs DEF TooManyRequests
    <2> QED
      BY <2>1, <2>2, <2>3, LimiterAssumption
  <1> QED
    BY <1>1, CountCorrect, WindowCorrect, PTL DEF RequestsBounded

----------------------------------------------------------------------------
(* The limiter as its callers see it *)

\* Nothing but a granted request and a caller's release moves the count.
LEMMA CountKept ==
  ASSUME CountInv, CountInv'
  PROVE  OrDefault.allocation_count = held /\ OrDefault'.allocation_count = held'
  BY DEF OrDefault, CountInv

\* The entries, the window, the early returns and cleanup() implement the slots
\* of QuotaSlots: an IP's count moves with what its callers hold, goes up only
\* below the quota, comes down only from a slot that is taken, and survives the
\* entry that cleanup() drops.
THEOREM SlotsKept == Spec => KeepsSlots
  <1>1. Init => Slots!Init
    BY LimiterAssumption DEF Init, OrDefault, Slots!Init
  <1>2. CountInv /\ CountInv' /\ [Next]_vars => [Slots!Next]_(Slots!vars)
    <2> SUFFICES ASSUME CountInv, CountInv', [Next]_vars
                 PROVE  [Slots!Next]_(Slots!vars)
      OBVIOUS
    <2>1. OrDefault.allocation_count = held /\ OrDefault'.allocation_count = held'
      BY CountKept
    <2>2. CASE Reserve
      <3>1. MaxPerIp > 0 => held < MaxPerIp
        BY <2>1, <2>2, LimiterAssumption DEF Reserve, QuotaFull, CountInv
      <3>2. held' = held + 1
        BY <2>2 DEF Reserve
      <3> QED
        BY ZenonT(40), <2>1, <3>1, <3>2 DEF Slots!Next, Slots!Reserve
    <2>3. CASE Release
      <3>1. held > 0 /\ held' = held - 1
        BY <2>3 DEF Release
      <3> QED
        BY ZenonT(40), <2>1, <3>1 DEF Slots!Next, Slots!Release
    <2>4. CASE held' = held
      BY ZenonT(40), <2>1, <2>4 DEF Slots!vars
    <2> QED
      BY <2>2, <2>3, <2>4
      DEF Next, TooManyRequests, QuotaExceeded, Cleanup, Tick, vars
  <1> QED
    BY <1>1, <1>2, CountCorrect, PTL DEF Spec, KeepsSlots, Slots!Spec
============================================================================
