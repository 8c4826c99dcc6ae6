--------------------------- MODULE ActivityProofs ---------------------------
(***************************************************************************)
(* Proofs about Activity: for every timeout, lifetime and tick, the        *)
(* cleanup task and the re-Allocate keep what the client was promised.     *)
(***************************************************************************)
EXTENDS Activity, TLAPS

\* A touch of last_received is due.
Due == pc = "update" \/ "received" \in after

\* last_received is as young as the last packet the client counts on, unless the
\* touch of that packet is due; then the last touch before it, too, is recent
\* enough for the slowest send.
HeardInv == received <= heard \/ (alive /\ Due /\ received + MaxSend < Timeout + age)

\* The timers are never older than what the client did, and the deadline
\* never earlier than what it was told.  The orphan timer is armed only by
\* relaying: the touches of a relay wait only for an allocation that is no
\* longer `waiting'.
ActivityInv ==
  /\ TypeOK
  /\ HeardInv
  /\ relayed <= fed
  /\ promised <= left
  /\ pc = "idle" => after = {}
  /\ alive /\ ("success" \in after \/ "attempt" \in after) => ~waiting
  /\ attempted => ~waiting

----------------------------------------------------------------------------

\* Rounding down to whole seconds (remaining_lifetime).
LEMMA RoundDown ==
  ASSUME NEW n \in Nat, NEW d \in Nat \ {0}
  PROVE  n \div d \in Nat /\ (n \div d) * d \in Nat /\ (n \div d) * d <= n
  OBVIOUS

\* A clamped lifetime in ticks is within that of a new allocation.
LEMMA InTicks ==
  ASSUME NEW l \in 0..MaxLifetime
  PROVE  l * Sec \in 0..(MaxLifetime * Sec)
  <1>1. l \in Nat /\ MaxLifetime \in Nat /\ Sec \in Nat /\ l <= MaxLifetime
    BY ActivityAssumption
  <1>2. l * Sec \in Nat /\ MaxLifetime * Sec \in Nat
    BY <1>1
  <1>3. l * Sec <= MaxLifetime * Sec
    BY <1>1
  <1> QED
    BY <1>2, <1>3

\* The clamp of handle_refresh.
LEMMA ClampInRange ==
  ASSUME NEW l \in Nat
  PROVE  Clamp(l) \in 0..MaxLifetime
  BY ActivityAssumption DEF Clamp

\* The values every timer can take.
LEMMA Ranges ==
  /\ Lefts \subseteq Int /\ Ages \subseteq Nat /\ MaxLifetime * Sec \in Nat
  /\ -1 \in Lefts /\ MaxLifetime * Sec \in Lefts
  /\ Timeout \in Ages /\ 0 \in Ages /\ 0 \in 0..MaxSend /\ 0 \in 0..MaxLifetime
  /\ 0..MaxSend \subseteq Ages
  <1>1. MaxLifetime * Sec \in Nat
    BY ActivityAssumption
  <1> QED
    BY <1>1, ActivityAssumption DEF Lefts, Ages

----------------------------------------------------------------------------
(* The invariant *)

\* A packet arrives between two others: its touch is now due.
LEMMA Arrival ==
  ASSUME ActivityInv, pc = "idle", alive, heard' = Heard, UNCHANGED <<alive, received, age>>, Due'
  PROVE  HeardInv' /\ heard' \in Ages
  <1>1. ~Due
    BY DEF ActivityInv, Due
  <1>2. /\ received \in Nat /\ heard \in Ages /\ heard \in Nat /\ age \in Nat
        /\ received <= heard
    BY <1>1, Ranges DEF ActivityInv, HeardInv, TypeOK
  <1>3. CASE heard + MaxSend < Timeout
    BY <1>2, <1>3, Ranges, ActivityAssumption DEF Heard, HeardInv
  <1>4. CASE ~(heard + MaxSend < Timeout)
    BY <1>2, <1>4 DEF Heard, HeardInv
  <1> QED
    BY <1>3, <1>4

LEMMA InvInit ==
  Init => ActivityInv
  <1> SUFFICES ASSUME Init PROVE ActivityInv
    OBVIOUS
  <1>1. TypeOK
    BY ZenonT(40), Ranges DEF Init, TypeOK
  <1>2. HeardInv /\ relayed <= fed /\ promised <= left
    BY Ranges DEF Init, HeardInv
  <1>3. ~(attempted /\ waiting) /\ after = {} /\ ~alive
    BY DEF Init
  <1> QED
    BY <1>1, <1>2, <1>3 DEF ActivityInv

\* An allocation goes, by a request or by a pass.
LEMMA GoneStep ==
  ASSUME ActivityInv, Gone, UNCHANGED packetVars,
         cpc' \in {"expired", "inactive", "orphaned"}
  PROVE  ActivityInv'
  <1>1. TypeOK'
    BY ZenonT(40), Ranges DEF ActivityInv, TypeOK, Gone, packetVars
  <1>2. (HeardInv /\ relayed <= fed /\ promised <= left)'
    BY Ranges DEF Gone, HeardInv
  <1>3. ~alive' /\ ~attempted' /\ (pc = "idle" => after = {})'
    BY DEF ActivityInv, Gone, packetVars
  <1> QED
    BY <1>1, <1>2, <1>3 DEF ActivityInv

\* Requests of the client.
LEMMA RequestStep ==
  ASSUME ActivityInv,
         Allocate \/ AllocateAgain \/ RefreshZero \/ PermitOrBind
         \/ \E l \in 1..(MaxLifetime + 1) : Refresh(l)
  PROVE  ActivityInv'
  <1>0. MaxLifetime * Sec \in Nat /\ MaxLifetime \in Nat
    BY ActivityAssumption
  <1>1. CASE Allocate
    <2>1. TypeOK'
      BY ZenonT(40), <1>1, Ranges DEF Allocate, ActivityInv, TypeOK, packetVars
    <2>2. (HeardInv /\ relayed <= fed /\ promised <= left)'
      BY <1>1, Ranges DEF Allocate, HeardInv
    <2>3. after' = {} /\ ~attempted'
      BY <1>1 DEF Allocate, ActivityInv, packetVars
    <2> QED
      BY <2>1, <2>2, <2>3 DEF ActivityInv
  <1>2. CASE AllocateAgain
    <2>1. left \in Nat
      BY <1>2, Ranges DEF AllocateAgain, IsExpired, ActivityInv, TypeOK
    <2>2. (left \div Sec) * Sec \in Nat /\ (left \div Sec) * Sec <= left
      BY <2>1, RoundDown, ActivityAssumption
    <2>3. RemainingLifetime * Sec \in Nat /\ RemainingLifetime * Sec <= left
      BY <2>1, <2>2, ActivityAssumption DEF RemainingLifetime
    <2>4. promised' \in Lefts /\ promised' <= left'
      BY <1>0, <1>2, <2>1, <2>3 DEF AllocateAgain, ActivityInv, TypeOK, Lefts, timerVars
    <2>5. TypeOK'
      BY <1>2, <2>4 DEF AllocateAgain, ActivityInv, TypeOK, timerVars, packetVars
    <2>6. (HeardInv /\ relayed <= fed)'
      BY <1>2 DEF AllocateAgain, ActivityInv, HeardInv, Due, timerVars, packetVars
    <2>7. after' = {} /\ (attempted => ~waiting)'
      BY <1>2 DEF AllocateAgain, ActivityInv, timerVars, packetVars
    <2> QED
      BY <2>4, <2>5, <2>6, <2>7 DEF ActivityInv
  <1>3. CASE RefreshZero
    BY <1>3, GoneStep DEF RefreshZero, ActivityInv, TypeOK
  <1>4. CASE PermitOrBind
    <2>0. HeardInv' /\ heard' \in Ages
      BY <1>4, Arrival DEF PermitOrBind, Due, timerVars
    <2>1. TypeOK'
      BY <1>4, <2>0 DEF PermitOrBind, ActivityInv, TypeOK, Touches, timerVars
    <2>2. (relayed <= fed /\ promised <= left /\ (attempted => ~waiting))'
      BY <1>4 DEF PermitOrBind, ActivityInv, timerVars
    <2>3. (pc # "idle" /\ "success" \notin after /\ "attempt" \notin after)'
      BY <1>4 DEF PermitOrBind
    <2> QED
      BY <2>0, <2>1, <2>2, <2>3 DEF ActivityInv
  <1>5. ASSUME NEW l \in 1..(MaxLifetime + 1), Refresh(l)
        PROVE  ActivityInv'
    <2>1. extend' \in 0..MaxLifetime
      BY <1>0, <1>5, ClampInRange DEF Refresh
    <2>2. HeardInv' /\ heard' \in Ages
      BY <1>5, Arrival DEF Refresh, Due, timerVars
    <2>3. TypeOK'
      BY <1>5, <2>1, <2>2 DEF Refresh, ActivityInv, TypeOK, timerVars
    <2> QED
      BY <1>5, <2>2, <2>3 DEF Refresh, ActivityInv, timerVars
  <1> QED
    BY <1>1, <1>2, <1>3, <1>4, <1>5

\* A packet is sent or dropped, and its touches are due.  Those of a relay
\* come with w = FALSE.
LEMMA DataStep ==
  ASSUME NEW touches \in SUBSET Touches, NEW w \in BOOLEAN,
         ActivityInv, Relay(touches, w) \/ Unrelayed(touches, w),
         "success" \in touches \/ "attempt" \in touches => ~w,
         w => waiting
  PROVE  ActivityInv'
  <1>0. HeardInv' /\ heard' \in Ages
    <2>1. CASE "received" \in touches
      BY <2>1, Arrival DEF Relay, Unrelayed, Due, timerVars
    <2>2. CASE "received" \notin touches
      BY <2>2 DEF Relay, Unrelayed, ActivityInv, HeardInv, Due, TypeOK, timerVars
    <2> QED
      BY <2>1, <2>2
  <1>1. TypeOK'
    BY <1>0 DEF Relay, Unrelayed, ActivityInv, TypeOK, timerVars
  <1>2. (relayed <= fed /\ promised <= left)' /\ pc' # "idle"
    BY DEF Relay, Unrelayed, ActivityInv, timerVars
  <1>3. (alive /\ ("success" \in after \/ "attempt" \in after) => ~waiting)'
    BY DEF Relay, Unrelayed
  <1>4. (attempted => ~waiting)'
    BY ZenonT(40) DEF Relay, Unrelayed, ActivityInv, timerVars
  <1> QED
    BY <1>0, <1>1, <1>2, <1>3, <1>4 DEF ActivityInv

\* Data of the client.
LEMMA PacketStep ==
  ASSUME ActivityInv,
         BindingRequest \/ SendInternal \/ RelayDirect \/ ChannelStun
         \/ ChannelMedia \/ RawMedia \/ ClientResponse
  PROVE  ActivityInv'
  <1>0. waiting \in BOOLEAN
    BY DEF ActivityInv, TypeOK
  <1>1. CASE BindingRequest
    BY <1>1, Ranges DEF BindingRequest, ActivityInv, HeardInv, TypeOK
  <1>2. CASE SendInternal
    BY ZenonT(40), <1>0, <1>2, DataStep DEF SendInternal, Touches
  <1>3. CASE RelayDirect
    BY <1>0, <1>3, DataStep DEF RelayDirect, Touches
  <1>4. CASE ChannelStun
    BY <1>0, <1>4, DataStep DEF ChannelStun, Touches
  <1>5. CASE ChannelMedia
    BY ZenonT(40), <1>0, <1>5, DataStep DEF ChannelMedia, Touches
  <1>6. CASE RawMedia
    BY ZenonT(40), <1>0, <1>6, DataStep DEF RawMedia, Touches
  <1>7. CASE ClientResponse
    BY <1>0, <1>7, DataStep DEF ClientResponse, Touches
  <1> QED
    BY <1>1, <1>2, <1>3, <1>4, <1>5, <1>6, <1>7

\* The packet in hand.
LEMMA HandlerStepInv ==
  ASSUME ActivityInv, HandlerStep
  PROVE  ActivityInv'
  <1>1. CASE RefreshUpdate
    <2>1. extend * Sec \in 0..(MaxLifetime * Sec)
      BY InTicks DEF ActivityInv, TypeOK
    <2>2. extend * Sec \in Lefts /\ extend * Sec \in Int
      BY <2>1, Ranges DEF Lefts
    <2>3. age \in Ages /\ age \in Nat
      BY Ranges DEF ActivityInv, TypeOK
    <2>4. TypeOK'
      BY <1>1, <2>2, <2>3, Ranges DEF RefreshUpdate, Rest, ActivityInv, TypeOK
    <2>5. (HeardInv /\ promised <= left)'
      <3>1. CASE alive
        BY <1>1, <2>2, <2>3, <3>1 DEF RefreshUpdate, HeardInv
      <3>2. CASE ~alive
        BY <1>1, <3>2 DEF RefreshUpdate, ActivityInv, HeardInv
      <3> QED
        BY <3>1, <3>2
    <2>6. after' = {} /\ (relayed <= fed /\ (attempted => ~waiting))'
      BY <1>1 DEF RefreshUpdate, Rest, ActivityInv
    <2> QED
      BY <2>4, <2>5, <2>6 DEF ActivityInv
  <1>2. CASE Sent \/ SendFailed
    <2>1. TypeOK'
      BY <1>2, Ranges
      DEF Sent, SendFailed, Rest, ActivityInv, TypeOK, timerVars, ghostVars
    <2>2. (relayed <= fed /\ promised <= left /\ (attempted => ~waiting))'
      BY <1>2 DEF Sent, SendFailed, ActivityInv, timerVars, ghostVars
    <2>5. HeardInv'
      <3>0. received \in Ages /\ heard \in Ages /\ age \in Nat
        BY Ranges DEF ActivityInv, TypeOK
      <3>1. CASE Sent
        BY <3>0, <3>1 DEF Sent, Rest, ActivityInv, HeardInv, Due, timerVars, ghostVars
      <3>2. CASE SendFailed
        BY <3>0, <3>2, ActivityAssumption
        DEF SendFailed, ActivityInv, HeardInv, Due, Ages, timerVars
      <3> QED
        BY <1>2, <3>1, <3>2
    <2>3. (pc = "idle" => after = {})'
      BY <1>2 DEF Sent, SendFailed, Rest
    <2>4. (alive /\ ("success" \in after \/ "attempt" \in after) => ~waiting)'
      BY ZenonT(40), <1>2 DEF Sent, SendFailed, Rest, ActivityInv, timerVars, ghostVars
    <2> QED
      BY <2>1, <2>2, <2>3, <2>4, <2>5 DEF ActivityInv
  <1>3. CASE Touch
    <2>1. age \in Ages /\ age \in Nat
      BY Ranges DEF ActivityInv, TypeOK
    <2>2. TypeOK'
      BY <1>3, <2>1, Ranges
      DEF Touch, Rest, ActivityInv, TypeOK, timerVars, ghostVars
    <2>3. (received <= heard /\ relayed <= fed)'
      <3>1. CASE alive
        BY <1>3, <2>1, <3>1 DEF Touch, ActivityInv, HeardInv, Due
      <3>2. CASE ~alive
        BY <1>3, <3>2 DEF Touch, ActivityInv, HeardInv, timerVars, ghostVars
      <3> QED
        BY <3>1, <3>2
    <2>4. after' = {} /\ (promised <= left)'
      BY <1>3 DEF Touch, Rest, ActivityInv, timerVars, ghostVars
    <2>5. (attempted => ~waiting)'
      BY ZenonT(40), <1>3 DEF Touch, ActivityInv, timerVars, ghostVars
    <2> QED
      BY <2>2, <2>3, <2>4, <2>5 DEF ActivityInv, HeardInv
  <1> QED
    BY <1>1, <1>2, <1>3 DEF HandlerStep

\* The cleanup task.
LEMMA CleanerStepInv ==
  ASSUME ActivityInv, CleanerStep
  PROVE  ActivityInv'
  <1>1. /\ cpc' \in {"expired", "inactive", "orphaned"}
        /\ UNCHANGED packetVars
        /\ Gone \/ UNCHANGED <<timerVars, ghostVars>>
    BY DEF CleanerStep, CleanupExpired, CleanupInactive, CleanupOrphaned, Pass
  <1>2. CASE Gone
    BY <1>1, <1>2, GoneStep
  <1>3. CASE UNCHANGED <<timerVars, ghostVars>>
    BY <1>1, <1>3 DEF ActivityInv, HeardInv, Due, TypeOK, timerVars, ghostVars, packetVars
  <1> QED
    BY <1>1, <1>2, <1>3

\* The clock.
LEMMA TickInv ==
  ASSUME ActivityInv, Tick
  PROVE  ActivityInv'
  <1>1. MaxLifetime * Sec \in Nat
    BY ActivityAssumption
  <1>2. left' \in Lefts /\ promised' \in Lefts /\ promised' <= left'
    BY <1>1 DEF Tick, Less, ActivityInv, TypeOK, Lefts
  <1>3. /\ received' \in Ages /\ heard' \in Ages
        /\ relayed' \in Ages /\ fed' \in Ages /\ relayed' <= fed'
    BY ActivityAssumption DEF Tick, Older, ActivityInv, TypeOK, Ages
  <1>4. age' \in 0..MaxSend
    BY ActivityAssumption DEF Tick, ActivityInv, TypeOK
  <1>5. HeardInv'
    <2>1. /\ received \in Ages /\ heard \in Ages /\ age \in Nat
          /\ received' = Older(received) /\ heard' = Older(heard)
          /\ UNCHANGED <<alive, pc, after>> /\ (pc # "idle" => age' = age + 1)
      BY Ranges DEF Tick, ActivityInv, TypeOK
    <2>2. CASE received <= heard
      BY <2>1, <2>2, ActivityAssumption DEF Older, Ages, HeardInv
    <2>3. CASE ~(received <= heard)
      <3>1. alive /\ Due /\ received + MaxSend < Timeout + age /\ pc # "idle"
        BY <2>3 DEF ActivityInv, HeardInv, Due
      <3>2. received' + MaxSend < Timeout + age'
        BY <2>1, <3>1, ActivityAssumption DEF Older, Ages
      <3> QED
        BY <2>1, <3>1, <3>2 DEF HeardInv, Due
    <2> QED
      BY <2>2, <2>3
  <1> QED
    BY <1>2, <1>3, <1>4, <1>5 DEF Tick, ActivityInv, TypeOK, Touches

THEOREM ActivityCorrect == Spec => []ActivityInv
  <1>1. ActivityInv /\ [Next]_vars => ActivityInv'
    <2>1. ASSUME ActivityInv, UNCHANGED vars
          PROVE  ActivityInv'
      BY <2>1 DEF ActivityInv, HeardInv, Due, TypeOK, vars, timerVars, packetVars, ghostVars
    <2> QED
      BY <2>1, RequestStep, PacketStep, HandlerStepInv, CleanerStepInv, TickInv
      DEF Next, Packet
  <1> QED
    BY InvInit, <1>1, PTL DEF Spec

----------------------------------------------------------------------------
(* The properties *)

\* Every timer keeps its type, for every timeout and lifetime.
THEOREM TimersTyped == Spec => []TypeOK
  BY ActivityCorrect, PTL DEF ActivityInv

\* The expiry pass and the re-Allocate keep the lifetime the client was told.
THEOREM LifetimeKeptCorrect == Spec => LifetimeKept
  <1>1. ActivityInv /\ [Next]_vars =>
          [alive /\ (Allocate \/ (CleanupExpired /\ ~alive')) => promised < 0]_vars
    <2> SUFFICES ASSUME ActivityInv, alive, Allocate \/ (CleanupExpired /\ ~alive')
                 PROVE  promised < 0
      OBVIOUS
    <2>1. left < 0
      BY ZenonT(40) DEF Allocate, CleanupExpired, Pass, IsExpired, timerVars
    <2>2. left \in Int /\ promised \in Int /\ promised <= left
      BY Ranges DEF ActivityInv, TypeOK
    <2> QED
      BY <2>1, <2>2
  <1> QED
    BY ActivityCorrect, <1>1, PTL DEF Spec, LifetimeKept

\* cleanup_inactive never takes the allocation of a client that keeps sending,
\* however long its sends take and wherever the pass falls among them.
THEOREM KeepaliveKeptCorrect == Spec => KeepaliveKept
  <1>1. ActivityInv /\ [Next]_vars =>
          [alive /\ CleanupInactive /\ ~alive' => heard >= Timeout]_vars
    <2> SUFFICES ASSUME ActivityInv, alive, CleanupInactive, ~alive'
                 PROVE  heard >= Timeout
      OBVIOUS
    <2>1. received >= Timeout
      BY ZenonT(40) DEF CleanupInactive, Pass, IsInactive, timerVars
    <2>2. /\ received \in Int /\ heard \in Int /\ Timeout \in Int
          /\ age \in Int /\ age <= MaxSend /\ MaxSend \in Int
      BY Ranges, ActivityAssumption DEF ActivityInv, TypeOK
    <2>3. received <= heard
      BY <2>1, <2>2 DEF ActivityInv, HeardInv
    <2> QED
      BY <2>1, <2>2, <2>3
  <1> QED
    BY ActivityCorrect, <1>1, PTL DEF Spec, KeepaliveKept

\* cleanup_orphaned_senders leaves alone whoever joins first and waits.
THEOREM WaitingKeptCorrect == Spec => WaitingKept
  <1>1. ActivityInv /\ [Next]_vars =>
          [alive /\ CleanupOrphaned /\ ~alive' => ~waiting /\ fed >= Timeout]_vars
    <2> SUFFICES ASSUME ActivityInv, alive, CleanupOrphaned, ~alive'
                 PROVE  ~waiting /\ fed >= Timeout
      OBVIOUS
    <2>1. attempted /\ relayed >= Timeout
      BY ZenonT(40) DEF CleanupOrphaned, Pass, IsOrphaned, timerVars
    <2>2. relayed \in Int /\ fed \in Int /\ Timeout \in Int /\ relayed <= fed
      BY Ranges, ActivityAssumption DEF ActivityInv, TypeOK
    <2>3. attempted => ~waiting
      BY DEF ActivityInv
    <2> QED
      BY <2>1, <2>2, <2>3
  <1> QED
    BY ActivityCorrect, <1>1, PTL DEF Spec, WaitingKept
=============================================================================
