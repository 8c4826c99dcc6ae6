------------------------------ MODULE Activity ------------------------------
(***************************************************************************)
(* The timers of one allocation: its lifetime, the inactivity timer        *)
(* (last_received) and the orphan timer (last_successful_relay), as the    *)
(* requests and the data of its client feed them and the cleanup task      *)
(* reads them.                                                             *)
(*                                                                         *)
(* The receive loop takes one packet of the client at a time: it looks the *)
(* sender up and picks a target, awaits the send, and only then touches    *)
(* the timers.  The cleanup task and the clock run in between.  A touch    *)
(* holds a guard on the allocation, a pass the write lock of its shard, so *)
(* each is one step.  Timestamps are kept as ages and the deadline as the  *)
(* time left; what the code no longer tells apart is not counted on.       *)
(***************************************************************************)
EXTENDS Integers

CONSTANTS
  Sec,          \* ticks of the model in a second
  Timeout,      \* INACTIVITY_TIMEOUT_SECS, in ticks
  MaxLifetime,  \* 60 s: a new allocation's lifetime and the cap on a Refresh
  MinLifetime,  \* 10 s: the least a Refresh extends to
  MaxSend       \* bound: ticks a packet may take, far fewer than Timeout

ASSUME ActivityAssumption ==
  /\ Sec \in Nat \ {0} /\ Timeout \in Nat \ {0}
  /\ MinLifetime \in Nat \ {0} /\ MaxLifetime \in Nat
  /\ MinLifetime <= MaxLifetime
  /\ MaxSend \in Nat /\ MaxSend < Timeout

VARIABLES
  alive,      \* the allocation is in the table
  left,       \* expires_at_ms - now, -1 when that is past
  received,   \* age of last_received_ms
  relayed,    \* age of last_successful_relay_ms
  attempted,  \* has_relay_attempt
  pc,         \* receive loop: next step
  after,      \* ... the touches due once the packet is sent
  extend,     \* ... the lifetime a Refresh asked for, clamped
  age,        \* ... age of the packet in hand
  cpc,        \* cleanup task: the next pass
  promised,   \* what is left of the lifetime the client was last told
  heard,      \* history: age of the client's last packet it can count on
  fed,        \* age of its last relay, or of its first attempt at one
  waiting     \* it has sent no media and none of its Send indications got through

timerVars  == <<alive, left, received, relayed, attempted>>
packetVars == <<pc, after, extend, age>>
ghostVars  == <<promised, heard, fed, waiting>>
vars == <<timerVars, packetVars, cpc, ghostVars>>

Ages == 0..Timeout
Lefts == -1..(MaxLifetime * Sec)
Touches == {"received", "success", "attempt"}

TypeOK ==
  /\ alive \in BOOLEAN
  /\ left \in Lefts
  /\ received \in Ages /\ relayed \in Ages
  /\ attempted \in BOOLEAN
  /\ pc \in {"idle", "update", "send", "touch"}
  /\ after \subseteq Touches
  /\ extend \in 0..MaxLifetime
  /\ age \in 0..MaxSend
  /\ cpc \in {"expired", "inactive", "orphaned"}
  /\ promised \in Lefts
  /\ heard \in Ages /\ fed \in Ages
  /\ waiting \in BOOLEAN

Init ==
  /\ alive = FALSE /\ left = -1
  /\ received = Timeout /\ relayed = Timeout /\ attempted = FALSE
  /\ pc = "idle" /\ after = {} /\ extend = 0 /\ age = 0
  /\ cpc = "expired"
  /\ promised = -1 /\ heard = Timeout /\ fed = Timeout
  /\ waiting = TRUE

----------------------------------------------------------------------------
(* Allocation *)

\* Wrong: an allocation counts as expired at its deadline's own tick.
IsExpiredAtDeadline == left <= 0
IsExpired == left < 0

IsInactive == received >= Timeout

IsOrphaned == attempted /\ relayed >= Timeout

\* Whole seconds, rounded down.
RemainingLifetime == IF left > 0 THEN left \div Sec ELSE 0

\* requested_lifetime.clamp(10, 60)
Clamp(l) ==
  IF l < MinLifetime THEN MinLifetime ELSE IF l > MaxLifetime THEN MaxLifetime ELSE l

\* The timers of an allocation that is gone are not told apart.
Gone ==
  /\ alive' = FALSE /\ left' = -1
  /\ received' = Timeout /\ relayed' = Timeout /\ attempted' = FALSE
  /\ promised' = -1 /\ heard' = Timeout /\ fed' = Timeout
  /\ waiting' = TRUE

Rest == pc' = "idle" /\ after' = {} /\ extend' = 0 /\ age' = 0

\* A packet that touches last_received arrives.  The client can count on it if
\* even the slowest send leaves its touch within the timeout after the last; one
\* that comes later counts when its touch lands.
Heard == IF heard + MaxSend < Timeout THEN 0 ELSE heard

----------------------------------------------------------------------------
(* Requests *)

\* handle_allocate, no allocation on the 5-tuple or a lapsed one, which is
\* taken out first: Allocation::new, and success with its remaining lifetime.
Allocate ==
  /\ pc = "idle" /\ (alive => IsExpired)
  /\ alive' = TRUE /\ left' = MaxLifetime * Sec
  /\ received' = 0 /\ relayed' = Timeout /\ attempted' = FALSE
  /\ promised' = MaxLifetime * Sec /\ heard' = 0 /\ fed' = Timeout
  /\ waiting' = TRUE
  /\ UNCHANGED <<packetVars, cpc>>

\* handle_allocate, a retransmission: success again, with what remains.
AllocateAgain ==
  /\ pc = "idle" /\ alive /\ ~IsExpired
  /\ promised' = RemainingLifetime * Sec
  /\ UNCHANGED <<timerVars, packetVars, cpc, heard, fed, waiting>>

\* handle_refresh with lifetime 0, authenticated: the allocation is removed.
RefreshZero ==
  /\ pc = "idle" /\ alive
  /\ Gone
  /\ UNCHANGED <<packetVars, cpc>>

\* handle_refresh, authenticated.
Refresh(l) ==
  /\ pc = "idle" /\ alive
  /\ pc' = "update" /\ extend' = Clamp(l) /\ heard' = Heard
  /\ UNCHANGED <<timerVars, promised, fed, waiting, after, age, cpc>>

\* Wrong: only the deadline moves.
RefreshUpdateUntouched ==
  /\ pc = "update"
  /\ \/ /\ alive
        /\ left' = extend * Sec
        /\ promised' = extend * Sec /\ heard' = age
        /\ UNCHANGED <<received>>
     \/ ~alive /\ UNCHANGED <<left, received, promised, heard>>
  /\ Rest
  /\ UNCHANGED <<alive, relayed, attempted, fed, waiting, cpc>>

\* The second get_by_client of handle_refresh: nothing to extend if a pass has
\* taken the allocation meanwhile; success either way.
RefreshUpdate ==
  /\ pc = "update"
  /\ \/ /\ alive
        /\ left' = extend * Sec /\ received' = 0
        /\ promised' = extend * Sec /\ heard' = age
     \/ ~alive /\ UNCHANGED <<left, received, promised, heard>>
  /\ Rest
  /\ UNCHANGED <<alive, relayed, attempted, fed, waiting, cpc>>

\* handle_create_permission, handle_channel_bind: touch_received, the answer.
\* (PeerRouting and ChannelBindings model what they change.)
PermitOrBind ==
  /\ pc = "idle" /\ alive
  /\ pc' = "touch" /\ after' = {"received"} /\ heard' = Heard
  /\ UNCHANGED <<timerVars, promised, fed, waiting, extend, age, cpc>>

----------------------------------------------------------------------------
(* Data from the client.  Whether it has a target, and which, is the state *)
(* of IcePairing and of the peers: any packet may have one or none.        *)

\* The packet goes to a target, and the touches follow.
Relay(touches, w) ==
  /\ pc = "idle" /\ alive
  /\ pc' = "send" /\ after' = touches /\ waiting' = w
  /\ heard' = IF "received" \in touches THEN Heard ELSE heard
  /\ UNCHANGED <<timerVars, promised, fed, extend, age, cpc>>

\* The packet is dropped for want of a target, and the touches follow.
Unrelayed(touches, w) ==
  /\ pc = "idle" /\ alive
  /\ pc' = "touch" /\ after' = touches /\ waiting' = w
  /\ heard' = IF "received" \in touches THEN Heard ELSE heard
  /\ UNCHANGED <<timerVars, promised, fed, extend, age, cpc>>

\* handle_binding_request of a client: touched before the check is relayed.
BindingRequest ==
  /\ pc = "idle" /\ alive
  /\ received' = 0 /\ heard' = 0
  /\ pc' \in {"idle", "send"}
  /\ UNCHANGED <<alive, left, relayed, attempted, after, extend, age, cpc,
                 promised, fed, waiting>>

\* Wrong: the check of whoever joins first arms the orphan timer.
SendInternalArms ==
  \/ Relay({"received", "success"}, FALSE)
  \/ Unrelayed({"received", "attempt"}, waiting)

\* handle_send to the relay address, by ufrag or by pair.
SendInternal ==
  \/ Relay({"received", "success"}, FALSE)
  \/ Unrelayed({"received"}, waiting)

\* handle_send and handle_channel_data to another client or to an external
\* peer: the relay timer is not touched.
RelayDirect == Relay({"received"}, waiting)

\* handle_channel_data to the relay address, an ICE check or its response.
ChannelStun == Relay({"received"}, waiting) \/ Unrelayed({"received"}, waiting)

\* handle_channel_data to the relay address, anything else.
ChannelMedia ==
  Relay({"received", "success"}, FALSE) \/ Unrelayed({"received", "attempt"}, FALSE)

\* relay_client_data: unframed media, which does not touch last_received.
RawMedia == Relay({"success"}, FALSE) \/ Unrelayed({"attempt"}, FALSE)

\* handle_client_response: a STUN response, which touches nothing.
ClientResponse == Relay({}, waiting)

\* send_to has returned.
Sent ==
  /\ pc = "send"
  /\ \/ after # {} /\ pc' = "touch" /\ UNCHANGED <<after, extend, age>>
     \/ after = {} /\ Rest
  /\ UNCHANGED <<timerVars, cpc, ghostVars>>

\* send_to has failed: `?` skips the touches, and the client cannot count on
\* the packet, nor on the ones before it.
SendFailed ==
  /\ pc = "send"
  /\ Rest
  /\ heard' = IF "received" \in after THEN Timeout ELSE heard
  /\ UNCHANGED <<timerVars, cpc, promised, fed, waiting>>

\* Wrong: a failed attempt restarts the orphan timer.
TouchAnyAttempt ==
  /\ pc = "touch"
  /\ IF ~alive THEN UNCHANGED <<timerVars, ghostVars>>
     ELSE /\ received' = IF "received" \in after THEN 0 ELSE received
          /\ heard' = IF "received" \in after THEN age ELSE heard
          /\ LET relay == after \cap {"success", "attempt"} # {} IN
               /\ relayed' = IF relay THEN 0 ELSE relayed
               /\ attempted' = (attempted \/ relay)
               /\ fed' = IF "success" \in after \/ (relay /\ ~attempted) THEN age ELSE fed
          /\ UNCHANGED <<alive, left, promised, waiting>>
  /\ Rest
  /\ UNCHANGED cpc

\* touch_received, touch_relay_success and touch_relay_attempt, if the
\* allocation is still there.
Touch ==
  /\ pc = "touch"
  /\ IF ~alive THEN UNCHANGED <<timerVars, ghostVars>>
     ELSE /\ received' = IF "received" \in after THEN 0 ELSE received
          /\ heard' = IF "received" \in after THEN age ELSE heard
          /\ LET relay == "success" \in after \/ ("attempt" \in after /\ ~attempted) IN
               /\ relayed' = IF relay THEN 0 ELSE relayed
               /\ attempted' = (attempted \/ relay)
               /\ fed' = IF relay THEN age ELSE fed
          /\ UNCHANGED <<alive, left, promised, waiting>>
  /\ Rest
  /\ UNCHANGED cpc

----------------------------------------------------------------------------
(* The cleanup task: the three passes in turn *)

Pass(judged, next) ==
  /\ cpc' = next
  /\ \/ alive /\ judged /\ Gone
     \/ ~(alive /\ judged) /\ UNCHANGED <<timerVars, ghostVars>>
  /\ UNCHANGED packetVars

CleanupExpired  == cpc = "expired"  /\ Pass(IsExpired, "inactive")
CleanupInactive == cpc = "inactive" /\ Pass(IsInactive, "orphaned")
CleanupOrphaned == cpc = "orphaned" /\ Pass(IsOrphaned, "expired")

----------------------------------------------------------------------------
(* update_coarse_time *)

Older(a) == IF a < Timeout THEN a + 1 ELSE Timeout
Less(t) == IF t >= 0 THEN t - 1 ELSE -1

Tick ==
  /\ pc = "idle" \/ age < MaxSend
  /\ left' = Less(left) /\ promised' = Less(promised)
  /\ received' = Older(received) /\ relayed' = Older(relayed)
  /\ heard' = Older(heard) /\ fed' = Older(fed)
  /\ age' = IF pc = "idle" THEN 0 ELSE age + 1
  /\ UNCHANGED <<alive, attempted, pc, after, extend, cpc, waiting>>

Packet ==
  \/ Allocate \/ AllocateAgain \/ RefreshZero \/ \E l \in 1..(MaxLifetime + 1) : Refresh(l)
  \/ PermitOrBind \/ BindingRequest \/ SendInternal \/ RelayDirect
  \/ ChannelStun \/ ChannelMedia \/ RawMedia \/ ClientResponse

HandlerStep == RefreshUpdate \/ Sent \/ SendFailed \/ Touch
CleanerStep == CleanupExpired \/ CleanupInactive \/ CleanupOrphaned

Next == Packet \/ HandlerStep \/ CleanerStep \/ Tick

Spec == Init /\ [][Next]_vars

\* The clock, the cleanup task's ticker and the packet in hand do not stop.
FairSpec ==
  Spec /\ WF_vars(Tick) /\ WF_vars(CleanerStep) /\ WF_vars(HandlerStep)

----------------------------------------------------------------------------
(* Properties *)

\* The expiry pass and the re-Allocate take an allocation only when the
\* lifetime its client was last told is over: remaining_lifetime rounds down
\* and is_expired waits for the deadline to be past.
LifetimeKept ==
  [][alive /\ (Allocate \/ (CleanupExpired /\ ~alive')) => promised < 0]_vars

\* cleanup_inactive never takes the allocation of a client that sends requests,
\* indications, checks or ChannelData more often than the timeout less the time
\* one packet may take: although last_received is touched only after the packet
\* is sent, no pass judges such a client while a touch is due.  Only a gap, or a
\* send that fails and costs the touch, exposes it.
KeepaliveKept ==
  [][alive /\ CleanupInactive /\ ~alive' => heard >= Timeout]_vars

\* cleanup_orphaned_senders takes an allocation only for relaying that began
\* and then went without success for the timeout; it does not "reap the
\* allocation of whoever joins first (ringing, waiting room, slow signalling)
\* 45s later, while it is actively sending and refreshing".
WaitingKept ==
  [][alive /\ CleanupOrphaned /\ ~alive' => ~waiting /\ fed >= Timeout]_vars

\* A client whose media finds nobody loses its allocation, although it keeps
\* sending and refreshing.
OrphansReaped ==
  alive /\ attempted /\ fed = Timeout ~> ~(alive /\ attempted /\ fed = Timeout)
=============================================================================
