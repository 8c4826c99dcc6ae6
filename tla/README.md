# A verification of uturn in TLA+

uturn is a TURN server on a single UDP port. One receive loop handles every
packet; one cleanup task wakes every two seconds. Both work on the same
concurrent maps (`DashMap`), in parallel on the threads of the tokio runtime.
These modules model the state the two tasks share, one access to one map per
step, and check and prove what keeps it consistent.

Paths below are relative to the repository's `src/`.

## 1. Inventory

| Component | State | Operations | What makes it correct |
|---|---|---|---|
| Allocation lifecycle (`lookup/table.rs`, `turn/handler.rs`, `server.rs`) | `allocations`, `by_client`, id counter, expiry | `create_or_get`, `get_by_client`, `remove`, `handle_allocate`, `handle_refresh`, the passes `cleanup_expired`, `cleanup_inactive`, `cleanup_orphaned_senders` | one allocation per client, index and map agree, lapsed allocations are reaped |
| Per-IP quota (`lookup/rate_limit.rs`) | `allocation_count` per IP | `check_allocation_request`, `cancel_reservation`, `record_deallocation` | every counted slot belongs to one allocation or one reservation and is given back once; the limit holds |
| Request window (`lookup/rate_limit.rs`) | `request_times` per IP | `check_allocation_request`, `cleanup` | at most N requests in 60 s; no live entry dropped |
| Channel bindings (`table.rs`, `handler.rs`) | `channels`, `channels_reverse`, expiries | `handle_channel_bind`, `bind_channel`, `cleanup_expired_channels` | the maps are inverse, the cap holds, a live binding stays with its peer |
| Permissions and peer routing (`table.rs`, `handler.rs`, `relay/engine.rs`) | `permissions`, `by_permission`, `by_peer_tuple`, `known_peers` | `handle_create_permission`, the automatic grant, the handlers for peer data, `cleanup_permissions` | live permissions are indexed, indices name living allocations, permitted peers are heard |
| ICE pairing and internal relay (`table.rs`, `handler.rs`, `engine.rs`, `server.rs`) | `ice_ufrag`, `ice_remote_ufrag`, `by_ice_ufrag` | `register_ice_ufrags`, `find_ice_peer`, the relay paths | the index is exact, a ufrag keeps its owner, pairs are symmetric |
| Activity timers (`table.rs`) | `last_received_ms`, `last_successful_relay_ms`, `has_relay_attempt`, `expires_at_ms` | the `touch` methods, `is_inactive`, `is_orphaned_sender`, `is_expired`, `refresh` | a client in use is not reaped, one that sends in vain is; a told lifetime is kept |
| Direct relay (`handler.rs`, `engine.rs`) | none of its own | `handle_send`, `handle_channel_data`, `classify_send_target` | both data paths come to the same |
| Authentication (`turn/auth.rs`, `config.rs`, `handler.rs`) | nonce secret, credentials | `generate_nonce`, `validate_nonce`, `verify_long_term_credentials`, `authenticate_for_allocation` | only fresh requests of the owner have an effect, and every request comes to an end |
| Demultiplexing (`demux/`) | none | `classify`, `StunInfo::parse`, `is_valid_rtcp` | media and checks are recognised, by both readers |
| Message building (`handler.rs`, `engine.rs`, `server.rs`) | none | responses, indications, ChannelData | what is built is what is read |
| Clock (`coarse_time.rs`) | a timestamp | an updater every 10 ms | ages are judged on the safe side |
| Configuration, start-up (`config.rs`, `main.rs`) | none after start | | a restart leaves nothing valid behind |

**How they interact.** `server.rs` classifies a packet and calls
`TurnHandler` (STUN) or `RelayEngine` (the rest); both read and write the
table. The cleanup task runs the three reaping passes, each followed by
`record_deallocation` for what it removed, then `cleanup_channel_bindings`,
`cleanup_permissions` and the rate limiter's `cleanup`. There are no messages
between the tasks: all interaction is through the maps.

**What is hard.** A map access is atomic, a handler is not: it copies an id
out of one map, releases the guard and goes to the next one. `retain` holds
the write lock of a shard while it updates the indices of the entry it is
about to drop; `remove` does these in the other order. Between any two
accesses the other task may run. Timers are touched after a send that may take
its time or fail. On the wire, requests and answers are lost, repeated and
late. `PROJECT.json` lists these places under "hazards", each at its line.

## 2. Modules

AllocationLifecycle, ChannelBindings, PeerRouting, IcePairing and Activity have
two processes, the receive loop (`pc` and its locals) and the cleanup task
(`cpc` and its locals). An action is one access to one map and the local
computation up to the next one. In the first four, time is abstracted to which
entries have lapsed (`Expire`, `Lapse`).

* **AllocationLifecycle**: `handle_allocate`, `handle_refresh` and the reaping
  passes over `allocations`, `by_client` and the quota. `Workers` is a
  parameter: the server has one receive loop, but `AllocationTable` documents
  concurrent callers and `create_or_get` has a rollback for them. `Accessible`
  is the wait for the shard that `retain` holds. Any allocation may be reaped
  as idle at any time, which covers every setting of the activity timers. The
  one assumption on time is that an entry is not reaped between the insert and
  the claim of `create_or_get`: no `await` lies between them, and the shortest
  timeout is 45 s.
* **ClientAllocations**: what the table and the quota promise their callers,
  without maps, indices, locks or passes: a client holds at most one
  allocation, an id is granted once, an allocation is granted on a slot and
  ends before the slot is returned. `Promise` in AllocationLifecycle
  instantiates it: `Held` is what `get_by_client` finds, `slots` the limiter's
  count.
* **ChannelBindings**: the two channel maps of one allocation. Two variables
  are history: `overtaken` is set when a channel is bound that a pass has
  collected as lapsed and is about to remove, `due` holds what a pass has to
  free.
* **ClientChannels**: what a client may rely on about its channels, without the
  reverse map, the handler's checks or the two phases of the cleanup: a live
  binding keeps its peer, a channel changes peer only after it has lapsed, the
  live ones are within the cap; and, until a bind overtakes a pass, a peer has
  one live channel and only lapsed bindings are forgotten. `Promise` in
  ChannelBindings instantiates it.
* **PeerRouting**: permissions and the indices for data from peers. The
  addresses in `Addrs` are not clients. Which candidates of
  `narrow_peer_candidates` have a channel is left open. `handle_packet` looks a
  peer up once before the handler does; the model has the handler's lookup
  only, a packet dropped by the first one changes nothing. The history
  variables record the two races there are at the step that causes them:
  `overtaken`, permissions indexed after `cleanup_permissions` had dropped the
  lapsed one and before it unindexed it; `outrun`, allocations reaped while the
  receive loop had them in hand. A permission, like a binding in
  ChannelBindings, does not lapse within the request that grants it (`fresh`,
  `Settle`): that would take five minutes.
* **IcePairing**: ufrag registration and the relay through the relay address.
  `via` tells the five ways a packet comes in, which differ in the permissions
  they ask for. An allocation stands for its client address, and an id is not
  used again.
* **Activity**: the three timers of one allocation, fed by every request and
  every way its data may take (`SendInternal`, `RelayDirect`, `ChannelStun`,
  `ChannelMedia`, `RawMedia`, `ClientResponse`), each with the touches that the
  code makes after the send, and read by the three passes. A timestamp is kept
  as its age and the deadline as the time left, so that the model has no
  absolute time; `heard`, `fed`, `promised` and `waiting` are what a client
  would say of its own history: `heard` is the age of its last packet if it
  follows the one before so soon that even the slowest send leaves no gap.
  `last_activity_ms`, and `touch()` which sets
  it, are left out: nothing reads it.
* **RateLimiter**: the entry of one IP, request window and count. Each
  operation holds the entry's shard and is one step. `AllocationLifecycle` has
  the callers, this module what the entry does with their calls.
* **QuotaSlots**: what stands between those two: the slots of an IP that are
  counted, and the allocations and reservations that hold them, move together.
  `Slots` in RateLimiter says that the entry does this for callers that give
  back what they hold; `Slots(p)` in AllocationLifecycle, with `Owed(p)` for
  what is held, says that the callers do, once for each.
* **Demux**: the parsers as operators on what they look at. A datagram is its
  length, first two bytes, the number in bytes 2-3 and whether the cookie is
  there; an attribute is its type and value, whether it lies within the message
  and within the datagram, and whether its length suits its type. The first two
  tell the two STUN readers apart: `parse_attributes` stops at the end of the
  message and at MESSAGE-INTEGRITY, takes the last USERNAME and none that is too
  long; `extract_stun_ufrags` goes to the end of the datagram, past
  MESSAGE-INTEGRITY, and takes the first USERNAME with a colon.
* **PacketPath**: the receive loop on one packet at a time, over Demux:
  `handle_packet`, the two readers of a connectivity check, the two data paths,
  and the frames of payloads, whose 16-bit lengths are computed.
* **Builders**: PacketPath with the answers: message types and XOR addresses,
  with their masks and XORs computed. Here and in Demux a word is the set of
  its bits: setting bits is a union, XOR the symmetric difference, a shift moves
  the elements. The prover takes these, and not the operators of Bitwise.
* **Requests**: a client with long-term credentials and the server, over UDP.
  The network loses, repeats and delays: a pending request may arrive any
  number of times, and a copy of an earlier one (`late`) may arrive at any time
  after. The wall clock is set, the server restarts. A handler is one step: if
  the cleanup task takes the allocation while it runs, the answer and the table
  are those of the action `Reap` just before it or just after. The client
  is external code, modelled as the comments of the handlers expect it: it
  retransmits, tries again after a challenge, and ignores an unsigned answer
  to a signed request. An HMAC is the pair of its key and the bytes it covers.

How the modules fit together: Requests and PacketPath decide which handler
runs; AllocationLifecycle, ChannelBindings, PeerRouting and IcePairing are the
handlers against the cleanup task; Activity says when that task may reap, and
the others let it reap at any time, which is more. RateLimiter is the counter
AllocationLifecycle calls, through QuotaSlots.

In all modules with shared state the two tasks run as the server runs them: on
two threads of `#[tokio::main]`, and a step of either may come between any two
of the other. No property is stated for a friendlier schedule. Where an
interleaving does break something, the property names the race that does and
holds without exception otherwise.

The modules `MC...` give constants their values. Operators under a comment
that begins with "Wrong:" (and the few beside the definition they vary) are
plausible bugs; each property is shown to fail under one of them.

## 3. Runs

| Run | Bounds | Shows |
|---|---|---|
| LifecycleServer | 1 worker, 3 clients on 2 IPs, quota 1, 3 ids | slots taken within the quota and given back once (`KeepsSlots`), requests answered, lapsed allocations reaped, slots returned |
| LifecycleConcurrent | 2 workers, 2 clients on 1 IP, quota 2, 3 ids | with concurrent callers, quota slots exact (`QuotaExact`), index and map agree (`Indexed`, `NoDangling`), and the refinement `KeepsPromise` |
| ChannelsServer | 3 channels, 3 peers, cap 2, symmetric | maps inverse unless a pass was overtaken (`Consistent`), the refinement `KeepsBindings`, cap, a pass frees what had lapsed (`PassFrees`) |
| ChannelsLostBind | the same | violation: `LiveKept` |
| RoutingServer | 2 allocations, 3 IPs, 1 address, cap 1; one client asks for the peer and another, the other for the peer and the relay IP and sends checks | `by_permission` and the permissions agree both ways when a packet is looked up (`PermissionsIndexed`, `PermissionsOwned`), a tuple leaves with its allocation (`TuplesOwned`), but for what the two races leave; cap |
| RoutingUnheard | 2 allocations on another IP than the peer's | violation: `PermittedPeerHeard` |
| RoutingRefreshRefused | 2 allocations, 2 IPs | violation: `RefreshAllowed` |
| PairingServer | 3 allocations, 2 ufrags, symmetric | index exact, first come, pairs symmetric, traffic to the current owner |
| ActivityTimers | 2 ticks to the second, timeout 4, lifetimes 1 and 2 s, a packet takes up to 1 tick | a told lifetime is kept, a client that sends often enough is not taken for inactive (`KeepaliveKept`), waiting ones are not orphaned, orphans are reaped |
| Limiter | 4 requests in a window of 7 ticks, quota 3 | no slot or request forgotten, the window's bound is exact, idle entries go |
| Packets | lengths, bytes and fields on both sides of every test in the code; all RTP headers and reports; messages of up to 3 of 9 attributes in any order; every size of a payload up to the limit of a datagram; every message type; IPv4 and IPv6 addresses of a few bytes | media recognised, both readers agree on what ICE agents send, both data paths agree up to a permission, answers, addresses and frames read back |
| Requests | 2 users (one with an expiring name), 6 things to ask for, 2 trailers behind MESSAGE-INTEGRITY, 1 late copy, 4 transaction ids, clock 0..1, nonces of 1 tick, lifetimes of 1 and 2, 1 restart or clock setting | only fresh requests of the owner have an effect, exactly the one that was signed; retransmissions are safe; every request ends |

**Why the bounds are enough.** Three ids let a client allocate, lose its
allocation and allocate again beside another client's; a quota of 1 is reached
by one client and contended by a second. A cap below the number of channels,
or of IPs, is reached and exceeded. Two allocations share a permitted IP.
Three allocations and two ufrags let a third client claim a ufrag of a pair.
IDs are not reused, so PairingServer ends when all allocations are gone and
does not check deadlock. Two ticks to the second make the rounding of
`remaining_lifetime` visible; a lifetime may be shorter or longer than the
timeout. A timeout of four ticks leaves room for a packet sent in time, its slow
send and a gap. In RoutingServer the clients ask for no more than it takes for
each IP to be contended, lapsed and refused at the cap. A window longer than it has requests lets them leave one by one. In
Requests a nonce and a username run out in one tick, a refreshed lifetime can
be shorter than the first one and a trailer ask for the longer, a late copy meets the next
allocation, and a second user meets the first one's; four transaction ids are
the pending one, the late one, the allocation's and a fresh one.

**Fairness.** Weak fairness of the receive loop's steps: the loop awaits only
socket sends inside a packet. Weak fairness of the cleanup task's steps: its
ticker never stops, and a pass has no `await`. Strong fairness of
`CleanupExpired(i)`: every pass visits every entry, so one that stays lapsed is
met although the task, or the receive loop, is busy in between. Weak fairness of the clock (`Tick`), which
is updated every 10 ms. In Requests, of a packet sent again and again some copy
gets through; the wall clock stops at its bound, which stands for nonces that
outlive a round trip. Packets need not arrive in any other module.

**What the violations show.**

* `cleanup_expired_channels` removes what it found lapsed without looking
  again, so a binding renewed in between is lost. The same window lets the
  reverse entry of the renewed binding be cleared, and `Consistent` and
  `OneChannelPerPeer` fail.
* A learned tuple outlives the permission it was learned under, and hides the
  peer from another client that permits it.
* The automatic grant is outside the cap; at cap + 1 a pure refresh is refused.

**What the races leave.** TLC finds two more windows like the first one, which
the properties of RoutingServer name. `cleanup_permissions` updates
`by_permission` after it has released the permissions lock, so a permission
renewed in between is live but not indexed (`overtaken` in
`PermissionsIndexed`). `register_peer_tuple` writes the index before it looks at
the allocation, and `add_permission` after it has let go of it, so an entry can
outlive an allocation that is reaped meanwhile, for good (`outrun` in
`TuplesOwned` and `PermissionsOwned`). In the channel maps, once a pass has been
overtaken a live binding may be dropped or a peer bound twice, but the cap holds
and no live channel changes its peer (`CapRespected`, `NotRedirected`).

**Observations without a run.**

* The doc of `is_orphaned_sender` says "sending but no targets for given
  duration". Direct relays, checks and responses have targets and do not feed
  that timer, so a client that once relayed media through the relay address and
  goes on with those alone is reaped after 45 s. `WaitingKept` speaks of the
  relays that do feed it.
* `is_inactive` is for "no traffic FROM client" (`lookup/table.rs:354`,
  `server.rs:23`). Raw media, STUN responses and a repeated Allocate do not
  touch its timer; `KeepaliveKept` speaks of the packets that do.
* RTP with the marker and a payload type of 72 to 76 whose sequence number, read
  as RTCP's length, ends within the datagram goes to `handle_rtcp`. For second
  bytes 202 to 204 any such number will do, for 200 and 201 it must leave room
  for the blocks. No other RTP does (`Lookalike` in `MediaRecognised`); it
  differs from `handle_rtp` in that a client on the sender's own IP is skipped.
* Beyond what ICE agents send (one USERNAME within the message, of legal length,
  before MESSAGE-INTEGRITY, in a Binding request) the two STUN readers differ.
  What the parser finds a pair in is never without one to the engine
  (`ReadersAgree`), but it may be another pair, and the engine finds pairs where
  the parser finds none.
* For a payload to the relay address, `handle_send` asks whether the ICE peer
  permits the relay IP and `handle_channel_data`, through `relay_to_listeners`,
  does not; `handle_send` wraps it in an indication and the other path uses the
  peer's channel if there is one. `DataPathsAgree` says that this is all.

## 4. Proofs

The theorems hold for all values of the constants that satisfy the named
assumptions (`LifecycleAssumption`, `RoutingAssumption`, ...), which state only
types, finiteness and the order of bounds.

**AllocationLifecycleProofs.** `IndexCorrect` proves the inductive invariant
`IndexInv`. `Indexed` and `NoDangling` are not inductive: they need that the
id in a worker's hand belongs to the request's client (`HandsInv`), that no
two workers insert or take out the same allocation (`HandsDisjoint`), that
`by_client` never names an unclaimed entry (`ByClientInv`), that the entry
`retain` holds is the only one both removed and present (`CleanerInv`), and
that ids in use are below the counter (`IdsInUse`). `QuotaExactCorrect` follows
the counters through each action: a step moves one element between the sets
`ChargedTo(p)` and `ReservedTo(p)` and the count by the same amount.
`QuotaRespectedCorrect` combines it with the bound on the count (`CountCorrect`)
and a surjection from workers that are creating onto the entries not yet
claimed.

In the same module `PromiseKept` shows that AllocationLifecycle
implements ClientAllocations. Each step is shown to be the abstract step it
looks like or a stutter: the claim of the `by_client` slot is `Grant`, the
access of `remove` to the primary map and the reaper's to `by_client` are `End`,
admission is `Reserve`, the rollback is `Discard`. That a slot is free when it
is returned, and when an allocation is granted, comes from `QuotaExact`
(`HeldCharged`, `SlotIsFree`): what a client holds is charged, and a reservation
or an allocation on its way out is charged beside it. `LimiterUsed` reads off
the same steps (`NextPromised`, `SlotsStep`), with `QuotaExact` before and after
each, that every IP's count moves with what is owed for it; together with `SlotsKept` below, what RateLimiter assumes of
its callers (they give back only what they hold) is what AllocationLifecycle
does, and the counter AllocationLifecycle assumes is what RateLimiter provides.

**ChannelBindingsProofs.** `CapCorrect` needs that the bind in hand is a
refresh or has room (`Room`), however the scan and lapses interleave.
`ConsistentCorrect` and `OneChannelCorrect` rest on `MapsInv`, which holds until
a bind overtakes a pass: entries of the two maps that are out of step are those
of the channel and the peer in hand (`FwdInv`, `RevInv`, `BindInv`), what a pass
has collected is lapsed or gone (`PassInv`), and what the two lookups of the
handler found is still what is live (`LiveInv`). `BindingsKept` is the
refinement of ClientChannels, one lemma for each kind of step (`BindPromised`,
`LapsePromised`, `ForgetPromised`, `StutterPromised`): the forward half of a bind
is the abstract `Bind`, the first removal of the pass is `Forget`, everything on
the reverse map is invisible. `NotRedirectedCorrect` holds after a pass was
overtaken, too. It rests on `CheckInv`: while the channel in hand is live, the
peer the handler found it bound to is the one it is bound to, whatever the pass
does, and the handler goes on to bind only if it found none or the same.
`PassFreesCorrect` follows what a pass has to free from the scan through the
list of collected pairs to the removal.

**PeerRoutingProofs.** `CapCorrect` counts: the positions of a request that name
a new IP are at least as many as the new IPs. The theorems about the indices
rest on `RoutingInv`: a live permission is indexed, about to be, or overtaken
(`IndexedInv`); what is indexed is among the keys that the end of its owner goes
through, about to be pruned, or the relay IP of an allocation that was outrun
(`OwnedInv`); the same for tuples and `known_peers` (`TuplesInv`); a permission
that waits to be indexed stays live (`FreshInv`); and the allocation in hand is
in the table or was outrun, except under the guard of
`try_add_permissions_capped`, where it cannot be (`HandInv`).

**IcePairingProofs.** `PairingCorrect` proves `PairingInv`: `IndexSound` and
`IndexComplete` with what the handler and the reaper rely on at each step
(`HandlerInv`, `CleanerInv`). `SymmetricCorrect` is a consequence of the two
index invariants, and `FirstComeCorrect` an action property that needs the
invariant to know whose entry a step frees. `AddressedCorrect` needs that the
target in hand still uses the ufrag it was found by (`TargetInv`), from the
lookup to the send. All hold for one receive loop.

**ActivityProofs.** `ActivityInv` relates the timers to the client's history:
a told lifetime is not longer than what is left, an age the code keeps is not
greater than the one the client would unless a touch is due that will come in
time (`HeardInv`), and a client that waits has not armed
the orphan timer, nor has the packet in hand. The three action properties
follow, for every timeout, lifetime and resolution of the clock.

**RateLimiterProofs.** `CountInv`: the count is what the callers hold, and an
IP without an entry holds nothing, which is why `cleanup` may drop only
entries whose count is 0. `WindowInv`: the queue is in the order of time
(`Ordered`), and the requests of the last window are its end, behind entries
that are all too old (`Behind`), so that `pop_front` in a loop drops exactly
those. `WindowExactCorrect` and `RequestsBoundedCorrect` follow. No induction
over the queue is needed: what the loop leaves is defined by the first entry
that is young enough. `SlotsKept` is the refinement of QuotaSlots: only a
granted request and a release move the count.

**RequestsProofs.** The parser reads a signed request the way its signer wrote
it, whatever follows MESSAGE-INTEGRITY (`SignedInfo`); what gets past
`verify_long_term_credentials` was signed by the user it names with a nonce of
the running server (`VerifyFacts`); and each handler does to the allocation
what `Permitted` says or nothing (`HandleStep`). `FreshEffectCorrect`,
`OwnerOnlyCorrect`, `FaithfulEffectCorrect` and `RetransmissionSafeCorrect`
are action properties that follow from these and from `RequestsInv`.
`OutlivesCredentialsCorrect` is the conjunct that makes it inductive: the time
an allocation has left and the time its owner has been out of credentials never
exceed one lifetime together (`Sound`), because no Refresh of an owner that has
run out passes. All five assume that authentication is on (`AuthEnabled`), and
`RequestsAssumption`; they hold for every set of users, credentials, secrets,
requests and trailers, every lifetime, and any number of restarts and settings
of the clock.

**PacketPathProofs.** Each packet is dealt with in one step, so the properties
are inductive as they stand and the work is in the lemmas: RTP and RTCP of any
length are classified as what they are, RTP as RTCP exactly if it is a
`Lookalike` (`RtpClassified`, `RtcpClassified`); the
two ways to pad reach the next multiple of four (`Padding`), and no length of a
frame that fits a datagram overflows 16 bits (`Framed`); an attribute before
MESSAGE-INTEGRITY is seen by both readers if it fits, and what the parser sees
the engine sees (`SeenBefore`, `SeenFits`, `CheckRead`), for messages of any
number of attributes; the two routing decisions are compared case by case
(`Routes`). The answers are read back
because setting the class bits leaves the method bits alone (`ResponseType`),
because masking twice with the same mask gives the address back (`XorTwice`),
and because each mask is as long as the address it is for (`MaskLength`,
`AddressRead`), for every port, IPv4 or IPv6 address and transaction id. All
theorems are about `AnswersSpec` of Builders, as the run is, which has the
packets of PacketPath and the answers. `PacketAssumption` bounds a datagram by
16 bits; `AddressAssumption` says that ports are 16-bit words, addresses 4 or 16
bytes and transaction ids 12.

**Only model-checked.** Liveness (`RequestsAnswered`, `LapsedReaped`,
`SlotsReturned`, `OrphansReaped`, `IdleForgotten`, `Resolved`),
which is out of the prover's reach. Every invariant and every other property of
a passing run is proved.

## 5. Not modelled

* **Which keys share a shard.** A guard that waits for `retain` is a guard of
  the action, but only for the entry `retain` holds, not for its neighbours in
  the shard. No code path holds one map's guard while it waits for another
  map's in the opposite order; that is read off the source, not checked.
* **Several deliveries of one packet.** `deliver().await?` gives up the rest
  when one send fails. UDP may lose any of them, so nothing is promised.
* **Layout and text of messages**, the order of attributes, statistics,
  logging, the command line: no property is about them.
* **Cryptography**: HMAC-SHA1 and MD5 are taken to be injective.
* **Handlers and cleanup in Requests** are not interleaved step by step: their
  product with AllocationLifecycle is out of TLC's reach. An allocation that is
  reaped inside a handler is one that is reaped just before it or just after,
  which the action `Reap` covers.
