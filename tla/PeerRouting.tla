---------------------------- MODULE PeerRouting ----------------------------
(***************************************************************************)
(* Permissions, the indices by_permission and by_peer_tuple, and how data  *)
(* from a peer finds its allocation.                                       *)
(*                                                                         *)
(* The receive loop runs CreatePermission (and the permission half of      *)
(* ChannelBind), the automatic grant of handle_binding_request, data from  *)
(* peers, and remove().  The cleanup task runs the reaping passes and      *)
(* cleanup_permissions, on another thread (#[tokio::main]).  A step is one *)
(* access to one map.                                                      *)
(***************************************************************************)
EXTENDS Naturals, FiniteSets

CONSTANTS
  Allocs,          \* allocation ids
  ClientIp,        \* the IP of an allocation's client
  IPs, RelayIp,    \* peer IPs; external_ip is one of them
  Addrs, AddrIp,   \* transport addresses of peers, and their IPs
  MaxPermissions,  \* max_permissions_per_alloc
  AsksFor,         \* the peer IPs the requests of an allocation's client name
  Pinging,         \* the allocations whose clients send Binding requests
  MaxRequested,    \* bound: XOR-PEER-ADDRESSes in one request
  None

ASSUME RoutingAssumption ==
  /\ RelayIp \in IPs /\ AddrIp \in [Addrs -> IPs]
  /\ None \notin Allocs
  /\ AsksFor \in [Allocs -> SUBSET IPs] /\ Pinging \subseteq Allocs
  /\ IsFiniteSet(IPs) /\ IsFiniteSet(Allocs)
  /\ MaxPermissions \in Nat /\ MaxRequested \in Nat

VARIABLES
  allocations,      \* keys of the primary map
  permissions,      \* allocation -> the IPs in its permissions map
  live,             \* allocation -> those that have not lapsed
  fresh,            \* <<id, ip>> granted since one of the tasks was idle
  by_permission,    \* IP -> allocation ids
  by_peer_tuple,    \* peer address -> allocation id
  known_peers,      \* allocation -> peer addresses
  overtaken,        \* history: <<id, ip>> indexed as a pass was to unindex it
  outrun,           \* history: reaped while the receive loop had them in hand
  pc, id, ips, todo,         \* receive loop: next step, allocation, peer_ips, to_index
  addr, kind, chosen, skip,  \* ... peer packet: source, type, candidates, skip_same_ip
  cpc, cid, cips             \* cleanup: next step, entry held, expired IPs

tableVars   == <<allocations, permissions, live, fresh, known_peers>>
indexVars   == <<by_permission, by_peer_tuple>>
historyVars == <<overtaken, outrun>>
packetVars  == <<addr, kind, chosen, skip>>
handlerVars == <<pc, id, ips, todo, packetVars>>
cleanerVars == <<cpc, cid, cips>>
vars == <<tableVars, indexVars, historyVars, handlerVars, cleanerVars>>

\* handle_peer_data; handle_rtp; handle_rtcp and handle_dtls
Kinds == {"data", "rtp", "rtcp"}

Requests == UNION {[1..n -> IPs] : n \in 1..MaxRequested}
Elems(s) == {s[k] : k \in DOMAIN s}
RequestsOf(i) == {req \in Requests : Elems(req) \subseteq AsksFor[i]}

TypeOK ==
  /\ allocations \subseteq Allocs
  /\ permissions \in [Allocs -> SUBSET IPs]
  /\ live \in [Allocs -> SUBSET IPs]
  /\ \A i \in Allocs : live[i] \subseteq permissions[i]
  /\ fresh \subseteq Allocs \X IPs
  /\ by_permission \in [IPs -> SUBSET Allocs]
  /\ by_peer_tuple \in [Addrs -> Allocs \cup {None}]
  /\ known_peers \in [Allocs -> SUBSET Addrs]
  /\ overtaken \subseteq Allocs \X IPs /\ outrun \subseteq Allocs
  /\ pc \in {"idle", "perm", "index", "grant", "granted", "lookup", "narrow",
             "register", "know", "deliver", "unindex"}
  /\ id \in Allocs \cup {None}
  /\ ips \in Requests \cup {<<>>}
  /\ todo \subseteq IPs
  /\ addr \in Addrs \cup {None}
  /\ kind \in Kinds \cup {None}
  /\ chosen \subseteq Allocs
  /\ skip \in BOOLEAN
  /\ cpc \in {"idle", "reap", "prune"}
  /\ cid \in Allocs \cup {None}
  /\ cips \subseteq IPs

Init ==
  /\ allocations = Allocs
  /\ permissions = [i \in Allocs |-> {}] /\ live = [i \in Allocs |-> {}]
  /\ fresh = {}
  /\ by_permission = [p \in IPs |-> {}]
  /\ by_peer_tuple = [a \in Addrs |-> None]
  /\ known_peers = [i \in Allocs |-> {}]
  /\ overtaken = {} /\ outrun = {}
  /\ pc = "idle" /\ id = None /\ ips = <<>> /\ todo = {}
  /\ addr = None /\ kind = None /\ chosen = {} /\ skip = FALSE
  /\ cpc = "idle" /\ cid = None /\ cips = {}

----------------------------------------------------------------------------
(* Helpers *)

\* allocations.get(i) waits for a reaping pass that holds the entry, and then
\* finds it gone.
Accessible(i) == ~(cpc = "reap" /\ cid = i)

\* try_add_permissions_capped keeps its guard on the allocation while it
\* updates the index; retain waits for it.
Guarded(i) == pc = "index" /\ id = i

Rest ==
  /\ pc' = "idle" /\ id' = None /\ ips' = <<>> /\ todo' = {}
  /\ addr' = None /\ kind' = None /\ chosen' = {} /\ skip' = FALSE

CleanerRest == cpc' = "idle" /\ cid' = None /\ cips' = {}

\* Allocation::add_permission for every IP of S: insert or refresh.
Grant(i, S) ==
  /\ permissions' = [permissions EXCEPT ![i] = @ \cup S]
  /\ live' = [live EXCEPT ![i] = @ \cup S]
  /\ fresh' = fresh \cup ({i} \X S)

\* new_ips of try_add_permissions_capped, by position: the Vec keeps duplicates.
NewIps(i, req) == {k \in DOMAIN req : req[k] \notin live[i]}

\* Wrong: room for one more.
OverCapOffByOne(i, req) ==
  Cardinality(live[i]) + Cardinality(NewIps(i, req)) > MaxPermissions + 1

\* live + new_ips.len() > cap
OverCap(i, req) == Cardinality(live[i]) + Cardinality(NewIps(i, req)) > MaxPermissions

----------------------------------------------------------------------------
(* CreatePermission, and the permission ChannelBind implies *)

\* authenticate_for_allocation has resolved the allocation.
CreatePermission(i, req) ==
  /\ pc = "idle"
  /\ i \in allocations /\ Accessible(i)
  /\ pc' = "perm" /\ id' = i /\ ips' = req
  /\ UNCHANGED <<tableVars, indexVars, historyVars, cleanerVars, todo, packetVars>>

\* try_add_permissions_capped under the permissions write lock: an error
\* answer if the allocation is gone or over its cap, else all are inserted.
TryAdd ==
  /\ pc = "perm" /\ Accessible(id)
  /\ \/ /\ id \notin allocations \/ OverCap(id, ips)
        /\ Rest
        /\ UNCHANGED tableVars
     \/ /\ id \in allocations /\ ~OverCap(id, ips)
        /\ Grant(id, Elems(ips))
        /\ pc' = "index" /\ todo' = Elems(ips) /\ ips' = <<>>
        /\ UNCHANGED <<allocations, known_peers, id, packetVars>>
  /\ UNCHANGED <<indexVars, historyVars, cleanerVars>>

\* cleanup_permissions has dropped the permission and not yet its index entry.
Condemned(i, p) == cpc = "prune" /\ cid = i /\ p \in cips

\* by_permission.entry(p).or_default(), push(i) unless it is there.
IndexPermission(i, p) ==
  /\ by_permission' = [by_permission EXCEPT ![p] = @ \cup {i}]
  /\ overtaken' = IF Condemned(i, p) THEN overtaken \cup {<<i, p>>}
                                     ELSE overtaken \ {<<i, p>>}
  /\ UNCHANGED <<by_peer_tuple, outrun>>

\* Wrong: the last IP is not indexed.
IndexNextShort(p) ==
  /\ pc = "index" /\ p \in todo
  /\ \/ todo = {p} /\ UNCHANGED <<indexVars, historyVars>>
     \/ todo # {p} /\ IndexPermission(id, p)
  /\ \/ todo = {p} /\ Rest
     \/ todo # {p} /\ todo' = todo \ {p} /\ UNCHANGED <<pc, id, ips, packetVars>>
  /\ UNCHANGED <<tableVars, cleanerVars>>

\* try_add_permissions_capped: the loop over to_index.
IndexNext(p) ==
  /\ pc = "index" /\ p \in todo
  /\ IndexPermission(id, p)
  /\ \/ todo = {p} /\ Rest
     \/ todo # {p} /\ todo' = todo \ {p} /\ UNCHANGED <<pc, id, ips, packetVars>>
  /\ UNCHANGED <<tableVars, cleanerVars>>

----------------------------------------------------------------------------
(* handle_binding_request: the automatic grant for the relay IP *)

\* The snapshot (alloc_id, already_permitted); its guard is released.
BindingRequest(i) ==
  /\ pc = "idle"
  /\ i \in allocations /\ Accessible(i)
  /\ RelayIp \notin live[i]
  /\ pc' = "grant" /\ id' = i
  /\ UNCHANGED <<tableVars, indexVars, historyVars, cleanerVars, ips, todo, packetVars>>

\* AllocationTable::add_permission, the allocation's own map.
AddPermission ==
  /\ pc = "grant" /\ Accessible(id)
  /\ \/ id \in allocations /\ Grant(id, {RelayIp})
     \/ id \notin allocations /\ UNCHANGED <<permissions, live, fresh>>
  /\ pc' = "granted"
  /\ UNCHANGED <<allocations, known_peers, indexVars, historyVars, cleanerVars,
                 id, ips, todo, packetVars>>

\* AllocationTable::add_permission, the index.
AddPermissionIndex ==
  /\ pc = "granted"
  /\ IndexPermission(id, RelayIp)
  /\ Rest
  /\ UNCHANGED <<tableVars, cleanerVars>>

----------------------------------------------------------------------------
(* Data from a peer: handle_peer_data, handle_rtp, handle_rtcp, handle_dtls *)

\* lookup_by_peer_addr, the fast path.
PeerPacket(a, k) ==
  /\ pc = "idle"
  /\ addr' = a /\ kind' = k
  /\ \/ /\ by_peer_tuple[a] # None
        /\ pc' = "register" /\ id' = by_peer_tuple[a] /\ chosen' = {by_peer_tuple[a]}
        /\ skip' = (k # "rtp")
     \/ /\ by_peer_tuple[a] = None
        /\ pc' = "lookup"
        /\ UNCHANGED <<id, chosen, skip>>
  /\ UNCHANGED <<tableVars, indexVars, historyVars, cleanerVars, ips, todo>>

\* lookup_by_peer_addr, the slow path; a single candidate is registered.
LookupByIp ==
  /\ pc = "lookup"
  /\ LET candidates == by_permission[AddrIp[addr]] IN
       \/ candidates = {} /\ Rest
       \/ /\ candidates # {}
          /\ chosen' = candidates
          /\ \/ /\ Cardinality(candidates) = 1
                /\ pc' = "register" /\ id' \in candidates /\ skip' = (kind # "rtp")
             \/ /\ Cardinality(candidates) > 1
                /\ pc' = IF kind = "data" THEN "deliver" ELSE "narrow"
                /\ skip' = TRUE
                /\ UNCHANGED id
          /\ UNCHANGED <<ips, todo, addr, kind>>
  /\ UNCHANGED <<tableVars, indexVars, historyVars, cleanerVars>>

\* narrow_peer_candidates.  Which candidates have a channel bound to the
\* address is the state of ChannelBindings: any of them may.
Narrow ==
  /\ pc = "narrow"
  /\ \A i \in chosen : Accessible(i)
  /\ \E with_channel \in SUBSET (chosen \cap allocations) :
       LET with_known == {i \in (chosen \cap allocations) \ with_channel :
                            addr \in known_peers[i]}
       IN  chosen' = CASE with_channel # {} -> with_channel
                       [] with_channel = {} /\ with_known # {} -> with_known
                       [] OTHER -> chosen
  /\ \/ Cardinality(chosen') = 1 /\ pc' = "register" /\ id' \in chosen'
     \/ Cardinality(chosen') > 1 /\ pc' = "deliver" /\ UNCHANGED id
  /\ UNCHANGED <<tableVars, indexVars, historyVars, cleanerVars, ips, todo, addr, kind, skip>>

\* register_peer_tuple, the index.
Register ==
  /\ pc = "register"
  /\ by_peer_tuple' = [by_peer_tuple EXCEPT ![addr] = id]
  /\ pc' = "know"
  /\ UNCHANGED <<tableVars, by_permission, historyVars, cleanerVars, id, ips, todo, packetVars>>

\* Wrong: the address is not recorded for the reaper.
RegisterKnownSkipped ==
  /\ pc = "know" /\ Accessible(id)
  /\ pc' = "deliver"
  /\ UNCHANGED <<tableVars, indexVars, historyVars, cleanerVars, id, ips, todo, packetVars>>

\* register_peer_tuple, known_peers.
RegisterKnown ==
  /\ pc = "know" /\ Accessible(id)
  /\ known_peers' = IF id \in allocations
                      THEN [known_peers EXCEPT ![id] = @ \cup {addr}] ELSE known_peers
  /\ pc' = "deliver"
  /\ UNCHANGED <<allocations, permissions, live, fresh, indexVars, historyVars, cleanerVars,
                 id, ips, todo, packetVars>>

\* The candidates S that snapshot_peer_deliveries keeps for data from a.
Receivers(S, a, skip_same_ip) ==
  {i \in S \cap allocations :
     AddrIp[a] \in live[i] /\ ~(skip_same_ip /\ ClientIp[i] = AddrIp[a])}

\* snapshot_peer_deliveries and the sends: Receivers(chosen, addr, skip) get
\* the data.
Deliver ==
  /\ pc = "deliver"
  /\ \A i \in chosen : Accessible(i)
  /\ Rest
  /\ UNCHANGED <<tableVars, indexVars, historyVars, cleanerVars>>

----------------------------------------------------------------------------
(* The end of an allocation *)

\* remove_from_permission_index for one key of the dying allocation's
\* permissions.  No one else sees them: the loop consumes them.
UnindexPermission(i, p) ==
  /\ p \in permissions[i]
  /\ by_permission' = [by_permission EXCEPT ![p] = @ \ {i}]
  /\ permissions' = [permissions EXCEPT ![i] = @ \ {p}]
  /\ live' = [live EXCEPT ![i] = @ \ {p}]
  /\ fresh' = fresh \ {<<i, p>>}
  /\ UNCHANGED <<allocations, known_peers, by_peer_tuple>>

\* by_peer_tuple.remove for one of its known_peers, whoever holds it.
UnindexPeer(i, a) ==
  /\ permissions[i] = {} /\ a \in known_peers[i]
  /\ by_peer_tuple' = [by_peer_tuple EXCEPT ![a] = None]
  /\ known_peers' = [known_peers EXCEPT ![i] = @ \ {a}]
  /\ UNCHANGED <<allocations, permissions, live, fresh, by_permission>>

Unindexed(i) == permissions[i] = {} /\ known_peers[i] = {}

\* remove: the allocation leaves the map first.  A pass of the cleanup task
\* over the entry holds its shard.
Remove(i) ==
  /\ pc = "idle"
  /\ i \in allocations /\ cid # i
  /\ allocations' = allocations \ {i}
  /\ pc' = "unindex" /\ id' = i
  /\ UNCHANGED <<permissions, live, fresh, known_peers, indexVars, historyVars, cleanerVars,
                 ips, todo, packetVars>>

RemovePermission(p) ==
  /\ pc = "unindex" /\ UnindexPermission(id, p)
  /\ UNCHANGED <<historyVars, handlerVars, cleanerVars>>

RemovePeer(a) ==
  /\ pc = "unindex" /\ UnindexPeer(id, a)
  /\ UNCHANGED <<historyVars, handlerVars, cleanerVars>>

RemoveDone ==
  /\ pc = "unindex" /\ Unindexed(id)
  /\ Rest
  /\ UNCHANGED <<tableVars, indexVars, historyVars, cleanerVars>>

\* The allocations a request or packet in progress has resolved.
InHand == ({id} \cup chosen) \ {None}

\* cleanup_expired, cleanup_inactive and cleanup_orphaned_senders: retain holds
\* the shard's write lock until the entry is dropped.
Reap(i) ==
  /\ cpc = "idle"
  /\ i \in allocations /\ ~Guarded(i)
  /\ cpc' = "reap" /\ cid' = i
  /\ outrun' = outrun \cup ({i} \cap InHand)
  /\ UNCHANGED <<tableVars, indexVars, overtaken, handlerVars, cips>>

\* Wrong: lapsed permissions are taken for unindexed already.
ReapPermissionLive(p) ==
  /\ cpc = "reap" /\ p \in permissions[cid]
  /\ by_permission' = IF p \in live[cid] THEN [by_permission EXCEPT ![p] = @ \ {cid}]
                                         ELSE by_permission
  /\ permissions' = [permissions EXCEPT ![cid] = @ \ {p}]
  /\ live' = [live EXCEPT ![cid] = @ \ {p}]
  /\ fresh' = fresh \ {<<cid, p>>}
  /\ UNCHANGED <<allocations, known_peers, by_peer_tuple, historyVars, handlerVars, cleanerVars>>

ReapPermission(p) ==
  /\ cpc = "reap" /\ UnindexPermission(cid, p)
  /\ UNCHANGED <<historyVars, handlerVars, cleanerVars>>

ReapPeer(a) ==
  /\ cpc = "reap" /\ UnindexPeer(cid, a)
  /\ UNCHANGED <<historyVars, handlerVars, cleanerVars>>

ReapDone ==
  /\ cpc = "reap" /\ Unindexed(cid)
  /\ allocations' = allocations \ {cid}
  /\ outrun' = outrun \cup ({cid} \cap InHand)
  /\ CleanerRest
  /\ UNCHANGED <<permissions, live, fresh, known_peers, indexVars, overtaken, handlerVars>>

----------------------------------------------------------------------------
(* cleanup_permissions *)

\* cleanup_expired_permissions, under the permissions write lock.
Prune(i) ==
  /\ cpc = "idle"
  /\ i \in allocations /\ permissions[i] # live[i]
  /\ cips' = permissions[i] \ live[i]
  /\ permissions' = [permissions EXCEPT ![i] = live[i]]
  /\ cpc' = "prune" /\ cid' = i
  /\ UNCHANGED <<allocations, live, fresh, known_peers, indexVars, historyVars, handlerVars>>

\* remove_from_permission_index for each expired IP.
PruneIndex(p) ==
  /\ cpc = "prune" /\ p \in cips
  /\ by_permission' = [by_permission EXCEPT ![p] = @ \ {cid}]
  /\ \/ cips = {p} /\ CleanerRest
     \/ cips # {p} /\ cips' = cips \ {p} /\ UNCHANGED <<cpc, cid>>
  /\ UNCHANGED <<tableVars, by_peer_tuple, historyVars, handlerVars>>

----------------------------------------------------------------------------
(* Time *)

AtRest == pc = "idle" /\ cpc = "idle"

\* A request and a pass take far less than the 5 minutes of a permission: one
\* granted meanwhile does not lapse before both tasks are done.
Settle ==
  /\ AtRest /\ fresh # {}
  /\ fresh' = {}
  /\ UNCHANGED <<allocations, permissions, live, known_peers, indexVars,
                 historyVars, handlerVars, cleanerVars>>

\* The coarse clock reaches the permission's expiry.
Lapse(i, p) ==
  /\ p \in live[i] /\ <<i, p>> \notin fresh
  /\ live' = [live EXCEPT ![i] = @ \ {p}]
  /\ UNCHANGED <<allocations, permissions, fresh, known_peers, indexVars,
                 historyVars, handlerVars, cleanerVars>>

HandlerStep ==
  \/ TryAdd \/ AddPermission \/ AddPermissionIndex
  \/ LookupByIp \/ Narrow \/ Register \/ RegisterKnown \/ Deliver \/ RemoveDone
  \/ \E p \in IPs : IndexNext(p) \/ RemovePermission(p)
  \/ \E a \in Addrs : RemovePeer(a)

CleanerStep ==
  \/ ReapDone
  \/ \E p \in IPs : ReapPermission(p) \/ PruneIndex(p)
  \/ \E a \in Addrs : ReapPeer(a)

Next ==
  \/ \E i \in Allocs : \E req \in RequestsOf(i) : CreatePermission(i, req)
  \/ \E i \in Pinging : BindingRequest(i)
  \/ \E i \in Allocs : Remove(i) \/ Reap(i) \/ Prune(i)
  \/ \E a \in Addrs, k \in Kinds : PeerPacket(a, k)
  \/ HandlerStep \/ CleanerStep
  \/ Settle \/ \E i \in Allocs, p \in IPs : Lapse(i, p)

Spec == Init /\ [][Next]_vars

----------------------------------------------------------------------------
(* Properties *)

\* Apart from the relay IP, which handle_binding_request grants without asking
\* the cap, an allocation has at most max_permissions_per_alloc live ones.
CapRespected ==
  \A i \in allocations : Cardinality(live[i] \ {RelayIp}) <= MaxPermissions

\* Between packets, or when the source of one is looked up: no permission is
\* being granted and no allocation removed by the receive loop.
Settled == pc \in {"idle", "lookup"}

\* Whatever a pass is doing, every live permission is in by_permission when
\* lookup_by_peer_addr reads it, so that a first packet from its peer finds the
\* allocation; unless it was indexed after cleanup_permissions had dropped the
\* lapsed one and before it unindexed it.
PermissionsIndexed ==
  Settled =>
    \A i \in allocations : \A p \in live[i] : i \in by_permission[p] \/ <<i, p>> \in overtaken

\* by_permission names no allocation that is gone, and none that has let the
\* permission go but the ones a pass is about to unindex: no packet is kept from
\* the one client it is for by candidates that will not take it.  What is left
\* behind is the relay IP's entry of an allocation that was reaped during the
\* automatic grant, which holds no guard.
PermissionsOwned ==
  Settled =>
    \A p \in IPs : \A i \in by_permission[p] :
      \/ i \in allocations /\ p \in permissions[i]
      \/ Condemned(i, p)
      \/ p = RelayIp /\ i \in outrun

\* Between packets by_peer_tuple names no allocation that is gone, and none that
\* would leave the tuple behind: remove and the reaping passes take along what
\* is in known_peers ("records in known_peers so it gets cleaned up with the
\* allocation").  What is left behind is the tuple of an allocation that was
\* reaped while one of its packets was routed.
TuplesOwned ==
  pc = "idle" =>
    \A a \in Addrs : by_peer_tuple[a] # None =>
      \/ by_peer_tuple[a] \in allocations /\ a \in known_peers[by_peer_tuple[a]]
      \/ by_peer_tuple[a] \in outrun

\* "When data arrives from a permitted peer, wrap it in Data Indication and
\* send to the appropriate client": once the lapsed permissions are pruned, data
\* from a peer that some client of another IP permits would reach a client if it
\* arrived now, also when lookup_by_peer_addr finds its address in by_peer_tuple.
PermittedPeerHeard ==
  AtRest /\ permissions = live =>
    \A a \in Addrs, k \in Kinds :
      /\ by_peer_tuple[a] \in allocations
      /\ \E i \in allocations : AddrIp[a] \in live[i] /\ ClientIp[i] # AddrIp[a]
      => Receivers({by_peer_tuple[a]}, a, k # "rtp") # {}

\* "Re-adds of existing permissions are always allowed (refresh semantics)":
\* a request for IPs that all have live permissions is not over the cap.
RefreshAllowed ==
  pc = "perm" /\ id \in allocations /\ Elems(ips) \subseteq live[id]
    => ~OverCap(id, ips)
============================================================================
