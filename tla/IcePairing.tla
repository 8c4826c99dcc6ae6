----------------------------- MODULE IcePairing -----------------------------
(***************************************************************************)
(* ICE ufrag pairs, the index by_ice_ufrag, and the traffic between        *)
(* clients that is routed by them.                                         *)
(*                                                                         *)
(* The receive loop registers the pair of every connectivity check and     *)
(* relays checks, responses and media; the cleanup task reaps.  A step is  *)
(* one access to one map.  An allocation stands for its client address.    *)
(***************************************************************************)
EXTENDS FiniteSets

CONSTANTS Allocs, Ufrags, None

ASSUME PairingAssumption == None \notin Allocs \cup Ufrags

VARIABLES
  allocations,       \* keys of the primary map
  ice_ufrag,         \* allocation -> its own ufrag
  ice_remote_ufrag,  \* allocation -> the ufrag of its peer
  by_ice_ufrag,      \* ufrag -> allocation
  permitted,         \* allocations with a live permission for the relay IP
  pc, id, via,       \* receive loop: next step, sender, how the packet came
  local, remote,     \* ... the ufrag pair it works with
  target,            \* ... the allocation to relay to
  already_permitted, \* ... handle_binding_request's snapshot
  cpc, cid           \* cleanup: next step, entry held

tableVars   == <<allocations, ice_ufrag, ice_remote_ufrag, by_ice_ufrag, permitted>>
packetVars  == <<id, via, local, remote, target, already_permitted>>
cleanerVars == <<cpc, cid>>
vars == <<tableVars, pc, packetVars, cleanerVars>>

\* A Binding request on its own; inside a Send indication; as ChannelData;
\* media sent raw; a STUN response on its own.
Vias == {"direct", "send", "channel", "raw", "response"}

TypeOK ==
  /\ allocations \subseteq Allocs
  /\ ice_ufrag \in [Allocs -> Ufrags \cup {None}]
  /\ ice_remote_ufrag \in [Allocs -> Ufrags \cup {None}]
  /\ by_ice_ufrag \in [Ufrags -> Allocs \cup {None}]
  /\ permitted \subseteq Allocs
  /\ pc \in {"idle", "own", "drop", "claim", "grant", "sender", "lookup",
             "reach", "pair", "find", "verify", "snapshot", "send", "unclaim"}
  /\ id \in Allocs \cup {None}
  /\ via \in Vias \cup {None}
  /\ local \in Ufrags \cup {None} /\ remote \in Ufrags \cup {None}
  /\ target \in Allocs \cup {None}
  /\ already_permitted \in BOOLEAN
  /\ cpc \in {"idle", "unclaim", "delete"}
  /\ cid \in Allocs \cup {None}

Init ==
  /\ allocations = Allocs /\ permitted = {}
  /\ ice_ufrag = [i \in Allocs |-> None]
  /\ ice_remote_ufrag = [i \in Allocs |-> None]
  /\ by_ice_ufrag = [u \in Ufrags |-> None]
  /\ pc = "idle" /\ id = None /\ via = None
  /\ local = None /\ remote = None /\ target = None
  /\ already_permitted = FALSE
  /\ cpc = "idle" /\ cid = None

----------------------------------------------------------------------------
(* Helpers *)

\* allocations.get(i) waits for the reaping pass that holds the entry.
Accessible(i) == cid # i

Found(i) == Accessible(i) /\ i \in allocations

\* register_ice_ufrags holds a guard on the allocation from its first lookup
\* to the claim; retain waits for it.
Guarded(i) == pc \in {"drop", "claim"} /\ id = i

Goto(label) == pc' = label /\ UNCHANGED packetVars

Rest ==
  /\ pc' = "idle" /\ id' = None /\ via' = None
  /\ local' = None /\ remote' = None /\ target' = None
  /\ already_permitted' = FALSE

\* What follows register_ice_ufrags: the automatic grant, or the relay.
Registered == IF via = "direct" THEN "grant" ELSE "lookup"

\* handle_binding_request and handle_send ask for the target's permission;
\* handle_channel_data does not for ICE, nor handle_client_response.
MayReach(t) == t # id /\ (via \in {"direct", "send", "raw"} => t \in permitted)

\* find_ice_peer's test on the candidate, and its absence.
PairedIgnored(t, l) == TRUE
Paired(t, l) == ice_remote_ufrag[t] = l

\* find_ice_peer as a whole, for the properties.
IcePeer(i) ==
  LET u == ice_remote_ufrag[i] IN
    IF ice_ufrag[i] # None /\ u # None /\ by_ice_ufrag[u] # None
       /\ by_ice_ufrag[u] \in allocations /\ Paired(by_ice_ufrag[u], ice_ufrag[i])
      THEN by_ice_ufrag[u] ELSE None

----------------------------------------------------------------------------
(* register_ice_ufrags *)

\* A connectivity check of client i with USERNAME "r:l".  Inside a Send
\* indication or ChannelData it needs the sender's permission first.
Check(i, v, l, r) ==
  /\ pc = "idle" /\ Found(i)
  /\ v \in {"direct", "send", "channel"} /\ (v # "direct" => i \in permitted)
  /\ pc' = "own" /\ id' = i /\ via' = v /\ local' = l /\ remote' = r
  /\ already_permitted' = (i \in permitted)
  /\ UNCHANGED <<tableVars, target, cleanerVars>>

SetPair ==
  /\ ice_ufrag' = [ice_ufrag EXCEPT ![id] = local]
  /\ ice_remote_ufrag' = [ice_remote_ufrag EXCEPT ![id] = remote]

\* Wrong: any allocation may take the ufrag over.
OwnedIgnored ==
  /\ pc = "own" /\ Accessible(id)
  /\ \/ id \notin allocations /\ Goto(Registered) /\ UNCHANGED <<ice_ufrag, ice_remote_ufrag>>
     \/ id \in allocations /\ by_ice_ufrag[local] = id /\ SetPair /\ Goto(Registered)
     \/ /\ id \in allocations /\ by_ice_ufrag[local] # id
        /\ Goto("drop") /\ UNCHANGED <<ice_ufrag, ice_remote_ufrag>>
  /\ UNCHANGED <<allocations, by_ice_ufrag, permitted, cleanerVars>>

\* Wrong: the pair is stored before the owner is looked up.
OwnedEager ==
  /\ pc = "own" /\ Accessible(id) /\ SetPair
  /\ Goto(IF id \in allocations /\ by_ice_ufrag[local] = None THEN "drop" ELSE Registered)
  /\ UNCHANGED <<allocations, by_ice_ufrag, permitted, cleanerVars>>

\* The allocation is gone, the ufrag is another's or its own, or it is free.
Owned ==
  /\ pc = "own" /\ Accessible(id)
  /\ LET owner == by_ice_ufrag[local] IN
       \/ /\ id \notin allocations \/ owner \notin {None, id}
          /\ Goto(Registered) /\ UNCHANGED <<ice_ufrag, ice_remote_ufrag>>
       \/ id \in allocations /\ owner = id /\ SetPair /\ Goto(Registered)
       \/ /\ id \in allocations /\ owner = None
          /\ Goto("drop") /\ UNCHANGED <<ice_ufrag, ice_remote_ufrag>>
  /\ UNCHANGED <<allocations, by_ice_ufrag, permitted, cleanerVars>>

\* Wrong: the index keeps the credential from before an ICE restart.
DropOldSkipped ==
  /\ pc = "drop" /\ Goto("claim")
  /\ UNCHANGED <<tableVars, cleanerVars>>

\* ICE restart: the previous local ufrag leaves the index.
DropOld ==
  /\ pc = "drop"
  /\ by_ice_ufrag' = [u \in Ufrags |-> IF u = ice_ufrag[id] /\ u # local
                                         THEN None ELSE by_ice_ufrag[u]]
  /\ Goto("claim")
  /\ UNCHANGED <<allocations, ice_ufrag, ice_remote_ufrag, permitted, cleanerVars>>

\* by_ice_ufrag.entry(local): nothing is stored if another claimed it first.
Claim ==
  /\ pc = "claim"
  /\ IF by_ice_ufrag[local] \in {None, id}
       THEN SetPair /\ by_ice_ufrag' = [by_ice_ufrag EXCEPT ![local] = id]
       ELSE UNCHANGED <<ice_ufrag, ice_remote_ufrag, by_ice_ufrag>>
  /\ Goto(Registered)
  /\ UNCHANGED <<allocations, permitted, cleanerVars>>

----------------------------------------------------------------------------
(* The relay of a connectivity check *)

\* handle_binding_request permits the relay IP.
AutoGrant ==
  /\ pc = "grant" /\ Accessible(id)
  /\ permitted' = IF ~already_permitted /\ id \in allocations
                    THEN permitted \cup {id} ELSE permitted
  /\ Goto("sender")
  /\ UNCHANGED <<allocations, ice_ufrag, ice_remote_ufrag, by_ice_ufrag, cleanerVars>>

\* ... and looks itself up again.
Sender ==
  /\ pc = "sender" /\ Accessible(id)
  /\ \/ id \in allocations \cap permitted /\ Goto("lookup")
     \/ id \notin allocations \cap permitted /\ Rest
  /\ UNCHANGED <<tableVars, cleanerVars>>

\* A check with no target by ufrag is dropped, or tried by pair.
Unreached ==
  \/ via = "direct" /\ Rest
  \/ via # "direct" /\ Goto("pair")

\* lookup_by_ice_ufrag(remote_ufrag)
Lookup ==
  /\ pc = "lookup"
  /\ \/ by_ice_ufrag[remote] = None /\ Unreached
     \/ /\ by_ice_ufrag[remote] # None
        /\ target' = by_ice_ufrag[remote] /\ pc' = "reach"
        /\ UNCHANGED <<id, via, local, remote, already_permitted>>
  /\ UNCHANGED <<tableVars, cleanerVars>>

\* The snapshot of the target.
Reach ==
  /\ pc = "reach" /\ Accessible(target)
  /\ \/ target \in allocations /\ MayReach(target) /\ Goto("send")
     \/ ~(target \in allocations /\ MayReach(target)) /\ Unreached
  /\ UNCHANGED <<tableVars, cleanerVars>>

----------------------------------------------------------------------------
(* The relay by pair *)

\* relay_client_data and handle_client_response: permission and pair are read
\* under one guard.
Media(i, v) ==
  /\ pc = "idle" /\ Found(i)
  /\ v \in {"raw", "response"} /\ (v = "raw" => i \in permitted)
  /\ ice_ufrag[i] # None /\ ice_remote_ufrag[i] # None
  /\ pc' = "find" /\ id' = i /\ via' = v
  /\ local' = ice_ufrag[i] /\ remote' = ice_remote_ufrag[i]
  /\ UNCHANGED <<tableVars, target, already_permitted, cleanerVars>>

\* handle_send and handle_channel_data: the permission first.
Payload(i, v) ==
  /\ pc = "idle" /\ Found(i)
  /\ v \in {"send", "channel"} /\ i \in permitted
  /\ pc' = "pair" /\ id' = i /\ via' = v
  /\ UNCHANGED <<tableVars, local, remote, target, already_permitted, cleanerVars>>

\* The sender's ufrags are read afresh.
ReadPair ==
  /\ pc = "pair" /\ Accessible(id)
  /\ LET paired == id \in allocations /\ None \notin {ice_ufrag[id], ice_remote_ufrag[id]} IN
       \/ ~paired /\ Rest
       \/ /\ paired
          /\ pc' = "find" /\ local' = ice_ufrag[id] /\ remote' = ice_remote_ufrag[id]
          /\ UNCHANGED <<id, via, target, already_permitted>>
  /\ UNCHANGED <<tableVars, cleanerVars>>

\* find_ice_peer, the index.
Find ==
  /\ pc = "find"
  /\ \/ by_ice_ufrag[remote] = None /\ Rest
     \/ /\ by_ice_ufrag[remote] # None
        /\ target' = by_ice_ufrag[remote] /\ pc' = "verify"
        /\ UNCHANGED <<id, via, local, remote, already_permitted>>
  /\ UNCHANGED <<tableVars, cleanerVars>>

\* find_ice_peer, the allocation.
Verify ==
  /\ pc = "verify" /\ Accessible(target)
  /\ \/ target \in allocations /\ Paired(target, local) /\ Goto("snapshot")
     \/ ~(target \in allocations /\ Paired(target, local)) /\ Rest
  /\ UNCHANGED <<tableVars, cleanerVars>>

\* The snapshot of the target's client address.
Snapshot ==
  /\ pc = "snapshot" /\ Accessible(target)
  /\ \/ target \in allocations /\ MayReach(target) /\ Goto("send")
     \/ ~(target \in allocations /\ MayReach(target)) /\ Rest
  /\ UNCHANGED <<tableVars, cleanerVars>>

\* The packet goes to target.
Send ==
  /\ pc = "send" /\ Rest
  /\ UNCHANGED <<tableVars, cleanerVars>>

----------------------------------------------------------------------------
(* The end of an allocation *)

\* remove: the allocation leaves the map first ...
Remove(i) ==
  /\ pc = "idle" /\ Found(i)
  /\ allocations' = allocations \ {i}
  /\ pc' = "unclaim" /\ id' = i
  /\ UNCHANGED <<ice_ufrag, ice_remote_ufrag, by_ice_ufrag, permitted, via,
                 local, remote, target, already_permitted, cleanerVars>>

\* by_ice_ufrag.remove(alloc.get_ice_ufrag())
Unclaimed(i) ==
  by_ice_ufrag' = [u \in Ufrags |-> IF u = ice_ufrag[i] THEN None ELSE by_ice_ufrag[u]]

\* ... then the index.
RemoveUnclaim ==
  /\ pc = "unclaim" /\ Unclaimed(id) /\ Rest
  /\ UNCHANGED <<allocations, ice_ufrag, ice_remote_ufrag, permitted, cleanerVars>>

\* retain, on an allocation that is expired, inactive or an orphaned sender.
Reap(i) ==
  /\ cpc = "idle" /\ i \in allocations /\ ~Guarded(i)
  /\ cpc' = "unclaim" /\ cid' = i
  /\ UNCHANGED <<tableVars, pc, packetVars>>

\* Wrong: the pass forgets the ufrag index.
ReapUnclaimSkipped ==
  /\ cpc = "unclaim"
  /\ cpc' = "delete"
  /\ UNCHANGED <<tableVars, pc, packetVars, cid>>

ReapUnclaim ==
  /\ cpc = "unclaim" /\ Unclaimed(cid)
  /\ cpc' = "delete"
  /\ UNCHANGED <<allocations, ice_ufrag, ice_remote_ufrag, permitted, pc, packetVars, cid>>

ReapDelete ==
  /\ cpc = "delete"
  /\ allocations' = allocations \ {cid}
  /\ cpc' = "idle" /\ cid' = None
  /\ UNCHANGED <<ice_ufrag, ice_remote_ufrag, by_ice_ufrag, permitted, pc, packetVars>>

\* CreatePermission for the relay IP, and its lapse (PeerRouting).
Permit(i) ==
  /\ pc = "idle" /\ Found(i) /\ permitted' = permitted \cup {i}
  /\ UNCHANGED <<allocations, ice_ufrag, ice_remote_ufrag, by_ice_ufrag, pc,
                 packetVars, cleanerVars>>

Lapse(i) ==
  /\ i \in permitted /\ permitted' = permitted \ {i}
  /\ UNCHANGED <<allocations, ice_ufrag, ice_remote_ufrag, by_ice_ufrag, pc,
                 packetVars, cleanerVars>>

HandlerStep ==
  \/ Owned \/ DropOld \/ Claim \/ AutoGrant \/ Sender \/ Lookup \/ Reach
  \/ ReadPair \/ Find \/ Verify \/ Snapshot \/ Send \/ RemoveUnclaim

CleanerStep == ReapUnclaim \/ ReapDelete

Arrival ==
  \E i \in Allocs :
    \/ \E v \in Vias : Media(i, v) \/ Payload(i, v)
    \/ \E v \in Vias, l, r \in Ufrags : Check(i, v, l, r)
    \/ Remove(i) \/ Reap(i) \/ Permit(i) \/ Lapse(i)

Next == HandlerStep \/ CleanerStep \/ Arrival

Spec == Init /\ [][Next]_vars

----------------------------------------------------------------------------
(* Properties *)

\* Whatever by_ice_ufrag names is an allocation that uses this ufrag, and is in
\* the map unless remove() is about to take the entry out.
IndexSound ==
  \A u \in Ufrags : LET i == by_ice_ufrag[u] IN
    i # None => ice_ufrag[i] = u /\ (i \in allocations \/ (pc = "unclaim" /\ id = i))

\* Every allocation that has a ufrag is found by it, except in the middle of an
\* ICE restart and while it is reaped.
IndexComplete ==
  \A i \in allocations :
    ice_ufrag[i] # None =>
      \/ by_ice_ufrag[ice_ufrag[i]] = i
      \/ pc = "claim" /\ id = i
      \/ cpc = "delete" /\ cid = i

\* What the steps of register_ice_ufrags, remove and retain rely on: the
\* allocation they work on, and that no other entry of the index names it.
HandlerInv ==
  /\ pc # "idle" => id # None
  /\ pc \in {"own", "drop", "claim", "grant", "sender", "lookup", "reach", "find", "verify"} =>
       local # None /\ remote # None
  /\ pc \in {"drop", "claim"} => id \in allocations /\ id # cid /\ by_ice_ufrag[local] = None
  /\ pc = "claim" => \A u \in Ufrags : by_ice_ufrag[u] # id
  /\ pc = "unclaim" =>
       /\ id \in Allocs \ allocations /\ id # cid
       /\ ice_ufrag[id] # None => by_ice_ufrag[ice_ufrag[id]] = id

CleanerInv ==
  /\ cpc = "idle" => cid = None
  /\ cpc # "idle" => cid \in allocations
  /\ cpc = "delete" => \A u \in Ufrags : by_ice_ufrag[u] # cid

\* Everything register_ice_ufrags, remove and the reaping passes keep true of
\* the index, of the allocation in hand and of the entry retain holds.
PairingInv == TypeOK /\ HandlerInv /\ CleanerInv /\ IndexSound /\ IndexComplete

\* "First-come ownership of a given local_ufrag": it passes to no other
\* allocation, and is lost only by its owner's restart or end.
OwnersKept ==
  \A u \in Ufrags : by_ice_ufrag[u] # None /\ by_ice_ufrag'[u] # by_ice_ufrag[u] =>
    by_ice_ufrag'[u] = None /\ by_ice_ufrag[u] \in {id, cid}

FirstCome == [][OwnersKept]_vars

\* find_ice_peers is "bi-directional": the peer of an allocation has this
\* allocation for its peer, so no third client is in the call.
Symmetric ==
  pc = "idle" /\ cpc = "idle" =>
    \A i \in allocations : IcePeer(i) # None => IcePeer(IcePeer(i)) = i

\* What is relayed by ufrag goes to the allocation that uses this ufrag now,
\* although it was looked up several steps before.
Addressed ==
  pc \in {"snapshot", "send"} /\ target \in allocations => ice_ufrag[target] = remote
============================================================================
