------------------------ MODULE AllocationLifecycle ------------------------
(***************************************************************************)
(* Creation, deletion and reaping of allocations, and the per-IP quota.    *)
(*                                                                         *)
(* The receive loop (a worker) runs handle_allocate and handle_refresh;    *)
(* the cleanup task runs cleanup_expired, cleanup_inactive and             *)
(* cleanup_orphaned_senders.  Both run in parallel.  A step is one access  *)
(* to one map: the primary map `allocations`, the index `by_client`, or    *)
(* the rate limiter's entry of an IP.  DashMap makes each access atomic;   *)
(* `retain` also holds the shard of the entry it is reaping.               *)
(*                                                                         *)
(* The server has one worker.  AllocationTable is documented, and tested,  *)
(* for concurrent callers, so Workers is a parameter.                      *)
(***************************************************************************)
EXTENDS Naturals, FiniteSets

CONSTANTS
  Clients,    \* client transport addresses
  IPs,        \* client IP addresses
  ClientIp,   \* the IP of a client address
  Workers,    \* tasks that run request handlers
  MaxPerIp,   \* max_allocations_per_ip, 0 = unlimited
  MaxId,      \* bound: the last allocation id the model hands out
  NoClient    \* a worker between requests has no source address

ASSUME LifecycleAssumption ==
  /\ ClientIp \in [Clients -> IPs]
  /\ NoClient \notin Clients
  /\ IsFiniteSet(Workers)
  /\ MaxId \in Nat
  /\ MaxPerIp \in Nat

Ids == 1..MaxId
None == 0

VARIABLES
  allocations,       \* keys of the primary map
  client_addr,       \* client_addr of each allocation ever inserted
  expired,           \* allocations whose lifetime has run out (is_expired)
  by_client,         \* index: client address -> allocation id
  counter,           \* AllocationId's COUNTER
  allocation_count,  \* the rate limiter's count per IP
  pc, op, src, found,\* per worker: next step, request, source, id in hand
  cpc, cid, removed  \* cleanup task: next step, entry held, removed_ips

tableVars   == <<allocations, client_addr, expired, by_client, counter>>
workerVars  == <<pc, op, src, found>>
cleanerVars == <<cpc, cid, removed>>
vars == <<tableVars, allocation_count, workerVars, cleanerVars>>

Labels == {"recv", "lookup", "remove", "unindex", "release", "admit",
           "create", "insert", "claim", "rollback", "cancel",
           "again", "update"}

TypeOK ==
  /\ allocations \subseteq Ids
  /\ client_addr \in [Ids -> Clients \cup {NoClient}]
  /\ expired \subseteq Ids
  /\ by_client \in [Clients -> Ids \cup {None}]
  /\ counter \in 1..(MaxId + 1)
  /\ allocation_count \in [IPs -> Nat]
  /\ pc \in [Workers -> Labels]
  /\ op \in [Workers -> {"allocate", "refresh"}]
  /\ src \in [Workers -> Clients \cup {NoClient}]
  /\ found \in [Workers -> Ids \cup {None}]
  /\ cpc \in {"scan", "unindex", "drop", "release"}
  /\ cid \in Ids \cup {None}
  /\ removed \subseteq Ids

Init ==
  /\ allocations = {}
  /\ client_addr = [i \in Ids |-> NoClient]
  /\ expired = {}
  /\ by_client = [c \in Clients |-> None]
  /\ counter = 1
  /\ allocation_count = [p \in IPs |-> 0]
  /\ pc = [w \in Workers |-> "recv"]
  /\ op = [w \in Workers |-> "allocate"]
  /\ src = [w \in Workers |-> NoClient]
  /\ found = [w \in Workers |-> None]
  /\ cpc = "scan" /\ cid = None /\ removed = {}

----------------------------------------------------------------------------
(* Helpers *)

Goto(w, label) == pc' = [pc EXCEPT ![w] = label]

\* The handler has answered; the worker waits for the next packet.
Done(w) ==
  /\ Goto(w, "recv")
  /\ op' = [op EXCEPT ![w] = "allocate"]
  /\ src' = [src EXCEPT ![w] = NoClient]
  /\ found' = [found EXCEPT ![w] = None]

\* The source address and id of the request stay as they are.
Keep == UNCHANGED <<op, src, found>>

\* allocations.get and allocations.remove wait while retain holds the shard.
Accessible(i) == i = None \/ i # cid

\* saturating_sub(1) on the IP's entry.
Decrement(p) ==
  allocation_count' =
    [allocation_count EXCEPT ![p] = IF @ > 0 THEN @ - 1 ELSE 0]

QuotaFull(p) == MaxPerIp > 0 /\ allocation_count[p] >= MaxPerIp

\* What AllocationTable::remove returns: did this call take the entry out?
RemovedIgnored(w) == TRUE
RemovedHere(w) == found[w] \in allocations

\* The by_client slot is vacant when create_or_get comes to claim it.
VacantUnchecked(c) == TRUE
Vacant(c) == by_client[c] = None

\* The ids that workers at one of the labels have in hand.
InHand(labels) == {i \in Ids : \E w \in Workers : pc[w] \in labels /\ found[w] = i}

\* Bound: a request starts only if an id is left for every busy worker.
IdsLeft ==
  counter + Cardinality({v \in Workers : pc[v] # "recv"}) <= MaxId

----------------------------------------------------------------------------
(* handle_allocate *)

\* First half of get_by_client: the id is copied out of by_client.
HandleAllocate(w, c) ==
  /\ pc[w] = "recv"
  /\ IdsLeft
  /\ Goto(w, "lookup")
  /\ op' = [op EXCEPT ![w] = "allocate"]
  /\ src' = [src EXCEPT ![w] = c]
  /\ found' = [found EXCEPT ![w] = by_client[c]]
  /\ UNCHANGED <<tableVars, allocation_count, cleanerVars>>

\* Second half of get_by_client, and what the handler does with the snapshot:
\* a live allocation is answered (success again, or 437), a lapsed one is
\* removed, no allocation goes on to admission.
AllocateLookup(w) ==
  /\ pc[w] = "lookup" /\ op[w] = "allocate"
  /\ Accessible(found[w])
  /\ \/ found[w] \in allocations \ expired /\ Done(w)
     \/ found[w] \in allocations \cap expired /\ Goto(w, "remove") /\ Keep
     \/ found[w] \notin allocations /\ Goto(w, "admit") /\ Keep
  /\ UNCHANGED <<tableVars, allocation_count, cleanerVars>>

\* 442 for a transport other than UDP, 508 when the request window is full
\* (when that is, is left open), 486 when the quota is.
AllocateReject(w) ==
  /\ pc[w] = "admit"
  /\ Done(w)
  /\ UNCHANGED <<tableVars, allocation_count, cleanerVars>>

\* check_allocation_request: the test and the reservation are one access.
AllocateAdmit(w) ==
  LET p == ClientIp[src[w]] IN
  /\ pc[w] = "admit"
  /\ ~QuotaFull(p)
  /\ allocation_count' = [allocation_count EXCEPT ![p] = @ + 1]
  /\ Goto(w, "create") /\ Keep
  /\ UNCHANGED <<tableVars, cleanerVars>>

\* create_or_get, fast path: the client already has an entry in by_client.
CreateLookup(w) ==
  /\ pc[w] = "create"
  /\ Goto(w, IF by_client[src[w]] # None THEN "cancel" ELSE "insert") /\ Keep
  /\ UNCHANGED <<tableVars, allocation_count, cleanerVars>>

\* create_or_get: Allocation::new and the insert into the primary map.
CreateInsert(w) ==
  /\ pc[w] = "insert"
  /\ counter <= MaxId
  /\ allocations' = allocations \cup {counter}
  /\ client_addr' = [client_addr EXCEPT ![counter] = src[w]]
  /\ counter' = counter + 1
  /\ found' = [found EXCEPT ![w] = counter]
  /\ Goto(w, "claim")
  /\ UNCHANGED <<expired, by_client, op, src, allocation_count, cleanerVars>>

\* create_or_get: claim the by_client slot, or find it taken.
CreateClaim(w) ==
  /\ pc[w] = "claim"
  /\ \/ /\ Vacant(src[w])
        /\ by_client' = [by_client EXCEPT ![src[w]] = found[w]]
        /\ Done(w)
     \/ /\ ~Vacant(src[w])
        /\ Goto(w, "rollback") /\ Keep
        /\ UNCHANGED by_client
  /\ UNCHANGED <<allocations, client_addr, expired, counter,
                 allocation_count, cleanerVars>>

\* create_or_get: the slot was taken, discard the new entry.
CreateRollback(w) ==
  /\ pc[w] = "rollback"
  /\ allocations' = allocations \ {found[w]}
  /\ Goto(w, "cancel") /\ Keep
  /\ UNCHANGED <<client_addr, expired, by_client, counter,
                 allocation_count, cleanerVars>>

\* cancel_reservation: nothing new was created.
CancelReservation(w) ==
  /\ pc[w] = "cancel"
  /\ Decrement(ClientIp[src[w]])
  /\ Done(w)
  /\ UNCHANGED <<tableVars, cleanerVars>>

----------------------------------------------------------------------------
(* AllocationTable::remove, called by both handlers *)

Remove(w) ==
  /\ pc[w] = "remove"
  /\ Accessible(found[w])
  /\ allocations' = allocations \ {found[w]}
  /\ expired' = expired \ {found[w]}
  /\ \/ RemovedHere(w) /\ Goto(w, "unindex") /\ Keep
     \/ ~RemovedHere(w) /\ op[w] = "allocate" /\ Goto(w, "admit") /\ Keep
     \/ ~RemovedHere(w) /\ op[w] = "refresh" /\ Done(w)
  /\ UNCHANGED <<client_addr, by_client, counter,
                 allocation_count, cleanerVars>>

RemoveUnindex(w) ==
  /\ pc[w] = "unindex"
  /\ by_client' = [by_client EXCEPT ![client_addr[found[w]]] = None]
  /\ Goto(w, "release") /\ Keep
  /\ UNCHANGED <<allocations, client_addr, expired, counter,
                 allocation_count, cleanerVars>>

\* record_deallocation, only when remove returned true.
RemoveRelease(w) ==
  /\ pc[w] = "release"
  /\ Decrement(ClientIp[src[w]])
  /\ \/ op[w] = "allocate" /\ Goto(w, "admit") /\ Keep
     \/ op[w] = "refresh" /\ Done(w)
  /\ UNCHANGED <<tableVars, cleanerVars>>

----------------------------------------------------------------------------
(* handle_refresh *)

HandleRefresh(w, c) ==
  /\ pc[w] = "recv"
  /\ Goto(w, "lookup")
  /\ op' = [op EXCEPT ![w] = "refresh"]
  /\ src' = [src EXCEPT ![w] = c]
  /\ found' = [found EXCEPT ![w] = by_client[c]]
  /\ UNCHANGED <<tableVars, allocation_count, cleanerVars>>

\* authenticate_for_allocation: 437 without an allocation, 401 for another
\* user's; then a lifetime of 0 deletes and any other lifetime extends.
RefreshLookup(w) ==
  /\ pc[w] = "lookup" /\ op[w] = "refresh"
  /\ Accessible(found[w])
  /\ \/ Done(w)
     \/ found[w] \in allocations /\ Goto(w, "remove") /\ Keep
     \/ found[w] \in allocations /\ Goto(w, "again") /\ Keep
  /\ UNCHANGED <<tableVars, allocation_count, cleanerVars>>

\* The second get_by_client of handle_refresh.
RefreshAgain(w) ==
  /\ pc[w] = "again"
  /\ found' = [found EXCEPT ![w] = by_client[src[w]]]
  /\ Goto(w, "update")
  /\ UNCHANGED <<op, src, tableVars, allocation_count, cleanerVars>>

\* refresh(lifetime) if the allocation is still there; success either way.
RefreshUpdate(w) ==
  /\ pc[w] = "update"
  /\ Accessible(found[w])
  /\ expired' = expired \ {found[w]}
  /\ Done(w)
  /\ UNCHANGED <<allocations, client_addr, by_client, counter,
                 allocation_count, cleanerVars>>

----------------------------------------------------------------------------
(* The cleanup task *)

\* An entry that create_or_get has inserted and not yet claimed.  Its
\* timeouts are 45 s and more; the claim follows without an await.
Unclaimed == InHand({"claim", "rollback"})

\* retain meets an entry to remove: removed_ips.push, shard locked.
Reap(i) ==
  /\ cpc = "scan"
  /\ i \in allocations \ Unclaimed
  /\ cid' = i
  /\ removed' = removed \cup {i}
  /\ cpc' = "unindex"
  /\ UNCHANGED <<tableVars, allocation_count, workerVars>>

\* Wrong: the comparison of is_expired is the other way round.
CleanupExpiredInverted(i) == i \notin expired /\ Reap(i)

\* cleanup_expired: the lifetime has run out.
CleanupExpired(i) == i \in expired /\ Reap(i)

\* cleanup_inactive and cleanup_orphaned_senders: their timers depend on
\* traffic, which this module leaves to the environment.
CleanupIdle(i) == Reap(i)

\* Wrong: the pass forgets the by_client entry.
CleanupUnindexSkipped ==
  /\ cpc = "unindex"
  /\ cpc' = "drop"
  /\ UNCHANGED <<tableVars, allocation_count, workerVars, cid, removed>>

CleanupUnindex ==
  /\ cpc = "unindex"
  /\ by_client' = [by_client EXCEPT ![client_addr[cid]] = None]
  /\ cpc' = "drop"
  /\ UNCHANGED <<allocations, client_addr, expired, counter,
                 allocation_count, workerVars, cid, removed>>

\* Wrong: the closure never returns, and the shard stays locked.
CleanupDropLocked == cpc = "drop" /\ UNCHANGED vars

\* The closure returns false: the entry leaves the map, the shard is free.
CleanupDrop ==
  /\ cpc = "drop"
  /\ allocations' = allocations \ {cid}
  /\ expired' = expired \ {cid}
  /\ cid' = None
  /\ cpc' = "scan"
  /\ UNCHANGED <<client_addr, by_client, counter,
                 allocation_count, workerVars, removed>>

\* retain has returned removed_ips.
CleanupReturn ==
  /\ cpc = "scan" /\ removed # {}
  /\ cpc' = "release"
  /\ UNCHANGED <<tableVars, allocation_count, workerVars, cid, removed>>

\* Wrong: only one of removed_ips is recorded.
CleanupReleaseFirst(i) ==
  /\ cpc = "release" /\ i \in removed
  /\ Decrement(ClientIp[client_addr[i]])
  /\ removed' = removed \ {i}
  /\ cpc' = IF removed = {i} THEN "scan" ELSE "stop"
  /\ UNCHANGED <<tableVars, workerVars, cid>>

\* record_deallocation for each of removed_ips.
CleanupRelease(i) ==
  /\ cpc = "release" /\ i \in removed
  /\ Decrement(ClientIp[client_addr[i]])
  /\ removed' = removed \ {i}
  /\ cpc' = IF removed = {i} THEN "scan" ELSE "release"
  /\ UNCHANGED <<tableVars, workerVars, cid>>

----------------------------------------------------------------------------
(* Time *)

\* The coarse clock passes expires_at_ms.
Expire(i) ==
  /\ i \in allocations \ (expired \cup Unclaimed)
  /\ expired' = expired \cup {i}
  /\ UNCHANGED <<allocations, client_addr, by_client, counter,
                 allocation_count, workerVars, cleanerVars>>

WorkerStep(w) ==
  \/ AllocateLookup(w) \/ AllocateReject(w) \/ AllocateAdmit(w)
  \/ CreateLookup(w) \/ CreateInsert(w) \/ CreateClaim(w)
  \/ CreateRollback(w) \/ CancelReservation(w)
  \/ Remove(w) \/ RemoveUnindex(w) \/ RemoveRelease(w)
  \/ RefreshLookup(w) \/ RefreshAgain(w) \/ RefreshUpdate(w)

CleanerStep ==
  \/ CleanupUnindex \/ CleanupDrop \/ CleanupReturn
  \/ \E i \in Ids : CleanupRelease(i)

Next ==
  \/ \E w \in Workers, c \in Clients : HandleAllocate(w, c) \/ HandleRefresh(w, c)
  \/ \E w \in Workers : WorkerStep(w)
  \/ \E i \in Ids : CleanupExpired(i) \/ CleanupIdle(i) \/ Expire(i)
  \/ CleanerStep

Spec == Init /\ [][Next]_vars

\* The receive loop finishes the packet it is on.  The cleanup task's ticker
\* never stops, a pass finishes, and a pass visits every entry: an allocation
\* that stays lapsed is not passed over for ever.
Fairness ==
  /\ \A w \in Workers : WF_vars(WorkerStep(w))
  /\ WF_vars(CleanerStep)
  /\ \A i \in Ids : SF_vars(CleanupExpired(i))

FairSpec == Spec /\ Fairness

----------------------------------------------------------------------------
(* Properties *)

Reserving == {"create", "insert", "claim", "rollback", "cancel"}

\* Workers that hold a reserved slot and have not yet turned it into an
\* allocation or cancelled it.
Reserved == {w \in Workers : pc[w] \in Reserving}

\* Allocations whose slot has not been given back: in the table, or out of
\* it with the deallocation still to be recorded.
Charged ==
  (allocations \ Unclaimed) \cup removed \cup InHand({"unindex", "release"})

ChargedTo(p) == {i \in Charged : ClientIp[client_addr[i]] = p}
ReservedTo(p) == {w \in Reserved : ClientIp[src[w]] = p}

\* The slots of an IP that somebody still has to give back.
Owed(p) == Cardinality(ChargedTo(p)) + Cardinality(ReservedTo(p))

\* Every slot the rate limiter counts belongs to exactly one allocation or one
\* reservation in flight: no path (Allocate, Refresh with lifetime 0, re-
\* Allocate over a lapsed allocation, the three cleanup passes, a lost
\* create_or_get race) leaks a slot or gives one back twice.
QuotaExact == \A p \in IPs : allocation_count[p] = Owed(p)

\* max_allocations_per_ip bounds the allocations an IP holds at any moment,
\* the ones being created and being reaped included.
QuotaRespected ==
  MaxPerIp > 0 =>
    \A p \in IPs : Cardinality({i \in allocations \cup removed :
                                  ClientIp[client_addr[i]] = p}) <= MaxPerIp

\* An allocation the reaper is not dropping is the one by_client names, so
\* a client has at most one ("prevents race conditions where concurrent
\* Allocate requests from the same client could create multiple allocations").
Indexed ==
  \A i \in allocations \ Unclaimed :
    \/ by_client[client_addr[i]] = i
    \/ i = cid /\ cpc = "drop"

\* by_client never names an allocation that is gone, except inside remove():
\* an entry left behind would answer every later Allocate of the client with
\* the id of a dead allocation.
NoDangling ==
  \A c \in Clients : by_client[c] # None =>
    \/ by_client[c] \in allocations
    \/ \E w \in Workers : pc[w] = "unindex" /\ found[w] = by_client[c]

----------------------------------------------------------------------------
(* The inductive invariant behind QuotaExact, Indexed and NoDangling *)

\* An id in use is below the counter and has an owner.
IdsInUse ==
  /\ \A i \in Ids : i < counter => client_addr[i] \in Clients
  /\ \A i \in allocations \cup removed : i < counter
  /\ \A c \in Clients : by_client[c] < counter
  /\ \A w \in Workers : found[w] < counter
  /\ \A w \in Workers : pc[w] # "recv" => src[w] \in Clients

\* What the id in a worker's hand is, at each of its steps.
HandsInv ==
  \A w \in Workers :
    /\ pc[w] \in {"lookup", "remove", "again", "update"} /\ found[w] # None =>
         found[w] \notin Unclaimed /\ client_addr[found[w]] = src[w]
    /\ pc[w] = "remove" => found[w] # None
    /\ pc[w] \in {"unindex", "release"} =>
         /\ found[w] \in Ids \ (allocations \cup removed)
         /\ client_addr[found[w]] = src[w]
    /\ pc[w] = "unindex" => by_client[src[w]] = found[w]
    /\ pc[w] \in {"claim", "rollback"} =>
         found[w] \in allocations \ removed /\ client_addr[found[w]] = src[w]

\* No two workers insert, or take out, the same allocation.
HandsDisjoint ==
  \A v, w \in Workers :
    /\ pc[v] \in {"claim", "rollback", "unindex", "release"}
    /\ pc[w] \in {"claim", "rollback", "unindex", "release"}
    /\ found[v] = found[w]
    => v = w

\* by_client names an allocation of that client which is claimed and which
\* the reaper has not already taken out of the index.
ByClientInv ==
  \A c \in Clients : by_client[c] # None =>
    /\ client_addr[by_client[c]] = c
    /\ by_client[c] \notin Unclaimed
    /\ ~(by_client[c] = cid /\ cpc = "drop")

\* The entry the reaper holds is the only one both in the table and removed.
CleanerInv ==
  /\ removed \cap allocations \subseteq {cid}
  /\ cpc \in {"scan", "release"} => cid = None
  /\ cpc \in {"unindex", "drop"} => cid \in (allocations \cap removed) \ Unclaimed

\* Everything create_or_get, remove and the reaping passes keep true of the
\* table, of by_client and of the ids in hand, whatever their interleaving.
IndexInv ==
  /\ TypeOK
  /\ IdsInUse /\ HandsInv /\ HandsDisjoint /\ ByClientInv /\ CleanerInv
  /\ Indexed /\ NoDangling

\* Admission never lets the count pass the limit.
CountBounded ==
  MaxPerIp > 0 => \A p \in IPs : allocation_count[p] <= MaxPerIp

----------------------------------------------------------------------------
(* Liveness *)

\* Every Allocate and Refresh is answered, although allocations.get and
\* remove() wait for the shard that retain holds.
RequestsAnswered == \A w \in Workers : pc[w] # "recv" ~> pc[w] = "recv"

\* An allocation whose lifetime has run out is reaped, unless a Refresh
\* extends it first (RFC 5766 5; cleanup_expired on a 2 s ticker).
LapsedReaped == \A i \in Ids : i \in expired ~> i \notin expired

\* The slot of an allocation that has left the table is given back.
SlotsReturned ==
  \A i \in Ids : i \in Charged \ allocations ~> i \notin Charged

----------------------------------------------------------------------------
(* What callers see of the table *)

\* The allocation get_by_client finds for a client.
Held == [c \in Clients |-> IF by_client[c] \in allocations THEN by_client[c] ELSE None]

Used == {i \in Ids : i < counter} \ Unclaimed

Promise == INSTANCE ClientAllocations
             WITH held <- Held, slots <- allocation_count, used <- Used

\* The two maps, the index, the reservation and the reaping passes together
\* implement ClientAllocations: a client's allocation begins with the claim of
\* its by_client slot and ends with remove()'s access to the primary map or
\* the reaper's to by_client; every other step is invisible.
KeepsPromise == Promise!Spec

Slots(p) == INSTANCE QuotaSlots WITH slots <- allocation_count[p], held <- Owed(p)

\* The workers and the reaping passes use the limiter of every IP as
\* RateLimiter assumes: a slot is taken only below the quota, together with
\* the reservation that stands for it, and record_deallocation and
\* cancel_reservation are called exactly when an allocation or a reservation
\* ends.  A release twice over would lower the count of slots still held, or
\* vanish in the saturating_sub, and a forgotten one leave a slot nobody holds.
KeepsSlots ==
  /\ \A p \in IPs : Slots(p)!Init
  /\ [][\A p \in IPs : [Slots(p)!Next]_(Slots(p)!vars)]_vars
============================================================================
