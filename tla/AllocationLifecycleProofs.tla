--------------------- MODULE AllocationLifecycleProofs ---------------------
(***************************************************************************)
(* Proofs about AllocationLifecycle, for any number of clients, IPs,       *)
(* workers and allocation ids and for any quota.                           *)
(*                                                                         *)
(* IndexInv is inductive by itself; QuotaExact is inductive relative to    *)
(* it.  Most steps of a worker only move it from one place to another      *)
(* while the table stays as it is: QuietStep deals with all of those.      *)
(***************************************************************************)
EXTENDS AllocationLifecycle, FiniteSetTheorems, TLAPS

\* Places where a worker owes nothing to the table or the indices.
Quiet == Labels \ {"claim", "rollback", "unindex", "release"}

\* A worker with nothing in flight moves on, perhaps with an id it read from
\* by_client; the primary map, by_client and the cleanup task are unchanged.
QuietMove(w) ==
  /\ pc[w] \notin {"claim", "rollback", "unindex"}
  /\ pc'[w] \in Quiet
  /\ pc'[w] # "recv" => src'[w] \in Clients
  /\ found'[w] < counter
  /\ pc'[w] = "remove" => found'[w] # None
  /\ pc'[w] \in {"lookup", "remove", "again", "update"} /\ found'[w] # None =>
       found'[w] \notin Unclaimed /\ client_addr[found'[w]] = src'[w]
  /\ TypeOK'
  /\ \A v \in Workers \ {w} : pc'[v] = pc[v] /\ src'[v] = src[v] /\ found'[v] = found[v]
  /\ UNCHANGED <<allocations, client_addr, by_client, counter, cid, cpc, removed>>

----------------------------------------------------------------------------
(* The table and its index *)

\* Such a move leaves the index as it should be.
LEMMA QuietStep ==
  ASSUME IndexInv, NEW w \in Workers, QuietMove(w)
  PROVE  IndexInv' /\ Unclaimed' = Unclaimed
<1> USE DEF IndexInv, QuietMove, Ids, None, Quiet
<1>1. TypeOK'
  BY DEF TypeOK, Labels
<1>0. \A v \in Workers :
        /\ pc'[v] \in {"claim", "rollback", "unindex", "release"} => v # w
        /\ pc[v] \in {"claim", "rollback", "unindex"} => v # w
  BY DEF TypeOK, Labels
<1>2. Unclaimed' = Unclaimed
  BY <1>0 DEF Unclaimed, InHand
<1>3. IdsInUse'
  BY ZenonT(40) DEF TypeOK, IdsInUse
<1>4. HandsInv'
  BY <1>2 DEF TypeOK, HandsInv
<1>5. HandsDisjoint'
  BY <1>0 DEF HandsDisjoint
<1>6. ByClientInv'
  BY <1>2 DEF TypeOK, ByClientInv
<1>7. CleanerInv'
  BY <1>2 DEF CleanerInv
<1>8. Indexed'
  BY <1>2 DEF Indexed
<1>9. NoDangling'
  BY SMTT(40) DEF TypeOK, NoDangling
<1> QED
  BY ZenonT(40), <1>1, <1>2, <1>3, <1>4, <1>5, <1>6, <1>7, <1>8, <1>9

\* The clock moves, a pass ends, or nothing happens: no map and no id in hand
\* changes, and the reaper holds no other entry.
LEMMA IndexSame ==
  ASSUME IndexInv, TypeOK', cpc' = "drop" <=> cpc = "drop", CleanerInv',
         UNCHANGED <<allocations, client_addr, by_client, counter, pc, src, found, cid, removed>>
  PROVE  IndexInv'
<1>1. Unclaimed' = Unclaimed
  BY ZenonT(40) DEF Unclaimed, InHand
<1>2. IdsInUse'
  BY ZenonT(40) DEF IndexInv, IdsInUse
<1>3. HandsInv'
  BY ZenonT(40), <1>1 DEF IndexInv, HandsInv
<1>4. HandsDisjoint'
  BY ZenonT(40) DEF IndexInv, HandsDisjoint
<1>5. ByClientInv'
  BY ZenonT(40), <1>1 DEF IndexInv, ByClientInv
<1>6. Indexed'
  BY ZenonT(40), <1>1 DEF IndexInv, Indexed
<1>7. NoDangling'
  BY ZenonT(40) DEF IndexInv, NoDangling
<1> QED
  BY ZenonT(40), <1>2, <1>3, <1>4, <1>5, <1>6, <1>7 DEF IndexInv

\* The initial state: an empty table.
LEMMA IndexInit == Init => IndexInv
  BY LifecycleAssumption
  DEF Init, IndexInv, TypeOK, IdsInUse, HandsInv, HandsDisjoint, ByClientInv,
      CleanerInv, Indexed, NoDangling, Unclaimed, InHand, Labels, Ids, None

\* What a request handler does outside create_or_get and remove().
LEMMA QuietActions ==
  ASSUME IndexInv, NEW w \in Workers,
         \/ \E c \in Clients : HandleAllocate(w, c) \/ HandleRefresh(w, c)
         \/ AllocateLookup(w) \/ AllocateReject(w) \/ AllocateAdmit(w)
         \/ CreateLookup(w) \/ CancelReservation(w) \/ RemoveRelease(w)
         \/ RefreshLookup(w) \/ RefreshAgain(w) \/ RefreshUpdate(w)
         \/ Remove(w) /\ ~RemovedHere(w)
  PROVE  QuietMove(w)
<1>1. /\ TypeOK
      /\ pc[w] # "recv" => src[w] \in Clients
      /\ found[w] < counter
      /\ pc[w] \in {"lookup", "remove", "again", "update"} /\ found[w] # None =>
           found[w] \notin Unclaimed /\ client_addr[found[w]] = src[w]
      /\ pc[w] = "remove" => found[w] # None
      /\ None < counter
      /\ \A c \in Clients :
           /\ by_client[c] < counter
           /\ by_client[c] # None =>
                by_client[c] \notin Unclaimed /\ client_addr[by_client[c]] = c
      /\ ClientIp \in [Clients -> IPs]
  BY LifecycleAssumption
  DEF IndexInv, TypeOK, IdsInUse, HandsInv, ByClientInv, None
<1> USE <1>1 DEF QuietMove, Goto, Done, Keep, tableVars, cleanerVars, Labels, Quiet, TypeOK
<1>2. ASSUME NEW c \in Clients, HandleAllocate(w, c) \/ HandleRefresh(w, c)
      PROVE  QuietMove(w)
  BY <1>2 DEF HandleAllocate, HandleRefresh
<1>3. CASE AllocateLookup(w)
  <2>1. found[w] \in allocations => found[w] # None
    BY DEF Ids, None
  <2> QED
    BY <1>3, <2>1 DEF AllocateLookup
<1>4. CASE AllocateReject(w)
  BY <1>4 DEF AllocateReject
<1>5. CASE AllocateAdmit(w)
  BY <1>5 DEF AllocateAdmit
<1>6. CASE CreateLookup(w)
  BY ZenonT(40), <1>6 DEF CreateLookup
<1>7. CASE CancelReservation(w)
  BY <1>7 DEF CancelReservation, Decrement
<1>8. CASE RemoveRelease(w)
  BY SMTT(40), <1>8 DEF RemoveRelease, Decrement
<1>9. CASE RefreshLookup(w)
  <2>1. found[w] \in allocations => found[w] # None
    BY DEF Ids, None
  <2>2. CASE Done(w)
    BY ZenonT(40), <1>9, <2>2 DEF RefreshLookup
  <2>3. CASE found[w] \in allocations /\ Goto(w, "remove") /\ Keep
    BY ZenonT(40), <1>9, <2>1, <2>3 DEF RefreshLookup
  <2>4. CASE found[w] \in allocations /\ Goto(w, "again") /\ Keep
    BY ZenonT(40), <1>9, <2>1, <2>4 DEF RefreshLookup
  <2> QED
    BY ZenonT(40), <1>9, <2>2, <2>3, <2>4 DEF RefreshLookup
<1>10. CASE RefreshAgain(w)
  BY ZenonT(40), <1>10 DEF RefreshAgain
<1>11. CASE RefreshUpdate(w)
  BY ZenonT(40), <1>11 DEF RefreshUpdate
<1>12. CASE Remove(w) /\ ~RemovedHere(w)
  BY SMTT(40), <1>12 DEF Remove, RemovedHere
<1> QED
  BY ZenonT(40), <1>2, <1>3, <1>4, <1>5, <1>6, <1>7, <1>8, <1>9, <1>10, <1>11, <1>12

\* Every step of the system keeps the index right.
LEMMA IndexStep ==
  ASSUME IndexInv, [Next]_vars
  PROVE  IndexInv'
<1> USE LifecycleAssumption DEF IndexInv, Ids, None
<1> USE DEF Goto, Done, Keep, tableVars, workerVars, cleanerVars
<1>1. ASSUME NEW w \in Workers, CreateInsert(w)
      PROVE  IndexInv'
  <2> USE <1>1 DEF CreateInsert
  <2>1. TypeOK'
    BY DEF TypeOK, Labels
  <2>2. Unclaimed' = Unclaimed \cup {counter}
    BY DEF TypeOK, Unclaimed, InHand
  <2>3. counter \notin allocations \cup removed
    BY DEF IdsInUse, TypeOK
  <2>4. IdsInUse'
    <3>1. counter \in Ids /\ counter' = counter + 1 /\ src[w] \in Clients
      BY DEF TypeOK, IdsInUse
    <3>2. \A j \in Ids \cup {None} :
            (j < counter' <=> j < counter \/ j = counter)
      BY <3>1 DEF TypeOK
    <3>3. \A j \in Ids : j < counter' => client_addr'[j] \in Clients
      BY ZenonT(40), <3>1, <3>2 DEF TypeOK, IdsInUse
    <3>4. \A j \in allocations' \cup removed' : j < counter'
      BY ZenonT(40), <3>1, <3>2 DEF TypeOK, IdsInUse
    <3>5. \A c \in Clients : by_client'[c] < counter'
      BY <3>2 DEF TypeOK, IdsInUse
    <3>6. \A v \in Workers : found'[v] < counter'
      BY ZenonT(40), <3>1, <3>2 DEF TypeOK, IdsInUse
    <3>7. \A v \in Workers : pc'[v] # "recv" => src'[v] \in Clients
      BY ZenonT(40), <3>1 DEF TypeOK, IdsInUse
    <3> QED
      BY ZenonT(40), <3>3, <3>4, <3>5, <3>6, <3>7 DEF IdsInUse
  <2>5. HandsInv'
    BY <2>2, <2>3 DEF TypeOK, IdsInUse, HandsInv
  <2>6. HandsDisjoint'
    BY DEF TypeOK, IdsInUse, HandsDisjoint
  <2>7. ByClientInv'
    BY <2>2 DEF TypeOK, IdsInUse, ByClientInv
  <2>8. CleanerInv'
    BY ZenonT(40), <2>2, <2>3 DEF TypeOK, CleanerInv
  <2>9. Indexed'
    BY <2>2, <2>3 DEF TypeOK, Indexed
  <2>10. NoDangling'
    BY DEF TypeOK, NoDangling
  <2> QED
    BY ZenonT(40), <2>1, <2>4, <2>5, <2>6, <2>7, <2>8, <2>9, <2>10
<1>2. ASSUME NEW w \in Workers, CreateClaim(w), Vacant(src[w])
      PROVE  IndexInv'
  <2> USE <1>2 DEF CreateClaim, Vacant
  <2>1. TypeOK'
    BY ZenonT(40) DEF TypeOK, Labels
  <2>2. /\ src[w] \in Clients
        /\ found[w] \in allocations \ removed
        /\ found[w] \in Unclaimed
        /\ client_addr[found[w]] = src[w]
    BY ZenonT(40) DEF TypeOK, IdsInUse, HandsInv, Unclaimed, InHand
  <2>a. /\ pc'[w] = "recv"
        /\ \A v \in Workers \ {w} : pc'[v] = pc[v] /\ found'[v] = found[v]
    BY DEF TypeOK
  <2>3. Unclaimed' = Unclaimed \ {found[w]}
    BY <2>a DEF HandsDisjoint, Unclaimed, InHand
  <2>4. by_client' = [by_client EXCEPT ![src[w]] = found[w]]
    OBVIOUS
  <2>5. IdsInUse'
    BY ZenonT(40), <2>2, <2>4 DEF TypeOK, IdsInUse
  <2>6. HandsInv'
    BY <2>2, <2>3, <2>4 DEF TypeOK, HandsInv
  <2>7. HandsDisjoint'
    BY <2>a DEF HandsDisjoint
  <2>8. ByClientInv'
    BY ZenonT(40), <2>2, <2>3, <2>4 DEF TypeOK, ByClientInv, CleanerInv
  <2>9. CleanerInv'
    BY ZenonT(40), <2>3 DEF CleanerInv
  <2>10. Indexed'
    BY <2>2, <2>3, <2>4 DEF TypeOK, IdsInUse, Indexed
  <2>11. NoDangling'
    <3> SUFFICES ASSUME NEW c \in Clients, by_client'[c] # None
                 PROVE  \/ by_client'[c] \in allocations'
                        \/ \E v \in Workers : pc'[v] = "unindex" /\ found'[v] = by_client'[c]
      BY ZenonT(40) DEF NoDangling
    <3>1. CASE c = src[w]
      BY ZenonT(40), <2>2, <2>4, <3>1 DEF TypeOK
    <3>2. CASE c # src[w]
      BY <2>2, <2>4, <2>a, <3>2 DEF TypeOK, NoDangling
    <3> QED
      BY ZenonT(40), <3>1, <3>2
  <2> QED
    BY ZenonT(40), <2>1, <2>5, <2>6, <2>7, <2>8, <2>9, <2>10, <2>11
<1>3. ASSUME NEW w \in Workers, CreateClaim(w), ~Vacant(src[w])
      PROVE  IndexInv'
  <2> USE <1>3 DEF CreateClaim
  <2>1. Unclaimed' = Unclaimed
    BY DEF TypeOK, Unclaimed, InHand
  <2>a. /\ UNCHANGED <<tableVars, src, found>>
        /\ pc' = [pc EXCEPT ![w] = "rollback"]
    BY ZenonT(40) DEF Keep
  <2>2. TypeOK' /\ IdsInUse'
    BY ZenonT(40), <2>a DEF TypeOK, Labels, IdsInUse
  <2>5. HandsDisjoint'
    BY <2>a DEF TypeOK, HandsDisjoint
  <2>6. NoDangling'
    BY ZenonT(40), <2>a DEF TypeOK, NoDangling
  <2>3. HandsInv'
    BY ZenonT(40), <2>1, <2>a DEF TypeOK, HandsInv
  <2>4. ByClientInv' /\ CleanerInv' /\ Indexed'
    BY SMTT(40), <2>1 DEF ByClientInv, CleanerInv, Indexed
  <2> QED
    BY ZenonT(40), <2>2, <2>3, <2>4, <2>5, <2>6
<1>4. ASSUME NEW w \in Workers, CreateRollback(w)
      PROVE  IndexInv'
  <2> USE <1>4 DEF CreateRollback
  <2>1. TypeOK'
    BY ZenonT(40) DEF TypeOK, Labels
  <2>2. Unclaimed' = Unclaimed \ {found[w]} /\ found[w] \in Unclaimed
    BY DEF TypeOK, HandsDisjoint, Unclaimed, InHand, HandsInv
  <2>3. IdsInUse'
    BY ZenonT(40) DEF TypeOK, IdsInUse
  <2>4. HandsInv'
    BY ZenonT(40), <2>2 DEF TypeOK, HandsInv, HandsDisjoint
  <2>5. HandsDisjoint'
    BY ZenonT(40) DEF TypeOK, HandsDisjoint
  <2>6. ByClientInv'
    BY SMTT(40), <2>2 DEF ByClientInv
  <2>7. CleanerInv'
    BY ZenonT(40), <2>2 DEF CleanerInv
  <2>8. Indexed'
    BY ZenonT(40), <2>2 DEF Indexed
  <2>9. NoDangling'
    BY ZenonT(40), <2>2 DEF TypeOK, NoDangling, ByClientInv
  <2> QED
    BY ZenonT(40), <2>1, <2>3, <2>4, <2>5, <2>6, <2>7, <2>8, <2>9
<1>5. ASSUME NEW w \in Workers, Remove(w), RemovedHere(w)
      PROVE  IndexInv'
  <2> USE <1>5 DEF Remove, RemovedHere
  <2>1. TypeOK'
    BY ZenonT(40) DEF TypeOK, Labels
  <2>2. Unclaimed' = Unclaimed
    BY ZenonT(40) DEF TypeOK, Unclaimed, InHand
  <2>3. /\ found[w] # None /\ found[w] # cid /\ found[w] \notin removed
        /\ found[w] \notin Unclaimed
        /\ client_addr[found[w]] = src[w]
        /\ by_client[src[w]] = found[w]
    BY DEF HandsInv, CleanerInv, Indexed, Accessible
  <2>4. /\ pc' = [pc EXCEPT ![w] = "unindex"]
        /\ UNCHANGED <<src, found>>
    BY ZenonT(40)
  <2>5. IdsInUse'
    BY ZenonT(40), <2>4 DEF TypeOK, IdsInUse
  <2>6. HandsInv'
    BY SMTT(40), <2>2, <2>3, <2>4 DEF TypeOK, HandsInv, Unclaimed, InHand
  <2>7. HandsDisjoint'
    BY SMTT(40), <2>3, <2>4 DEF TypeOK, HandsInv, HandsDisjoint, Unclaimed, InHand
  <2>8. ByClientInv'
    BY ZenonT(40), <2>2 DEF ByClientInv
  <2>9. CleanerInv'
    BY ZenonT(40), <2>2, <2>3 DEF CleanerInv
  <2>10. Indexed'
    BY ZenonT(40), <2>2 DEF Indexed
  <2>11. NoDangling'
    BY ZenonT(40), <2>4 DEF TypeOK, NoDangling
  <2> QED
    BY ZenonT(40), <2>1, <2>5, <2>6, <2>7, <2>8, <2>9, <2>10, <2>11
<1>6. ASSUME NEW w \in Workers, RemoveUnindex(w)
      PROVE  IndexInv'
  <2> USE <1>6 DEF RemoveUnindex
  <2>1. TypeOK'
    BY ZenonT(40) DEF TypeOK, Labels
  <2>2. Unclaimed' = Unclaimed
    BY ZenonT(40) DEF TypeOK, Unclaimed, InHand
  <2>3. /\ src[w] \in Clients /\ client_addr[found[w]] = src[w]
        /\ by_client[src[w]] = found[w]
        /\ found[w] \notin allocations
    BY ZenonT(40) DEF HandsInv, IdsInUse
  <2>4. by_client' = [by_client EXCEPT ![src[w]] = None]
    BY ZenonT(40), <2>3
  <2>5. IdsInUse'
    BY <2>4 DEF TypeOK, IdsInUse
  <2>6. HandsInv'
    BY SMTT(40), <2>2, <2>3, <2>4 DEF TypeOK, HandsInv, HandsDisjoint
  <2>7. HandsDisjoint'
    BY ZenonT(40) DEF TypeOK, HandsDisjoint
  <2>8. ByClientInv'
    BY <2>2, <2>4 DEF TypeOK, ByClientInv
  <2>9. CleanerInv'
    BY ZenonT(40), <2>2 DEF CleanerInv
  <2>10. Indexed'
    BY <2>2, <2>3, <2>4 DEF TypeOK, Indexed, IdsInUse
  <2>11. NoDangling'
    <3> SUFFICES ASSUME NEW c \in Clients, by_client'[c] # None
                 PROVE  \/ by_client'[c] \in allocations'
                        \/ \E v \in Workers : pc'[v] = "unindex" /\ found'[v] = by_client'[c]
      BY DEF NoDangling
    <3>1. c # src[w] /\ by_client'[c] = by_client[c]
      BY ZenonT(40), <2>3, <2>4 DEF TypeOK
    <3>2. by_client[c] # found[w]
      BY ZenonT(40), <2>3, <3>1 DEF ByClientInv
    <3> QED
      BY ZenonT(40), <3>1, <3>2 DEF TypeOK, NoDangling
  <2> QED
    BY ZenonT(40), <2>1, <2>5, <2>6, <2>7, <2>8, <2>9, <2>10, <2>11
<1>7. ASSUME NEW i \in Ids, Reap(i)
      PROVE  IndexInv'
  <2> USE <1>7 DEF Reap
  <2>1. Unclaimed' = Unclaimed
    BY DEF Unclaimed, InHand
  <2>2. i \in allocations \ Unclaimed
    BY ZenonT(40)
  <2>3. TypeOK' /\ IdsInUse' /\ HandsDisjoint' /\ NoDangling'
    BY ZenonT(40) DEF TypeOK, IdsInUse, HandsDisjoint, NoDangling
  <2>4. HandsInv'
    BY <2>1, <2>2 DEF HandsInv, Unclaimed, InHand
  <2>5. ByClientInv' /\ CleanerInv'
    BY <2>1, <2>2 DEF TypeOK, ByClientInv, CleanerInv
  <2>6. Indexed'
    BY <2>1 DEF Indexed
  <2> QED
    BY ZenonT(40), <2>3, <2>4, <2>5, <2>6
<1>8. ASSUME CleanupUnindex
      PROVE  IndexInv'
  <2> USE <1>8 DEF CleanupUnindex
  <2>1. Unclaimed' = Unclaimed
    BY ZenonT(40) DEF Unclaimed, InHand
  <2>2. /\ cid \in (allocations \cap removed) \ Unclaimed
        /\ client_addr[cid] \in Clients
        /\ by_client[client_addr[cid]] = cid
    BY ZenonT(40) DEF TypeOK, CleanerInv, Indexed, IdsInUse
  <2>3. TypeOK' /\ IdsInUse' /\ HandsDisjoint'
    BY SMTT(40), <2>2 DEF TypeOK, IdsInUse, HandsDisjoint
  <2>4. HandsInv'
    BY <2>1, <2>2 DEF TypeOK, IdsInUse, HandsInv
  <2>5. ByClientInv' /\ CleanerInv'
    BY ZenonT(40), <2>1, <2>2 DEF TypeOK, ByClientInv, CleanerInv
  <2>6. Indexed' /\ NoDangling'
    BY <2>1, <2>2 DEF TypeOK, IdsInUse, Indexed, NoDangling
  <2> QED
    BY ZenonT(40), <2>3, <2>4, <2>5, <2>6
<1>9. ASSUME CleanupDrop
      PROVE  IndexInv'
  <2> USE <1>9 DEF CleanupDrop
  <2>1. Unclaimed' = Unclaimed
    BY DEF Unclaimed, InHand
  <2>2. cid \in (allocations \cap removed) \ Unclaimed
    BY ZenonT(40) DEF CleanerInv
  <2>3. TypeOK' /\ IdsInUse' /\ HandsDisjoint'
    BY ZenonT(40) DEF TypeOK, IdsInUse, HandsDisjoint
  <2>4. HandsInv'
    BY <2>1, <2>2 DEF HandsInv, Unclaimed, InHand
  <2>5. ByClientInv' /\ CleanerInv' /\ Indexed' /\ NoDangling'
    BY ZenonT(40), <2>1, <2>2 DEF ByClientInv, CleanerInv, Indexed, NoDangling
  <2> QED
    BY ZenonT(40), <2>3, <2>4, <2>5
<1>10. ASSUME CleanupReturn
       PROVE  IndexInv'
  <2>1. /\ cpc = "scan" /\ cpc' = "release"
        /\ UNCHANGED <<allocations, client_addr, expired, by_client, counter,
                       allocation_count, pc, op, src, found, cid, removed>>
    BY ZenonT(40), <1>10 DEF CleanupReturn, tableVars, workerVars
  <2>2. TypeOK'
    BY ZenonT(40), <2>1 DEF TypeOK
  <2>3. CleanerInv'
    BY ZenonT(40), <2>1 DEF CleanerInv
  <2> QED
    BY ZenonT(40), <2>1, <2>2, <2>3, IndexSame
<1>11. ASSUME NEW i \in Ids, CleanupRelease(i)
       PROVE  IndexInv'
  <2> USE <1>11 DEF CleanupRelease
  <2>1. Unclaimed' = Unclaimed
    BY ZenonT(40) DEF Unclaimed, InHand
  <2>2. ClientIp[client_addr[i]] \in IPs
    BY ZenonT(40) DEF IdsInUse
  <2>3. TypeOK'
    BY <2>2 DEF TypeOK, Decrement
  <2>4. UNCHANGED <<tableVars, workerVars, cid>> /\ removed' \subseteq removed
    BY ZenonT(40)
  <2>5. cpc = "release" /\ cid = None /\ cpc' \in {"scan", "release"}
    BY ZenonT(40) DEF CleanerInv
  <2>6. IdsInUse' /\ HandsDisjoint'
    BY ZenonT(40), <2>4 DEF IdsInUse, HandsDisjoint, tableVars, workerVars
  <2>7. HandsInv'
    BY <2>1, <2>4 DEF HandsInv, tableVars, workerVars
  <2>8. ByClientInv' /\ CleanerInv'
    BY ZenonT(40), <2>1, <2>4, <2>5 DEF ByClientInv, CleanerInv, tableVars
  <2>9. Indexed' /\ NoDangling'
    BY ZenonT(40), <2>1, <2>4, <2>5 DEF Indexed, NoDangling, tableVars, workerVars
  <2> QED
    BY ZenonT(40), <2>3, <2>6, <2>7, <2>8, <2>9
<1>12. ASSUME NEW i \in Ids, Expire(i)
       PROVE  IndexInv'
  <2>1. /\ expired' = expired \cup {i}
        /\ UNCHANGED <<allocations, client_addr, by_client, counter, allocation_count,
                       pc, op, src, found, cpc, cid, removed>>
    BY ZenonT(40), <1>12 DEF Expire, workerVars, cleanerVars
  <2>2. TypeOK'
    BY ZenonT(40), <2>1 DEF TypeOK
  <2>3. CleanerInv'
    BY ZenonT(40), <2>1 DEF CleanerInv, Unclaimed, InHand
  <2> QED
    BY ZenonT(40), <2>1, <2>2, <2>3, IndexSame
<1>13. CASE UNCHANGED vars
  <2>1. UNCHANGED <<allocations, client_addr, expired, by_client, counter, allocation_count,
                    pc, op, src, found, cpc, cid, removed>>
    BY ZenonT(40), <1>13 DEF vars, tableVars, workerVars, cleanerVars
  <2>2. TypeOK'
    BY ZenonT(40), <2>1 DEF TypeOK
  <2>3. CleanerInv'
    BY ZenonT(40), <2>1 DEF CleanerInv, Unclaimed, InHand
  <2> QED
    BY ZenonT(40), <2>1, <2>2, <2>3, IndexSame
<1> QED
  BY ZenonT(40), <1>1, <1>2, <1>3, <1>4, <1>5, <1>6, <1>7, <1>8, <1>9, <1>10, <1>11, <1>12,
     <1>13, QuietActions, QuietStep
  DEF Next, WorkerStep, CleanerStep, CleanupExpired, CleanupIdle

----------------------------------------------------------------------------
(* The quota *)

\* The sets that QuotaExact counts are finite.
LEMMA SlotsFinite ==
  ASSUME IndexInv, NEW p
  PROVE  /\ IsFiniteSet(ChargedTo(p)) /\ Cardinality(ChargedTo(p)) \in Nat
         /\ IsFiniteSet(ReservedTo(p)) /\ Cardinality(ReservedTo(p)) \in Nat
<1>1. IsFiniteSet(Ids)
  BY LifecycleAssumption, FS_Interval DEF Ids
<1>2. ChargedTo(p) \subseteq Ids
  BY DEF IndexInv, TypeOK, ChargedTo, Charged, InHand
<1>3. ReservedTo(p) \subseteq Workers
  BY DEF ReservedTo, Reserved
<1> QED
  BY <1>1, <1>2, <1>3, LifecycleAssumption, FS_Subset, FS_CardinalityType

\* What the quota says of one IP, in the form the steps below count with.
LEMMA QuotaAt ==
  ASSUME IndexInv, QuotaExact, NEW p \in IPs
  PROVE  /\ allocation_count[p] = Cardinality(ChargedTo(p)) + Cardinality(ReservedTo(p))
         /\ allocation_count[p] \in Nat
         /\ Cardinality(ChargedTo(p)) \in Nat
         /\ Cardinality(ReservedTo(p)) \in Nat
<1>1. allocation_count[p] = Cardinality(ChargedTo(p)) + Cardinality(ReservedTo(p))
  BY ZenonT(40) DEF QuotaExact, Owed
<1>2. allocation_count[p] \in Nat
  BY DEF IndexInv, TypeOK
<1> QED
  BY <1>1, <1>2, SlotsFinite

\* saturating_sub at the IP it is for, and at every other IP.
LEMMA DecrementAt ==
  ASSUME IndexInv, NEW q \in IPs, Decrement(q), NEW p \in IPs
  PROVE  /\ p = q /\ allocation_count[p] > 0 =>
              allocation_count'[p] = allocation_count[p] - 1
         /\ p # q => allocation_count'[p] = allocation_count[p]
<1>1. allocation_count \in [IPs -> Nat]
  BY ZenonT(40) DEF IndexInv, TypeOK
<1> QED
  BY ZenonT(40), <1>1 DEF Decrement

\* The owner's IP of a slot does not change while the slot is held.
OwnersKept ==
  /\ \A i \in Charged : client_addr'[i] = client_addr[i]
  /\ \A w \in Reserved : src'[w] = src[w]

\* A step that moves no slot.
LEMMA QuotaSame ==
  ASSUME QuotaExact, OwnersKept,
         Charged' = Charged, Reserved' = Reserved,
         UNCHANGED allocation_count
  PROVE  QuotaExact'
<1> SUFFICES ASSUME NEW p \in IPs
             PROVE  ChargedTo(p)' = ChargedTo(p) /\ ReservedTo(p)' = ReservedTo(p)
  BY ZenonT(40) DEF QuotaExact, Owed
<1> QED
  BY DEF OwnersKept, ChargedTo, ReservedTo

\* A step that gives back the slot of one allocation.
LEMMA QuotaReturn ==
  ASSUME IndexInv, QuotaExact, OwnersKept, NEW i \in Charged,
         Charged' = Charged \ {i}, Reserved' = Reserved,
         client_addr[i] \in Clients, Decrement(ClientIp[client_addr[i]])
  PROVE  QuotaExact'
<1> DEFINE q == ClientIp[client_addr[i]]
<1>1. q \in IPs /\ allocation_count \in [IPs -> Nat]
  BY ZenonT(40), LifecycleAssumption DEF IndexInv, TypeOK
<1>2. SUFFICES ASSUME NEW p \in IPs
               PROVE  allocation_count'[p] =
                        Cardinality(ChargedTo(p)') + Cardinality(ReservedTo(p)')
  BY SMTT(40) DEF QuotaExact, Owed
<1>3. ReservedTo(p)' = ReservedTo(p)
  <2>1. \A w : w \in ReservedTo(p)' <=> w \in ReservedTo(p)
    BY ZenonT(40) DEF OwnersKept, ReservedTo
  <2> QED
    BY Zenon, <2>1
<1>4. CASE p = q
  <2>1. ChargedTo(p)' = ChargedTo(p) \ {i} /\ i \in ChargedTo(p)
    BY SMTT(40), <1>4 DEF OwnersKept, ChargedTo
  <2>2. Cardinality(ChargedTo(p)') = Cardinality(ChargedTo(p)) - 1
    BY ZenonT(40), <2>1, SlotsFinite, FS_RemoveElement
  <2>3. Cardinality(ChargedTo(p)) > 0
    BY <2>1, SlotsFinite, FS_EmptySet
  <2>4. /\ allocation_count[p] = Cardinality(ChargedTo(p)) + Cardinality(ReservedTo(p))
        /\ Cardinality(ChargedTo(p)) \in Nat /\ Cardinality(ReservedTo(p)) \in Nat
    BY ZenonT(40), QuotaAt
  <2>5. allocation_count[p] > 0
    BY <2>3, <2>4
  <2>6. allocation_count'[p] = allocation_count[p] - 1
    BY <1>1, <1>4, <2>5, DecrementAt
  <2>7. Cardinality(ReservedTo(p)') = Cardinality(ReservedTo(p))
    BY Zenon, <1>3
  <2> QED
    BY <2>2, <2>4, <2>6, <2>7
<1>5. CASE p # q
  <2>1. ChargedTo(p)' = ChargedTo(p)
    BY ZenonT(40), <1>5 DEF OwnersKept, ChargedTo
  <2>2. allocation_count'[p] = allocation_count[p]
    BY ZenonT(40), <1>1, <1>5, DecrementAt
  <2>3. allocation_count[p] = Cardinality(ChargedTo(p)) + Cardinality(ReservedTo(p))
    BY ZenonT(40), QuotaAt
  <2> QED
    BY Zenon, <1>3, <2>1, <2>2, <2>3
<1> QED
  BY ZenonT(40), <1>4, <1>5

\* Each request and each cleanup step accounts for the slots it moves.
LEMMA QuotaStep ==
  ASSUME IndexInv, QuotaExact, [Next]_vars
  PROVE  QuotaExact'
<1> USE DEF Goto, Done, Keep, tableVars, workerVars, cleanerVars
<1>t. TypeOK /\ ClientIp \in [Clients -> IPs]
  BY ZenonT(40), LifecycleAssumption DEF IndexInv
<1>f. \A j \in Charged : j < counter /\ client_addr[j] \in Clients
  BY ZenonT(40) DEF IndexInv, TypeOK, IdsInUse, Charged, InHand
<1>1. ASSUME NEW w \in Workers, NEW c \in Clients,
             HandleAllocate(w, c) \/ HandleRefresh(w, c)
      PROVE  QuotaExact'
  <2>1. Charged' = Charged /\ Reserved' = Reserved /\ OwnersKept
    BY <1>1, <1>t DEF HandleAllocate, HandleRefresh, TypeOK, OwnersKept,
         Charged, Reserved, Reserving, Unclaimed, InHand
  <2> QED
    BY ZenonT(40), <1>1, <2>1, QuotaSame DEF HandleAllocate, HandleRefresh
<1>2. ASSUME NEW w \in Workers,
             \/ AllocateLookup(w) \/ AllocateReject(w) \/ CreateLookup(w)
             \/ RefreshLookup(w) \/ RefreshAgain(w) \/ RefreshUpdate(w)
             \/ Remove(w) /\ ~RemovedHere(w)
      PROVE  QuotaExact'
  <2>1. /\ \A v \in Workers \ {w} : pc'[v] = pc[v] /\ src'[v] = src[v] /\ found'[v] = found[v]
        /\ pc[w] \notin {"claim", "rollback", "unindex", "release"}
        /\ pc'[w] \notin {"claim", "rollback", "unindex", "release"}
        /\ pc'[w] \in Reserving <=> pc[w] \in Reserving
        /\ pc[w] \in Reserving => src'[w] = src[w]
        /\ UNCHANGED <<allocations, client_addr, removed, allocation_count>>
    <3> USE <1>t DEF TypeOK, Reserving
    <3>1. CASE AllocateLookup(w)
      BY ZenonT(40), <3>1 DEF AllocateLookup
    <3>2. CASE AllocateReject(w)
      BY ZenonT(40), <3>2 DEF AllocateReject
    <3>3. CASE CreateLookup(w)
      BY ZenonT(40), <3>3 DEF CreateLookup
    <3>4. CASE RefreshLookup(w)
      BY ZenonT(40), <3>4 DEF RefreshLookup
    <3>5. CASE RefreshAgain(w)
      BY ZenonT(40), <3>5 DEF RefreshAgain
    <3>6. CASE RefreshUpdate(w)
      BY ZenonT(40), <3>6 DEF RefreshUpdate
    <3>7. CASE Remove(w) /\ ~RemovedHere(w)
      BY ZenonT(40), <3>7 DEF Remove, RemovedHere
    <3> QED
      BY ZenonT(40), <1>2, <3>1, <3>2, <3>3, <3>4, <3>5, <3>6, <3>7
  <2>2. Charged' = Charged
    BY <2>1 DEF Charged, Unclaimed, InHand
  <2>3. Reserved' = Reserved /\ OwnersKept
    BY ZenonT(40), <2>1 DEF Reserved, OwnersKept
  <2> QED
    BY ZenonT(40), <2>1, <2>2, <2>3, QuotaSame
<1>3. ASSUME NEW w \in Workers, CreateInsert(w)
      PROVE  QuotaExact'
  <2>1. counter \notin allocations \cup removed /\ counter \in Ids
    BY <1>3, <1>t DEF CreateInsert, IndexInv, IdsInUse, TypeOK, Ids
  <2>2. Unclaimed' = Unclaimed \cup {counter}
    BY ZenonT(40), <1>3, <1>t, <2>1 DEF CreateInsert, TypeOK, Unclaimed, InHand
  <2>3. InHand({"unindex", "release"})' = InHand({"unindex", "release"})
    BY ZenonT(40), <1>3, <1>t DEF CreateInsert, TypeOK, InHand
  <2>4. Charged' = Charged
    BY ZenonT(40), <1>3, <2>1, <2>2, <2>3 DEF CreateInsert, Charged
  <2>5. Reserved' = Reserved
    BY ZenonT(40), <1>3, <1>t DEF CreateInsert, TypeOK, Reserved, Reserving
  <2>6. OwnersKept
    BY <1>3, <1>t, <1>f DEF CreateInsert, TypeOK, OwnersKept
  <2> QED
    BY ZenonT(40), <1>3, <2>4, <2>5, <2>6, QuotaSame DEF CreateInsert
<1>4. ASSUME NEW w \in Workers, CreateClaim(w), ~Vacant(src[w])
      PROVE  QuotaExact'
  <2>1. Charged' = Charged /\ Reserved' = Reserved /\ OwnersKept
    BY <1>4, <1>t DEF CreateClaim, TypeOK, OwnersKept, Charged, Reserved, Reserving,
         Unclaimed, InHand
  <2> QED
    BY ZenonT(40), <1>4, <2>1, QuotaSame DEF CreateClaim
<1>5. ASSUME NEW w \in Workers, CreateRollback(w)
      PROVE  QuotaExact'
  <2>1. found[w] \in Unclaimed /\ found[w] \notin removed
    BY ZenonT(40), <1>5, <1>t DEF CreateRollback, IndexInv, HandsInv, TypeOK, Unclaimed, InHand
  <2>2. Unclaimed' = Unclaimed \ {found[w]}
    BY ZenonT(40), <1>5, <1>t DEF CreateRollback, TypeOK, IndexInv, HandsDisjoint, Unclaimed, InHand
  <2>3. InHand({"unindex", "release"})' = InHand({"unindex", "release"})
    BY ZenonT(40), <1>5, <1>t DEF CreateRollback, TypeOK, InHand
  <2>4. Charged' = Charged
    BY ZenonT(40), <1>5, <2>1, <2>2, <2>3 DEF CreateRollback, Charged
  <2>5. Reserved' = Reserved /\ OwnersKept
    BY ZenonT(40), <1>5, <1>t DEF CreateRollback, TypeOK, Reserved, Reserving, OwnersKept
  <2> QED
    BY <1>5, <2>4, <2>5, QuotaSame DEF CreateRollback
<1>6. ASSUME NEW w \in Workers, Remove(w), RemovedHere(w)
      PROVE  QuotaExact'
  <2>1. found[w] \in Ids \ Unclaimed
    BY ZenonT(40), <1>6, <1>t DEF Remove, RemovedHere, IndexInv, HandsInv, TypeOK
  <2>2. Unclaimed' = Unclaimed
    BY ZenonT(40), <1>6, <1>t DEF Remove, RemovedHere, TypeOK, Unclaimed, InHand
  <2>3. InHand({"unindex", "release"})' = InHand({"unindex", "release"}) \cup {found[w]}
    BY ZenonT(40), <1>6, <1>t, <2>1 DEF Remove, RemovedHere, TypeOK, InHand
  <2>4. Charged' = Charged
    BY ZenonT(40), <1>6, <2>1, <2>2, <2>3 DEF Remove, RemovedHere, Charged
  <2>5. Reserved' = Reserved /\ OwnersKept
    BY ZenonT(40), <1>6, <1>t DEF Remove, RemovedHere, TypeOK, Reserved, Reserving, OwnersKept
  <2> QED
    BY <1>6, <2>4, <2>5, QuotaSame DEF Remove
<1>7. ASSUME NEW w \in Workers, RemoveUnindex(w)
      PROVE  QuotaExact'
  <2>1. Charged' = Charged /\ Reserved' = Reserved /\ OwnersKept
    BY <1>7, <1>t DEF RemoveUnindex, TypeOK, OwnersKept, Charged, Reserved, Reserving,
         Unclaimed, InHand
  <2> QED
    BY ZenonT(40), <1>7, <2>1, QuotaSame DEF RemoveUnindex
<1>8. ASSUME \/ \E i \in Ids : Reap(i) \/ Expire(i)
             \/ CleanupUnindex \/ CleanupDrop \/ CleanupReturn
      PROVE  QuotaExact'
  <2>1. UNCHANGED <<pc, src, found, client_addr, allocation_count>>
    BY ZenonT(40), <1>8 DEF Reap, Expire, CleanupUnindex, CleanupDrop, CleanupReturn
  <2>2. /\ Unclaimed' = Unclaimed
        /\ InHand({"unindex", "release"})' = InHand({"unindex", "release"})
    BY ZenonT(40), <2>1 DEF Unclaimed, InHand
  <2>3. (allocations' \ Unclaimed) \cup removed' = (allocations \ Unclaimed) \cup removed
    BY <1>8 DEF Reap, Expire, CleanupUnindex, CleanupDrop, CleanupReturn, IndexInv, CleanerInv
  <2>4. Charged' = Charged
    BY ZenonT(40), <2>2, <2>3 DEF Charged
  <2>5. Reserved' = Reserved /\ OwnersKept
    BY ZenonT(40), <2>1 DEF Reserved, OwnersKept
  <2> QED
    BY ZenonT(40), <2>1, <2>4, <2>5, QuotaSame
<1>9. ASSUME NEW w \in Workers, AllocateAdmit(w)
      PROVE  QuotaExact'
  <2> DEFINE q == ClientIp[src[w]]
  <2>1. q \in IPs /\ allocation_count' = [allocation_count EXCEPT ![q] = @ + 1]
    BY ZenonT(40), <1>9, <1>t DEF AllocateAdmit, IndexInv, IdsInUse
  <2>2. Charged' = Charged /\ UNCHANGED <<client_addr, src>>
    BY ZenonT(40), <1>9, <1>t DEF AllocateAdmit, TypeOK, Charged, Unclaimed, InHand
  <2>3. Reserved' = Reserved \cup {w} /\ w \notin Reserved
    BY ZenonT(40), <1>9, <1>t DEF AllocateAdmit, TypeOK, Reserved, Reserving
  <2>4. SUFFICES ASSUME NEW p \in IPs
                 PROVE  allocation_count'[p] =
                          Cardinality(ChargedTo(p)') + Cardinality(ReservedTo(p)')
    BY DEF QuotaExact, Owed
  <2>5. ChargedTo(p)' = ChargedTo(p)
    BY ZenonT(40), <2>2 DEF ChargedTo
  <2>6. CASE p = q
    <3>1. ReservedTo(p)' = ReservedTo(p) \cup {w} /\ w \notin ReservedTo(p)
      BY <2>2, <2>3, <2>6 DEF ReservedTo
    <3>2. Cardinality(ReservedTo(p)') = Cardinality(ReservedTo(p)) + 1
      BY ZenonT(40), <3>1, SlotsFinite, FS_AddElement
    <3>3. allocation_count'[p] = allocation_count[p] + 1
      BY <1>t, <2>1, <2>6 DEF TypeOK
    <3>4. Cardinality(ChargedTo(p)') = Cardinality(ChargedTo(p))
      BY Zenon, <2>5
    <3>5. /\ allocation_count[p] = Cardinality(ChargedTo(p)) + Cardinality(ReservedTo(p))
          /\ Cardinality(ChargedTo(p)) \in Nat /\ Cardinality(ReservedTo(p)) \in Nat
      BY QuotaAt
    <3> QED
      BY <3>2, <3>3, <3>4, <3>5
  <2>7. CASE p # q
    <3>1. ReservedTo(p)' = ReservedTo(p)
      BY ZenonT(40), <2>2, <2>3, <2>7 DEF ReservedTo
    <3>2. allocation_count'[p] = allocation_count[p]
      BY ZenonT(40), <1>t, <2>1, <2>7 DEF TypeOK
    <3>3. allocation_count[p] = Cardinality(ChargedTo(p)) + Cardinality(ReservedTo(p))
      BY QuotaAt
    <3> QED
      BY Zenon, <2>5, <3>1, <3>2, <3>3
  <2> QED
    BY <2>6, <2>7
<1>10. ASSUME NEW w \in Workers, CreateClaim(w), Vacant(src[w])
       PROVE  QuotaExact'
  <2> DEFINE q == ClientIp[src[w]]
             i == found[w]
  <2>1. /\ q \in IPs /\ i \in Unclaimed /\ i \in allocations \ removed
        /\ client_addr[i] = src[w]
        /\ i \notin InHand({"unindex", "release"})
    BY ZenonT(40), <1>10, <1>t DEF CreateClaim, IndexInv, IdsInUse, HandsInv, TypeOK, Unclaimed, InHand
  <2>2. /\ pc'[w] = "recv"
        /\ \A v \in Workers \ {w} : pc'[v] = pc[v] /\ src'[v] = src[v] /\ found'[v] = found[v]
        /\ UNCHANGED <<allocations, removed, client_addr, allocation_count>>
    BY ZenonT(40), <1>10, <1>t DEF CreateClaim, TypeOK
  <2>3. Unclaimed' = Unclaimed \ {i}
    BY <1>10, <2>2 DEF CreateClaim, IndexInv, HandsDisjoint, Unclaimed, InHand
  <2>4. InHand({"unindex", "release"})' = InHand({"unindex", "release"})
    BY ZenonT(40), <1>10, <2>2 DEF CreateClaim, InHand
  <2>5. Charged' = Charged \cup {i} /\ i \notin Charged
    BY ZenonT(40), <2>1, <2>2, <2>3, <2>4 DEF Charged
  <2>6. /\ Reserved' = Reserved \ {w} /\ w \in Reserved
        /\ \A v \in Reserved' : src'[v] = src[v]
    BY ZenonT(40), <1>10, <2>2 DEF CreateClaim, Reserved, Reserving
  <2>7. SUFFICES ASSUME NEW p \in IPs
                 PROVE  allocation_count'[p] =
                          Cardinality(ChargedTo(p)') + Cardinality(ReservedTo(p)')
    BY DEF QuotaExact, Owed
  <2>8. CASE p = q
    <3>1. ChargedTo(p)' = ChargedTo(p) \cup {i} /\ i \notin ChargedTo(p)
      BY ZenonT(40), <2>1, <2>2, <2>5, <2>8 DEF ChargedTo
    <3>2. ReservedTo(p)' = ReservedTo(p) \ {w} /\ w \in ReservedTo(p)
      BY ZenonT(40), <2>2, <2>6, <2>8 DEF ReservedTo
    <3>3. Cardinality(ChargedTo(p)') = Cardinality(ChargedTo(p)) + 1
      BY ZenonT(40), <3>1, SlotsFinite, FS_AddElement
    <3>4. Cardinality(ReservedTo(p)') = Cardinality(ReservedTo(p)) - 1
      BY ZenonT(40), <3>2, SlotsFinite, FS_RemoveElement
    <3>5. /\ allocation_count[p] = Cardinality(ChargedTo(p)) + Cardinality(ReservedTo(p))
          /\ Cardinality(ChargedTo(p)) \in Nat /\ Cardinality(ReservedTo(p)) \in Nat
      BY QuotaAt
    <3>6. allocation_count'[p] = allocation_count[p]
      BY ZenonT(40), <2>2
    <3> QED
      BY <3>3, <3>4, <3>5, <3>6
  <2>9. CASE p # q
    <3>1. ChargedTo(p)' = ChargedTo(p)
      BY ZenonT(40), <2>1, <2>2, <2>5, <2>9 DEF ChargedTo
    <3>2. ReservedTo(p)' = ReservedTo(p)
      <4>1. w \notin ReservedTo(p)
        BY ZenonT(40), <2>1, <2>2, <2>9 DEF ReservedTo
      <4>2. ASSUME NEW v PROVE v \in ReservedTo(p)' <=> v \in ReservedTo(p)
        <5>1. CASE v = w
          BY ZenonT(40), <2>6, <4>1, <5>1 DEF ReservedTo
        <5>2. CASE v # w
          BY ZenonT(40), <2>6, <5>2 DEF ReservedTo
        <5> QED
          BY Zenon, <5>1, <5>2
      <4> QED
        BY <4>2
    <3> QED
      BY ZenonT(40), <2>2, <3>1, <3>2 DEF QuotaExact, Owed
  <2> QED
    BY <2>8, <2>9
<1>11. ASSUME NEW w \in Workers, CancelReservation(w)
       PROVE  QuotaExact'
  <2> DEFINE q == ClientIp[src[w]]
  <2>d. Decrement(q)
    BY <1>11 DEF CancelReservation
  <2>1. /\ q \in IPs
        /\ pc[w] = "cancel" /\ pc'[w] = "recv"
        /\ \A v \in Workers \ {w} : pc'[v] = pc[v] /\ src'[v] = src[v] /\ found'[v] = found[v]
        /\ UNCHANGED <<allocations, removed, client_addr>>
    BY ZenonT(40), <1>11, <1>t DEF CancelReservation, IndexInv, IdsInUse, TypeOK
  <2>2. Charged' = Charged
    <3>1. Unclaimed' = Unclaimed
      BY ZenonT(40), <2>1 DEF Unclaimed, InHand
    <3>2. InHand({"unindex", "release"})' = InHand({"unindex", "release"})
      BY ZenonT(40), <2>1 DEF InHand
    <3> QED
      BY ZenonT(40), <2>1, <3>1, <3>2 DEF Charged
  <2>3. /\ Reserved' = Reserved \ {w} /\ w \in Reserved
        /\ \A v \in Reserved' : src'[v] = src[v]
    BY ZenonT(40), <2>1 DEF Reserved, Reserving
  <2>4. SUFFICES ASSUME NEW p \in IPs
                 PROVE  allocation_count'[p] =
                          Cardinality(ChargedTo(p)') + Cardinality(ReservedTo(p)')
    BY DEF QuotaExact, Owed
  <2>5. ChargedTo(p)' = ChargedTo(p)
    BY ZenonT(40), <2>1, <2>2 DEF ChargedTo
  <2>6. CASE p = q
    <3>1. ReservedTo(p)' = ReservedTo(p) \ {w} /\ w \in ReservedTo(p)
      BY ZenonT(40), <2>1, <2>3, <2>6 DEF ReservedTo
    <3>2. Cardinality(ReservedTo(p)') = Cardinality(ReservedTo(p)) - 1
      BY ZenonT(40), <3>1, SlotsFinite, FS_RemoveElement
    <3>3. Cardinality(ReservedTo(p)) > 0
      BY SMTT(40), <3>1, SlotsFinite, FS_EmptySet
    <3>4. /\ allocation_count[p] = Cardinality(ChargedTo(p)) + Cardinality(ReservedTo(p))
          /\ Cardinality(ChargedTo(p)) \in Nat /\ Cardinality(ReservedTo(p)) \in Nat
      BY QuotaAt
    <3>5. allocation_count[p] > 0
      BY <3>3, <3>4
    <3>6. allocation_count'[p] = allocation_count[p] - 1
      BY ZenonT(40), <2>d, <2>1, <2>6, <3>5, DecrementAt
    <3>7. Cardinality(ChargedTo(p)') = Cardinality(ChargedTo(p))
      BY Zenon, <2>5
    <3> QED
      BY <3>2, <3>4, <3>6, <3>7
  <2>7. CASE p # q
    <3>1. ReservedTo(p)' = ReservedTo(p)
      <4>1. \A v : v \in ReservedTo(p)' <=> v \in ReservedTo(p)
        BY ZenonT(40), <2>3, <2>7 DEF ReservedTo
      <4> QED
        BY Zenon, <4>1
    <3>2. allocation_count'[p] = allocation_count[p]
      BY ZenonT(40), <2>d, <2>1, <2>7, DecrementAt
    <3>3. allocation_count[p] = Cardinality(ChargedTo(p)) + Cardinality(ReservedTo(p))
      BY QuotaAt
    <3> QED
      BY Zenon, <2>5, <3>1, <3>2, <3>3
  <2> QED
    BY <2>6, <2>7
<1>12. ASSUME NEW w \in Workers, RemoveRelease(w)
       PROVE  QuotaExact'
  <2> DEFINE i == found[w]
  <2>1. /\ i \in Ids \ (allocations \cup removed)
        /\ client_addr[i] = src[w] /\ client_addr[i] \in Clients
        /\ i \in InHand({"unindex", "release"})
    BY ZenonT(40), <1>12, <1>t DEF RemoveRelease, IndexInv, IdsInUse, HandsInv, InHand
  <2>2. /\ pc[w] = "release" /\ pc'[w] \in {"recv", "admit"}
        /\ \A v \in Workers \ {w} : pc'[v] = pc[v] /\ src'[v] = src[v] /\ found'[v] = found[v]
        /\ UNCHANGED <<allocations, removed, client_addr>>
    BY ZenonT(40), <1>12, <1>t DEF RemoveRelease, TypeOK
  <2>3. Unclaimed' = Unclaimed
    BY ZenonT(40), <2>2 DEF Unclaimed, InHand
  <2>4. InHand({"unindex", "release"})' = InHand({"unindex", "release"}) \ {i}
    BY ZenonT(40), <2>2 DEF IndexInv, HandsDisjoint, InHand
  <2>5. Charged' = Charged \ {i} /\ i \in Charged
    BY ZenonT(40), <2>1, <2>2, <2>3, <2>4 DEF Charged
  <2>6. Reserved' = Reserved /\ OwnersKept
    BY ZenonT(40), <2>2 DEF Reserved, Reserving, OwnersKept
  <2> QED
    BY ZenonT(40), <1>12, <2>1, <2>5, <2>6, QuotaReturn DEF RemoveRelease
<1>13. ASSUME NEW i \in Ids, CleanupRelease(i)
       PROVE  QuotaExact'
  <2>1. /\ UNCHANGED <<pc, src, found, allocations, client_addr>>
        /\ removed' = removed \ {i} /\ i \in removed
    BY ZenonT(40), <1>13 DEF CleanupRelease
  <2>2. i \notin allocations /\ i \notin InHand({"unindex", "release"})
    BY SMTT(40), <1>13, <2>1 DEF CleanupRelease, IndexInv, CleanerInv, HandsInv, InHand, Ids, None
  <2>3. Charged' = Charged \ {i} /\ i \in Charged
    BY ZenonT(40), <2>1, <2>2 DEF Charged, Unclaimed, InHand
  <2>4. Reserved' = Reserved /\ OwnersKept
    BY ZenonT(40), <2>1 DEF Reserved, OwnersKept
  <2> QED
    BY ZenonT(40), <1>13, <1>f, <2>3, <2>4, QuotaReturn DEF CleanupRelease
<1>14. CASE UNCHANGED vars
  <2>1. Charged' = Charged /\ Reserved' = Reserved /\ OwnersKept
    BY <1>14 DEF vars, Charged, Reserved, OwnersKept, Unclaimed, InHand
  <2> QED
    BY ZenonT(40), <1>14, <2>1, QuotaSame DEF vars
<1> QED
  BY ZenonT(40), <1>1, <1>2, <1>3, <1>4, <1>5, <1>6, <1>7, <1>8, <1>9, <1>10, <1>11, <1>12,
     <1>13, <1>14
  DEF Next, WorkerStep, CleanerStep, CleanupExpired, CleanupIdle

----------------------------------------------------------------------------
(* The theorems *)

\* TypeOK, Indexed and NoDangling, with what they rest on, hold in every
\* reachable state: create_or_get, remove() and the reaper, whatever their
\* interleaving, keep by_client and the primary map in agreement.
THEOREM IndexCorrect == Spec => []IndexInv
<1>1. Init => IndexInv
  BY IndexInit
<1>2. IndexInv /\ [Next]_vars => IndexInv'
  BY IndexStep
<1> QED
  BY <1>1, <1>2, PTL DEF Spec

\* The variables keep their types.
THEOREM TypeCorrect == Spec => []TypeOK
<1>1. IndexInv => TypeOK
  BY DEF IndexInv
<1> QED
  BY <1>1, IndexCorrect, PTL

\* A client has at most one claimed allocation, the one by_client names.
THEOREM IndexedCorrect == Spec => []Indexed
<1>1. IndexInv => Indexed
  BY DEF IndexInv
<1> QED
  BY <1>1, IndexCorrect, PTL

\* by_client names no allocation that is gone.
THEOREM NoDanglingCorrect == Spec => []NoDangling
<1>1. IndexInv => NoDangling
  BY DEF IndexInv
<1> QED
  BY <1>1, IndexCorrect, PTL

\* The rate limiter's count of an IP is exactly the number of its allocations
\* and reservations, so no slot is leaked or given back twice.
THEOREM QuotaExactCorrect == Spec => []QuotaExact
<1>1. Init => QuotaExact
  <2> SUFFICES ASSUME Init, NEW p \in IPs
               PROVE  ChargedTo(p) = {} /\ ReservedTo(p) = {} /\ allocation_count[p] = 0
    BY FS_EmptySet DEF QuotaExact, Owed
  <2> QED
    BY ZenonT(40) DEF Init, ChargedTo, ReservedTo, Charged, Reserved, Reserving, InHand, None, Ids
<1>2. IndexInv /\ QuotaExact /\ [Next]_vars => QuotaExact'
  BY QuotaStep
<1> QED
  BY <1>1, <1>2, IndexCorrect, PTL DEF Spec

\* Admission never lets the count of an IP pass max_allocations_per_ip.
LEMMA CountCorrect == Spec => []CountBounded
<1>1. Init => CountBounded
  BY LifecycleAssumption DEF Init, CountBounded
<1>2. IndexInv /\ CountBounded /\ [Next]_vars => CountBounded'
  <2> SUFFICES ASSUME IndexInv, CountBounded, [Next]_vars, MaxPerIp > 0, NEW p \in IPs
               PROVE  allocation_count'[p] <= MaxPerIp
    BY ZenonT(40) DEF CountBounded
  <2>1. allocation_count \in [IPs -> Nat] /\ allocation_count[p] <= MaxPerIp /\ MaxPerIp \in Nat
    BY ZenonT(40), LifecycleAssumption DEF IndexInv, TypeOK, CountBounded
  <2>2. \/ UNCHANGED allocation_count
        \/ \E w \in Workers : AllocateAdmit(w)
        \/ \E q : Decrement(q)
    <3> USE DEF vars, tableVars
    <3>1. CASE UNCHANGED vars
      BY <3>1
    <3>2. ASSUME NEW w \in Workers, NEW c \in Clients,
                 HandleAllocate(w, c) \/ HandleRefresh(w, c)
          PROVE  UNCHANGED allocation_count
      BY ZenonT(40), <3>2 DEF HandleAllocate, HandleRefresh
    <3>3. ASSUME NEW w \in Workers, WorkerStep(w)
          PROVE  \/ UNCHANGED allocation_count \/ AllocateAdmit(w)
                 \/ \E q : Decrement(q)
      BY ZenonT(40), <3>3 DEF WorkerStep, AllocateLookup, AllocateReject, CreateLookup, CreateInsert,
           CreateClaim, CreateRollback, CancelReservation, Remove, RemoveUnindex,
           RemoveRelease, RefreshLookup, RefreshAgain, RefreshUpdate
    <3>4. ASSUME NEW i \in Ids, CleanupExpired(i) \/ CleanupIdle(i) \/ Expire(i)
          PROVE  UNCHANGED allocation_count
      BY ZenonT(40), <3>4 DEF CleanupExpired, CleanupIdle, Reap, Expire
    <3>5. CASE CleanerStep
      BY <3>5 DEF CleanerStep, CleanupUnindex, CleanupDrop, CleanupReturn, CleanupRelease
    <3> QED
      BY ZenonT(40), <3>1, <3>2, <3>3, <3>4, <3>5 DEF Next
  <2>3. CASE UNCHANGED allocation_count
    BY ZenonT(40), <2>1, <2>3
  <2>4. ASSUME NEW w \in Workers, AllocateAdmit(w)
        PROVE  allocation_count'[p] <= MaxPerIp
    BY <2>1, <2>4 DEF AllocateAdmit, QuotaFull
  <2>5. ASSUME NEW q, Decrement(q)
        PROVE  allocation_count'[p] <= MaxPerIp
    BY <2>1, <2>5 DEF Decrement
  <2> QED
    BY ZenonT(40), <2>2, <2>3, <2>4, <2>5
<1> QED
  BY <1>1, <1>2, IndexCorrect, PTL DEF Spec

\* max_allocations_per_ip bounds the allocations of an IP at every moment.
THEOREM QuotaRespectedCorrect == Spec => []QuotaRespected
<1>1. IndexInv /\ QuotaExact /\ CountBounded => QuotaRespected
  <2> SUFFICES ASSUME IndexInv, QuotaExact, CountBounded, MaxPerIp > 0, NEW p \in IPs
               PROVE  Cardinality({i \in allocations \cup removed :
                                     ClientIp[client_addr[i]] = p}) <= MaxPerIp
    BY DEF QuotaRespected
  <2> DEFINE Present == {i \in allocations \cup removed : ClientIp[client_addr[i]] = p}
             New == {i \in Unclaimed : ClientIp[client_addr[i]] = p}
             Creating == {w \in Workers : /\ pc[w] \in {"claim", "rollback"}
                                          /\ ClientIp[src[w]] = p}
             f == [w \in Creating |-> found[w]]
  <2>1. Creating \subseteq ReservedTo(p)
    BY DEF ReservedTo, Reserved, Reserving
  <2>2. IsFiniteSet(Creating) /\ Cardinality(Creating) <= Cardinality(ReservedTo(p))
    BY ZenonT(40), <2>1, SlotsFinite, FS_Subset
  <2>3. f \in Surjection(Creating, New)
    BY ZenonT(40) DEF Surjection, Unclaimed, InHand, IndexInv, HandsInv, TypeOK
  <2>4. IsFiniteSet(New) /\ Cardinality(New) <= Cardinality(Creating)
    BY ZenonT(40), <2>2, <2>3, FS_Surjection
  <2>5. Present \subseteq ChargedTo(p) \cup New
    BY ZenonT(40) DEF ChargedTo, Charged
  <2> HIDE DEF Present, New, Creating
  <2>6. /\ IsFiniteSet(ChargedTo(p) \cup New)
        /\ Cardinality(ChargedTo(p) \cup New) <= Cardinality(ChargedTo(p)) + Cardinality(New)
    <3>1. IsFiniteSet(ChargedTo(p)) /\ IsFiniteSet(New)
      BY <2>4, SlotsFinite
    <3>2. IsFiniteSet(ChargedTo(p) \cap New)
      BY <3>1, FS_Subset
    <3>3. /\ Cardinality(ChargedTo(p)) \in Nat /\ Cardinality(New) \in Nat
          /\ Cardinality(ChargedTo(p) \cap New) \in Nat
      BY ZenonT(40), <3>1, <3>2, FS_CardinalityType
    <3>4. /\ IsFiniteSet(ChargedTo(p) \cup New)
          /\ Cardinality(ChargedTo(p) \cup New) = Cardinality(ChargedTo(p))
               + Cardinality(New) - Cardinality(ChargedTo(p) \cap New)
      BY ZenonT(40), <3>1, FS_Union
    <3> QED
      BY <3>3, <3>4
  <2>7. IsFiniteSet(Present) /\ Cardinality(Present) <= Cardinality(ChargedTo(p) \cup New)
    BY ZenonT(40), <2>5, <2>6, FS_Subset
  <2>8. /\ Cardinality(Present) \in Nat /\ Cardinality(New) \in Nat
        /\ Cardinality(Creating) \in Nat /\ Cardinality(ChargedTo(p) \cup New) \in Nat
    BY ZenonT(40), <2>2, <2>4, <2>6, <2>7, FS_CardinalityType
  <2>9. allocation_count[p] <= MaxPerIp /\ MaxPerIp \in Nat
    BY ZenonT(40), LifecycleAssumption DEF CountBounded
  <2>10. Cardinality(Present) <= MaxPerIp
    BY <2>2, <2>4, <2>6, <2>7, <2>8, <2>9, SlotsFinite DEF QuotaExact, Owed
  <2> QED
    BY ZenonT(40), <2>10 DEF Present
<1> QED
  BY <1>1, IndexCorrect, QuotaExactCorrect, CountCorrect, PTL

----------------------------------------------------------------------------
(* AllocationLifecycle implements ClientAllocations.  IndexInv says which   *)
(* steps a client can tell apart; QuotaExact says that a slot is free       *)
(* whenever one is granted on or given back.                                *)

\* One step of the promise, or none.
PromisedStep == [Promise!Next]_(Promise!vars)

----------------------------------------------------------------------------
(* What a client sees *)

LEMMA HeldAt ==
  ASSUME IndexInv, NEW c \in Clients
  PROVE  /\ Held[c] \in Ids \cup {None}
         /\ Held[c] # None =>
              /\ by_client[c] = Held[c] /\ Held[c] \in allocations \ Unclaimed
              /\ client_addr[Held[c]] = c
         /\ by_client[c] \in allocations => Held[c] = by_client[c]
         /\ by_client[c] \notin allocations => Held[c] = None
<1>1. Held[c] = IF by_client[c] \in allocations THEN by_client[c] ELSE None
  BY DEF Held
<1>2. by_client[c] \in Ids \cup {None} /\ None \notin Ids
  BY DEF IndexInv, TypeOK, Ids, None
<1>3. by_client[c] # None => client_addr[by_client[c]] = c /\ by_client[c] \notin Unclaimed
  BY DEF IndexInv, ByClientInv
<1> QED
  BY <1>1, <1>2, <1>3

\* A step that no client and no count shows.
LEMMA Invisible ==
  ASSUME \A c \in Clients : Held'[c] = Held[c],
         UNCHANGED allocation_count, Used' = Used
  PROVE  PromisedStep
<1>1. Held' = Held
  BY DEF Held
<1> QED
  BY <1>1 DEF PromisedStep, Promise!vars

\* The allocations of an IP's clients are charged to it.
LEMMA HeldCharged ==
  ASSUME IndexInv, NEW p \in IPs
  PROVE  /\ Promise!HeldBy(p) \subseteq ChargedTo(p)
         /\ Promise!HeldBy(p) \subseteq allocations
<1> SUFFICES ASSUME NEW i \in Promise!HeldBy(p)
             PROVE  i \in ChargedTo(p) /\ i \in allocations
  OBVIOUS
<1>1. PICK c \in Clients : ClientIp[c] = p /\ Held[c] = i
  BY DEF Promise!HeldBy
<1>2. i # None
  BY DEF Promise!HeldBy, Ids, None
<1>3. i \in allocations \ Unclaimed /\ client_addr[i] = c
  BY <1>1, <1>2, HeldAt
<1> QED
  BY <1>1, <1>3 DEF ChargedTo, Charged

\* Both modules count alike.
LEMMA SlotFreeCounts ==
  ASSUME NEW p
  PROVE  Promise!SlotFree(p) <=> allocation_count[p] > Cardinality(Promise!HeldBy(p))
<1>1. \A S : Promise!Cardinality(S) = Cardinality(S)
  BY DEF Promise!Cardinality, Cardinality
<1> QED
  BY <1>1 DEF Promise!SlotFree

\* A slot is free while a reservation is in flight, or while an allocation
\* that no client has is still charged.
LEMMA SlotIsFree ==
  ASSUME IndexInv, QuotaExact, NEW p \in IPs,
         ReservedTo(p) # {} \/ \E i \in ChargedTo(p) : i \notin Promise!HeldBy(p)
  PROVE  Promise!SlotFree(p)
<1> DEFINE H == Promise!HeldBy(p)
           C == ChargedTo(p)
           R == ReservedTo(p)
<1>1. IsFiniteSet(C) /\ Cardinality(C) \in Nat /\ IsFiniteSet(R) /\ Cardinality(R) \in Nat
  BY SlotsFinite
<1>2. H \subseteq C
  BY HeldCharged
<1>3. allocation_count[p] = Cardinality(C) + Cardinality(R)
  BY QuotaAt
<1>4. R # {} \/ H # C
  OBVIOUS
<1> HIDE DEF H, C, R
<1>5. IsFiniteSet(H) /\ Cardinality(H) \in Nat /\ Cardinality(H) <= Cardinality(C)
  BY <1>1, <1>2, FS_Subset, FS_CardinalityType
<1>6. CASE R # {}
  <2>1. Cardinality(R) > 0
    BY <1>1, <1>6, FS_EmptySet
  <2>2. allocation_count[p] > Cardinality(H)
    BY <1>1, <1>3, <1>5, <2>1
  <2> QED
    BY <2>2, SlotFreeCounts DEF H
<1>7. CASE H # C
  <2>1. Cardinality(H) # Cardinality(C)
    BY <1>1, <1>2, <1>7, FS_Subset
  <2>2. allocation_count[p] > Cardinality(H)
    BY SMTT(20), <1>1, <1>3, <1>5, <2>1
  <2> QED
    BY <2>2, SlotFreeCounts DEF H
<1> QED
  BY <1>4, <1>6, <1>7

\* Giving a slot back.
LEMMA Releases ==
  ASSUME IndexInv, QuotaExact, NEW p \in IPs, Promise!SlotFree(p), Decrement(p),
         \A c \in Clients : Held'[c] = Held[c], Used' = Used
  PROVE  PromisedStep
<1>1. Held' = Held
  BY DEF Held
<1>2. allocation_count[p] > 0
  <2>1. IsFiniteSet(Promise!HeldBy(p))
    BY HeldCharged, SlotsFinite, FS_Subset
  <2>2. Cardinality(Promise!HeldBy(p)) \in Nat
    BY <2>1, FS_CardinalityType
  <2> QED
    BY <2>2, QuotaAt, SlotFreeCounts
<1>3. allocation_count' = [allocation_count EXCEPT ![p] = @ - 1]
  BY ZenonT(40), <1>2 DEF Decrement
<1>4. Promise!Release(p)
  BY <1>1, <1>3 DEF Promise!Release
<1> QED
  BY <1>4 DEF PromisedStep, Promise!Next

----------------------------------------------------------------------------
(* Requests *)

\* A worker that owes nothing moves on: only the count may show it.
LEMMA QuietHeld ==
  ASSUME IndexInv, NEW w \in Workers, QuietMove(w)
  PROVE  (\A c \in Clients : Held'[c] = Held[c]) /\ Used' = Used
<1>1. Unclaimed' = Unclaimed
  BY QuietStep
<1>2. UNCHANGED <<allocations, by_client, counter>>
  BY DEF QuietMove
<1> QED
  BY <1>1, <1>2 DEF Held, Used

LEMMA QuietPromised ==
  ASSUME IndexInv, NEW w \in Workers,
         \/ \E c \in Clients : HandleAllocate(w, c) \/ HandleRefresh(w, c)
         \/ AllocateLookup(w) \/ AllocateReject(w) \/ CreateLookup(w)
         \/ RefreshLookup(w) \/ RefreshAgain(w) \/ RefreshUpdate(w)
         \/ Remove(w) /\ ~RemovedHere(w)
  PROVE  PromisedStep
<1>1. QuietMove(w)
  BY ZenonT(40), QuietActions
<1>2. UNCHANGED allocation_count
  <2>1. ASSUME NEW c, HandleAllocate(w, c) \/ HandleRefresh(w, c)
        PROVE  UNCHANGED allocation_count
    BY Zenon, <2>1 DEF HandleAllocate, HandleRefresh
  <2>2. CASE AllocateLookup(w) \/ AllocateReject(w) \/ CreateLookup(w)
    BY Zenon, <2>2 DEF AllocateLookup, AllocateReject, CreateLookup
  <2>3. CASE RefreshLookup(w) \/ RefreshAgain(w) \/ RefreshUpdate(w) \/ Remove(w)
    BY Zenon, <2>3 DEF RefreshLookup, RefreshAgain, RefreshUpdate, Remove
  <2> QED
    BY Zenon, <2>1, <2>2, <2>3
<1> QED
  BY <1>1, <1>2, QuietHeld, Invisible

\* check_allocation_request reserves below the quota only.
LEMMA AdmitPromised ==
  ASSUME IndexInv, NEW w \in Workers, AllocateAdmit(w)
  PROVE  PromisedStep
<1> DEFINE p == ClientIp[src[w]]
<1>1. src[w] \in Clients
  BY DEF AllocateAdmit, IndexInv, IdsInUse
<1>2. p \in IPs
  BY SMTT(40), <1>1, LifecycleAssumption
<1>3. (\A c \in Clients : Held'[c] = Held[c]) /\ Used' = Used
  <2>1. QuietMove(w)
    BY ZenonT(40), QuietActions
  <2> QED
    BY ZenonT(40), <2>1, QuietHeld
<1>4. Held' = Held
  BY <1>3 DEF Held
<1>5. MaxPerIp > 0 => allocation_count[p] < MaxPerIp
  <2>1. allocation_count[p] \in Nat /\ MaxPerIp \in Nat
    BY <1>2, LifecycleAssumption DEF IndexInv, TypeOK
  <2>2. ~(MaxPerIp > 0 /\ allocation_count[p] >= MaxPerIp)
    BY DEF AllocateAdmit, QuotaFull
  <2> QED
    BY <2>1, <2>2
<1>6. allocation_count' = [allocation_count EXCEPT ![p] = @ + 1]
  BY ZenonT(40) DEF AllocateAdmit
<1>7. Promise!Reserve(p)
  BY ZenonT(40), <1>3, <1>4, <1>5, <1>6 DEF Promise!Reserve
<1> QED
  BY <1>2, <1>7 DEF PromisedStep, Promise!Next

\* cancel_reservation gives back the slot of its own reservation.
LEMMA CancelPromised ==
  ASSUME IndexInv, QuotaExact, NEW w \in Workers, CancelReservation(w)
  PROVE  PromisedStep
<1> DEFINE p == ClientIp[src[w]]
<1>1. pc[w] = "cancel" /\ Decrement(p) /\ src[w] \in Clients
  BY DEF CancelReservation, IndexInv, IdsInUse
<1>2. p \in IPs
  BY <1>1, LifecycleAssumption
<1>3. w \in ReservedTo(p)
  BY <1>1 DEF ReservedTo, Reserved, Reserving
<1>4. Promise!SlotFree(p)
  BY <1>2, <1>3, SlotIsFree
<1>5. (\A c \in Clients : Held'[c] = Held[c]) /\ Used' = Used
  <2>1. QuietMove(w)
    BY ZenonT(40), QuietActions
  <2> QED
    BY ZenonT(40), <2>1, QuietHeld
<1> QED
  BY ZenonT(40), <1>1, <1>2, <1>4, <1>5, Releases

\* record_deallocation after remove() gives back the slot of an allocation
\* that its client no longer has.
LEMMA RemoveReleasePromised ==
  ASSUME IndexInv, QuotaExact, NEW w \in Workers, RemoveRelease(w)
  PROVE  PromisedStep
<1> DEFINE p == ClientIp[src[w]]
<1>1. pc[w] = "release" /\ Decrement(p) /\ src[w] \in Clients
  BY DEF RemoveRelease, IndexInv, IdsInUse
<1>2. p \in IPs
  BY <1>1, LifecycleAssumption
<1>3. found[w] \in Ids \ allocations /\ client_addr[found[w]] = src[w]
  BY <1>1 DEF IndexInv, HandsInv
<1>4. found[w] \in ChargedTo(p)
  BY <1>1, <1>3 DEF ChargedTo, Charged, InHand
<1>5. Promise!SlotFree(p)
  BY ZenonT(40), <1>2, <1>3, <1>4, HeldCharged, SlotIsFree
<1>6. (\A c \in Clients : Held'[c] = Held[c]) /\ Used' = Used
  <2>1. QuietMove(w)
    BY ZenonT(40), QuietActions
  <2> QED
    BY ZenonT(40), <2>1, QuietHeld
<1> QED
  BY <1>1, <1>2, <1>5, <1>6, Releases

\* create_or_get: a new entry that by_client does not name yet.
LEMMA InsertPromised ==
  ASSUME IndexInv, NEW w \in Workers, CreateInsert(w)
  PROVE  PromisedStep
<1>t. counter \in Ids /\ counter \in Nat /\ counter' = counter + 1
  BY LifecycleAssumption DEF CreateInsert, IndexInv, TypeOK, Ids
<1>1. \A c \in Clients : by_client[c] # counter
  <2> SUFFICES ASSUME NEW c \in Clients PROVE by_client[c] # counter
    OBVIOUS
  <2>1. by_client[c] < counter /\ by_client[c] \in Ids \cup {None}
    BY DEF IndexInv, IdsInUse, TypeOK
  <2> QED
    BY <1>t, <2>1
<1>2. \A c \in Clients : Held'[c] = Held[c]
  BY <1>1 DEF CreateInsert, Held
<1>3. Unclaimed' = Unclaimed \cup {counter}
  BY <1>t DEF CreateInsert, Goto, IndexInv, TypeOK, Unclaimed, InHand
<1>4. /\ \A i \in Ids : i < counter' <=> i < counter \/ i = counter
      /\ ~(counter < counter)
  BY <1>t DEF Ids
<1>5. \A i : i \in Used' <=> i \in Used
  BY Zenon, <1>3, <1>4 DEF Used
<1>6. Used' = Used
  BY <1>5 DEF Used
<1> QED
  BY <1>2, <1>6, Invisible DEF CreateInsert

\* create_or_get: the claim of the by_client slot is where a client's
\* allocation begins; one that finds the slot taken shows nothing.
LEMMA ClaimPromised ==
  ASSUME IndexInv, QuotaExact, NEW w \in Workers, CreateClaim(w)
  PROVE  PromisedStep
<1> DEFINE c == src[w]
           i == found[w]
           p == ClientIp[c]
<1>1. pc[w] = "claim" /\ c \in Clients /\ i \in Ids /\ i \in allocations
  BY DEF CreateClaim, IndexInv, IdsInUse, HandsInv, TypeOK
<1>2. pc \in [Workers -> Labels] /\ found \in [Workers -> Ids \cup {None}]
      /\ by_client \in [Clients -> Ids \cup {None}]
  BY DEF IndexInv, TypeOK
<1>3. CASE ~Vacant(c)
  <2>1. Unclaimed' = Unclaimed
    BY <1>1, <1>2, <1>3 DEF CreateClaim, Goto, Keep, Unclaimed, InHand
  <2>2. UNCHANGED <<allocations, by_client, counter, allocation_count>>
    BY ZenonT(40), <1>3 DEF CreateClaim
  <2> QED
    BY <2>1, <2>2, Invisible DEF Held, Used
<1>4. CASE Vacant(c)
  <2>1. /\ by_client' = [by_client EXCEPT ![c] = i] /\ pc' = [pc EXCEPT ![w] = "recv"]
        /\ found' = [found EXCEPT ![w] = None]
        /\ UNCHANGED <<allocations, counter, allocation_count>>
    BY <1>4 DEF CreateClaim, Done, Goto
  <2>2. Held[c] = None
    BY SMTT(40), <1>1, <1>4, HeldAt DEF Vacant
  <2>3. i \in Unclaimed /\ i < counter
    BY <1>1 DEF Unclaimed, InHand, IndexInv, IdsInUse
  <2>4. Unclaimed' = Unclaimed \ {i}
    <3>1. \A v \in Workers : v # w /\ pc[v] \in {"claim", "rollback"} => found[v] # i
      BY <1>1 DEF IndexInv, HandsDisjoint
    <3>2. \A j : j \in Unclaimed' <=> j \in Unclaimed \ {i}
      BY <1>1, <1>2, <2>1, <3>1 DEF Unclaimed, InHand
    <3> QED
      BY Zenon, <3>2
  <2>5. Held' = [Held EXCEPT ![c] = i]
    <3>1. Held \in [Clients -> Ids \cup {None}] /\ Held' = [d \in Clients |-> Held'[d]]
      BY HeldAt DEF Held
    <3>2. \A d \in Clients : Held'[d] = IF d = c THEN i ELSE Held[d]
      BY <1>1, <1>2, <2>1 DEF Held
    <3> QED
      BY ZenonT(40), <1>1, <3>1, <3>2
  <2>6. Used' = Used \cup {i}
    BY SMTT(40), <1>1, <2>1, <2>3, <2>4 DEF Used
  <2>7. p \in IPs
    BY <1>1, LifecycleAssumption
  <2>8. w \in ReservedTo(p)
    BY <1>1 DEF ReservedTo, Reserved, Reserving
  <2>9. Promise!SlotFree(p)
    BY <2>7, <2>8, SlotIsFree
  <2>10. i \notin Used
    BY <2>3 DEF Used
  <2>11. Promise!Grant(c, i)
    BY ZenonT(40), <2>1, <2>2, <2>5, <2>6, <2>9, <2>10 DEF Promise!Grant
  <2> QED
    BY <1>1, <2>11 DEF PromisedStep, Promise!Next
<1> QED
  BY ZenonT(40), <1>3, <1>4

\* create_or_get: the loser's entry was never anybody's.
LEMMA RollbackPromised ==
  ASSUME IndexInv, NEW w \in Workers, CreateRollback(w)
  PROVE  PromisedStep
<1> DEFINE i == found[w]
<1>1. pc[w] = "rollback" /\ i \in Ids
  BY ZenonT(40) DEF CreateRollback, IndexInv, HandsInv, TypeOK
<1>2. /\ pc' = [pc EXCEPT ![w] = "cancel"] /\ allocations' = allocations \ {i}
      /\ UNCHANGED <<found, by_client, counter, allocation_count>>
  BY DEF CreateRollback, Goto, Keep
<1>3. i \in Unclaimed /\ i < counter
  BY <1>1 DEF Unclaimed, InHand, IndexInv, IdsInUse
<1>4. Unclaimed' = Unclaimed \ {i}
  <2>1. \A v \in Workers : v # w /\ pc[v] \in {"claim", "rollback"} => found[v] # i
    BY <1>1 DEF IndexInv, HandsDisjoint
  <2>2. pc \in [Workers -> Labels]
    BY DEF IndexInv, TypeOK
  <2>3. \A j : j \in Unclaimed' <=> j \in Unclaimed \ {i}
    BY ZenonT(40), <1>1, <1>2, <2>1, <2>2 DEF Unclaimed, InHand
  <2> QED
    BY Zenon, <2>3
<1>5. \A c \in Clients : by_client[c] # i
  BY <1>1, <1>3 DEF IndexInv, ByClientInv, Ids, None
<1>6. Held' = Held
  BY ZenonT(40), <1>2, <1>5 DEF Held
<1>7. Used' = Used \cup {i} /\ i \notin Used
  BY ZenonT(40), <1>1, <1>2, <1>3, <1>4 DEF Used
<1>8. Promise!Discard(i)
  BY ZenonT(40), <1>2, <1>6, <1>7 DEF Promise!Discard
<1> QED
  BY ZenonT(40), <1>1, <1>8 DEF PromisedStep, Promise!Next

----------------------------------------------------------------------------
(* The end of an allocation *)

\* The allocation of one client ends: every other client keeps its own.
LEMMA Ends ==
  ASSUME NEW c \in Clients, Held[c] # None, Held'[c] = None,
         \A d \in Clients \ {c} : Held'[d] = Held[d],
         UNCHANGED allocation_count, Used' = Used
  PROVE  PromisedStep
<1>1. Held' = [Held EXCEPT ![c] = None]
  BY ZenonT(40) DEF Held
<1>2. Promise!End(c)
  BY ZenonT(40), <1>1 DEF Promise!End
<1> QED
  BY <1>2 DEF PromisedStep, Promise!Next

\* remove() ends it with its access to the primary map.
LEMMA RemovePromised ==
  ASSUME IndexInv, NEW w \in Workers, Remove(w), RemovedHere(w)
  PROVE  PromisedStep
<1> DEFINE c == src[w]
           i == found[w]
<1>1. /\ pc[w] = "remove" /\ i \in allocations /\ i # cid
      /\ pc' = [pc EXCEPT ![w] = "unindex"] /\ allocations' = allocations \ {i}
      /\ UNCHANGED <<found, by_client, counter, allocation_count>>
  BY DEF Remove, RemovedHere, Goto, Keep, Accessible, IndexInv, HandsInv
<1>2. c \in Clients /\ i \in Ids /\ i # None /\ i \notin Unclaimed /\ client_addr[i] = c
  BY ZenonT(40), <1>1 DEF IndexInv, TypeOK, IdsInUse, HandsInv, Ids, None
<1>3. by_client[c] = i
  BY ZenonT(40), <1>1, <1>2 DEF IndexInv, Indexed
<1>4. Held[c] = i /\ Held'[c] = None
  BY ZenonT(40), <1>1, <1>2, <1>3 DEF Held
<1>5. \A d \in Clients \ {c} : by_client[d] # i
  BY ZenonT(40), <1>2 DEF IndexInv, ByClientInv
<1>6. \A d \in Clients \ {c} : Held'[d] = Held[d]
  BY ZenonT(40), <1>1, <1>5 DEF Held
<1>7. Unclaimed' = Unclaimed
  <2>1. pc \in [Workers -> Labels]
    BY DEF IndexInv, TypeOK
  <2> QED
    BY ZenonT(40), <1>1, <2>1 DEF Unclaimed, InHand
<1>8. Used' = Used
  BY <1>1, <1>7 DEF Used
<1> QED
  BY ZenonT(40), <1>1, <1>2, <1>4, <1>6, <1>8, Ends

\* remove(): the by_client entry names an allocation that is gone.
LEMMA RemoveUnindexPromised ==
  ASSUME IndexInv, NEW w \in Workers, RemoveUnindex(w)
  PROVE  PromisedStep
<1> DEFINE c == src[w]
           i == found[w]
<1>1. pc[w] = "unindex" /\ c \in Clients
  BY ZenonT(40) DEF RemoveUnindex, IndexInv, IdsInUse
<1>2. i \in Ids \ allocations /\ client_addr[i] = c /\ by_client[c] = i
  BY ZenonT(40), <1>1 DEF IndexInv, HandsInv
<1>3. /\ by_client' = [by_client EXCEPT ![c] = None] /\ pc' = [pc EXCEPT ![w] = "release"]
      /\ UNCHANGED <<found, allocations, counter, allocation_count>>
  BY ZenonT(40), <1>2 DEF RemoveUnindex, Goto, Keep
<1>4. None \notin allocations /\ by_client \in [Clients -> Ids \cup {None}]
      /\ pc \in [Workers -> Labels]
  BY DEF IndexInv, TypeOK, Ids, None
<1>5. \A d \in Clients : Held'[d] = Held[d]
  BY ZenonT(40), <1>1, <1>2, <1>3, <1>4 DEF Held
<1>6. Unclaimed' = Unclaimed
  BY <1>1, <1>3, <1>4 DEF Unclaimed, InHand
<1>7. Used' = Used
  BY <1>3, <1>6 DEF Used
<1> QED
  BY ZenonT(40), <1>3, <1>5, <1>7, Invisible

\* A reaping pass ends it with its access to by_client.
LEMMA CleanupUnindexPromised ==
  ASSUME IndexInv, CleanupUnindex
  PROVE  PromisedStep
<1> DEFINE c == client_addr[cid]
<1>1. /\ cpc = "unindex" /\ cid \in allocations \ Unclaimed
      /\ by_client' = [by_client EXCEPT ![c] = None]
      /\ UNCHANGED <<pc, found, allocations, counter, allocation_count>>
  BY ZenonT(40) DEF CleanupUnindex, workerVars, IndexInv, CleanerInv
<1>2. c \in Clients /\ cid \in Ids /\ None \notin Ids
  BY <1>1 DEF IndexInv, TypeOK, IdsInUse, Ids, None
<1>3. by_client[c] = cid
  BY ZenonT(40), <1>1, <1>2 DEF IndexInv, Indexed
<1>4. by_client \in [Clients -> Ids \cup {None}] /\ allocations \subseteq Ids
  BY DEF IndexInv, TypeOK
<1>5. Held[c] # None /\ Held'[c] = None
  BY ZenonT(40), <1>1, <1>2, <1>3, <1>4 DEF Held
<1>6. \A d \in Clients \ {c} : Held'[d] = Held[d]
  BY ZenonT(40), <1>1, <1>2, <1>4 DEF Held
<1>7. Used' = Used
  BY <1>1 DEF Used, Unclaimed, InHand
<1> QED
  BY ZenonT(40), <1>1, <1>2, <1>5, <1>6, <1>7, Ends

\* A reaping pass drops an entry that by_client no longer names.
LEMMA CleanupDropPromised ==
  ASSUME IndexInv, CleanupDrop
  PROVE  PromisedStep
<1>1. /\ cpc = "drop" /\ cid \in allocations /\ allocations' = allocations \ {cid}
      /\ UNCHANGED <<pc, found, by_client, counter, allocation_count>>
  BY DEF CleanupDrop, workerVars, IndexInv, CleanerInv
<1>2. cid # None
  BY <1>1 DEF IndexInv, TypeOK, Ids, None
<1>3. \A c \in Clients : by_client[c] # cid
  BY <1>1, <1>2 DEF IndexInv, ByClientInv
<1>4. \A c \in Clients : Held'[c] = Held[c]
  BY <1>1, <1>3 DEF Held
<1>5. Used' = Used
  BY <1>1 DEF Used, Unclaimed, InHand
<1> QED
  BY ZenonT(40), <1>1, <1>4, <1>5, Invisible

\* record_deallocation for an IP of removed_ips: the allocation is gone.
LEMMA CleanupReleasePromised ==
  ASSUME IndexInv, QuotaExact, NEW i \in Ids, CleanupRelease(i)
  PROVE  PromisedStep
<1> DEFINE p == ClientIp[client_addr[i]]
<1>1. /\ cpc = "release" /\ i \in removed /\ Decrement(p)
      /\ UNCHANGED <<pc, found, allocations, by_client, counter>>
  BY DEF CleanupRelease, tableVars, workerVars
<1>2. i \notin allocations /\ client_addr[i] \in Clients
  BY <1>1 DEF IndexInv, CleanerInv, IdsInUse, Ids, None
<1>3. p \in IPs
  BY ZenonT(40), <1>2, LifecycleAssumption
<1>4. i \in ChargedTo(p)
  BY <1>1 DEF ChargedTo, Charged
<1>5. Promise!SlotFree(p)
  BY ZenonT(40), <1>2, <1>3, <1>4, HeldCharged, SlotIsFree
<1>6. (\A c \in Clients : Held'[c] = Held[c]) /\ Used' = Used
  BY ZenonT(40), <1>1 DEF Held, Used, Unclaimed, InHand
<1> QED
  BY ZenonT(40), <1>1, <1>3, <1>5, <1>6, Releases

\* The rest of a pass, and the clock, show nothing.
LEMMA RestPromised ==
  ASSUME IndexInv,
         (\E i \in Ids : Reap(i) \/ Expire(i)) \/ CleanupReturn \/ UNCHANGED vars
  PROVE  PromisedStep
<1>1. UNCHANGED <<pc, found, allocations, by_client, counter, allocation_count>>
  BY ZenonT(40) DEF Reap, Expire, CleanupReturn, vars, tableVars, workerVars
<1>2. (\A c \in Clients : Held'[c] = Held[c]) /\ Used' = Used
  BY <1>1 DEF Held, Used, Unclaimed, InHand
<1> QED
  BY ZenonT(40), <1>1, <1>2, Invisible

----------------------------------------------------------------------------

\* Every step is one a client or a count shows, or invisible.
LEMMA NextPromised ==
  ASSUME IndexInv, QuotaExact, [Next]_vars
  PROVE  PromisedStep
<1>1. ASSUME NEW w \in Workers, WorkerStep(w)
      PROVE  PromisedStep
  BY ZenonT(40), <1>1, QuietPromised, AdmitPromised, InsertPromised, ClaimPromised, RollbackPromised,
     CancelPromised, RemovePromised, RemoveUnindexPromised, RemoveReleasePromised
  DEF WorkerStep
<1>2. ASSUME CleanerStep
      PROVE  PromisedStep
  BY ZenonT(40), <1>2, CleanupUnindexPromised, CleanupDropPromised, CleanupReleasePromised, RestPromised
  DEF CleanerStep
<1>3. ASSUME NEW i \in Ids, CleanupExpired(i) \/ CleanupIdle(i) \/ Expire(i)
      PROVE  PromisedStep
  BY <1>3, RestPromised DEF CleanupExpired, CleanupIdle
<1> QED
  BY ZenonT(40), <1>1, <1>2, <1>3, QuietPromised, RestPromised DEF Next

\* create_or_get, remove(), the reaping passes and the rate limiter together
\* keep what ClientAllocations promises: a client has at most one allocation,
\* no id is granted twice, and a grant has a slot of its own.
THEOREM PromiseKept == Spec => KeepsPromise
<1>1. Init => Promise!Init
  <2> SUFFICES ASSUME Init PROVE Promise!Init
    OBVIOUS
  <2>1. Held = [c \in Clients |-> None]
    BY DEF Init, Held
  <2>2. Used = {}
    BY DEF Init, Used, Ids
  <2> QED
    BY <2>1, <2>2 DEF Init, Promise!Init
<1>2. IndexInv /\ QuotaExact /\ [Next]_vars => PromisedStep
  BY ZenonT(40), NextPromised
<1> QED
  BY <1>1, <1>2, IndexCorrect, QuotaExactCorrect, PTL
  DEF Spec, KeepsPromise, Promise!Spec, PromisedStep

----------------------------------------------------------------------------
(* The limiter's slots *)

\* A step that a client or a count shows moves one IP's slots by one, within
\* the quota, or none, and with them what is owed for it.
LEMMA SlotsStep ==
  ASSUME IndexInv, QuotaExact, QuotaExact', PromisedStep, NEW p \in IPs
  PROVE  [Slots(p)!Next]_(Slots(p)!vars)
<1>1. allocation_count \in [IPs -> Nat]
  BY DEF IndexInv, TypeOK
<1>o. Owed(p) = allocation_count[p] /\ Owed(p)' = allocation_count'[p]
  BY ZenonT(40) DEF QuotaExact
<1>2. CASE allocation_count'[p] = allocation_count[p]
  BY ZenonT(40), <1>o, <1>2 DEF Slots!vars
<1>3. CASE \E q \in IPs : Promise!Reserve(q)
  <2>1. PICK q \in IPs : Promise!Reserve(q)
    BY <1>3
  <2>2. /\ MaxPerIp > 0 => allocation_count[q] < MaxPerIp
        /\ allocation_count' = [allocation_count EXCEPT ![q] = @ + 1]
    BY <2>1 DEF Promise!Reserve
  <2>3. CASE p # q
    BY <1>1, <1>2, <2>2, <2>3
  <2>4. CASE p = q
    <3>1. allocation_count'[p] = allocation_count[p] + 1
      BY <1>1, <2>2, <2>4
    <3> QED
      BY ZenonT(40), <1>o, <2>2, <2>4, <3>1 DEF Slots!Next, Slots!Reserve
  <2> QED
    BY <2>3, <2>4
<1>4. CASE \E q \in IPs : Promise!Release(q)
  <2>1. PICK q \in IPs : Promise!Release(q)
    BY <1>4
  <2>2. /\ Promise!SlotFree(q)
        /\ allocation_count' = [allocation_count EXCEPT ![q] = @ - 1]
    BY <2>1 DEF Promise!Release
  <2>3. allocation_count[q] > 0
    <3>1. IsFiniteSet(Promise!HeldBy(q))
      BY HeldCharged, SlotsFinite, FS_Subset
    <3>2. Cardinality(Promise!HeldBy(q)) \in Nat
      BY <3>1, FS_CardinalityType
    <3> QED
      BY <1>1, <2>2, <3>2, SlotFreeCounts
  <2>4. CASE p # q
    BY <1>1, <1>2, <2>2, <2>4
  <2>5. CASE p = q
    <3>1. allocation_count'[p] = allocation_count[p] - 1
      BY <1>1, <2>2, <2>5
    <3> QED
      BY ZenonT(40), <1>o, <2>3, <2>5, <3>1 DEF Slots!Next, Slots!Release
  <2> QED
    BY <2>4, <2>5
<1> QED
  BY ZenonT(40), <1>2, <1>3, <1>4
  DEF PromisedStep, Promise!Next, Promise!vars, Promise!Grant, Promise!End, Promise!Discard

\* The handlers, remove() and the reaping passes use each IP's limiter as
\* QuotaSlots allows, which RateLimiter implements: a slot is taken only below
\* the quota and together with the allocation or reservation it stands for, and
\* each of those gives its slot back exactly once.
THEOREM LimiterUsed == Spec => KeepsSlots
<1> DEFINE SlotSteps == \A p \in IPs : [Slots(p)!Next]_(Slots(p)!vars)
<1>1. Init /\ QuotaExact => \A p \in IPs : Slots(p)!Init
  BY ZenonT(40) DEF Init, Slots!Init, QuotaExact
<1>2. IndexInv /\ QuotaExact /\ QuotaExact' /\ [Next]_vars => [SlotSteps]_vars
  BY ZenonT(40), NextPromised, SlotsStep
<1> QED
  BY <1>1, <1>2, IndexCorrect, QuotaExactCorrect, PTL DEF Spec, KeepsSlots
============================================================================
