------------------------- MODULE PeerRoutingProofs -------------------------
(***************************************************************************)
(* Two results about PeerRouting, for any number of allocations, peers and *)
(* addresses, with the receive loop and the cleanup task on two threads:   *)
(* by_permission and by_peer_tuple agree with the allocations they index,  *)
(* but for the entries that two named races leave behind; and the cap on   *)
(* permissions holds.                                                      *)
(***************************************************************************)
EXTENDS PeerRouting, FiniteSetTheorems, TLAPS

----------------------------------------------------------------------------
(* The indices *)

\* The receive loop has granted the permission and not yet indexed it.
Pending(i, p) ==
  \/ pc = "index" /\ i = id /\ p \in todo
  \/ pc = "granted" /\ i = id /\ p = RelayIp

\* What the request, the packet and the pass in hand are about.  A reaping pass
\* takes an allocation from under the receive loop only where outrun records it,
\* and never from under a guard.
HandInv ==
  /\ pc \in {"index", "grant", "granted", "register", "know", "unindex"} => id \in Allocs
  /\ pc \in {"lookup", "narrow", "register", "know", "deliver"} => addr \in Addrs
  /\ pc = "index" => id \in allocations /\ Accessible(id)
  /\ pc \in {"grant", "granted"} => id \in outrun \/ (id \in allocations /\ Accessible(id))
  /\ pc \in {"register", "know"} => id \in allocations \cup outrun
  /\ pc \in {"narrow", "register", "know", "deliver"} => chosen \subseteq allocations \cup outrun
  /\ cpc \in {"reap", "prune"} => cid \in allocations

\* A permission that waits to be indexed is live and stays so, unless its
\* allocation was reaped meanwhile.
FreshInv ==
  /\ pc = "index" => \A p \in todo : p \in live[id] /\ <<id, p>> \in fresh
  /\ pc = "granted" => id \in outrun \/ (RelayIp \in live[id] /\ <<id, RelayIp>> \in fresh)

\* A live permission is indexed, waits to be, or was overtaken; and one that
\* cleanup_permissions is about to unindex waits or was overtaken.
IndexedInv ==
  \A i \in allocations : \A p \in live[i] :
    /\ i \in by_permission[p] \/ <<i, p>> \in overtaken \/ Pending(i, p)
    /\ Condemned(i, p) => <<i, p>> \in overtaken \/ Pending(i, p)

Owner(i) == i \in allocations \/ (pc = "unindex" /\ i = id)

\* What is indexed is in its owner's permissions, where the end of the owner
\* will find it, or about to be taken out by cleanup_permissions, or the relay
\* IP of an allocation reaped meanwhile.
OwnedInv ==
  \A p \in IPs : \A i \in by_permission[p] :
    \/ Owner(i) /\ p \in permissions[i]
    \/ Condemned(i, p)
    \/ p = RelayIp /\ i \in outrun

\* A tuple is in its owner's known_peers, or about to be, or its owner was
\* reaped meanwhile.
TuplesInv ==
  \A a \in Addrs : by_peer_tuple[a] # None =>
    \/ Owner(by_peer_tuple[a]) /\ a \in known_peers[by_peer_tuple[a]]
    \/ by_peer_tuple[a] \in outrun
    \/ pc = "know" /\ a = addr /\ by_peer_tuple[a] = id

RoutingInv == TypeOK /\ HandInv /\ FreshInv /\ IndexedInv /\ OwnedInv /\ TuplesInv

LEMMA RoutingInit ==
  Init => RoutingInv
<1> SUFFICES ASSUME Init PROVE RoutingInv
  OBVIOUS
<1>1. TypeOK
  BY ZenonT(40) DEF Init, TypeOK
<1>2. HandInv /\ FreshInv
  BY DEF Init, HandInv, FreshInv
<1>3. IndexedInv /\ OwnedInv /\ TuplesInv
  BY DEF Init, IndexedInv, OwnedInv, TuplesInv
<1> QED
  BY <1>1, <1>2, <1>3 DEF RoutingInv

\* The table, the indices and the pass stay; the request moves between places
\* where it owes them nothing.
LEMMA RoutingStay ==
  ASSUME RoutingInv, UNCHANGED <<tableVars, indexVars, historyVars, cleanerVars>>,
         TypeOK', HandInv',
         pc \notin {"index", "granted", "know", "unindex"},
         pc' \notin {"index", "granted", "know", "unindex"}
  PROVE  RoutingInv'
<1>u. UNCHANGED <<allocations, permissions, live, known_peers, by_permission, by_peer_tuple,
                  overtaken, outrun, cpc, cid, cips>>
  BY DEF tableVars, indexVars, historyVars, cleanerVars
<1>1. IndexedInv'
  BY ZenonT(40), <1>u DEF RoutingInv, IndexedInv, Pending, Condemned
<1>2. OwnedInv'
  BY <1>u DEF RoutingInv, OwnedInv, Owner, Condemned
<1>3. TuplesInv'
  BY <1>u DEF RoutingInv, TuplesInv, Owner
<1>4. FreshInv'
  BY DEF FreshInv
<1> QED
  BY <1>1, <1>2, <1>3, <1>4 DEF RoutingInv

\* The handler is done and returns to recv_from.
LEMMA RestTypes ==
  ASSUME TypeOK, Rest
  PROVE  /\ pc' = "idle" /\ id' = None /\ ips' = <<>> /\ todo' = {}
         /\ addr' \in Addrs \cup {None} /\ kind' \in Kinds \cup {None}
         /\ chosen' = {} /\ skip' = FALSE
BY DEF Rest

LEMMA RoutingRest ==
  ASSUME RoutingInv, UNCHANGED <<tableVars, indexVars, historyVars, cleanerVars>>, Rest,
         pc \notin {"index", "granted", "know", "unindex"}
  PROVE  RoutingInv'
<1>1. TypeOK'
  BY ZenonT(40), RestTypes DEF RoutingInv, TypeOK, tableVars, indexVars, historyVars, cleanerVars
<1>2. HandInv'
  BY DEF RoutingInv, HandInv, Rest, tableVars, cleanerVars
<1> QED
  BY <1>1, <1>2, RoutingStay DEF Rest

\* The first step of a request or a packet.
LEMMA RoutingBegin ==
  ASSUME RoutingInv,
         \/ \E i \in Allocs : \E req \in RequestsOf(i) : CreatePermission(i, req)
         \/ \E i \in Pinging : BindingRequest(i)
         \/ \E a \in Addrs, k \in Kinds : PeerPacket(a, k)
  PROVE  RoutingInv'
<1>t. TypeOK
  BY DEF RoutingInv
<1>1. ASSUME NEW i \in Allocs, NEW req \in RequestsOf(i), CreatePermission(i, req)
      PROVE  RoutingInv'
  <2>0. req \in Requests
    BY DEF RequestsOf
  <2>1. TypeOK'
    BY ZenonT(40), <1>t, <1>1, <2>0
       DEF CreatePermission, TypeOK, tableVars, indexVars, historyVars, cleanerVars, packetVars
  <2>2. HandInv'
    BY <1>1 DEF CreatePermission, RoutingInv, HandInv, tableVars, cleanerVars
  <2> QED
    BY ZenonT(40), <1>1, <2>1, <2>2, RoutingStay DEF CreatePermission
<1>2. ASSUME NEW i \in Pinging, BindingRequest(i)
      PROVE  RoutingInv'
  <2>0. i \in Allocs
    BY RoutingAssumption
  <2>1. TypeOK'
    BY ZenonT(40), <1>t, <1>2, <2>0
       DEF BindingRequest, TypeOK, tableVars, indexVars, historyVars, cleanerVars, packetVars
  <2>2. HandInv'
    BY <1>2, <2>0 DEF BindingRequest, RoutingInv, HandInv, Accessible, tableVars, historyVars,
                      cleanerVars
  <2> QED
    BY ZenonT(40), <1>2, <2>1, <2>2, RoutingStay DEF BindingRequest
<1>3. ASSUME NEW a \in Addrs, NEW k \in Kinds, PeerPacket(a, k)
      PROVE  RoutingInv'
  <2>1. TypeOK'
    <3>1. UNCHANGED <<allocations, permissions, live, fresh, known_peers, by_permission,
                      by_peer_tuple, overtaken, outrun, cpc, cid, cips, ips, todo>>
      BY <1>3 DEF PeerPacket, tableVars, indexVars, historyVars, cleanerVars
    <3>2. /\ addr' \in Addrs /\ kind' \in Kinds /\ pc' \in {"register", "lookup"}
          /\ id' \in Allocs \cup {None} /\ chosen' \subseteq Allocs /\ skip' \in BOOLEAN
      <4>1. /\ by_peer_tuple[a] \in Allocs \cup {None} /\ id \in Allocs \cup {None}
            /\ chosen \subseteq Allocs /\ skip \in BOOLEAN
        BY <1>t DEF TypeOK
      <4> QED
        BY ZenonT(40), <1>3, <4>1 DEF PeerPacket
    <3> QED
      BY <1>t, <3>1, <3>2 DEF TypeOK
  <2>2. by_peer_tuple[a] # None => by_peer_tuple[a] \in (allocations \cup outrun) \cap Allocs
    BY <1>t, <1>3 DEF PeerPacket, RoutingInv, TuplesInv, Owner, TypeOK
  <2>3. HandInv'
    <3>1. /\ addr' = a /\ UNCHANGED <<allocations, outrun, cpc, cid>>
          /\ \/ pc' = "register" /\ id' \in allocations \cup outrun /\ id' \in Allocs /\ chosen' = {id'}
             \/ pc' = "lookup"
      BY <1>3, <2>2 DEF PeerPacket, tableVars, historyVars, cleanerVars
    <3> QED
      BY <3>1 DEF RoutingInv, HandInv
  <2>4. pc = "idle" /\ pc' \in {"register", "lookup"}
    BY <1>3 DEF PeerPacket
  <2> QED
    BY ZenonT(40), <1>3, <2>1, <2>3, <2>4, RoutingStay DEF PeerPacket
<1> QED
  BY <1>1, <1>2, <1>3

\* The grants.
LEMMA RoutingTryAdd ==
  ASSUME RoutingInv, TryAdd
  PROVE  RoutingInv'
<1>1. CASE UNCHANGED tableVars /\ Rest
  BY <1>1, RoutingRest DEF TryAdd
<1>2. CASE ~(UNCHANGED tableVars /\ Rest)
  <2>1. /\ pc = "perm" /\ id \in allocations /\ Accessible(id) /\ Grant(id, Elems(ips))
        /\ pc' = "index" /\ todo' = Elems(ips) /\ ips' = <<>>
        /\ UNCHANGED <<allocations, known_peers, id, packetVars, indexVars, historyVars, cleanerVars>>
    BY <1>2 DEF TryAdd
  <2>2. Elems(ips) \subseteq IPs
    <3>1. CASE ips \in Requests
      BY <3>1, RoutingAssumption DEF Requests, Elems
    <3>2. CASE ips = <<>>
      BY <3>2 DEF Elems
    <3> QED
      BY <3>1, <3>2 DEF RoutingInv, TypeOK
  <2> DEFINE E == Elems(ips)
  <2>3. /\ permissions' = [permissions EXCEPT ![id] = @ \cup E]
        /\ live' = [live EXCEPT ![id] = @ \cup E]
        /\ fresh' = fresh \cup ({id} \X E) /\ todo' = E /\ E \subseteq IPs
    BY <2>1, <2>2 DEF Grant
  <2> HIDE DEF E
  <2>4. id \in Allocs
    BY ZenonT(40), <2>1 DEF RoutingInv, TypeOK
  <2>u. UNCHANGED <<allocations, known_peers, by_permission, by_peer_tuple, overtaken, outrun,
                    id, addr, kind, chosen, skip, cpc, cid, cips>>
    BY <2>1 DEF packetVars, indexVars, historyVars, cleanerVars
  <2>5. TypeOK'
    <3>1. /\ permissions' \in [Allocs -> SUBSET IPs] /\ live' \in [Allocs -> SUBSET IPs]
          /\ \A i \in Allocs : live'[i] \subseteq permissions'[i]
      BY <2>3, <2>4 DEF RoutingInv, TypeOK
    <3>2. fresh' \subseteq Allocs \X IPs
      BY <2>3, <2>4 DEF RoutingInv, TypeOK
    <3> QED
      BY ZenonT(40), <2>1, <2>3, <2>u, <3>1, <3>2 DEF RoutingInv, TypeOK
  <2>6. HandInv'
    BY <2>1, <2>4, <2>u DEF RoutingInv, HandInv, Accessible
  <2>7. \A i \in Allocs : /\ permissions[i] \subseteq permissions'[i]
                          /\ \A p \in live'[i] : p \in live[i] \/ (i = id /\ p \in E)
    BY <2>3, <2>4 DEF RoutingInv, TypeOK
  <2>8. FreshInv'
    BY <2>1, <2>3, <2>4, <2>u DEF RoutingInv, FreshInv, TypeOK
  <2>9. allocations \subseteq Allocs /\ by_permission \in [IPs -> SUBSET Allocs]
    BY ZenonT(40) DEF RoutingInv, TypeOK
  <2>10. IndexedInv'
    BY ZenonT(40), <2>1, <2>3, <2>7, <2>9, <2>u DEF RoutingInv, IndexedInv, Pending, Condemned
  <2>11. OwnedInv'
    BY ZenonT(40), <2>1, <2>7, <2>9, <2>u DEF RoutingInv, OwnedInv, Owner, Condemned
  <2>12. TuplesInv'
    BY ZenonT(40), <2>1, <2>u DEF RoutingInv, TuplesInv, Owner
  <2> QED
    BY <2>5, <2>6, <2>8, <2>10, <2>11, <2>12 DEF RoutingInv
<1> QED
  BY <1>1, <1>2

LEMMA RoutingAddPermission ==
  ASSUME RoutingInv, AddPermission
  PROVE  RoutingInv'
<1>1. /\ pc = "grant" /\ pc' = "granted" /\ id \in Allocs /\ Accessible(id)
      /\ UNCHANGED <<allocations, known_peers, by_permission, by_peer_tuple, overtaken, outrun,
                     id, ips, todo, addr, kind, chosen, skip, cpc, cid, cips>>
  BY DEF AddPermission, RoutingInv, HandInv, packetVars, indexVars, historyVars, cleanerVars
<1>2. \/ /\ id \in allocations
         /\ permissions' = [permissions EXCEPT ![id] = @ \cup {RelayIp}]
         /\ live' = [live EXCEPT ![id] = @ \cup {RelayIp}]
         /\ fresh' = fresh \cup ({id} \X {RelayIp})
      \/ /\ id \notin allocations /\ id \in outrun
         /\ UNCHANGED <<permissions, live, fresh>>
  BY ZenonT(40), <1>1 DEF AddPermission, Grant, RoutingInv, HandInv
<1>t. /\ permissions \in [Allocs -> SUBSET IPs] /\ live \in [Allocs -> SUBSET IPs]
      /\ \A i \in Allocs : live[i] \subseteq permissions[i]
      /\ fresh \subseteq Allocs \X IPs /\ RelayIp \in IPs
      /\ allocations \subseteq Allocs /\ by_permission \in [IPs -> SUBSET Allocs]
  BY RoutingAssumption DEF RoutingInv, TypeOK
<1>3. TypeOK'
  <2>1. /\ permissions' \in [Allocs -> SUBSET IPs] /\ live' \in [Allocs -> SUBSET IPs]
        /\ \A i \in Allocs : live'[i] \subseteq permissions'[i]
    BY <1>1, <1>2, <1>t
  <2>2. fresh' \subseteq Allocs \X IPs
    BY <1>1, <1>2, <1>t
  <2> QED
    BY ZenonT(40), <1>1, <2>1, <2>2 DEF RoutingInv, TypeOK
<1>4. HandInv'
  BY <1>1 DEF RoutingInv, HandInv, Accessible
<1>5. \A i \in Allocs : /\ permissions[i] \subseteq permissions'[i]
                        /\ \A p \in live'[i] : p \in live[i] \/ (i = id /\ p = RelayIp)
  BY <1>1, <1>2, <1>t
<1>6. FreshInv'
  BY <1>1, <1>2, <1>t DEF FreshInv
<1>7. IndexedInv'
  BY ZenonT(40), <1>1, <1>5, <1>t DEF RoutingInv, IndexedInv, Pending, Condemned
<1>8. OwnedInv'
  BY ZenonT(40), <1>1, <1>5, <1>t DEF RoutingInv, OwnedInv, Owner, Condemned
<1>9. TuplesInv'
  BY ZenonT(40), <1>1 DEF RoutingInv, TuplesInv, Owner
<1> QED
  BY <1>3, <1>4, <1>6, <1>7, <1>8, <1>9 DEF RoutingInv

\* The indexing of one IP, whoever was quicker.
LEMMA RoutingIndex ==
  ASSUME RoutingInv, NEW p \in IPs, IndexPermission(id, p), Pending(id, p),
         UNCHANGED <<tableVars, cleanerVars>>,
         \/ Rest /\ (pc = "index" => todo = {p})
         \/ pc = "index" /\ todo' = todo \ {p} /\ UNCHANGED <<pc, id, ips, packetVars>>
  PROVE  RoutingInv'
<1>1. /\ pc \in {"index", "granted"} /\ id \in Allocs
      /\ by_permission' = [by_permission EXCEPT ![p] = @ \cup {id}]
      /\ overtaken' = IF Condemned(id, p) THEN overtaken \cup {<<id, p>>}
                                          ELSE overtaken \ {<<id, p>>}
      /\ UNCHANGED <<allocations, permissions, live, fresh, known_peers, by_peer_tuple, outrun,
                     cpc, cid, cips>>
  BY DEF Pending, IndexPermission, RoutingInv, HandInv, tableVars, cleanerVars
<1>t. /\ by_permission \in [IPs -> SUBSET Allocs] /\ overtaken \subseteq Allocs \X IPs
      /\ allocations \subseteq Allocs /\ live \in [Allocs -> SUBSET IPs]
      /\ permissions \in [Allocs -> SUBSET IPs]
      /\ \A i \in Allocs : live[i] \subseteq permissions[i]
  BY ZenonT(40) DEF RoutingInv, TypeOK
<1>2. \/ Rest
      \/ pc = "index" /\ todo' = todo \ {p} /\ UNCHANGED <<pc, id, ips, addr, kind, chosen, skip>>
  BY DEF packetVars
<1>3. TypeOK'
  <2>1. by_permission' \in [IPs -> SUBSET Allocs]
    BY ZenonT(40), <1>1, <1>t
  <2>2. overtaken' \subseteq Allocs \X IPs
    BY <1>1, <1>t
  <2>3. CASE Rest
    BY ZenonT(40), <1>1, <2>1, <2>2, <2>3, RestTypes DEF RoutingInv, TypeOK
  <2>4. CASE todo' = todo \ {p} /\ UNCHANGED <<pc, id, ips, addr, kind, chosen, skip>>
    BY ZenonT(40), <1>1, <2>1, <2>2, <2>4 DEF RoutingInv, TypeOK
  <2> QED
    BY <1>2, <2>3, <2>4
<1>4. HandInv'
  BY <1>1, <1>2 DEF RoutingInv, HandInv, Accessible, Rest
<1>5. FreshInv'
  BY <1>1, <1>2 DEF RoutingInv, FreshInv, Rest
<1>6. /\ \A i \in Allocs, q \in IPs : i \in by_permission'[q] <=>
                                        (i \in by_permission[q] \/ (i = id /\ q = p))
      /\ \A i \in Allocs, q \in IPs : i # id \/ q # p => (<<i, q>> \in overtaken' <=> <<i, q>> \in overtaken)
      /\ Condemned(id, p) => <<id, p>> \in overtaken'
  <2>1. \A i \in Allocs, q \in IPs : i \in by_permission'[q] <=>
                                        (i \in by_permission[q] \/ (i = id /\ q = p))
    BY <1>1, <1>t
  <2>2. /\ \A i \in Allocs, q \in IPs : i # id \/ q # p => (<<i, q>> \in overtaken' <=> <<i, q>> \in overtaken)
        /\ Condemned(id, p) => <<id, p>> \in overtaken'
    BY <1>1
  <2> QED
    BY <2>1, <2>2
<1>7. IndexedInv'
  <2> SUFFICES ASSUME NEW i \in allocations, NEW q \in live[i]
               PROVE  /\ (i \in by_permission[q] \/ <<i, q>> \in overtaken \/ Pending(i, q))'
                      /\ Condemned(i, q)' => (<<i, q>> \in overtaken \/ Pending(i, q))'
    BY ZenonT(40), <1>1 DEF IndexedInv
  <2>1. i \in Allocs /\ q \in IPs /\ (Condemned(i, q)' <=> Condemned(i, q))
    BY <1>1, <1>t DEF Condemned
  <2>2. CASE i = id /\ q = p
    BY ZenonT(40), <1>6, <2>1, <2>2
  <2>3. CASE i # id \/ q # p
    <3>1. Pending(i, q) => Pending(i, q)'
      BY <1>1, <1>2, <2>3 DEF Pending, Rest
    <3> QED
      BY ZenonT(40), <1>6, <2>1, <2>3, <3>1 DEF RoutingInv, IndexedInv
  <2> QED
    BY <2>2, <2>3
<1>8. OwnedInv'
  <2> SUFFICES ASSUME NEW q \in IPs, NEW i \in by_permission'[q]
               PROVE  (\/ Owner(i) /\ q \in permissions[i]
                       \/ Condemned(i, q)
                       \/ q = RelayIp /\ i \in outrun)'
    BY ZenonT(40) DEF OwnedInv
  <2>1. i \in Allocs
    BY ZenonT(40), <1>3 DEF TypeOK
  <2>2. CASE i \in by_permission[q]
    BY ZenonT(40), <1>1, <2>2 DEF RoutingInv, OwnedInv, Owner, Condemned
  <2>3. CASE i = id /\ q = p
    <3>1. (id \in outrun /\ p = RelayIp) \/ (id \in allocations /\ p \in live[id])
      BY ZenonT(40) DEF RoutingInv, HandInv, FreshInv, Pending
    <3> QED
      BY ZenonT(40), <1>1, <1>t, <2>3, <3>1 DEF Owner
  <2> QED
    BY ZenonT(40), <1>6, <2>1, <2>2, <2>3
<1>9. TuplesInv'
  BY ZenonT(40), <1>1 DEF RoutingInv, TuplesInv, Owner
<1> QED
  BY <1>3, <1>4, <1>5, <1>7, <1>8, <1>9 DEF RoutingInv

LEMMA RoutingIndexNext ==
  ASSUME RoutingInv, \/ AddPermissionIndex \/ \E p \in IPs : IndexNext(p)
  PROVE  RoutingInv'
<1>1. CASE AddPermissionIndex
  <2>1. Pending(id, RelayIp) /\ pc # "index" /\ RelayIp \in IPs
    BY <1>1, RoutingAssumption DEF AddPermissionIndex, Pending
  <2> QED
    BY ZenonT(40), <1>1, <2>1, RoutingIndex DEF AddPermissionIndex
<1>2. ASSUME NEW p \in IPs, IndexNext(p)
      PROVE  RoutingInv'
  <2>1. Pending(id, p)
    BY <1>2 DEF IndexNext, Pending
  <2> QED
    BY ZenonT(40), <1>2, <2>1, RoutingIndex DEF IndexNext
<1> QED
  BY <1>1, <1>2

\* The rest of a peer's packet.
LEMMA RoutingLookup ==
  ASSUME RoutingInv, LookupByIp
  PROVE  RoutingInv'
<1>1. /\ pc = "lookup" /\ addr \in Addrs
      /\ UNCHANGED <<tableVars, indexVars, historyVars, cleanerVars>>
  BY ZenonT(40) DEF LookupByIp, RoutingInv, HandInv
<1> DEFINE C == by_permission[AddrIp[addr]]
<1>2. C \subseteq allocations \cup outrun /\ C \subseteq Allocs
  <2>1. AddrIp[addr] \in IPs /\ C \subseteq Allocs
    BY <1>1, RoutingAssumption DEF RoutingInv, TypeOK
  <2>2. ASSUME NEW i \in C PROVE i \in allocations \cup outrun
    <3>1. Condemned(i, AddrIp[addr]) => i \in allocations
      BY ZenonT(40) DEF Condemned, RoutingInv, HandInv
    <3>2. Owner(i) => i \in allocations
      BY ZenonT(40), <1>1 DEF Owner
    <3> QED
      BY ZenonT(40), <2>1, <2>2, <3>1, <3>2 DEF RoutingInv, OwnedInv
  <2> QED
    BY ZenonT(40), <2>1, <2>2
<1>3. CASE Rest
  BY <1>1, <1>3, RoutingRest
<1>4. CASE ~Rest
  <2>1. /\ chosen' = C /\ UNCHANGED <<ips, todo, addr, kind>>
        /\ pc' \in {"register", "deliver", "narrow"}
        /\ pc' = "register" => id' \in C
        /\ pc' # "register" => id' = id
    BY <1>4 DEF LookupByIp
  <2>2. skip' \in BOOLEAN
    BY ZenonT(40), <1>4 DEF LookupByIp
  <2> HIDE DEF C
  <2>u. UNCHANGED <<allocations, permissions, live, fresh, known_peers, by_permission,
                    by_peer_tuple, overtaken, outrun, cpc, cid, cips>>
    BY ZenonT(40), <1>1 DEF tableVars, indexVars, historyVars, cleanerVars
  <2>3. TypeOK'
    BY ZenonT(40), <1>2, <2>1, <2>2, <2>u DEF RoutingInv, TypeOK
  <2>4. HandInv'
    BY <1>1, <1>2, <2>1, <2>u DEF RoutingInv, HandInv
  <2> QED
    BY ZenonT(40), <1>1, <2>1, <2>3, <2>4, RoutingStay
<1> QED
  BY ZenonT(40), <1>3, <1>4

LEMMA RoutingNarrow ==
  ASSUME RoutingInv, Narrow
  PROVE  RoutingInv'
<1>1. /\ pc = "narrow" /\ addr \in Addrs /\ chosen \subseteq allocations \cup outrun
      /\ UNCHANGED <<tableVars, indexVars, historyVars, cleanerVars, ips, todo, addr, kind, skip>>
      /\ pc' \in {"register", "deliver"}
      /\ pc' = "register" => id' \in chosen'
      /\ pc' # "register" => id' = id
  BY DEF Narrow, RoutingInv, HandInv
<1>2. chosen' \subseteq chosen
  <2>1. PICK with_channel \in SUBSET (chosen \cap allocations) :
          chosen' = LET with_known == {i \in (chosen \cap allocations) \ with_channel :
                                         addr \in known_peers[i]}
                    IN  CASE with_channel # {} -> with_channel
                          [] with_channel = {} /\ with_known # {} -> with_known
                          [] OTHER -> chosen
    BY ZenonT(40) DEF Narrow
  <2> QED
    BY <2>1
<1>u. UNCHANGED <<allocations, permissions, live, fresh, known_peers, by_permission,
                  by_peer_tuple, overtaken, outrun, cpc, cid, cips, ips, todo, addr, kind, skip>>
  BY ZenonT(40), <1>1 DEF tableVars, indexVars, historyVars, cleanerVars
<1>3. chosen \subseteq Allocs
  BY ZenonT(40) DEF RoutingInv, TypeOK
<1>4. TypeOK'
  BY ZenonT(40), <1>1, <1>2, <1>3, <1>u DEF RoutingInv, TypeOK
<1>5. HandInv'
  BY <1>1, <1>2, <1>3, <1>u DEF RoutingInv, HandInv
<1> QED
  BY ZenonT(40), <1>1, <1>4, <1>5, RoutingStay

LEMMA RoutingRegister ==
  ASSUME RoutingInv, Register
  PROVE  RoutingInv'
<1>1. /\ pc = "register" /\ pc' = "know" /\ addr \in Addrs /\ id \in Allocs
      /\ by_peer_tuple' = [by_peer_tuple EXCEPT ![addr] = id]
      /\ UNCHANGED <<allocations, permissions, live, fresh, known_peers, by_permission,
                     overtaken, outrun, cpc, cid, cips, id, ips, todo, addr, kind, chosen, skip>>
  BY ZenonT(40) DEF Register, RoutingInv, HandInv, tableVars, historyVars, cleanerVars, packetVars
<1>2. TypeOK'
  <2>1. by_peer_tuple' \in [Addrs -> Allocs \cup {None}]
    BY ZenonT(40), <1>1 DEF RoutingInv, TypeOK
  <2> QED
    BY ZenonT(40), <1>1, <2>1 DEF RoutingInv, TypeOK
<1>3. HandInv'
  BY ZenonT(40), <1>1 DEF RoutingInv, HandInv
<1>4. FreshInv'
  BY ZenonT(40), <1>1 DEF FreshInv
<1>5. IndexedInv'
  BY ZenonT(40), <1>1 DEF RoutingInv, IndexedInv, Pending, Condemned
<1>6. OwnedInv'
  BY ZenonT(40), <1>1 DEF RoutingInv, OwnedInv, Owner, Condemned
<1>7. TuplesInv'
  BY ZenonT(40), <1>1 DEF RoutingInv, TuplesInv, Owner, TypeOK
<1> QED
  BY <1>2, <1>3, <1>4, <1>5, <1>6, <1>7 DEF RoutingInv

LEMMA RoutingKnown ==
  ASSUME RoutingInv, RegisterKnown
  PROVE  RoutingInv'
<1>1. /\ pc = "know" /\ pc' = "deliver" /\ addr \in Addrs
      /\ id \in allocations \cup outrun /\ id \in Allocs
      /\ UNCHANGED <<allocations, permissions, live, fresh, by_permission, by_peer_tuple,
                     overtaken, outrun, cpc, cid, cips, id, ips, todo, addr, kind, chosen, skip>>
  BY ZenonT(40) DEF RegisterKnown, RoutingInv, HandInv, indexVars, historyVars, cleanerVars, packetVars
<1>2. known_peers' = IF id \in allocations
                       THEN [known_peers EXCEPT ![id] = @ \cup {addr}] ELSE known_peers
  BY ZenonT(40) DEF RegisterKnown
<1>t. known_peers \in [Allocs -> SUBSET Addrs] /\ by_peer_tuple \in [Addrs -> Allocs \cup {None}]
  BY ZenonT(40) DEF RoutingInv, TypeOK
<1>3. /\ known_peers' \in [Allocs -> SUBSET Addrs]
      /\ \A i \in Allocs : known_peers[i] \subseteq known_peers'[i]
      /\ id \in allocations => addr \in known_peers'[id]
  BY <1>1, <1>2, <1>t
<1>4. TypeOK'
  BY ZenonT(40), <1>1, <1>3 DEF RoutingInv, TypeOK
<1>5. HandInv'
  BY ZenonT(40), <1>1 DEF RoutingInv, HandInv
<1>6. FreshInv'
  BY ZenonT(40), <1>1 DEF FreshInv
<1>7. IndexedInv'
  BY ZenonT(40), <1>1 DEF RoutingInv, IndexedInv, Pending, Condemned
<1>8. OwnedInv'
  BY ZenonT(40), <1>1 DEF RoutingInv, OwnedInv, Owner, Condemned
<1>9. TuplesInv'
  <2> SUFFICES ASSUME NEW a \in Addrs, by_peer_tuple[a] # None
               PROVE  \/ by_peer_tuple[a] \in allocations /\ a \in known_peers'[by_peer_tuple[a]]
                      \/ by_peer_tuple[a] \in outrun
    BY ZenonT(40), <1>1 DEF TuplesInv, Owner
  <2>1. by_peer_tuple[a] \in Allocs
    BY ZenonT(40), <1>t
  <2> QED
    BY ZenonT(40), <1>1, <1>3, <2>1 DEF RoutingInv, TuplesInv, Owner
<1> QED
  BY <1>4, <1>5, <1>6, <1>7, <1>8, <1>9 DEF RoutingInv

\* remove: the end of an allocation in the receive loop.
LEMMA RoutingRemove ==
  ASSUME RoutingInv, NEW i \in Allocs, Remove(i)
  PROVE  RoutingInv'
<1>1. /\ pc = "idle" /\ pc' = "unindex" /\ id' = i /\ cid # i
      /\ allocations' = allocations \ {i}
      /\ UNCHANGED <<permissions, live, fresh, known_peers, by_permission, by_peer_tuple,
                     overtaken, outrun, cpc, cid, cips, ips, todo, addr, kind, chosen, skip>>
  BY ZenonT(40) DEF Remove, indexVars, historyVars, cleanerVars, packetVars
<1>2. TypeOK'
  BY ZenonT(40), <1>1 DEF RoutingInv, TypeOK
<1>3. HandInv'
  BY ZenonT(40), <1>1 DEF RoutingInv, HandInv
<1>4. FreshInv'
  BY ZenonT(40), <1>1 DEF FreshInv
<1>5. IndexedInv'
  BY ZenonT(40), <1>1 DEF RoutingInv, IndexedInv, Pending, Condemned
<1>6. \A j : Owner(j) => Owner(j)'
  BY ZenonT(40), <1>1 DEF Owner
<1>7. OwnedInv'
  BY ZenonT(40), <1>1, <1>6 DEF RoutingInv, OwnedInv, Condemned
<1>8. TuplesInv'
  BY ZenonT(40), <1>1, <1>6 DEF RoutingInv, TuplesInv
<1> QED
  BY <1>2, <1>3, <1>4, <1>5, <1>7, <1>8 DEF RoutingInv

\* One key out of the indices, for either task.
LEMMA RoutingUnindex ==
  ASSUME RoutingInv, NEW i \in Allocs, UNCHANGED <<historyVars, handlerVars, cleanerVars>>,
         (pc = "unindex" /\ i = id) \/ (cpc = "reap" /\ i = cid),
         \/ \E p \in IPs : UnindexPermission(i, p)
         \/ \E a \in Addrs : UnindexPeer(i, a)
  PROVE  RoutingInv'
<1>t. /\ permissions \in [Allocs -> SUBSET IPs] /\ live \in [Allocs -> SUBSET IPs]
      /\ \A j \in Allocs : live[j] \subseteq permissions[j]
      /\ by_permission \in [IPs -> SUBSET Allocs] /\ allocations \subseteq Allocs
      /\ known_peers \in [Allocs -> SUBSET Addrs]
      /\ by_peer_tuple \in [Addrs -> Allocs \cup {None}]
  BY DEF RoutingInv, TypeOK
<1>u. UNCHANGED <<overtaken, outrun, pc, id, ips, todo, addr, kind, chosen, skip, cpc, cid, cips>>
  BY DEF historyVars, handlerVars, packetVars, cleanerVars
<1>1. ASSUME NEW p \in IPs, UnindexPermission(i, p)
      PROVE  RoutingInv'
  <2>1. /\ permissions' = [permissions EXCEPT ![i] = @ \ {p}]
        /\ live' = [live EXCEPT ![i] = @ \ {p}]
        /\ by_permission' = [by_permission EXCEPT ![p] = @ \ {i}]
        /\ fresh' = fresh \ {<<i, p>>} /\ UNCHANGED <<allocations, known_peers, by_peer_tuple>>
    BY <1>1 DEF UnindexPermission
  <2>2. permissions' \in [Allocs -> SUBSET IPs] /\ live' \in [Allocs -> SUBSET IPs]
    BY <1>t, <2>1
  <2>3. \A j \in Allocs : live'[j] \subseteq permissions'[j]
    BY <1>t, <2>1
  <2>4. by_permission' \in [IPs -> SUBSET Allocs]
    BY ZenonT(40), <1>t, <2>1
  <2>5. TypeOK'
    BY ZenonT(40), <1>u, <2>1, <2>2, <2>3, <2>4 DEF RoutingInv, TypeOK
  <2>6. HandInv'
    BY ZenonT(40), <1>u, <2>1 DEF RoutingInv, HandInv, Accessible
  <2>7. \A j \in Allocs, q \in IPs :
          /\ j # i \/ q # p => (j \in by_permission'[q] <=> j \in by_permission[q])
          /\ j # i \/ q # p => (q \in permissions'[j] <=> q \in permissions[j])
          /\ q \in live'[j] => q \in live[j] /\ (j # i \/ q # p)
    BY <1>t, <2>1
  <2>8. i \notin by_permission'[p]
    BY ZenonT(40), <1>t, <2>1
  <2>9. FreshInv'
    <3>1. pc \in {"index", "granted"} => i # id \/ id \in outrun
      BY ZenonT(40) DEF RoutingInv, HandInv, Accessible
    <3>2. \A j \in Allocs : j # i => live'[j] = live[j] /\ \A q \in IPs : <<j, q>> \in fresh => <<j, q>> \in fresh'
      BY <1>t, <2>1
    <3>3. pc \in {"index", "granted"} => id \in Allocs
      BY ZenonT(40) DEF RoutingInv, HandInv
    <3>4. todo \subseteq IPs /\ RelayIp \in IPs
      BY ZenonT(40), RoutingAssumption DEF RoutingInv, TypeOK
    <3>5. pc = "index" => i # id
      BY ZenonT(40) DEF RoutingInv, HandInv, Accessible
    <3> QED
      BY ZenonT(40), <1>u, <3>1, <3>2, <3>3, <3>4, <3>5 DEF RoutingInv, FreshInv
  <2>10. IndexedInv'
    <3> SUFFICES ASSUME NEW j \in allocations, NEW q \in live'[j]
                 PROVE  /\ j \in by_permission'[q] \/ <<j, q>> \in overtaken \/ Pending(j, q)
                        /\ Condemned(j, q) => <<j, q>> \in overtaken \/ Pending(j, q)
      BY ZenonT(40), <1>u, <2>1 DEF IndexedInv, Pending, Condemned
    <3>1. j \in Allocs /\ q \in IPs
      BY ZenonT(40), <1>t, <2>2
    <3>2. q \in live[j] /\ (j # i \/ q # p)
      BY ZenonT(40), <2>7, <3>1
    <3> QED
      BY ZenonT(40), <2>7, <3>1, <3>2 DEF RoutingInv, IndexedInv
  <2>11. OwnedInv'
    <3> SUFFICES ASSUME NEW q \in IPs, NEW j \in by_permission'[q]
                 PROVE  \/ Owner(j) /\ q \in permissions'[j]
                        \/ Condemned(j, q)
                        \/ q = RelayIp /\ j \in outrun
      BY ZenonT(40), <1>u, <2>1 DEF OwnedInv, Owner, Condemned
    <3>1. j \in Allocs /\ (j # i \/ q # p)
      BY ZenonT(40), <2>4, <2>8
    <3>2. j \in by_permission[q]
      BY ZenonT(40), <2>7, <3>1
    <3> QED
      BY ZenonT(40), <2>7, <3>1, <3>2 DEF RoutingInv, OwnedInv
  <2>12. TuplesInv'
    BY ZenonT(40), <1>u, <2>1 DEF RoutingInv, TuplesInv, Owner
  <2> QED
    BY ZenonT(40), <2>5, <2>6, <2>9, <2>10, <2>11, <2>12 DEF RoutingInv
<1>2. ASSUME NEW a \in Addrs, UnindexPeer(i, a)
      PROVE  RoutingInv'
  <2>1. /\ by_peer_tuple' = [by_peer_tuple EXCEPT ![a] = None]
        /\ known_peers' = [known_peers EXCEPT ![i] = @ \ {a}]
        /\ UNCHANGED <<allocations, permissions, live, fresh, by_permission>>
    BY <1>2 DEF UnindexPeer
  <2>2. /\ known_peers' \in [Allocs -> SUBSET Addrs]
        /\ by_peer_tuple' \in [Addrs -> Allocs \cup {None}]
    BY ZenonT(40), <1>t, <2>1
  <2>3. TypeOK'
    BY ZenonT(40), <1>u, <2>1, <2>2 DEF RoutingInv, TypeOK
  <2>4. HandInv' /\ FreshInv'
    BY ZenonT(40), <1>u, <2>1 DEF RoutingInv, HandInv, FreshInv, Accessible
  <2>5. IndexedInv'
    BY ZenonT(40), <1>u, <2>1 DEF RoutingInv, IndexedInv, Pending, Condemned
  <2>6. OwnedInv'
    BY ZenonT(40), <1>u, <2>1 DEF RoutingInv, OwnedInv, Owner, Condemned
  <2>7. TuplesInv'
    <3> SUFFICES ASSUME NEW b \in Addrs, by_peer_tuple'[b] # None
                 PROVE  \/ Owner(by_peer_tuple'[b]) /\ b \in known_peers'[by_peer_tuple'[b]]
                        \/ by_peer_tuple'[b] \in outrun
                        \/ pc = "know" /\ b = addr /\ by_peer_tuple'[b] = id
      BY ZenonT(40), <1>u, <2>1 DEF TuplesInv, Owner
    <3>1. b # a /\ by_peer_tuple'[b] = by_peer_tuple[b] /\ by_peer_tuple[b] \in Allocs
      BY ZenonT(40), <1>t, <2>1
    <3>2. b \in known_peers[by_peer_tuple[b]] => b \in known_peers'[by_peer_tuple[b]]
      BY ZenonT(40), <1>t, <2>1, <3>1
    <3>3. \/ Owner(by_peer_tuple[b]) /\ b \in known_peers[by_peer_tuple[b]]
          \/ by_peer_tuple[b] \in outrun
          \/ pc = "know" /\ b = addr /\ by_peer_tuple[b] = id
      BY <3>1 DEF RoutingInv, TuplesInv
    <3> QED
      BY <3>1, <3>2, <3>3
  <2> QED
    BY ZenonT(40), <2>3, <2>4, <2>5, <2>6, <2>7 DEF RoutingInv
<1> QED
  BY <1>1, <1>2

\* The last step: nothing names the allocation any more.
LEMMA RoutingRemoveDone ==
  ASSUME RoutingInv, RemoveDone
  PROVE  RoutingInv'
<1>1. /\ pc = "unindex" /\ permissions[id] = {} /\ known_peers[id] = {} /\ Rest
      /\ UNCHANGED <<allocations, permissions, live, fresh, known_peers, by_permission,
                     by_peer_tuple, overtaken, outrun, cpc, cid, cips>>
  BY SMTT(40) DEF RemoveDone, Unindexed, tableVars, indexVars, historyVars, cleanerVars
<1>2. TypeOK'
  BY ZenonT(40), <1>1, RestTypes DEF RoutingInv, TypeOK
<1>3. HandInv' /\ FreshInv'
  BY ZenonT(40), <1>1 DEF RoutingInv, HandInv, FreshInv, Rest
<1>4. IndexedInv'
  BY ZenonT(40), <1>1 DEF RoutingInv, IndexedInv, Pending, Condemned, Rest
<1>5. OwnedInv'
  BY ZenonT(40), <1>1 DEF RoutingInv, OwnedInv, Owner, Condemned, Rest
<1>6. TuplesInv'
  BY ZenonT(40), <1>1 DEF RoutingInv, TuplesInv, Owner, Rest
<1> QED
  BY <1>2, <1>3, <1>4, <1>5, <1>6 DEF RoutingInv

\* A reaping pass begins, or drops the entry.
LEMMA RoutingReap ==
  ASSUME RoutingInv, ReapDone \/ \E i \in Allocs : Reap(i)
  PROVE  RoutingInv'
<1>n. None \notin Allocs
  BY RoutingAssumption
<1>1. ASSUME NEW i \in Allocs, Reap(i)
      PROVE  RoutingInv'
  <2>1. /\ cpc = "idle" /\ cpc' = "reap" /\ cid' = i /\ i \in allocations
        /\ pc = "index" => id # i
        /\ outrun' = outrun \cup ({i} \cap InHand)
        /\ UNCHANGED <<allocations, permissions, live, fresh, known_peers, by_permission,
                       by_peer_tuple, overtaken, pc, id, ips, todo, addr, kind, chosen, skip, cips>>
    BY ZenonT(40), <1>1 DEF Reap, Guarded, tableVars, indexVars, handlerVars, packetVars
  <2>2. outrun \subseteq outrun' /\ outrun' \subseteq Allocs /\ (id = i => i \in outrun')
    BY <1>n, <2>1 DEF InHand, RoutingInv, TypeOK
  <2>3. TypeOK'
    BY ZenonT(40), <2>1, <2>2 DEF RoutingInv, TypeOK
  <2>4. HandInv'
    BY <2>1, <2>2 DEF RoutingInv, HandInv, Accessible
  <2>5. FreshInv'
    BY ZenonT(40), <2>1, <2>2 DEF RoutingInv, FreshInv
  <2>6. IndexedInv'
    BY ZenonT(40), <2>1 DEF RoutingInv, IndexedInv, Pending, Condemned
  <2>7. OwnedInv'
    BY ZenonT(40), <2>1, <2>2 DEF RoutingInv, OwnedInv, Owner, Condemned
  <2>8. TuplesInv'
    BY ZenonT(40), <2>1, <2>2 DEF RoutingInv, TuplesInv, Owner
  <2> QED
    BY <2>3, <2>4, <2>5, <2>6, <2>7, <2>8 DEF RoutingInv
<1>2. ASSUME ReapDone
      PROVE  RoutingInv'
  <2>1. /\ cpc = "reap" /\ permissions[cid] = {} /\ known_peers[cid] = {}
        /\ cid \in allocations /\ allocations' = allocations \ {cid}
        /\ outrun' = outrun \cup ({cid} \cap InHand)
        /\ cpc' = "idle" /\ cid' = None /\ cips' = {}
        /\ UNCHANGED <<permissions, live, fresh, known_peers, by_permission, by_peer_tuple,
                       overtaken, pc, id, ips, todo, addr, kind, chosen, skip>>
    BY ZenonT(40), <1>2 DEF ReapDone, Unindexed, CleanerRest, RoutingInv, HandInv, indexVars,
                            handlerVars, packetVars
  <2>2. cid \in Allocs /\ outrun \subseteq outrun' /\ outrun' \subseteq Allocs
    BY <2>1 DEF RoutingInv, TypeOK
  <2>3. (id = cid => cid \in outrun') /\ (cid \in chosen => cid \in outrun')
    BY <1>n, <2>1, <2>2 DEF InHand
  <2>4. TypeOK'
    BY ZenonT(40), <2>1, <2>2 DEF RoutingInv, TypeOK
  <2>5. HandInv'
    BY <2>1, <2>2, <2>3 DEF RoutingInv, HandInv, Accessible
  <2>6. FreshInv'
    BY ZenonT(40), <2>1, <2>2 DEF RoutingInv, FreshInv
  <2>7. IndexedInv'
    BY ZenonT(40), <2>1 DEF RoutingInv, IndexedInv, Pending, Condemned
  <2>8. OwnedInv'
    BY ZenonT(40), <2>1, <2>2 DEF RoutingInv, OwnedInv, Owner, Condemned
  <2>9. TuplesInv'
    BY ZenonT(40), <2>1, <2>2 DEF RoutingInv, TuplesInv, Owner
  <2> QED
    BY ZenonT(40), <2>4, <2>5, <2>6, <2>7, <2>8, <2>9 DEF RoutingInv
<1> QED
  BY <1>1, <1>2

\* cleanup_permissions.
LEMMA RoutingPrune ==
  ASSUME RoutingInv, NEW i \in Allocs, Prune(i)
  PROVE  RoutingInv'
<1>1. /\ cpc = "idle" /\ cpc' = "prune" /\ cid' = i /\ i \in allocations
      /\ cips' = permissions[i] \ live[i]
      /\ permissions' = [permissions EXCEPT ![i] = live[i]]
      /\ UNCHANGED <<allocations, live, fresh, known_peers, by_permission, by_peer_tuple,
                     overtaken, outrun, pc, id, ips, todo, addr, kind, chosen, skip>>
  BY ZenonT(40) DEF Prune, indexVars, historyVars, handlerVars, packetVars
<1>t. permissions \in [Allocs -> SUBSET IPs] /\ by_permission \in [IPs -> SUBSET Allocs]
  BY ZenonT(40) DEF RoutingInv, TypeOK
<1>2. TypeOK'
  <2>1. /\ permissions' \in [Allocs -> SUBSET IPs] /\ cips' \subseteq IPs
        /\ \A j \in Allocs : live[j] \subseteq permissions'[j]
    BY ZenonT(40), <1>1 DEF RoutingInv, TypeOK
  <2> QED
    BY ZenonT(40), <1>1, <2>1 DEF RoutingInv, TypeOK
<1>3. HandInv' /\ FreshInv'
  BY ZenonT(40), <1>1 DEF RoutingInv, HandInv, FreshInv, Accessible
<1>4. IndexedInv'
  BY ZenonT(40), <1>1 DEF RoutingInv, IndexedInv, Pending, Condemned
<1>5. OwnedInv'
  <2>1. \A j \in Allocs : \A p \in permissions[j] : p \in permissions'[j] \/ Condemned(j, p)'
    BY <1>1, <1>t DEF Condemned
  <2>2. \A j, p : ~Condemned(j, p)
    BY ZenonT(40), <1>1 DEF Condemned
  <2> QED
    BY ZenonT(40), <1>1, <1>t, <2>1, <2>2 DEF RoutingInv, OwnedInv, Owner
<1>6. TuplesInv'
  BY ZenonT(40), <1>1 DEF RoutingInv, TuplesInv, Owner
<1> QED
  BY <1>2, <1>3, <1>4, <1>5, <1>6 DEF RoutingInv

LEMMA RoutingPruneIndex ==
  ASSUME RoutingInv, NEW p \in IPs, PruneIndex(p)
  PROVE  RoutingInv'
<1>1. /\ cpc = "prune" /\ p \in cips /\ Condemned(cid, p)
      /\ by_permission' = [by_permission EXCEPT ![p] = @ \ {cid}]
      /\ UNCHANGED <<allocations, permissions, live, fresh, known_peers, by_peer_tuple,
                     overtaken, outrun, pc, id, ips, todo, addr, kind, chosen, skip>>
  BY ZenonT(40) DEF PruneIndex, Condemned, tableVars, historyVars, handlerVars, packetVars
<1>2. \/ cips = {p} /\ cpc' = "idle" /\ cid' = None /\ cips' = {}
      \/ cips' = cips \ {p} /\ UNCHANGED <<cpc, cid>>
  BY ZenonT(40) DEF PruneIndex, CleanerRest
<1>3. TypeOK'
  <2>1. by_permission' \in [IPs -> SUBSET Allocs]
    BY ZenonT(40), <1>1 DEF RoutingInv, TypeOK
  <2>2. cpc' \in {"idle", "prune"} /\ cid' \in Allocs \cup {None} /\ cips' \subseteq IPs
    BY SMTT(40), <1>1, <1>2 DEF RoutingInv, TypeOK
  <2> QED
    BY ZenonT(40), <1>1, <2>1, <2>2 DEF RoutingInv, TypeOK
<1>4. HandInv' /\ FreshInv'
  BY ZenonT(40), <1>1, <1>2 DEF RoutingInv, HandInv, FreshInv, Accessible
<1>t. /\ by_permission \in [IPs -> SUBSET Allocs] /\ live \in [Allocs -> SUBSET IPs]
      /\ allocations \subseteq Allocs
  BY ZenonT(40) DEF RoutingInv, TypeOK
<1>5. /\ \A j \in Allocs, q \in IPs : j \in by_permission'[q] <=>
                                        (j \in by_permission[q] /\ ~(j = cid /\ q = p))
      /\ \A j, q : Condemned(j, q)' => Condemned(j, q)
      /\ \A j, q : Condemned(j, q) => Condemned(j, q)' \/ (j = cid /\ q = p)
  <2>1. \A j \in Allocs, q \in IPs : j \in by_permission'[q] <=>
                                        (j \in by_permission[q] /\ ~(j = cid /\ q = p))
    BY <1>1, <1>t
  <2>2. /\ \A j, q : Condemned(j, q)' => Condemned(j, q)
        /\ \A j, q : Condemned(j, q) => Condemned(j, q)' \/ (j = cid /\ q = p)
    BY <1>1, <1>2 DEF Condemned
  <2> QED
    BY <2>1, <2>2
<1>6. IndexedInv'
  <2> SUFFICES ASSUME NEW j \in allocations, NEW q \in live[j]
               PROVE  /\ j \in by_permission'[q] \/ <<j, q>> \in overtaken \/ Pending(j, q)
                      /\ Condemned(j, q)' => <<j, q>> \in overtaken \/ Pending(j, q)
    BY ZenonT(40), <1>1 DEF IndexedInv, Pending
  <2>1. j \in Allocs /\ q \in IPs
    BY ZenonT(40), <1>t
  <2>2. /\ j \in by_permission[q] \/ <<j, q>> \in overtaken \/ Pending(j, q)
        /\ Condemned(j, q) => <<j, q>> \in overtaken \/ Pending(j, q)
    BY ZenonT(40) DEF RoutingInv, IndexedInv
  <2> QED
    BY ZenonT(40), <1>1, <1>5, <2>1, <2>2
<1>7. OwnedInv'
  <2> SUFFICES ASSUME NEW q \in IPs, NEW j \in by_permission'[q]
               PROVE  \/ Owner(j) /\ q \in permissions[j]
                      \/ Condemned(j, q)'
                      \/ q = RelayIp /\ j \in outrun
    BY ZenonT(40), <1>1 DEF OwnedInv, Owner
  <2>1. j \in Allocs
    BY ZenonT(40), <1>3 DEF TypeOK
  <2> QED
    BY ZenonT(40), <1>5, <2>1 DEF RoutingInv, OwnedInv
<1>8. TuplesInv'
  BY ZenonT(40), <1>1 DEF RoutingInv, TuplesInv, Owner
<1> QED
  BY <1>3, <1>4, <1>6, <1>7, <1>8 DEF RoutingInv

\* Permissions lapse at any moment, but the ones just granted.
LEMMA RoutingTime ==
  ASSUME RoutingInv, Settle \/ \E i \in Allocs, p \in IPs : Lapse(i, p)
  PROVE  RoutingInv'
<1>u. UNCHANGED <<allocations, permissions, known_peers, by_permission, by_peer_tuple, overtaken,
                  outrun, pc, id, ips, todo, addr, kind, chosen, skip, cpc, cid, cips>>
  BY ZenonT(40) DEF Settle, Lapse, indexVars, historyVars, handlerVars, packetVars, cleanerVars
<1>1. /\ \/ live' = live /\ pc = "idle"
         \/ fresh' = fresh /\ \E i \in Allocs, p \in IPs : /\ <<i, p>> \notin fresh
                                                           /\ live' = [live EXCEPT ![i] = @ \ {p}]
      /\ fresh' \subseteq fresh
  BY ZenonT(40) DEF Settle, Lapse, AtRest
<1>t. live \in [Allocs -> SUBSET IPs] /\ allocations \subseteq Allocs
  BY ZenonT(40) DEF RoutingInv, TypeOK
<1>2. live' \in [Allocs -> SUBSET IPs] /\ \A j \in Allocs : live'[j] \subseteq live[j]
  BY ZenonT(40), <1>1, <1>t
<1>3. TypeOK'
  <2>1. fresh' \subseteq Allocs \X IPs /\ \A j \in Allocs : live'[j] \subseteq permissions[j]
    BY ZenonT(40), <1>1, <1>2 DEF RoutingInv, TypeOK
  <2> QED
    BY ZenonT(40), <1>2, <1>u, <2>1 DEF RoutingInv, TypeOK
<1>4. HandInv'
  BY ZenonT(40), <1>u DEF RoutingInv, HandInv, Accessible
<1>5. FreshInv'
  <2>1. CASE pc = "idle"
    BY <1>u, <2>1 DEF FreshInv
  <2>2. CASE pc # "idle"
    <3>1. fresh' = fresh /\ \A j \in Allocs : \A q \in live[j] : <<j, q>> \in fresh => q \in live'[j]
      BY ZenonT(40), <1>1, <1>t, <2>2
    <3>2. pc \in {"index", "granted"} => id \in Allocs
      BY ZenonT(40) DEF RoutingInv, HandInv
    <3> QED
      BY ZenonT(40), <1>u, <3>1, <3>2 DEF RoutingInv, FreshInv
  <2> QED
    BY <2>1, <2>2
<1>6. IndexedInv'
  BY ZenonT(40), <1>2, <1>t, <1>u DEF RoutingInv, IndexedInv, Pending, Condemned
<1>7. OwnedInv'
  BY ZenonT(40), <1>u DEF RoutingInv, OwnedInv, Owner, Condemned
<1>8. TuplesInv'
  BY ZenonT(40), <1>u DEF RoutingInv, TuplesInv, Owner
<1> QED
  BY <1>3, <1>4, <1>5, <1>6, <1>7, <1>8 DEF RoutingInv

LEMMA RoutingStep ==
  ASSUME RoutingInv, [Next]_vars
  PROVE  RoutingInv'
<1>1. CASE UNCHANGED vars
  <2>1. UNCHANGED <<allocations, permissions, live, fresh, known_peers, by_permission,
                    by_peer_tuple, overtaken, outrun, pc, id, ips, todo, addr, kind, chosen, skip,
                    cpc, cid, cips>>
    BY ZenonT(40), <1>1 DEF vars, tableVars, indexVars, historyVars, handlerVars, packetVars,
                            cleanerVars
  <2>2. TypeOK'
    BY ZenonT(40), <2>1 DEF RoutingInv, TypeOK
  <2>3. HandInv' /\ FreshInv'
    BY ZenonT(40), <2>1 DEF RoutingInv, HandInv, FreshInv, Accessible
  <2>4. IndexedInv'
    BY ZenonT(40), <2>1 DEF RoutingInv, IndexedInv, Pending, Condemned
  <2>5. OwnedInv'
    BY ZenonT(40), <2>1 DEF RoutingInv, OwnedInv, Owner, Condemned
  <2>6. TuplesInv'
    BY ZenonT(40), <2>1 DEF RoutingInv, TuplesInv, Owner
  <2> QED
    BY ZenonT(40), <2>2, <2>3, <2>4, <2>5, <2>6 DEF RoutingInv
<1>2. CASE HandlerStep
  <2>1. CASE Deliver
    BY ZenonT(40), <2>1, RoutingRest DEF Deliver
  <2>2. CASE \/ \E p \in IPs : RemovePermission(p)
             \/ \E a \in Addrs : RemovePeer(a)
    <3>1. /\ pc = "unindex" /\ id \in Allocs
          /\ UNCHANGED <<historyVars, handlerVars, cleanerVars>>
      BY <2>2 DEF RemovePermission, RemovePeer, RoutingInv, HandInv
    <3> QED
      BY ZenonT(40), <2>2, <3>1, RoutingUnindex DEF RemovePermission, RemovePeer
  <2> QED
    BY <1>2, <2>1, <2>2, RoutingTryAdd, RoutingIndexNext, RoutingAddPermission,
       RoutingLookup, RoutingNarrow, RoutingRegister, RoutingKnown, RoutingRemoveDone
       DEF HandlerStep
<1>3. CASE CleanerStep
  <2>1. CASE \/ \E p \in IPs : ReapPermission(p)
             \/ \E a \in Addrs : ReapPeer(a)
    <3>1. /\ cpc = "reap" /\ cid \in Allocs
          /\ UNCHANGED <<historyVars, handlerVars, cleanerVars>>
      BY <2>1 DEF ReapPermission, ReapPeer, RoutingInv, HandInv, TypeOK
    <3> QED
      BY ZenonT(40), <2>1, <3>1, RoutingUnindex DEF ReapPermission, ReapPeer
  <2> QED
    BY <1>3, <2>1, RoutingReap, RoutingPruneIndex DEF CleanerStep
<1>4. CASE Settle \/ \E i \in Allocs, p \in IPs : Lapse(i, p)
  BY <1>4, RoutingTime
<1>5. CASE \E i \in Allocs : Remove(i) \/ Reap(i) \/ Prune(i)
  BY <1>5, RoutingRemove, RoutingReap, RoutingPrune
<1> QED
  BY <1>1, <1>2, <1>3, <1>4, <1>5, RoutingBegin DEF Next

LEMMA RoutingAlways == Spec => []RoutingInv
<1>1. RoutingInv /\ [Next]_vars => RoutingInv'
  BY RoutingStep
<1> QED
  BY <1>1, RoutingInit, PTL DEF Spec

\* With the cleanup task on a thread of its own, no order of grants, lapses,
\* prunings and ends leaves a live permission out of by_permission when a packet
\* is looked up, but the one order in which the grant indexes a permission whose
\* lapsed predecessor cleanup_permissions is just unindexing.
THEOREM PermissionsIndexedCorrect == Spec => []PermissionsIndexed
<1>1. RoutingInv => PermissionsIndexed
  BY ZenonT(40) DEF RoutingInv, IndexedInv, Pending, PermissionsIndexed, Settled
<1> QED
  BY <1>1, RoutingAlways, PTL

\* Nor does any leave an allocation that is gone, or its permission, in
\* by_permission, where remove and the reapers do not find it, but the relay
\* IP's entry when the allocation is reaped during the automatic grant.
THEOREM PermissionsOwnedCorrect == Spec => []PermissionsOwned
<1>1. RoutingInv => PermissionsOwned
  BY ZenonT(40) DEF RoutingInv, OwnedInv, Owner, PermissionsOwned, Settled
<1> QED
  BY <1>1, RoutingAlways, PTL

\* Nor one that is gone, or that does not know it, in by_peer_tuple, although
\* register_peer_tuple overwrites a tuple and remove clears it whoever holds it,
\* but when the allocation is reaped while its packet is routed.
THEOREM TuplesOwnedCorrect == Spec => []TuplesOwned
<1>1. RoutingInv => TuplesOwned
  BY ZenonT(40) DEF RoutingInv, TuplesInv, Owner, TuplesOwned
<1> QED
  BY <1>1, RoutingAlways, PTL

\* The state of PeerRouting keeps its types, with both tasks running.
THEOREM RoutingTyped == Spec => []TypeOK
<1>1. RoutingInv => TypeOK
  BY DEF RoutingInv
<1> QED
  BY <1>1, RoutingAlways, PTL

----------------------------------------------------------------------------
(* The cap *)

\* What counts against the cap.
Capped(S) == S \ {RelayIp}

CapInv ==
  /\ allocations \subseteq Allocs
  /\ live \in [Allocs -> SUBSET IPs]
  /\ pc \in {"perm", "grant"} => id \in Allocs
  /\ pc = "perm" => ips \in Requests
  /\ \A i \in Allocs : Cardinality(Capped(live[i])) <= MaxPermissions

----------------------------------------------------------------------------
(* Counting *)

\* Fewer permissions count less.
LEMMA FewerIps ==
  ASSUME NEW S \in SUBSET IPs, NEW T, T \subseteq S
  PROVE  /\ IsFiniteSet(S) /\ IsFiniteSet(T)
         /\ Cardinality(S) \in Nat /\ Cardinality(T) \in Nat
         /\ Cardinality(T) <= Cardinality(S)
  <1>1. IsFiniteSet(S)
    BY FS_Subset, RoutingAssumption
  <1> QED
    BY <1>1, FS_Subset, FS_CardinalityType

\* A request names at most as many new IPs as it has new positions.
LEMMA NewIpsBound ==
  ASSUME NEW S \in SUBSET IPs, NEW req \in Requests
  PROVE  LET K == {k \in DOMAIN req : req[k] \notin S} IN
           /\ Elems(req) \subseteq IPs
           /\ Cardinality(K) \in Nat
           /\ Cardinality(S \cup Elems(req)) <= Cardinality(S) + Cardinality(K)
  <1> DEFINE K == {k \in DOMAIN req : req[k] \notin S}
             N == {req[k] : k \in K}
  <1>1. PICK n \in 1..MaxRequested : req \in [1..n -> IPs]
    BY DEF Requests
  <1>2. n \in Int /\ DOMAIN req = 1..n
    BY <1>1, RoutingAssumption
  <1>3. IsFiniteSet(K)
    BY <1>2, FS_Interval, FS_Subset
  <1>4. IsFiniteSet(N) /\ Cardinality(N) <= Cardinality(K)
    <2>1. [k \in K |-> req[k]] \in Surjection(K, N)
      BY DEF Surjection
    <2> HIDE DEF K, N
    <2> QED
      BY <1>3, <2>1, FS_Surjection
  <1>5. S \cup Elems(req) = S \cup N
    BY <1>2 DEF Elems
  <1>6. IsFiniteSet(S)
    BY FewerIps
  <1>7. Elems(req) \subseteq IPs
    BY <1>1 DEF Elems
  <1> HIDE DEF K, N
  <1>8. /\ Cardinality(S) \in Nat /\ Cardinality(N) \in Nat /\ Cardinality(K) \in Nat
        /\ Cardinality(S \cap N) \in Nat
    <2>1. IsFiniteSet(S \cap N)
      BY <1>6, FS_Intersection
    <2> QED
      BY <1>3, <1>4, <1>6, <2>1, FS_CardinalityType
  <1>9. Cardinality(S \cup N) = Cardinality(S) + Cardinality(N) - Cardinality(S \cap N)
    BY <1>4, <1>6, FS_Union
  <1>10. Cardinality(S \cup Elems(req)) <= Cardinality(S) + Cardinality(K)
    <2>1. Cardinality(S \cup Elems(req)) = Cardinality(S \cup N)
      BY <1>5
    <2>2. Cardinality(S \cup N) <= Cardinality(S) + Cardinality(K)
      BY <1>4, <1>8, <1>9
    <2> QED
      BY <2>1, <2>2
  <1> QED
    BY <1>7, <1>8, <1>10 DEF K

----------------------------------------------------------------------------
(* The steps *)

\* A step that grants nothing: permissions lapse, go, or stay.
LEMMA ShrinkStep ==
  ASSUME CapInv, allocations' \subseteq allocations, live' \in [Allocs -> SUBSET IPs],
         \A i \in Allocs : live'[i] \subseteq live[i],
         (pc \in {"perm", "grant"} => id \in Allocs)',
         (pc = "perm" => ips \in Requests)'
  PROVE  CapInv'
  <1> SUFFICES ASSUME NEW i \in Allocs
               PROVE  Cardinality(Capped(live'[i])) <= MaxPermissions
    BY DEF CapInv
  <1>1. Capped(live[i]) \in SUBSET IPs /\ Capped(live'[i]) \subseteq Capped(live[i])
    BY DEF CapInv, Capped
  <1>2. /\ Cardinality(Capped(live'[i])) \in Nat /\ Cardinality(Capped(live[i])) \in Nat
        /\ Cardinality(Capped(live'[i])) <= Cardinality(Capped(live[i]))
    BY <1>1, FewerIps
  <1>3. Cardinality(Capped(live[i])) <= MaxPermissions /\ MaxPermissions \in Nat
    BY RoutingAssumption DEF CapInv
  <1> QED
    BY <1>2, <1>3

\* The grant of a request that is not over the cap.
LEMMA TryAddStep ==
  ASSUME CapInv, TryAdd
  PROVE  CapInv'
  <1>1. CASE UNCHANGED tableVars /\ Rest
    BY <1>1, ShrinkStep DEF CapInv, tableVars, Rest
  <1>2. CASE ~(UNCHANGED tableVars /\ Rest)
    <2>1. ~OverCap(id, ips) /\ Grant(id, Elems(ips)) /\ pc' = "index" /\ UNCHANGED allocations
      BY <1>2 DEF TryAdd
    <2>2. id \in Allocs /\ ips \in Requests /\ live[id] \in SUBSET IPs
      BY DEF TryAdd, CapInv
    <2> DEFINE K == {k \in DOMAIN ips : ips[k] \notin live[id]}
               G == live[id] \cup Elems(ips)
    <2>3. Elems(ips) \subseteq IPs /\ Cardinality(K) \in Nat
      BY ZenonT(40), <2>2, NewIpsBound
    <2>4. Cardinality(G) <= Cardinality(live[id]) + Cardinality(K)
      BY <2>2, NewIpsBound
    <2>5. ~(Cardinality(live[id]) + Cardinality(K) > MaxPermissions)
      BY <2>1 DEF OverCap, NewIps
    <2>6. live' = [live EXCEPT ![id] = G]
      BY <2>1 DEF Grant
    <2>7. G \in SUBSET IPs /\ Capped(G) \subseteq G
      BY <2>2, <2>3 DEF Capped
    <2> HIDE DEF K, G
    <2>8. /\ Cardinality(G) \in Nat /\ Cardinality(Capped(G)) \in Nat
          /\ Cardinality(Capped(G)) <= Cardinality(G) /\ Cardinality(live[id]) \in Nat
      BY <2>2, <2>7, FewerIps
    <2>9. Cardinality(Capped(G)) <= MaxPermissions
      BY <2>3, <2>4, <2>5, <2>8, RoutingAssumption
    <2>10. live' \in [Allocs -> SUBSET IPs]
      BY ZenonT(40), <2>6, <2>7 DEF CapInv
    <2>11. ASSUME NEW i \in Allocs
           PROVE  Cardinality(Capped(live'[i])) <= MaxPermissions
      <3>1. live'[i] = IF i = id THEN G ELSE live[i]
        BY <2>2, <2>6 DEF CapInv
      <3> QED
        BY <2>9, <3>1 DEF CapInv
    <2> QED
      BY <2>1, <2>10, <2>11 DEF CapInv
  <1> QED
    BY <1>1, <1>2

\* The automatic grant does not count.
LEMMA AddPermissionStep ==
  ASSUME CapInv, AddPermission
  PROVE  CapInv'
  <1>1. CASE live' = live
    BY <1>1, ShrinkStep DEF AddPermission, CapInv
  <1>2. CASE live' # live
    <2>1. id \in Allocs /\ live' = [live EXCEPT ![id] = live[id] \cup {RelayIp}] /\ pc' = "granted"
          /\ UNCHANGED allocations
      BY <1>2 DEF AddPermission, Grant, CapInv
    <2>2. live' \in [Allocs -> SUBSET IPs]
      BY <2>1, RoutingAssumption DEF CapInv
    <2>3. ASSUME NEW i \in Allocs
          PROVE  Capped(live'[i]) = Capped(live[i])
      BY <2>1 DEF Capped, CapInv
    <2> QED
      BY <2>1, <2>2, <2>3 DEF CapInv
  <1> QED
    BY <1>1, <1>2

\* The requests and packets that begin.
LEMMA BeginStep ==
  ASSUME CapInv,
         \/ \E i \in Allocs : \E req \in RequestsOf(i) : CreatePermission(i, req)
         \/ \E i \in Pinging : BindingRequest(i)
         \/ \E i \in Allocs : Remove(i) \/ Reap(i) \/ Prune(i)
         \/ \E a \in Addrs, k \in Kinds : PeerPacket(a, k)
  PROVE  CapInv'
  <1>1. live' = live /\ allocations' \subseteq allocations
    BY DEF CreatePermission, BindingRequest, Remove, Reap, Prune, PeerPacket, tableVars
  <1>2. (pc \in {"perm", "grant"} => id \in Allocs)' /\ (pc = "perm" => ips \in Requests)'
    <2>1. CASE \E i \in Allocs : \E req \in RequestsOf(i) : CreatePermission(i, req)
      BY <2>1 DEF CreatePermission, RequestsOf
    <2>2. CASE \E i \in Pinging : BindingRequest(i)
      BY <2>2, RoutingAssumption DEF BindingRequest
    <2>3. CASE \E i \in Allocs : Remove(i) \/ Reap(i) \/ Prune(i)
      BY <2>3 DEF CapInv, Remove, Reap, Prune, handlerVars
    <2>4. CASE \E a \in Addrs, k \in Kinds : PeerPacket(a, k)
      BY <2>4 DEF PeerPacket
    <2> QED
      BY <2>1, <2>2, <2>3, <2>4
  <1> QED
    BY <1>1, <1>2, ShrinkStep DEF CapInv

\* The rest of a packet.
LEMMA PacketStep ==
  ASSUME CapInv,
         \/ AddPermissionIndex \/ LookupByIp \/ Narrow \/ Register \/ RegisterKnown
         \/ Deliver \/ RemoveDone \/ \E p \in IPs : IndexNext(p)
  PROVE  CapInv'
  <1>1. live' = live /\ allocations' \subseteq allocations
    BY DEF AddPermissionIndex, LookupByIp, Narrow, Register, RegisterKnown, Deliver,
           RemoveDone, IndexNext, tableVars
  <1>2. pc' \notin {"perm", "grant"}
    BY DEF AddPermissionIndex, LookupByIp, Narrow, Register, RegisterKnown, Deliver,
           RemoveDone, IndexNext, Rest
  <1> QED
    BY <1>1, <1>2, ShrinkStep DEF CapInv

\* Permissions go with their allocation.
LEMMA UnindexStep ==
  ASSUME CapInv, UNCHANGED handlerVars,
         \E i : (\E p \in IPs : UnindexPermission(i, p)) \/ (\E a \in Addrs : UnindexPeer(i, a))
  PROVE  CapInv'
  <1>1. PICK i : (\E p \in IPs : UnindexPermission(i, p)) \/ (\E a \in Addrs : UnindexPeer(i, a))
    OBVIOUS
  <1>2. /\ UNCHANGED allocations
        /\ live' = live \/ \E p \in IPs : live' = [live EXCEPT ![i] = @ \ {p}]
    BY <1>1 DEF UnindexPermission, UnindexPeer
  <1>3. live' \in [Allocs -> SUBSET IPs] /\ \A j \in Allocs : live'[j] \subseteq live[j]
    BY <1>2 DEF CapInv
  <1> QED
    BY <1>2, <1>3, ShrinkStep DEF CapInv, handlerVars

\* The cleanup task and the clock.
LEMMA OtherStep ==
  ASSUME CapInv,
         \/ ReapDone \/ Settle \/ \E p \in IPs : PruneIndex(p)
         \/ \E i \in Allocs, p \in IPs : Lapse(i, p)
  PROVE  CapInv'
  <1>1. UNCHANGED handlerVars
    BY ZenonT(40) DEF ReapDone, Settle, PruneIndex, Lapse
  <1>2. /\ allocations' \subseteq allocations
        /\ live' = live \/ \E i \in Allocs, p \in IPs : live' = [live EXCEPT ![i] = @ \ {p}]
    BY ZenonT(40) DEF ReapDone, Settle, PruneIndex, Lapse, tableVars
  <1>3. live' \in [Allocs -> SUBSET IPs] /\ \A j \in Allocs : live'[j] \subseteq live[j]
    BY <1>2 DEF CapInv
  <1> QED
    BY <1>1, <1>2, <1>3, ShrinkStep DEF CapInv, handlerVars

\* No allocation has more live permissions than max_permissions_per_alloc, the
\* one for the relay IP apart, whatever the requests name and repeat and
\* although the allocation may be reaped under them.
THEOREM CapCorrect == Spec => []CapRespected
  <1>1. Init => CapInv
    <2> SUFFICES ASSUME Init PROVE CapInv
      OBVIOUS
    <2>1. Cardinality({}) = 0
      BY FS_EmptySet
    <2>2. \A i \in Allocs : Capped(live[i]) = {}
      BY DEF Init, Capped
    <2>3. \A i \in Allocs : Cardinality(Capped(live[i])) <= MaxPermissions
      <3>1. 0 <= MaxPermissions
        BY RoutingAssumption
      <3> QED
        BY <2>1, <2>2, <3>1
    <2>4. live \in [Allocs -> SUBSET IPs]
      BY DEF Init
    <2> QED
      BY <2>3, <2>4 DEF Init, CapInv
  <1>2. CapInv /\ [Next]_vars => CapInv'
    <2> SUFFICES ASSUME CapInv, [Next]_vars PROVE CapInv'
      OBVIOUS
    <2>1. CASE UNCHANGED vars
      BY <2>1, ShrinkStep DEF vars, tableVars, handlerVars, CapInv
    <2>2. CASE HandlerStep
      <3>1. CASE \E p \in IPs : RemovePermission(p)
        BY <3>1, UnindexStep DEF RemovePermission
      <3>2. CASE \E a \in Addrs : RemovePeer(a)
        BY <3>2, UnindexStep DEF RemovePeer
      <3> QED
        BY <2>2, <3>1, <3>2, TryAddStep, AddPermissionStep, PacketStep DEF HandlerStep
    <2>3. CASE CleanerStep
      <3>1. CASE \E p \in IPs : ReapPermission(p)
        BY <3>1, UnindexStep DEF ReapPermission
      <3>2. CASE \E a \in Addrs : ReapPeer(a)
        BY <3>2, UnindexStep DEF ReapPeer
      <3> QED
        BY <2>3, <3>1, <3>2, OtherStep DEF CleanerStep
    <2> QED
      BY <2>1, <2>2, <2>3, BeginStep, OtherStep DEF Next
  <1>3. CapInv => CapRespected
    BY DEF CapInv, CapRespected, Capped
  <1> QED
    BY <1>1, <1>2, <1>3, PTL DEF Spec
============================================================================
