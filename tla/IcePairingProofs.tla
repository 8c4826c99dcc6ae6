-------------------------- MODULE IcePairingProofs --------------------------
(***************************************************************************)
(* by_ice_ufrag is exact, for any number of allocations and ufrags.        *)
(*                                                                         *)
(* The argument: only the receive loop adds entries, and it holds the      *)
(* allocation's guard from the ownership test to the claim, so the reaper  *)
(* cannot take the allocation away in between; before it claims a new      *)
(* ufrag it has dropped the old one, so an allocation is named once.       *)
(***************************************************************************)
EXTENDS IcePairing, TLAPS

\* The initial state satisfies the invariant.
LEMMA PairingInit == Init => PairingInv
  BY ZenonT(60), PairingAssumption
  DEF Init, PairingInv, TypeOK, HandlerInv, CleanerInv, IndexSound, IndexComplete, Vias

\* Steps of the relay: the pairs and the index stay, and the receive loop is
\* neither in register_ice_ufrags past its first test nor in remove().
Quiet ==
  /\ UNCHANGED <<allocations, ice_ufrag, ice_remote_ufrag, by_ice_ufrag, cleanerVars>>
  /\ pc \notin {"drop", "claim", "unclaim"}
  /\ pc' \notin {"drop", "claim", "unclaim"}
  /\ pc' # "idle" => id' # None
  /\ pc' \in {"own", "grant", "sender", "lookup", "reach", "find", "verify"} =>
       local' # None /\ remote' # None

\* Every relay step is of this kind and keeps the types.
LEMMA RelayQuiet ==
  ASSUME PairingInv,
         \/ AutoGrant \/ Sender \/ Lookup \/ Reach
         \/ ReadPair \/ Find \/ Verify \/ Snapshot \/ Send
         \/ \E i \in Allocs, v \in Vias : Media(i, v) \/ Payload(i, v)
         \/ \E i \in Allocs, v \in Vias, l, r \in Ufrags : Check(i, v, l, r)
  PROVE  Quiet /\ TypeOK'
<1> USE PairingAssumption DEF PairingInv, Quiet, TypeOK, HandlerInv, tableVars,
      packetVars, cleanerVars, Goto, Rest, Vias
<1>1. CASE AutoGrant
  BY <1>1 DEF AutoGrant
<1>2. CASE Sender
  BY ZenonT(60), <1>2 DEF Sender
<1>3. CASE Lookup
  BY ZenonT(60), <1>3 DEF Lookup, Unreached
<1>4. CASE Reach
  BY ZenonT(60), <1>4 DEF Reach, Unreached
<1>5. CASE ReadPair
  BY ZenonT(60), <1>5 DEF ReadPair
<1>6. CASE Find
  BY ZenonT(60), <1>6 DEF Find
<1>7. CASE Verify
  BY ZenonT(60), <1>7 DEF Verify
<1>8. CASE Snapshot
  BY ZenonT(60), <1>8 DEF Snapshot
<1>9. CASE Send
  BY ZenonT(60), <1>9 DEF Send
<1>10. ASSUME NEW i \in Allocs, NEW v \in Vias, Media(i, v)
       PROVE  Quiet /\ TypeOK'
  BY <1>10 DEF Media, Found
<1>11. ASSUME NEW i \in Allocs, NEW v \in Vias, Payload(i, v)
       PROVE  Quiet /\ TypeOK'
  BY <1>11 DEF Payload, Found
<1>12. ASSUME NEW i \in Allocs, NEW v \in Vias, NEW l \in Ufrags, NEW r \in Ufrags,
              Check(i, v, l, r)
       PROVE  Quiet /\ TypeOK'
  <2>1. Quiet
    BY <1>12 DEF Check, Found
  <2>2. TypeOK'
    BY <1>12 DEF Check, Found
  <2> QED
    BY <2>1, <2>2
<1> HIDE DEF PairingInv, Quiet, TypeOK, HandlerInv, Vias
<1> QED
  BY <1>1, <1>2, <1>3, <1>4, <1>5, <1>6, <1>7, <1>8, <1>9, <1>10, <1>11, <1>12

\* A relay step preserves the invariant.
LEMMA QuietStep ==
  ASSUME PairingInv, Quiet, TypeOK'
  PROVE  PairingInv'
<1>1. HandlerInv' /\ CleanerInv'
  BY DEF PairingInv, Quiet, HandlerInv, CleanerInv, cleanerVars
<1>2. IndexSound' /\ IndexComplete'
  BY ZenonT(40) DEF PairingInv, Quiet, IndexSound, IndexComplete, cleanerVars
<1> QED
  BY <1>1, <1>2 DEF PairingInv

\* The steps of register_ice_ufrags preserve the invariant.
LEMMA RegisterStep ==
  ASSUME PairingInv, Owned \/ DropOld \/ Claim
  PROVE  PairingInv'
<1> USE PairingAssumption DEF PairingInv, TypeOK, HandlerInv, CleanerInv, cleanerVars,
      packetVars, Goto, Registered, IndexSound, IndexComplete, Vias
<1>1. CASE Owned
  <2>1. TypeOK'
    BY <1>1 DEF Owned, SetPair
  <2>2. HandlerInv' /\ CleanerInv'
    BY <1>1 DEF Owned, SetPair, Accessible
  <2>3. IndexSound' /\ IndexComplete'
    BY <1>1 DEF Owned, SetPair, Accessible
  <2> QED
    BY <2>1, <2>2, <2>3
<1>2. CASE DropOld
  <2>1. TypeOK'
    BY <1>2 DEF DropOld
  <2>2. HandlerInv' /\ CleanerInv'
    BY <1>2 DEF DropOld
  <2>3. IndexSound' /\ IndexComplete'
    BY <1>2 DEF DropOld
  <2> QED
    BY <2>1, <2>2, <2>3
<1>3. CASE Claim
  <2>1. TypeOK'
    BY <1>3 DEF Claim, SetPair
  <2>2. HandlerInv' /\ CleanerInv'
    BY <1>3 DEF Claim, SetPair
  <2>3. IndexSound' /\ IndexComplete'
    BY <1>3 DEF Claim, SetPair
  <2> QED
    BY <2>1, <2>2, <2>3
<1> QED
  BY SMTT(40), <1>1, <1>2, <1>3

\* The end of an allocation, by remove or by the reaper, preserves the
\* invariant.
LEMMA EndStep ==
  ASSUME PairingInv,
         \/ RemoveUnclaim \/ ReapUnclaim \/ ReapDelete
         \/ \E i \in Allocs : Remove(i) \/ Reap(i)
  PROVE  PairingInv'
<1> USE PairingAssumption DEF PairingInv, TypeOK, HandlerInv, CleanerInv, cleanerVars,
      packetVars, tableVars, IndexSound, IndexComplete, Vias
<1>1. CASE RemoveUnclaim
  <2>1. TypeOK' /\ HandlerInv' /\ CleanerInv'
    BY ZenonT(60), <1>1 DEF RemoveUnclaim, Unclaimed, Rest
  <2>2. IndexSound'
    BY <1>1 DEF RemoveUnclaim, Unclaimed, Rest
  <2>3. IndexComplete'
    BY <1>1 DEF RemoveUnclaim, Unclaimed, Rest
  <2> QED
    BY <2>1, <2>2, <2>3
<1>2. CASE ReapUnclaim
  <2>1. TypeOK' /\ HandlerInv' /\ CleanerInv'
    BY <1>2 DEF ReapUnclaim, Unclaimed
  <2>2. IndexSound'
    BY <1>2 DEF ReapUnclaim, Unclaimed
  <2>3. IndexComplete'
    BY <1>2 DEF ReapUnclaim, Unclaimed
  <2> QED
    BY <2>1, <2>2, <2>3
<1>3. CASE ReapDelete
  BY <1>3 DEF ReapDelete
<1>4. ASSUME NEW i \in Allocs, Remove(i)
      PROVE  PairingInv'
  BY <1>4 DEF Remove, Found, Accessible
<1>5. ASSUME NEW i \in Allocs, Reap(i)
      PROVE  PairingInv'
  BY <1>5 DEF Reap, Guarded
<1> QED
  BY ZenonT(40), <1>1, <1>2, <1>3, <1>4, <1>5

\* The permission for the relay IP plays no part in the index.
LEMMA PermissionStep ==
  ASSUME PairingInv, UNCHANGED vars \/ \E i \in Allocs : Permit(i) \/ Lapse(i)
  PROVE  PairingInv'
<1>1. /\ UNCHANGED <<allocations, ice_ufrag, ice_remote_ufrag, by_ice_ufrag>>
      /\ UNCHANGED <<pc, packetVars, cleanerVars>>
      /\ permitted' \subseteq Allocs
  BY DEF vars, tableVars, Permit, Lapse, PairingInv, TypeOK
<1> QED
  BY <1>1 DEF PairingInv, TypeOK, HandlerInv, CleanerInv, IndexSound, IndexComplete,
    packetVars, cleanerVars

\* The invariant holds in every reachable state: whatever interleaving of
\* register_ice_ufrags, remove and the reaping passes, by_ice_ufrag names
\* exactly the allocations that use a ufrag.
THEOREM PairingCorrect == Spec => []PairingInv
<1>1. PairingInv /\ [Next]_vars => PairingInv'
  <2> SUFFICES ASSUME PairingInv, [Next]_vars
               PROVE  PairingInv'
    OBVIOUS
  <2>1. CASE Owned \/ DropOld \/ Claim
    BY <2>1, RegisterStep
  <2>2. CASE \/ RemoveUnclaim \/ ReapUnclaim \/ ReapDelete
             \/ \E i \in Allocs : Remove(i) \/ Reap(i)
    BY <2>2, EndStep
  <2>3. CASE UNCHANGED vars \/ \E i \in Allocs : Permit(i) \/ Lapse(i)
    BY <2>3, PermissionStep
  <2>4. CASE \/ AutoGrant \/ Sender \/ Lookup \/ Reach
             \/ ReadPair \/ Find \/ Verify \/ Snapshot \/ Send
             \/ \E i \in Allocs, v \in Vias : Media(i, v) \/ Payload(i, v)
             \/ \E i \in Allocs, v \in Vias, l, r \in Ufrags : Check(i, v, l, r)
    BY <2>4, RelayQuiet, QuietStep
  <2> QED
    BY <2>1, <2>2, <2>3, <2>4 DEF Next, HandlerStep, CleanerStep, Arrival
<1> QED
  BY PairingInit, <1>1, PTL DEF Spec

\* Type correctness.
THEOREM TypeCorrect == Spec => []TypeOK
  BY PairingCorrect, PTL DEF PairingInv

\* by_ice_ufrag never names a dead allocation or one that uses another ufrag.
THEOREM IndexSoundCorrect == Spec => []IndexSound
  BY PairingCorrect, PTL DEF PairingInv

\* Every allocation with a ufrag is found by it.
THEOREM IndexCompleteCorrect == Spec => []IndexComplete
  BY PairingCorrect, PTL DEF PairingInv

\* find_ice_peers is bi-directional: between packets and passes, the peer of
\* an allocation has that allocation for its peer.
THEOREM SymmetricCorrect == Spec => []Symmetric
<1>1. PairingInv => Symmetric
  <2> SUFFICES ASSUME PairingInv, pc = "idle", cpc = "idle",
                      NEW i \in allocations, IcePeer(i) # None
               PROVE  IcePeer(IcePeer(i)) = i
    BY DEF Symmetric
  <2> DEFINE j == IcePeer(i)
  <2>1. /\ ice_ufrag[i] \in Ufrags /\ ice_remote_ufrag[i] \in Ufrags
        /\ j = by_ice_ufrag[ice_remote_ufrag[i]] /\ j \in allocations /\ j # None
        /\ ice_remote_ufrag[j] = ice_ufrag[i]
    BY ZenonT(40) DEF IcePeer, Paired, PairingInv, TypeOK
  <2>2. ice_ufrag[j] = ice_remote_ufrag[i]
    BY SMTT(40), <2>1 DEF PairingInv, IndexSound
  <2>3. by_ice_ufrag[ice_ufrag[i]] = i
    BY <2>1, PairingAssumption DEF PairingInv, IndexComplete
  <2>4. i # None
    BY PairingAssumption DEF PairingInv, TypeOK
  <2> HIDE DEF j
  <2>5. IcePeer(j) = i
    BY <2>1, <2>2, <2>3, <2>4, PairingAssumption DEF IcePeer, Paired
  <2> QED
    BY <2>5 DEF j
<1> QED
  BY <1>1, PairingCorrect, PTL

\* First-come ownership: a ufrag passes from its owner to nobody else, and is
\* freed only by the owner's ICE restart, removal or reaping.
THEOREM FirstComeCorrect == Spec => FirstCome
<1>1. PairingInv /\ [Next]_vars => [OwnersKept]_vars
  <2> SUFFICES ASSUME PairingInv, Next
               PROVE  OwnersKept
    OBVIOUS
  <2> USE PairingAssumption DEF PairingInv, OwnersKept
  <2>1. CASE DropOld
    BY <2>1 DEF DropOld, TypeOK, HandlerInv, IndexComplete, CleanerInv
  <2>2. CASE Claim
    BY <2>2 DEF Claim, SetPair, TypeOK, HandlerInv
  <2>3. CASE RemoveUnclaim
    BY <2>3 DEF RemoveUnclaim, Unclaimed, TypeOK, HandlerInv
  <2>4. CASE ReapUnclaim
    BY <2>4 DEF ReapUnclaim, Unclaimed, TypeOK, HandlerInv, IndexComplete, CleanerInv
  <2>5. CASE UNCHANGED by_ice_ufrag
    BY <2>5
  <2>6. DropOld \/ Claim \/ RemoveUnclaim \/ ReapUnclaim \/ UNCHANGED by_ice_ufrag
    BY ZenonT(60) DEF Next, HandlerStep, CleanerStep, Arrival, Owned, AutoGrant, Sender, Lookup,
      Reach, ReadPair, Find, Verify, Snapshot, Send, ReapDelete, Media, Payload,
      Check, Remove, Reap, Permit, Lapse, tableVars
  <2> QED
    BY <2>1, <2>2, <2>3, <2>4, <2>5, <2>6
<1> QED
  BY <1>1, PairingCorrect, PTL DEF Spec, FirstCome

\* From the lookup to the send, the target still uses the ufrag it was looked
\* up by: only the receive loop stores ufrags, and it is busy with the packet.
TargetInv ==
  pc \in {"reach", "verify", "snapshot", "send"} =>
    target \in Allocs /\ ice_ufrag[target] = remote

LEMMA TargetStep ==
  ASSUME PairingInv, TargetInv, [Next]_vars
  PROVE  TargetInv'
<1> USE PairingAssumption DEF TargetInv
<1>1. CASE Lookup
  <2>1. remote \in Ufrags
    BY <1>1 DEF Lookup, PairingInv, HandlerInv, TypeOK
  <2>2. by_ice_ufrag[remote] \in Allocs \cup {None}
    BY <2>1 DEF PairingInv, TypeOK
  <2>3. by_ice_ufrag[remote] # None => ice_ufrag[by_ice_ufrag[remote]] = remote
    BY <2>1 DEF PairingInv, IndexSound
  <2> QED
    BY <1>1, <2>2, <2>3 DEF Lookup, Unreached, Rest, Goto, tableVars
<1>2. CASE Find
  <2>1. remote \in Ufrags
    BY <1>2 DEF Find, PairingInv, HandlerInv, TypeOK
  <2>2. by_ice_ufrag[remote] \in Allocs \cup {None}
    BY <2>1 DEF PairingInv, TypeOK
  <2>3. by_ice_ufrag[remote] # None => ice_ufrag[by_ice_ufrag[remote]] = remote
    BY <2>1 DEF PairingInv, IndexSound
  <2> QED
    BY <1>2, <2>2, <2>3 DEF Find, Rest, tableVars
<1>3. CASE Reach \/ Verify \/ Snapshot
  BY <1>3 DEF Reach, Verify, Snapshot, Unreached, Rest, Goto, tableVars, packetVars
<1>4. CASE UNCHANGED <<pc, target, remote, ice_ufrag>>
  BY <1>4
<1>5. CASE pc' \notin {"reach", "verify", "snapshot", "send"}
  BY <1>5
<1>6. \/ Lookup \/ Find \/ Reach \/ Verify \/ Snapshot
      \/ UNCHANGED <<pc, target, remote, ice_ufrag>>
      \/ pc' \notin {"reach", "verify", "snapshot", "send"}
  BY ZenonT(60) DEF vars, Next, HandlerStep, CleanerStep, Arrival, Owned, DropOld, Claim,
    Registered, AutoGrant, Sender, ReadPair, Send, RemoveUnclaim, ReapUnclaim, ReapDelete,
    Media, Payload, Check, Remove, Reap, Permit, Lapse, Rest, Goto, tableVars, packetVars
<1> QED
  BY <1>1, <1>2, <1>3, <1>4, <1>5, <1>6

\* What is relayed by ufrag reaches the allocation that uses the ufrag when
\* the packet is sent, through restarts, removals and reaping passes between
\* the lookup and the send.
THEOREM AddressedCorrect == Spec => []Addressed
<1>1. Init => TargetInv
  BY DEF Init, TargetInv
<1>2. TargetInv => Addressed
  BY DEF TargetInv, Addressed
<1> QED
  BY <1>1, <1>2, TargetStep, PairingCorrect, PTL DEF Spec
============================================================================
