----------------------- MODULE ChannelBindingsProofs -----------------------
(***************************************************************************)
(* Proofs about ChannelBindings for any number of channels and peers, with *)
(* the receive loop and the cleanup task on two threads: the cap, the peer *)
(* of a live binding, the agreement of the two maps, what a bound client   *)
(* can rely on, and what a pass frees.                                     *)
(***************************************************************************)
EXTENDS ChannelBindings, FiniteSetTheorems, TLAPS

\* The cap still holds once the channel of the request is bound.
Room == Cardinality(live \cup {channel}) <= MaxChannels

\* There is room from the moment the request is known to refresh a live
\* binding, or has passed the count, until it is bound: in between the other
\* task and the clock only take bindings away.
CapInv ==
  /\ live \subseteq Channels
  /\ pc # "idle" => channel \in Channels
  /\ pc \in {"reverse", "forward", "decide"} => bound_peer = NoPeer \/ Room
  /\ pc \in {"permit", "bind"} => Room
  /\ CapRespected

----------------------------------------------------------------------------

\* Fewer bindings count less.
LEMMA FewerLive ==
  ASSUME NEW S \in SUBSET Channels, NEW T, T \subseteq S
  PROVE  /\ IsFiniteSet(S) /\ IsFiniteSet(T)
         /\ Cardinality(S) \in Nat /\ Cardinality(T) \in Nat
         /\ Cardinality(T) <= Cardinality(S)
  <1>1. IsFiniteSet(S)
    BY FS_Subset, BindingsAssumption
  <1> QED
    BY <1>1, FS_Subset, FS_CardinalityType

\* Whatever only takes bindings away and leaves the request alone.
LEMMA ShrinkStep ==
  ASSUME CapInv, live' \subseteq live, UNCHANGED <<pc, channel, bound_peer>>
  PROVE  CapInv'
  <1>1. live \subseteq Channels /\ live' \subseteq Channels
    BY DEF CapInv
  <1>2. CapRespected'
    <2>1. Cardinality(live') <= Cardinality(live) /\ Cardinality(live) <= MaxChannels
      BY <1>1, FewerLive DEF CapInv, CapRespected
    <2>2. Cardinality(live') \in Nat /\ Cardinality(live) \in Nat /\ MaxChannels \in Nat
      BY <1>1, FewerLive, BindingsAssumption
    <2> QED
      BY <2>1, <2>2 DEF CapRespected
  <1>3. ASSUME channel \in Channels, Room
        PROVE  Room'
    <2>1. live \cup {channel} \in SUBSET Channels /\ live' \cup {channel} \subseteq live \cup {channel}
      BY <1>1, <1>3
    <2>2. /\ Cardinality(live' \cup {channel}) \in Nat /\ Cardinality(live \cup {channel}) \in Nat
          /\ Cardinality(live' \cup {channel}) <= Cardinality(live \cup {channel})
      BY <2>1, FewerLive
    <2> QED
      BY <1>3, <2>2, BindingsAssumption DEF Room
  <1> QED
    BY <1>1, <1>2, <1>3 DEF CapInv

\* The request is answered.
LEMMA AnswerStep ==
  ASSUME CapInv, live' \subseteq live, Answer
  PROVE  CapInv'
  <1>1. live \subseteq Channels /\ live' \subseteq Channels
    BY DEF CapInv
  <1>2. Cardinality(live') <= Cardinality(live) /\ Cardinality(live) <= MaxChannels
    BY <1>1, FewerLive DEF CapInv, CapRespected
  <1>3. Cardinality(live') \in Nat /\ Cardinality(live) \in Nat /\ MaxChannels \in Nat
    BY <1>1, FewerLive, BindingsAssumption
  <1> QED
    BY <1>1, <1>2, <1>3 DEF CapInv, CapRespected, Answer

\* A channel with a live binding adds nothing to the count.
LEMMA LookupStep ==
  ASSUME CapInv, NEW c \in Channels, NEW p \in Peers, ChannelBind(c, p)
  PROVE  CapInv'
  <1>1. live' = live /\ channel' = c /\ pc' = "reverse" /\ bound_peer' = PeerFor(c)
    BY DEF ChannelBind, mapVars
  <1>2. bound_peer' = NoPeer \/ Room'
    <2>1. CASE c \in live
      <3>1. live' \cup {channel'} = live
        BY <1>1, <2>1
      <3> QED
        BY <3>1 DEF CapInv, CapRespected, Room
    <2>2. CASE c \notin live
      BY <1>1, <2>2 DEF PeerFor
    <2> QED
      BY <2>1, <2>2
  <1> QED
    BY <1>1, <1>2 DEF CapInv, CapRespected

\* The verdict leaves room for the bind.
LEMMA DecideStep ==
  ASSUME CapInv, Decide
  PROVE  CapInv'
  <1>1. live' = live
    BY DEF Decide, mapVars
  <1>2. CASE Answer
    BY <1>1, <1>2, AnswerStep
  <1>3. CASE ~Answer
    <2>1. /\ UNCHANGED <<channel, bound_peer>> /\ pc = "decide" /\ pc' = "permit"
          /\ Refresh \/ ~CapReached
      BY <1>3 DEF Decide
    <2>2. channel \in Channels /\ live \subseteq Channels
      BY <2>1 DEF CapInv
    <2>3. Room
      <3>1. CASE Refresh
        BY <2>1, <3>1 DEF CapInv, Refresh
      <3>2. CASE ~CapReached
        <4>1. IsFiniteSet(live) /\ Cardinality(live) \in Nat
          BY <2>2, FewerLive
        <4>2. /\ Cardinality(live \cup {channel}) \in Nat
              /\ Cardinality(live \cup {channel}) <= Cardinality(live) + 1
          BY <4>1, FS_AddElement
        <4> QED
          BY <3>2, <4>1, <4>2, BindingsAssumption DEF CapReached, Room
      <3> QED
        BY <2>1, <3>1, <3>2
    <2> QED
      BY <1>1, <2>1, <2>2, <2>3 DEF CapInv, CapRespected, Room
  <1> QED
    BY <1>2, <1>3

LEMMA BindStep ==
  ASSUME CapInv, Bind
  PROVE  CapInv'
  <1>1. channel \in Channels /\ live \subseteq Channels /\ Room
    BY DEF CapInv, Bind
  <1>2. live' = live \cup {channel} /\ UNCHANGED channel /\ pc' \in {"link", "unlink"}
    BY DEF Bind
  <1> QED
    BY <1>1, <1>2 DEF CapInv, CapRespected, Room

LEMMA HandlerStepInv ==
  ASSUME CapInv, HandlerStep
  PROVE  CapInv'
  <1>1. CASE LookupReverse \/ LookupForward
    BY <1>1 DEF LookupReverse, LookupForward, CapInv, CapRespected, Room, mapVars
  <1>2. CASE Permit
    <2>1. live' = live
      BY <1>2 DEF Permit, mapVars
    <2>2. CASE Answer
      BY <2>1, <2>2, AnswerStep
    <2>3. CASE ~Answer
      BY <1>2, <2>1, <2>3 DEF Permit, CapInv, CapRespected, Room
    <2> QED
      BY <2>2, <2>3
  <1>3. CASE Unlink
    BY <1>3 DEF Unlink, CapInv, CapRespected
  <1>4. CASE Link
    <2>1. CASE Answer
      BY <1>4, <2>1, AnswerStep DEF Link
    <2>2. CASE ~Answer
      BY <1>4, <2>2 DEF Link, CapInv, CapRespected
    <2> QED
      BY <2>1, <2>2
  <1>5. CASE DropOld
    BY <1>5, AnswerStep DEF DropOld
  <1> QED
    BY <1>1, <1>2, <1>3, <1>4, <1>5, DecideStep, BindStep DEF HandlerStep

LEMMA OtherStep ==
  ASSUME CapInv, CleanerStep \/ Settle \/ \E c \in Channels : Lapse(c)
  PROVE  CapInv'
  <1>1. UNCHANGED <<pc, channel, bound_peer>>
    BY DEF CleanerStep, CleanupStart, CleanupReverse, CleanupScan, CleanupRemove,
           Settle, Lapse, handlerVars
  <1>2. live' \subseteq live
    BY DEF CleanerStep, CleanupStart, CleanupReverse, CleanupScan, CleanupRemove,
           Settle, Lapse, mapVars
  <1> QED
    BY ZenonT(40), <1>1, <1>2, ShrinkStep

LEMMA CapInit == Init => CapInv
  <1>1. Cardinality({}) = 0
    BY FS_EmptySet
  <1> QED
    BY <1>1, BindingsAssumption DEF Init, CapInv, CapRespected

LEMMA CapStep == CapInv /\ [Next]_vars => CapInv'
  <1>1. ASSUME CapInv, UNCHANGED vars
        PROVE  CapInv'
    BY <1>1, ShrinkStep DEF vars, mapVars, historyVars, handlerVars
  <1> QED
    BY <1>1, LookupStep, HandlerStepInv, OtherStep DEF Next

\* At most max_channels_per_alloc bindings are live, for every number of
\* channels and peers and every order of the two tasks' accesses: the count
\* that handle_channel_bind takes several steps before it binds is enough.
THEOREM CapCorrect == Spec => []CapRespected
  <1>1. CapInv => CapRespected
    BY DEF CapInv
  <1> QED
    BY <1>1, CapInit, CapStep, PTL DEF Spec

----------------------------------------------------------------------------
(* Types *)

\* A request in hand has its channel and its peer.
TypeInv ==
  /\ TypeOK
  /\ pc # "idle" => channel \in Channels /\ peer_addr \in Peers

\* The request is answered and nothing else changes but the maps.
LEMMA TypeAnswer ==
  ASSUME TypeInv, Answer, UNCHANGED cleanerVars,
         channels' \in [Channels -> Peers \cup {NoPeer}],
         live' \subseteq {c \in Channels : channels'[c] # NoPeer},
         channels_reverse' \in [Peers -> Channels \cup {NoChannel}],
         fresh' \subseteq Channels,
         overtaken' \in BOOLEAN, due' \subseteq Channels
  PROVE  TypeInv'
  BY DEF TypeInv, TypeOK, Answer, cleanerVars

LEMMA TypeHandler ==
  ASSUME TypeInv, HandlerStep
  PROVE  TypeInv'
  <1>1. CASE LookupReverse
    BY <1>1 DEF LookupReverse, TypeInv, TypeOK, mapVars, historyVars, cleanerVars
  <1>2. CASE LookupForward
    <2>1. ChannelFor(peer_addr, old) \in Channels \cup {NoChannel}
      BY DEF ChannelFor, TypeInv, TypeOK
    <2> QED
      BY <1>2, <2>1 DEF LookupForward, TypeInv, TypeOK, mapVars, historyVars, cleanerVars
  <1>3. ASSUME UNCHANGED <<mapVars, historyVars, cleanerVars>>, pc # "idle",
               \/ Answer
               \/ /\ pc' \in {"permit", "bind"}
                  /\ UNCHANGED <<channel, peer_addr, bound_peer, bound_channel, old>>
        PROVE  TypeInv'
    <2>1. CASE Answer
      BY <1>3, <2>1, TypeAnswer DEF TypeInv, TypeOK, mapVars, historyVars, cleanerVars
    <2>2. CASE ~Answer
      BY <1>3, <2>2 DEF TypeInv, TypeOK, mapVars, historyVars, cleanerVars
    <2> QED
      BY <2>1, <2>2
  <1>4. CASE Decide
    BY <1>3, <1>4 DEF Decide
  <1>5. CASE Permit
    BY <1>3, <1>5 DEF Permit
  <1>6. CASE Bind
    <2>1. channel \in Channels /\ peer_addr \in Peers /\ peer_addr # NoPeer
      BY <1>6, BindingsAssumption DEF Bind, TypeInv
    <2>2. /\ channels' \in [Channels -> Peers \cup {NoPeer}]
          /\ live' \subseteq {c \in Channels : channels'[c] # NoPeer}
          /\ fresh' \subseteq Channels
          /\ old' \in Peers \cup {NoPeer}
      BY <1>6, <2>1 DEF Bind, TypeInv, TypeOK
    <2> QED
      BY <1>6, <2>1, <2>2 DEF Bind, TypeInv, TypeOK, cleanerVars
  <1>7. CASE Unlink
    BY ZenonT(40), <1>7 DEF Unlink, TypeInv, TypeOK, historyVars, cleanerVars
  <1>8. CASE Link
    <2>1. channels_reverse' \in [Peers -> Channels \cup {NoChannel}]
      BY <1>8 DEF Link, TypeInv, TypeOK
    <2>2. CASE Answer
      BY <1>8, <2>1, <2>2, TypeAnswer DEF Link, TypeInv, TypeOK, historyVars, cleanerVars
    <2>3. CASE ~Answer
      BY <1>8, <2>1, <2>3 DEF Link, TypeInv, TypeOK, historyVars, cleanerVars
    <2> QED
      BY <2>2, <2>3
  <1>9. CASE DropOld
    <2>1. /\ channels' \in [Channels -> Peers \cup {NoPeer}]
          /\ live' \subseteq {c \in Channels : channels'[c] # NoPeer}
          /\ fresh' \subseteq Channels
      BY Zenon, <1>9 DEF DropOld, TypeInv, TypeOK
    <2> QED
      BY <1>9, <2>1, TypeAnswer DEF DropOld, TypeInv, TypeOK, historyVars, cleanerVars
  <1> QED
    BY <1>1, <1>2, <1>4, <1>5, <1>6, <1>7, <1>8, <1>9 DEF HandlerStep

LEMMA TypeCleaner ==
  ASSUME TypeInv, CleanerStep
  PROVE  TypeInv'
  <1>1. CASE CleanupStart
    BY <1>1 DEF CleanupStart, TypeInv, TypeOK, mapVars, historyVars, handlerVars
  <1>2. ASSUME NEW c \in Channels, CleanupScan(c)
        PROVE  TypeInv'
    <2>1. lapsed' \subseteq Channels \X Peers
      BY <1>2 DEF CleanupScan, TypeInv, TypeOK
    <2> QED
      BY <1>2, <2>1 DEF CleanupScan, TypeInv, TypeOK, mapVars, historyVars, handlerVars
  <1>3. ASSUME NEW e \in Channels \X Peers, CleanupRemove(e)
        PROVE  TypeInv'
    <2>1. /\ channels' \in [Channels -> Peers \cup {NoPeer}]
          /\ live' \subseteq {c \in Channels : channels'[c] # NoPeer}
          /\ fresh' \subseteq Channels
      BY <1>3 DEF CleanupRemove, TypeInv, TypeOK
    <2> QED
      BY <1>3, <2>1 DEF CleanupRemove, TypeInv, TypeOK, historyVars, handlerVars
  <1>4. CASE CleanupReverse
    <2>1. channels_reverse' \in [Peers -> Channels \cup {NoChannel}]
      BY Zenon, <1>4 DEF CleanupReverse, TypeInv, TypeOK
    <2> QED
      BY <1>4, <2>1 DEF CleanupReverse, TypeInv, TypeOK, handlerVars
  <1> QED
    BY <1>1, <1>2, <1>3, <1>4 DEF CleanerStep

LEMMA TypeInit == Init => TypeInv
  BY Zenon DEF Init, TypeInv, TypeOK

LEMMA TypeStep ==
  ASSUME TypeInv, [Next]_vars
  PROVE  TypeInv'
  <1>1. CASE UNCHANGED vars
    BY <1>1 DEF TypeInv, TypeOK, vars, mapVars, historyVars, handlerVars, cleanerVars
  <1>2. ASSUME NEW c \in Channels, NEW p \in Peers, ChannelBind(c, p)
        PROVE  TypeInv'
    <2>1. PeerFor(c) \in Peers \cup {NoPeer}
      BY DEF PeerFor, TypeInv, TypeOK
    <2> QED
      BY <1>2, <2>1 DEF ChannelBind, TypeInv, TypeOK, mapVars, historyVars, cleanerVars
  <1>3. CASE Settle \/ \E c \in Channels : Lapse(c)
    BY <1>3 DEF Settle, Lapse, TypeInv, TypeOK, historyVars, handlerVars, cleanerVars
  <1> QED
    BY ZenonT(40), <1>1, <1>2, <1>3, TypeHandler, TypeCleaner DEF Next

\* Every variable keeps its type: no index runs into an absent channel or peer
\* and a live binding has its peer, while bind_channel and
\* cleanup_expired_channels run on two threads.
THEOREM BindingsTyped == Spec => []TypeOK
  <1>1. TypeInv /\ [Next]_vars => TypeInv'
    BY ZenonT(40), TypeStep
  <1>2. TypeInv => TypeOK
    BY DEF TypeInv
  <1> QED
    BY TypeInit, <1>1, <1>2, PTL DEF Spec

----------------------------------------------------------------------------
(* The peer of a live binding *)

\* What peer_for_channel found is still the peer of the channel, if the binding
\* is live: until the bind, the pass and the clock only take bindings away.
CheckInv ==
  /\ pc \in {"reverse", "forward", "decide", "permit", "bind"} /\ channel \in live =>
       bound_peer = channels[channel]
  /\ pc \in {"permit", "bind"} => bound_peer \in {NoPeer, peer_addr}
  /\ pc = "drop" => old \in Channels

LEMMA CheckHandler ==
  ASSUME TypeInv, CheckInv,
         HandlerStep \/ \E c \in Channels, p \in Peers : ChannelBind(c, p)
  PROVE  CheckInv'
  <1>1. ASSUME NEW c \in Channels, NEW p \in Peers, ChannelBind(c, p)
        PROVE  CheckInv'
    BY <1>1 DEF ChannelBind, PeerFor, CheckInv, mapVars
  <1>2. CASE LookupReverse \/ LookupForward
    BY <1>2 DEF LookupReverse, LookupForward, CheckInv, mapVars
  <1>3. CASE Decide
    BY <1>3 DEF Decide, Answer, Conflict, CheckInv, mapVars
  <1>4. CASE Permit
    BY <1>4 DEF Permit, Answer, CheckInv, mapVars
  <1>5. CASE Bind \/ Unlink \/ Link \/ DropOld
    <2>1. pc' \in {"unlink", "link", "drop", "idle"}
      BY <1>5 DEF Bind, Unlink, Link, DropOld, Answer
    <2>2. pc' = "drop" => old' \in Channels
      BY <1>5 DEF Bind, Unlink, Link, DropOld, Answer, TypeInv, TypeOK
    <2> QED
      BY <2>1, <2>2 DEF CheckInv
  <1> QED
    BY ZenonT(40), <1>1, <1>2, <1>3, <1>4, <1>5 DEF HandlerStep

LEMMA CheckOther ==
  ASSUME TypeInv, CheckInv,
         CleanerStep \/ Settle \/ (\E c \in Channels : Lapse(c)) \/ UNCHANGED vars
  PROVE  /\ CheckInv'
         /\ \A c \in live : channels'[c] \in {channels[c], NoPeer}
  <1>1. UNCHANGED handlerVars /\ live' \subseteq live
    BY ZenonT(40) DEF CleanerStep, CleanupStart, CleanupReverse, CleanupScan, CleanupRemove,
                      Settle, Lapse, vars, mapVars
  <1>2. \/ channels' = channels
        \/ \E d \in Channels : channels' = [channels EXCEPT ![d] = NoPeer] /\ d \notin live'
    <2>1. ASSUME NEW e \in Channels \X Peers, CleanupRemove(e)
          PROVE  \E d \in Channels :
                   channels' = [channels EXCEPT ![d] = NoPeer] /\ d \notin live'
      <3>1. e[1] \in Channels
        OBVIOUS
      <3> QED
        BY ZenonT(40), <2>1, <3>1 DEF CleanupRemove
    <2> QED
      BY ZenonT(40), <2>1 DEF CleanerStep, CleanupStart, CleanupReverse, CleanupScan,
                              Settle, Lapse, vars, mapVars
  <1>3. /\ \A c \in live : channels'[c] \in {channels[c], NoPeer}
        /\ \A c \in live' : channels'[c] = channels[c]
    BY <1>1, <1>2 DEF TypeInv, TypeOK
  <1>4. CheckInv'
    BY ZenonT(40), <1>1, <1>3 DEF CheckInv, handlerVars
  <1> QED
    BY ZenonT(40), <1>3, <1>4

\* bind_channel writes over a live binding only what is there.
LEMMA NoRedirect ==
  ASSUME TypeInv, CheckInv,
         HandlerStep \/ \E c \in Channels, p \in Peers : ChannelBind(c, p),
         NEW c \in live
  PROVE  channels'[c] \in {channels[c], NoPeer}
  <1>t. c \in Channels /\ channels \in [Channels -> Peers \cup {NoPeer}] /\ channels[c] # NoPeer
    BY ZenonT(40) DEF TypeInv, TypeOK
  <1>1. CASE Bind
    <2>1. channels' = [channels EXCEPT ![channel] = peer_addr] /\ pc = "bind"
      BY ZenonT(40), <1>1 DEF Bind
    <2>2. c = channel => peer_addr = channels[c]
      BY ZenonT(40), <1>t, <2>1 DEF CheckInv
    <2> QED
      BY ZenonT(40), <1>t, <2>1, <2>2
  <1>2. CASE DropOld
    BY ZenonT(40), <1>t, <1>2 DEF DropOld
  <1>3. CASE ~Bind /\ ~DropOld
    <2>1. channels' = channels
      BY <1>3 DEF HandlerStep, ChannelBind, LookupReverse, LookupForward, Decide, Permit,
                  Unlink, Link, mapVars
    <2> QED
      BY ZenonT(40), <2>1
  <1> QED
    BY <1>1, <1>2, <1>3

\* No order of binds, passes and lapses gives a live channel another peer: a bind
\* that passed the check of handle_channel_bind never overwrites a live binding
\* with a different one, whatever a pass does in between.
THEOREM NotRedirectedCorrect == Spec => NotRedirected
  <1>1. TypeInv /\ [Next]_vars => TypeInv'
    BY ZenonT(40), TypeStep
  <1>2. Init => CheckInv
    BY DEF Init, CheckInv
  <1>3. TypeInv /\ CheckInv /\ [Next]_vars => CheckInv'
    BY ZenonT(40), CheckHandler, CheckOther DEF Next
  <1>4. TypeInv /\ CheckInv /\ [Next]_vars =>
          [\A c \in live : channels'[c] \in {channels[c], NoPeer}]_vars
    BY ZenonT(40), CheckOther, NoRedirect DEF Next
  <1> QED
    BY TypeInit, <1>1, <1>2, <1>3, <1>4, PTL DEF Spec, NotRedirected

----------------------------------------------------------------------------
(* The two maps *)

Fwd(c) == channels[c] # NoPeer => channels_reverse[channels[c]] = c
Rev(p) == channels_reverse[p] # NoChannel => channels[channels_reverse[p]] = p

\* Where in between two accesses the maps disagree.
FwdInv ==
  \A c \in Channels :
    Fwd(c) \/ (pc \in {"unlink", "link"} /\ c = channel) \/ (pc = "drop" /\ c = old)

RevInv ==
  \A p \in Peers :
    \/ Rev(p)
    \/ pc = "unlink" /\ p = old
    \/ cpc = "reverse" /\ p = cur[2] /\ channels_reverse[p] = cur[1]

\* What bind_channel knows of the entries it has left to write: its channel stays
\* bound meanwhile.
BindInv ==
  /\ pc \in {"unlink", "link", "drop"} =>
       channels[channel] = peer_addr /\ channel \in live \cap fresh
  /\ pc = "unlink" => old \in Peers \ {peer_addr} /\ channels_reverse[old] = channel
  /\ pc = "drop" =>
       /\ old \in Channels \ {channel} /\ old \notin live
       /\ channels[old] \in {peer_addr, NoPeer} /\ channels_reverse[peer_addr] = channel

\* What a pass has collected is still lapsed, or has gone.
PassInv ==
  /\ \A e \in lapsed : e[1] \notin live /\ channels[e[1]] \in {e[2], NoPeer}
  /\ cpc = "reverse" => cur \in Channels \X Peers /\ channels[cur[1]] = NoPeer

\* What the two lookups found is still what is live: until the bind, live
\* bindings only lapse.
LiveInv ==
  /\ pc = "forward" => channels_reverse[peer_addr] \in {old, NoChannel} /\ old # NoChannel
  /\ pc \in {"decide", "permit", "bind", "unlink", "link"} =>
       \A c \in live \ {channel} : channels[c] = peer_addr => bound_channel = c
  /\ pc \in {"permit", "bind", "unlink", "link"} => ~Conflict

MapsInv == FwdInv /\ RevInv /\ BindInv /\ PassInv /\ LiveInv

\* The request goes on, or ends, and the maps stay as they are; or the clock runs.
LEMMA MapsStay ==
  ASSUME TypeInv, MapsInv, UNCHANGED <<channels, channels_reverse, fresh, cleanerVars>>,
         live' \subseteq live, live \subseteq live' \cup (Channels \ fresh),
         \/ /\ pc \notin {"unlink", "link", "drop"}
            /\ pc' \notin {"unlink", "link", "drop"}
         \/ UNCHANGED handlerVars,
         LiveInv'
  PROVE  MapsInv'
  <1>1. FwdInv'
    BY ZenonT(40) DEF MapsInv, FwdInv, Fwd, handlerVars
  <1>2. RevInv'
    BY ZenonT(40) DEF MapsInv, RevInv, Rev, cleanerVars, handlerVars
  <1>3. BindInv'
    BY DEF MapsInv, BindInv, handlerVars
  <1>4. PassInv'
    BY DEF MapsInv, PassInv, cleanerVars
  <1> QED
    BY <1>1, <1>2, <1>3, <1>4 DEF MapsInv

\* Up to the verdict nothing is bound.
LEMMA MapsLookup ==
  ASSUME TypeInv, MapsInv,
         \/ \E c \in Channels, p \in Peers : ChannelBind(c, p)
         \/ LookupReverse \/ LookupForward \/ Decide \/ Permit
  PROVE  MapsInv'
  <1>t. TypeOK
    BY DEF TypeInv
  <1>1. /\ UNCHANGED <<mapVars, cleanerVars>>
        /\ pc \notin {"unlink", "link", "drop"} /\ pc' \notin {"unlink", "link", "drop"}
    BY ZenonT(40) DEF ChannelBind, LookupReverse, LookupForward, Decide, Permit, Answer
  <1>2. CASE \E c \in Channels, p \in Peers : ChannelBind(c, p)
    <2>1. LiveInv'
      BY <1>2 DEF ChannelBind, LiveInv
    <2> QED
      BY ZenonT(40), <1>1, <2>1, MapsStay DEF mapVars
  <1>3. CASE LookupReverse
    <2>1. /\ UNCHANGED <<channels, live, channels_reverse, channel, peer_addr, bound_peer, bound_channel>>
          /\ old' = channels_reverse[peer_addr] /\ pc = "reverse" /\ peer_addr \in Peers
          /\ pc' = IF old' = NoChannel THEN "decide" ELSE "forward"
      BY ZenonT(40), <1>3 DEF LookupReverse, mapVars, TypeInv
    <2>2. old' = NoChannel => \A c \in live : channels[c] # peer_addr
      <3>1. \A c \in live : c \in Channels /\ c # NoChannel /\ Fwd(c)
        BY <2>1, <1>t, BindingsAssumption DEF MapsInv, FwdInv, TypeOK
      <3> QED
        BY ZenonT(40), <2>1, <3>1, <1>t, BindingsAssumption DEF Fwd, TypeOK
    <2>3. LiveInv'
      BY ZenonT(40), <2>1, <2>2 DEF LiveInv
    <2> QED
      BY ZenonT(40), <1>1, <2>3, MapsStay DEF mapVars
  <1>4. CASE LookupForward
    <2>1. /\ UNCHANGED <<channels, live, channel, peer_addr, bound_peer>>
          /\ bound_channel' = ChannelFor(peer_addr, old) /\ pc = "forward" /\ pc' = "decide"
          /\ channels_reverse[peer_addr] \in {old, NoChannel} /\ peer_addr \in Peers
      BY ZenonT(40), <1>4 DEF LookupForward, mapVars, MapsInv, LiveInv, TypeInv
    <2>2. ASSUME NEW c \in live, channels[c] = peer_addr
          PROVE  bound_channel' = c
      <3>1. c \in Channels /\ Fwd(c) /\ peer_addr # NoPeer /\ c # NoChannel
        BY <2>1, <1>t, BindingsAssumption DEF MapsInv, FwdInv, TypeOK
      <3>2. old = c
        BY ZenonT(40), <2>1, <2>2, <3>1 DEF Fwd
      <3> QED
        BY ZenonT(40), <2>1, <2>2, <3>2 DEF ChannelFor
    <2>3. LiveInv'
      BY ZenonT(40), <2>1, <2>2 DEF LiveInv
    <2> QED
      BY ZenonT(40), <1>1, <2>3, MapsStay DEF mapVars
  <1>5. CASE Decide \/ Permit
    <2>1. LiveInv'
      BY ZenonT(40), <1>5 DEF Decide, Permit, Answer, MapsInv, LiveInv, Conflict, mapVars
    <2> QED
      BY ZenonT(40), <1>1, <2>1, MapsStay DEF mapVars
  <1> QED
    BY <1>2, <1>3, <1>4, <1>5

\* bind_channel, the forward entry.  A reverse entry that named the channel is
\* that of its old peer; a channel a pass has in hand is not bound.
LEMMA MapsBind ==
  ASSUME TypeInv, MapsInv, Bind, channel \notin Collected
  PROVE  MapsInv'
  <1>t. TypeOK /\ pc = "bind" /\ channel \in Channels /\ peer_addr \in Peers
    BY DEF TypeInv, Bind
  <1>1. /\ channels' = [channels EXCEPT ![channel] = peer_addr]
        /\ live' = live \cup {channel} /\ fresh' = fresh \cup {channel}
        /\ old' = channels[channel]
        /\ pc' = IF old' \in {NoPeer, peer_addr} THEN "link" ELSE "unlink"
        /\ UNCHANGED <<channels_reverse, cleanerVars, channel, peer_addr, bound_peer, bound_channel>>
    BY ZenonT(40) DEF Bind
  <1>2. /\ \A e \in lapsed : e[1] # channel
        /\ cpc = "reverse" => cur[1] # channel
    BY ZenonT(40) DEF Collected
  <1>3. /\ \A c \in Channels : Fwd(c)
        /\ \A p \in Peers : Rev(p) \/ (cpc = "reverse" /\ p = cur[2] /\ channels_reverse[p] = cur[1])
    BY <1>t DEF MapsInv, FwdInv, RevInv
  <1>4. FwdInv'
    BY <1>t, <1>1, <1>3 DEF FwdInv, Fwd, TypeOK
  <1>5. \A p \in Peers : channels_reverse[p] = channel => channels[channel] = p
    BY <1>t, <1>2, <1>3, BindingsAssumption DEF Rev
  <1>6. RevInv'
    <2> SUFFICES ASSUME NEW p \in Peers
                 PROVE  \/ Rev(p)' \/ (pc' = "unlink" /\ p = old')
                        \/ (cpc' = "reverse" /\ p = cur'[2] /\ channels_reverse'[p] = cur'[1])
      BY DEF RevInv
    <2>1. CASE channels_reverse[p] = channel
      BY ZenonT(40), <1>t, <1>1, <1>5, <2>1, BindingsAssumption DEF Rev, TypeOK
    <2>2. CASE channels_reverse[p] # channel
      BY <1>t, <1>1, <1>3, <2>2 DEF Rev, TypeOK, cleanerVars
    <2> QED
      BY <2>1, <2>2
  <1>7. pc' = "unlink" => old' \in Peers \ {peer_addr} /\ channels_reverse[old'] = channel
    BY ZenonT(40), <1>t, <1>1, <1>3 DEF Fwd, TypeOK
  <1>8. BindInv'
    BY <1>t, <1>1, <1>7 DEF BindInv, TypeOK
  <1>9. PassInv'
    <2>1. \A e \in lapsed : e[1] \in Channels /\ e[1] # channel /\ e[1] \notin live
                            /\ channels[e[1]] \in {e[2], NoPeer}
      BY <1>t, <1>2 DEF MapsInv, PassInv, TypeOK
    <2>2. cpc = "reverse" => cur \in Channels \X Peers /\ cur[1] # channel /\ channels[cur[1]] = NoPeer
      BY <1>2 DEF MapsInv, PassInv
    <2> QED
      BY <1>t, <1>1, <2>1, <2>2 DEF PassInv, TypeOK, cleanerVars
  <1>10. LiveInv'
    <2>1. \A c \in live' \ {channel} : c \in live /\ channels'[c] = channels[c]
      BY ZenonT(40), <1>t, <1>1 DEF TypeOK
    <2> QED
      BY <1>t, <1>1, <2>1 DEF MapsInv, LiveInv, Conflict
  <1> QED
    BY ZenonT(40), <1>4, <1>6, <1>8, <1>9, <1>10 DEF MapsInv

\* bind_channel: the old peer's reverse entry goes.
LEMMA MapsUnlink ==
  ASSUME TypeInv, MapsInv, Unlink
  PROVE  MapsInv'
  <1>t. /\ TypeOK /\ channel \in Channels /\ peer_addr \in Peers
        /\ pc = "unlink" /\ old \in Peers \ {peer_addr} /\ channels_reverse[old] = channel
        /\ channels[channel] = peer_addr /\ channel \in live \cap fresh
    BY DEF TypeInv, MapsInv, BindInv, Unlink
  <1>1. /\ channels_reverse' = [channels_reverse EXCEPT ![old] = NoChannel] /\ pc' = "link"
        /\ UNCHANGED <<channels, live, fresh, cleanerVars, channel, peer_addr, bound_peer, bound_channel>>
    BY ZenonT(40) DEF Unlink
  <1>2. \A c \in Channels \ {channel} : Fwd(c)
    BY <1>t DEF MapsInv, FwdInv
  <1>3. FwdInv'
    BY <1>t, <1>1, <1>2 DEF FwdInv, Fwd, TypeOK
  <1>4. RevInv'
    BY <1>t, <1>1 DEF MapsInv, RevInv, Rev, TypeOK, cleanerVars
  <1>5. BindInv'
    BY ZenonT(40), <1>t, <1>1 DEF BindInv
  <1>6. PassInv'
    BY ZenonT(40), <1>1 DEF MapsInv, PassInv, cleanerVars
  <1>7. LiveInv'
    BY ZenonT(40), <1>t, <1>1 DEF MapsInv, LiveInv, Conflict
  <1> QED
    BY ZenonT(40), <1>3, <1>4, <1>5, <1>6, <1>7 DEF MapsInv

\* bind_channel: the reverse entry, in place of one that named another channel.
\* That channel is not live: channel_for_peer would have found it, or it has
\* lapsed and a pass is done with its forward entry.
LEMMA MapsLink ==
  ASSUME TypeInv, MapsInv, Link
  PROVE  MapsInv'
  <1> DEFINE d == channels_reverse[peer_addr]
  <1>t. /\ TypeOK /\ channel \in Channels /\ peer_addr \in Peers
        /\ pc = "link" /\ channels[channel] = peer_addr /\ channel \in live \cap fresh
    BY DEF TypeInv, MapsInv, BindInv, Link
  <1>1. /\ channels_reverse' = [channels_reverse EXCEPT ![peer_addr] = channel]
        /\ UNCHANGED <<channels, live, fresh, cleanerVars>>
    BY DEF Link
  <1>2. /\ \A c \in Channels \ {channel} : Fwd(c)
        /\ \A p \in Peers : Rev(p) \/ (cpc = "reverse" /\ p = cur[2] /\ channels_reverse[p] = cur[1])
    BY <1>t DEF MapsInv, FwdInv, RevInv
  <1>3. d \in Channels \cup {NoChannel}
    BY <1>t DEF TypeOK
  <1>4. RevInv'
    <2>1. ASSUME NEW p \in Peers
          PROVE  Rev(p)' \/ (cpc = "reverse" /\ p = cur[2] /\ channels_reverse'[p] = cur[1])
      <3>1. CASE p = peer_addr
        BY ZenonT(40), <1>t, <1>1, <3>1 DEF Rev, TypeOK
      <3>2. CASE p # peer_addr
        BY ZenonT(40), <1>t, <1>1, <1>2, <3>2 DEF Rev, TypeOK
      <3> QED
        BY ZenonT(40), <3>1, <3>2
    <2> QED
      BY ZenonT(40), <1>1, <2>1 DEF RevInv, cleanerVars
  <1>5. \A c \in Channels : Fwd(c)' \/ (c = d /\ c # channel)
    <2>1. channels_reverse'[peer_addr] = channel
      BY ZenonT(40), <1>t, <1>1 DEF TypeOK
    <2>2. ASSUME NEW c \in Channels \ {channel}
          PROVE  Fwd(c)' \/ c = d
      <3>1. CASE channels[c] = peer_addr
        BY ZenonT(40), <1>t, <1>1, <1>2, <3>1, BindingsAssumption DEF Fwd
      <3>2. CASE channels[c] # peer_addr
        BY ZenonT(40), <1>t, <1>1, <1>2, <3>2 DEF Fwd, TypeOK
      <3> QED
        BY ZenonT(40), <3>1, <3>2
    <2>3. \A c \in Channels : c = channel => Fwd(c)'
      BY ZenonT(40), <1>t, <1>1, <2>1 DEF Fwd
    <2> QED
      BY ZenonT(40), <2>2, <2>3
  <1>6. PassInv'
    BY ZenonT(40), <1>1 DEF MapsInv, PassInv, cleanerVars
  <1>7. CASE d \in {NoChannel, channel}
    <2>1. Answer
      BY ZenonT(40), <1>7 DEF Link
    <2>2. FwdInv'
      BY ZenonT(40), <1>5, <1>7, BindingsAssumption DEF FwdInv
    <2>3. BindInv' /\ LiveInv'
      BY ZenonT(40), <2>1 DEF BindInv, LiveInv, Answer
    <2> QED
      BY ZenonT(40), <1>4, <1>6, <2>2, <2>3 DEF MapsInv
  <1>8. CASE d \notin {NoChannel, channel}
    <2>1. old' = d /\ pc' = "drop" /\ UNCHANGED <<channel, peer_addr, bound_peer, bound_channel>>
      BY <1>8 DEF Link
    <2>2. d \in Channels \ {channel}
      BY ZenonT(40), <1>3, <1>8
    <2>3. channels[d] \in {peer_addr, NoPeer}
      <3>1. CASE Rev(peer_addr)
        BY ZenonT(40), <3>1, <1>8 DEF Rev
      <3>2. CASE cpc = "reverse" /\ d = cur[1]
        BY ZenonT(40), <3>2 DEF MapsInv, PassInv
      <3> QED
        BY ZenonT(40), <1>t, <1>2, <3>1, <3>2
    <2>4. d \notin live
      <3>1. SUFFICES ASSUME d \in live PROVE FALSE
        OBVIOUS
      <3>2. channels[d] = peer_addr
        BY ZenonT(40), <1>t, <2>3, <3>1 DEF TypeOK
      <3>3. bound_channel = d
        BY ZenonT(40), <1>t, <2>2, <3>1, <3>2 DEF MapsInv, LiveInv
      <3> QED
        BY ZenonT(40), <1>t, <1>8, <3>3 DEF MapsInv, LiveInv, Conflict
    <2>5. channels_reverse'[peer_addr] = channel
      BY ZenonT(40), <1>t, <1>1 DEF TypeOK
    <2> HIDE DEF d
    <2>6. FwdInv'
      BY ZenonT(40), <1>5, <2>1 DEF FwdInv
    <2>7. BindInv'
      BY ZenonT(40), <1>t, <1>1, <2>1, <2>2, <2>3, <2>4, <2>5 DEF BindInv
    <2>8. LiveInv'
      BY ZenonT(40), <2>1 DEF LiveInv
    <2> QED
      BY ZenonT(40), <1>4, <1>6, <2>6, <2>7, <2>8 DEF MapsInv
  <1> QED
    BY <1>7, <1>8

\* bind_channel: the peer's old channel goes, which no reverse entry names but
\* one a pass is about to remove.
LEMMA MapsDrop ==
  ASSUME TypeInv, MapsInv, DropOld
  PROVE  MapsInv'
  <1>t. /\ TypeOK /\ channel \in Channels /\ peer_addr \in Peers
        /\ pc = "drop" /\ old \in Channels \ {channel} /\ channels[old] \in {peer_addr, NoPeer}
        /\ channels_reverse[peer_addr] = channel /\ old \notin live
    BY DEF TypeInv, MapsInv, BindInv, DropOld
  <1>1. /\ channels' = [channels EXCEPT ![old] = NoPeer]
        /\ live' = live \ {old} /\ fresh' = fresh \ {old}
        /\ Answer /\ UNCHANGED <<channels_reverse, cleanerVars>>
    BY ZenonT(40) DEF DropOld
  <1>2. \A c \in Channels \ {old} : Fwd(c)
    BY ZenonT(40), <1>t DEF MapsInv, FwdInv
  <1>3. FwdInv'
    <2>1. \A c \in Channels : Fwd(c)'
      BY ZenonT(40), <1>t, <1>1, <1>2 DEF Fwd, TypeOK
    <2> QED
      BY ZenonT(40), <2>1 DEF FwdInv
  <1>4. RevInv'
    <2> SUFFICES ASSUME NEW p \in Peers
                 PROVE  Rev(p)' \/ (cpc = "reverse" /\ p = cur[2] /\ channels_reverse[p] = cur[1])
      BY ZenonT(40), <1>1 DEF RevInv, cleanerVars
    <2>1. CASE Rev(p)
      BY <1>t, <1>1, <2>1 DEF Rev, TypeOK
    <2>2. CASE ~Rev(p)
      BY ZenonT(40), <1>t, <2>2 DEF MapsInv, RevInv
    <2> QED
      BY ZenonT(40), <2>1, <2>2
  <1>5. BindInv' /\ LiveInv'
    BY ZenonT(40), <1>1 DEF BindInv, LiveInv, Answer
  <1>6. PassInv'
    <2>1. \A c \in Channels : channels'[c] = IF c = old THEN NoPeer ELSE channels[c]
      BY ZenonT(40), <1>t, <1>1 DEF TypeOK
    <2>2. \A e \in lapsed : e[1] \in Channels /\ e[1] \notin live /\ channels[e[1]] \in {e[2], NoPeer}
      BY <1>t DEF TypeOK, MapsInv, PassInv
    <2>3. cpc = "reverse" => cur \in Channels \X Peers /\ cur[1] \in Channels /\ channels[cur[1]] = NoPeer
      BY DEF MapsInv, PassInv
    <2> QED
      BY <1>1, <2>1, <2>2, <2>3 DEF PassInv, cleanerVars
  <1> QED
    BY ZenonT(40), <1>3, <1>4, <1>5, <1>6 DEF MapsInv

\* cleanup_expired_channels.  The reverse entry of a pair it has taken out of
\* `channels` is the next thing it looks at; none of the channels it touches is
\* the one that bind_channel is at work on, which is live.
LEMMA MapsCollect ==
  ASSUME TypeInv, MapsInv, CleanupStart \/ \E c \in Channels : CleanupScan(c)
  PROVE  MapsInv'
  <1>t. TypeOK
    BY DEF TypeInv
  <1>1. UNCHANGED <<mapVars, handlerVars>> /\ cpc # "reverse" /\ cpc' # "reverse"
    BY ZenonT(40) DEF CleanupStart, CleanupScan
  <1>2. \A e \in lapsed' : e[1] \notin live /\ channels[e[1]] \in {e[2], NoPeer}
    <2>1. CASE CleanupStart
      BY ZenonT(40), <2>1 DEF CleanupStart, MapsInv, PassInv
    <2>2. ASSUME NEW c \in Channels, CleanupScan(c)
          PROVE  \A e \in lapsed' : e[1] \notin live /\ channels[e[1]] \in {e[2], NoPeer}
      BY <2>2 DEF CleanupScan, MapsInv, PassInv
    <2> QED
      BY ZenonT(40), <2>1, <2>2
  <1>3. FwdInv'
    BY ZenonT(40), <1>1 DEF MapsInv, FwdInv, Fwd, mapVars, handlerVars
  <1>4. RevInv'
    BY ZenonT(40), <1>1 DEF MapsInv, RevInv, Rev, mapVars, handlerVars
  <1>5. BindInv'
    BY ZenonT(40), <1>1 DEF MapsInv, BindInv, mapVars, handlerVars
  <1>6. PassInv'
    BY ZenonT(40), <1>1, <1>2 DEF PassInv, mapVars
  <1>7. LiveInv'
    BY ZenonT(40), <1>1 DEF MapsInv, LiveInv, Conflict, mapVars, handlerVars
  <1> QED
    BY ZenonT(40), <1>3, <1>4, <1>5, <1>6, <1>7 DEF MapsInv

LEMMA MapsRemove ==
  ASSUME TypeInv, MapsInv, NEW e \in Channels \X Peers, CleanupRemove(e)
  PROVE  MapsInv' /\ e[1] \notin live
  <1>t. TypeOK /\ (pc # "idle" => channel \in Channels /\ peer_addr \in Peers)
    BY DEF TypeInv
  <1>1. /\ channels' = [channels EXCEPT ![e[1]] = NoPeer]
        /\ live' = live \ {e[1]} /\ fresh' = fresh \ {e[1]}
        /\ lapsed' = lapsed \ {e} /\ cur' = e /\ cpc' = "reverse" /\ cpc = "scan" /\ e \in lapsed
        /\ UNCHANGED <<channels_reverse, handlerVars, todo>>
    BY ZenonT(40) DEF CleanupRemove
  <1>2. e[1] \in Channels /\ e[2] \in Peers /\ e[1] \notin live /\ channels[e[1]] \in {e[2], NoPeer}
    BY <1>1 DEF MapsInv, PassInv
  <1>3. \A c \in Channels : channels'[c] = IF c = e[1] THEN NoPeer ELSE channels[c]
    BY ZenonT(40), <1>t, <1>1, <1>2 DEF TypeOK
  <1>4. live' = live
    BY ZenonT(40), <1>1, <1>2
  <1>5. \A c \in live : channels'[c] = channels[c]
    BY ZenonT(40), <1>t, <1>2, <1>3 DEF TypeOK
  <1>6. FwdInv'
    <2>1. \A c \in Channels : Fwd(c) => Fwd(c)'
      BY ZenonT(40), <1>1, <1>3 DEF Fwd
    <2> QED
      BY ZenonT(40), <1>1, <2>1 DEF MapsInv, FwdInv, handlerVars
  <1>7. RevInv'
    <2> SUFFICES ASSUME NEW p \in Peers, Rev(p)
                 PROVE  Rev(p)' \/ (p = e[2] /\ channels_reverse[p] = e[1])
      BY ZenonT(40), <1>1 DEF MapsInv, RevInv, handlerVars
    <2>1. CASE channels_reverse[p] = NoChannel
      BY ZenonT(40), <1>1, <2>1 DEF Rev
    <2>2. CASE channels_reverse[p] \in Channels
      BY <1>1, <1>2, <1>3, <2>2, BindingsAssumption DEF Rev
    <2> QED
      BY ZenonT(40), <1>t, <2>1, <2>2 DEF TypeOK
  <1>8. BindInv'
    <2>1. pc \in {"unlink", "link", "drop"} => channel # e[1] /\ channel \in Channels
      BY <1>t, <1>2 DEF MapsInv, BindInv
    <2>2. pc \in {"unlink", "link", "drop"} =>
            channels'[channel] = peer_addr /\ channel \in live' \cap fresh'
      BY ZenonT(40), <1>1, <1>3, <1>4, <2>1 DEF MapsInv, BindInv
    <2>3. pc = "drop" => /\ old \in Channels \ {channel} /\ old \notin live'
                         /\ channels'[old] \in {peer_addr, NoPeer}
                         /\ channels_reverse[peer_addr] = channel
      BY ZenonT(40), <1>3, <1>4 DEF MapsInv, BindInv
    <2> QED
      BY ZenonT(40), <1>1, <2>2, <2>3 DEF MapsInv, BindInv, handlerVars
  <1>9. PassInv'
    <2>1. \A f \in lapsed : f[1] \in Channels /\ f[1] \notin live /\ channels[f[1]] \in {f[2], NoPeer}
      BY <1>t DEF TypeOK, MapsInv, PassInv
    <2>2. \A f \in lapsed' : f[1] \notin live' /\ channels'[f[1]] \in {f[2], NoPeer}
      BY ZenonT(40), <1>1, <1>3, <1>4, <2>1
    <2> QED
      BY ZenonT(40), <1>1, <1>2, <1>3, <2>2 DEF PassInv
  <1>10. LiveInv'
    BY ZenonT(40), <1>1, <1>4, <1>5 DEF MapsInv, LiveInv, Conflict, handlerVars
  <1> QED
    BY ZenonT(40), <1>2, <1>6, <1>7, <1>8, <1>9, <1>10 DEF MapsInv

LEMMA MapsReverse ==
  ASSUME TypeInv, MapsInv, CleanupReverse
  PROVE  MapsInv'
  <1> DEFINE c == cur[1]
             p == cur[2]
  <1>t. TypeOK /\ (pc # "idle" => channel \in Channels /\ peer_addr \in Peers)
    BY DEF TypeInv
  <1>1. cpc = "reverse" /\ c \in Channels /\ p \in Peers /\ channels[c] = NoPeer
    BY DEF CleanupReverse, MapsInv, PassInv
  <1>2. /\ channels_reverse' = IF channels_reverse[p] = c
                                 THEN [channels_reverse EXCEPT ![p] = NoChannel]
                                 ELSE channels_reverse
        /\ cpc' \in {"idle", "scan"}
        /\ UNCHANGED <<channels, live, fresh, handlerVars, lapsed>>
    BY ZenonT(40) DEF CleanupReverse
  <1>3. c \notin live
    BY ZenonT(40), <1>t, <1>1 DEF TypeOK
  <1> HIDE DEF c, p
  <1>4. \A q \in Peers : channels_reverse'[q] = IF q = p /\ channels_reverse[p] = c
                                                  THEN NoChannel ELSE channels_reverse[q]
    BY ZenonT(40), <1>t, <1>1, <1>2 DEF TypeOK
  <1>5. FwdInv'
    <2>1. \A d \in Channels : Fwd(d) => Fwd(d)'
      <3> SUFFICES ASSUME NEW d \in Channels, Fwd(d), channels[d] # NoPeer
                   PROVE  channels_reverse'[channels[d]] = d
        BY ZenonT(40), <1>2 DEF Fwd
      <3>1. d # c /\ channels[d] \in Peers /\ channels_reverse[channels[d]] = d
        BY ZenonT(40), <1>t, <1>1 DEF Fwd, TypeOK
      <3> QED
        BY ZenonT(40), <1>4, <3>1
    <2> QED
      BY ZenonT(40), <1>2, <2>1 DEF MapsInv, FwdInv, handlerVars
  <1>6. RevInv'
    <2>1. \A q \in Peers : \/ Rev(q) \/ (pc = "unlink" /\ q = old)
                           \/ (q = p /\ channels_reverse[q] = c)
      BY ZenonT(40) DEF MapsInv, RevInv, c, p
    <2>2. \A q \in Peers : Rev(q)' \/ (pc = "unlink" /\ q = old)
      BY ZenonT(40), <1>2, <1>4, <2>1 DEF Rev
    <2> QED
      BY ZenonT(40), <1>2, <2>2 DEF RevInv, handlerVars
  <1>7. BindInv'
    <2>1. pc \in {"unlink", "link", "drop"} => channel # c
      BY ZenonT(40), <1>3 DEF MapsInv, BindInv
    <2>2. pc = "unlink" => channels_reverse'[old] = channel
      BY ZenonT(40), <1>4, <2>1 DEF MapsInv, BindInv
    <2>3. pc = "drop" => channels_reverse'[peer_addr] = channel
      BY ZenonT(40), <1>t, <1>4, <2>1 DEF MapsInv, BindInv
    <2> QED
      BY ZenonT(40), <1>2, <2>2, <2>3 DEF MapsInv, BindInv, handlerVars
  <1>8. PassInv'
    BY <1>2 DEF MapsInv, PassInv
  <1>9. LiveInv'
    <2>1. pc = "forward" => channels_reverse'[peer_addr] \in {old, NoChannel}
      BY ZenonT(40), <1>t, <1>4 DEF MapsInv, LiveInv
    <2> QED
      BY ZenonT(40), <1>2, <2>1 DEF MapsInv, LiveInv, Conflict, handlerVars
  <1> QED
    BY ZenonT(40), <1>5, <1>6, <1>7, <1>8, <1>9 DEF MapsInv

\* The clock touches neither map, and not the binding that is being made.
LEMMA MapsTime ==
  ASSUME TypeInv, MapsInv, Settle \/ (\E c \in Channels : Lapse(c)) \/ UNCHANGED vars
  PROVE  MapsInv'
  <1>1. CASE Settle
    <2>1. UNCHANGED <<channels, live, channels_reverse, handlerVars, cleanerVars>> /\ pc = "idle"
      BY ZenonT(40), <1>1 DEF Settle
    <2>2. FwdInv' /\ BindInv' /\ LiveInv'
      BY ZenonT(40), <2>1 DEF MapsInv, FwdInv, Fwd, BindInv, LiveInv, handlerVars
    <2>3. RevInv'
      BY ZenonT(40), <2>1 DEF MapsInv, RevInv, Rev, handlerVars, cleanerVars
    <2>4. PassInv'
      BY ZenonT(40), <2>1 DEF MapsInv, PassInv, cleanerVars
    <2> QED
      BY ZenonT(40), <2>2, <2>3, <2>4 DEF MapsInv
  <1>2. CASE (\E c \in Channels : Lapse(c)) \/ UNCHANGED vars
    <2>1. /\ UNCHANGED <<channels, channels_reverse, fresh, handlerVars, cleanerVars>>
          /\ live' \subseteq live /\ live \subseteq live' \cup (Channels \ fresh)
      BY <1>2 DEF Lapse, vars, mapVars
    <2>2. LiveInv'
      BY ZenonT(40), <2>1 DEF MapsInv, LiveInv, Conflict, handlerVars
    <2> QED
      BY ZenonT(40), <2>1, <2>2, MapsStay
  <1> QED
    BY <1>1, <1>2

LEMMA MapsInit ==
  Init => MapsInv
  <1> SUFFICES ASSUME Init PROVE MapsInv
    OBVIOUS
  <1>1. FwdInv
    BY DEF Init, Fwd, FwdInv
  <1>2. RevInv
    BY DEF Init, Rev, RevInv
  <1> QED
    BY ZenonT(40), <1>1, <1>2 DEF Init, MapsInv, BindInv, PassInv, LiveInv

\* A bind that has not overtaken a pass found its channel not collected.
LEMMA MapsStep ==
  ASSUME TypeInv, overtaken \/ MapsInv, [Next]_vars
  PROVE  (overtaken \/ MapsInv)'
  <1>1. CASE Bind
    <2>1. overtaken' = (overtaken \/ channel \in Collected)
      BY ZenonT(40), <1>1 DEF Bind
    <2> QED
      BY ZenonT(40), <1>1, <2>1, MapsBind
  <1>2. CASE ~Bind
    <2>1. overtaken' = overtaken
      BY ZenonT(40), <1>2 DEF Next, HandlerStep, ChannelBind, LookupReverse, LookupForward, Decide, Permit,
             Unlink, Link, DropOld, CleanerStep, CleanupStart, CleanupScan, CleanupRemove,
             CleanupReverse, Settle, Lapse, vars, historyVars
    <2>2. MapsInv => MapsInv'
      BY ZenonT(40), <1>2, MapsLookup, MapsUnlink, MapsLink, MapsDrop, MapsCollect, MapsRemove, MapsReverse,
         MapsTime DEF Next, HandlerStep, CleanerStep
    <2> QED
      BY ZenonT(40), <2>1, <2>2
  <1> QED
    BY <1>1, <1>2

\* bind_channel and the cleanup pass "keep `channels` and `channels_reverse`
\* consistent" on two threads, whatever the order of their accesses, as long as
\* no channel is bound while a pass has it collected.
THEOREM ConsistentCorrect == Spec => []Consistent
  <1>1. TypeInv /\ [Next]_vars => TypeInv'
    BY ZenonT(40), TypeStep
  <1>2. TypeInv /\ (overtaken \/ MapsInv) /\ [Next]_vars => (overtaken \/ MapsInv)'
    BY ZenonT(40), MapsStep
  <1>3. (overtaken \/ MapsInv) => Consistent
    BY ZenonT(40) DEF MapsInv, FwdInv, RevInv, Consistent, AtRest, Fwd, Rev
  <1> QED
    BY TypeInit, MapsInit, <1>1, <1>2, <1>3, PTL DEF Spec

\* No peer is bound to two channels between requests, also while a pass is on
\* its way, as long as no bind has overtaken a pass.
THEOREM OneChannelCorrect == Spec => []OneChannelPerPeer
  <1>1. TypeInv /\ [Next]_vars => TypeInv'
    BY ZenonT(40), TypeStep
  <1>2. TypeInv /\ (overtaken \/ MapsInv) /\ [Next]_vars => (overtaken \/ MapsInv)'
    BY ZenonT(40), MapsStep
  <1>3. TypeInv /\ (overtaken \/ MapsInv) => OneChannelPerPeer
    <2> SUFFICES ASSUME TypeInv, MapsInv, pc = "idle", NEW c \in live, NEW d \in live,
                        channels[c] = channels[d]
                 PROVE  c = d
      BY ZenonT(40) DEF OneChannelPerPeer
    <2>1. c \in Channels /\ d \in Channels /\ channels[c] # NoPeer
      BY ZenonT(40) DEF TypeInv, TypeOK
    <2>2. Fwd(c) /\ Fwd(d)
      BY ZenonT(40), <2>1 DEF MapsInv, FwdInv
    <2> QED
      BY ZenonT(40), <2>1, <2>2 DEF Fwd
  <1> QED
    BY TypeInit, MapsInit, <1>1, <1>2, <1>3, PTL DEF Spec

----------------------------------------------------------------------------
(* What the client is promised *)

PromisedStep == [Promise!Next]_(Promise!vars)

\* Neither the bindings nor what is live of them.
LEMMA StutterPromised ==
  ASSUME UNCHANGED <<channels, live, overtaken>>
  PROVE  PromisedStep
  BY DEF PromisedStep, Promise!vars

LEMMA LapsePromised ==
  ASSUME NEW c \in Channels, Lapse(c)
  PROVE  PromisedStep
  <1>1. Promise!Lapse(c)
    BY ZenonT(40) DEF Lapse, Promise!Lapse, historyVars
  <1> QED
    BY ZenonT(40), <1>1 DEF PromisedStep, Promise!Next

\* bind_channel drops the old channel of the peer, and the pass a pair it has
\* found lapsed.
LEMMA ForgetPromised ==
  ASSUME NEW c \in Channels, c \notin live \/ overtaken, live' = live \ {c},
         channels' = [channels EXCEPT ![c] = NoPeer], overtaken' = overtaken
  PROVE  PromisedStep
  <1>1. Promise!Forget(c)
    BY ZenonT(40) DEF Promise!Forget
  <1> QED
    BY ZenonT(40), <1>1 DEF PromisedStep, Promise!Next

\* bind_channel binds a channel that is not live: its peer has no other, unless a
\* pass was overtaken, and the check left room.  On a live channel, which no pass
\* has collected, it is a refresh.
LEMMA BindPromised ==
  ASSUME TypeInv, CheckInv, overtaken \/ MapsInv, CapInv, Bind
  PROVE  PromisedStep
  <1>t. TypeOK /\ pc = "bind" /\ channel \in Channels /\ peer_addr \in Peers
    BY ZenonT(40) DEF Bind, TypeInv
  <1>1. /\ channels' = [channels EXCEPT ![channel] = peer_addr]
        /\ live' = live \cup {channel}
        /\ overtaken' = (overtaken \/ channel \in Collected)
    BY ZenonT(40) DEF Bind
  <1>2. overtaken \in BOOLEAN
    BY ZenonT(40), <1>t DEF TypeOK
  <1>3. overtaken' \in {overtaken, TRUE}
    BY ZenonT(40), <1>1, <1>2
  <1>4. CASE channel \in live
    <2>1. channels[channel] = peer_addr
      <3>1. bound_peer = channels[channel] /\ bound_peer \in {NoPeer, peer_addr}
        BY ZenonT(40), <1>t, <1>4 DEF CheckInv
      <3>2. channels[channel] # NoPeer
        BY ZenonT(40), <1>t, <1>4 DEF TypeOK
      <3> QED
        BY ZenonT(40), <3>1, <3>2
    <2>2. channels' = channels /\ live' = live
      BY ZenonT(40), <1>t, <1>1, <1>4, <2>1 DEF TypeOK
    <2>3. MapsInv => channel \notin Collected
      BY ZenonT(40), <1>t, <1>4 DEF MapsInv, PassInv, Collected, TypeOK
    <2>4. overtaken' = overtaken
      BY ZenonT(40), <1>1, <1>2, <2>3
    <2> QED
      BY ZenonT(40), <2>2, <2>4, StutterPromised
  <1>5. CASE channel \notin live
    <2>1. overtaken \/ \A d \in live : channels[d] # peer_addr
      <3> SUFFICES ASSUME MapsInv PROVE \A d \in live : channels[d] # peer_addr
        BY ZenonT(40)
      <3>1. \A d \in live : channels[d] = peer_addr => bound_channel = d
        BY ZenonT(40), <1>t, <1>5 DEF MapsInv, LiveInv
      <3>2. \A d \in live : d # NoChannel /\ d # channel
        BY ZenonT(40), <1>t, <1>5, BindingsAssumption DEF TypeOK
      <3>3. bound_channel \in {NoChannel, channel}
        BY ZenonT(40), <1>t DEF MapsInv, LiveInv, Conflict
      <3> QED
        BY ZenonT(40), <3>1, <3>2, <3>3
    <2>2. Cardinality(live) < MaxChannels
      <3>1. IsFiniteSet(live) /\ Cardinality(live) \in Nat
        BY ZenonT(40), FewerLive DEF CapInv
      <3>2. Cardinality(live \cup {channel}) = Cardinality(live) + 1
        BY ZenonT(40), <1>5, <3>1, FS_AddElement
      <3>3. Cardinality(live \cup {channel}) <= MaxChannels
        BY ZenonT(40), <1>t DEF CapInv, Room
      <3> QED
        BY <3>1, <3>2, <3>3, BindingsAssumption
    <2>3. \A S : Promise!Cardinality(S) = Cardinality(S)
      BY DEF Promise!Cardinality, Cardinality
    <2>4. Promise!Bind(channel, peer_addr)
      BY ZenonT(40), <1>1, <1>3, <1>5, <2>1, <2>2, <2>3 DEF Promise!Bind
    <2> QED
      BY ZenonT(40), <1>t, <2>4 DEF PromisedStep, Promise!Next
  <1> QED
    BY ZenonT(40), <1>4, <1>5

LEMMA NextPromised ==
  ASSUME TypeInv, CheckInv, overtaken \/ MapsInv, CapInv, [Next]_vars
  PROVE  PromisedStep
  <1>1. CASE \/ UNCHANGED vars \/ Settle
             \/ LookupReverse \/ LookupForward \/ Decide \/ Permit \/ Unlink \/ Link
             \/ CleanupStart \/ CleanupReverse \/ \E c \in Channels : CleanupScan(c)
             \/ \E c \in Channels, p \in Peers : ChannelBind(c, p)
    <2>1. UNCHANGED <<channels, live, overtaken>>
      BY ZenonT(40), <1>1 DEF vars, Settle, LookupReverse, LookupForward, Decide, Permit, Unlink, Link,
                  CleanupStart, CleanupReverse, CleanupScan, ChannelBind, mapVars, historyVars
    <2> QED
      BY ZenonT(40), <2>1, StutterPromised
  <1>2. CASE DropOld
    <2>1. old \in Channels /\ (old \notin live \/ overtaken)
      BY ZenonT(40), <1>2 DEF DropOld, CheckInv, MapsInv, BindInv
    <2>2. /\ live' = live \ {old} /\ channels' = [channels EXCEPT ![old] = NoPeer]
          /\ overtaken' = overtaken
      BY ZenonT(40), <1>2 DEF DropOld, historyVars
    <2> QED
      BY ZenonT(40), <2>1, <2>2, ForgetPromised
  <1>3. ASSUME NEW e \in Channels \X Peers, CleanupRemove(e)
        PROVE  PromisedStep
    <2>1. e[1] \in Channels
      OBVIOUS
    <2>2. e[1] \notin live \/ overtaken
      BY ZenonT(40), <1>3, MapsRemove
    <2>3. /\ live' = live \ {e[1]} /\ channels' = [channels EXCEPT ![e[1]] = NoPeer]
          /\ overtaken' = overtaken
      BY ZenonT(40), <1>3 DEF CleanupRemove, historyVars
    <2> QED
      BY ZenonT(40), <2>1, <2>2, <2>3, ForgetPromised
  <1> QED
    BY ZenonT(40), <1>1, <1>2, <1>3, BindPromised, LapsePromised
    DEF Next, HandlerStep, CleanerStep

\* handle_channel_bind, bind_channel and cleanup_expired_channels, on two
\* threads, together implement ClientChannels, for any number of channels and
\* peers and any cap.
THEOREM BindingsKept == Spec => KeepsBindings
  <1>1. Init => Promise!Init
    BY DEF Init, Promise!Init
  <1>2. TypeInv /\ [Next]_vars => TypeInv'
    BY ZenonT(40), TypeStep
  <1>3. TypeInv /\ (overtaken \/ MapsInv) /\ [Next]_vars => (overtaken \/ MapsInv)'
    BY ZenonT(40), MapsStep
  <1>4. Init => CheckInv
    BY DEF Init, CheckInv
  <1>5. TypeInv /\ CheckInv /\ [Next]_vars => CheckInv'
    BY ZenonT(40), CheckHandler, CheckOther DEF Next
  <1>6. TypeInv /\ CheckInv /\ (overtaken \/ MapsInv) /\ CapInv /\ [Next]_vars =>
          [Promise!Next]_(Promise!vars)
    BY ZenonT(40), NextPromised DEF PromisedStep
  <1> QED
    BY TypeInit, MapsInit, CapInit, CapStep, <1>1, <1>2, <1>3, <1>4, <1>5, <1>6, PTL
    DEF Spec, KeepsBindings, Promise!Spec

----------------------------------------------------------------------------
(* What a pass frees *)

\* A channel that had lapsed when the pass began is still to be visited, or
\* collected, or its entry is gone.
DueInv ==
  /\ \A c \in due : c \notin live /\ (c \in todo \/ channels[c] = NoPeer \/ \E e \in lapsed : e[1] = c)
  /\ cpc = "reverse" => todo = {}

\* Whatever leaves the pass alone and binds no channel that is due.
LEMMA DueStay ==
  ASSUME TypeInv, DueInv, UNCHANGED cleanerVars, due' \subseteq due,
         \A c \in due' : c \notin live' /\ channels'[c] \in {channels[c], NoPeer}
  PROVE  DueInv'
  BY DEF DueInv, cleanerVars

LEMMA DueHandler ==
  ASSUME TypeInv, DueInv,
         \/ \E c \in Channels, p \in Peers : ChannelBind(c, p)
         \/ HandlerStep \/ Settle \/ (\E c \in Channels : Lapse(c)) \/ UNCHANGED vars
  PROVE  DueInv'
  <1>t. due \subseteq Channels /\ channels \in [Channels -> Peers \cup {NoPeer}]
    BY ZenonT(40) DEF TypeInv, TypeOK
  <1>1. CASE Bind
    <2>1. /\ channels' = [channels EXCEPT ![channel] = peer_addr] /\ live' = live \cup {channel}
          /\ due' = due \ {channel} /\ UNCHANGED cleanerVars
      BY ZenonT(40), <1>1 DEF Bind
    <2>2. \A c \in due' : c \notin live' /\ channels'[c] = channels[c]
      BY <1>t, <2>1 DEF DueInv
    <2> QED
      BY ZenonT(40), <2>1, <2>2, DueStay
  <1>2. CASE DropOld
    <2>1. /\ channels' = [channels EXCEPT ![old] = NoPeer] /\ live' = live \ {old}
          /\ due' = due /\ UNCHANGED cleanerVars
      BY ZenonT(40), <1>2 DEF DropOld, historyVars
    <2>2. \A c \in due' : c \notin live' /\ channels'[c] \in {channels[c], NoPeer}
      BY <1>t, <2>1 DEF DueInv
    <2> QED
      BY ZenonT(40), <2>1, <2>2, DueStay
  <1>3. CASE ~Bind /\ ~DropOld
    <2>1. channels' = channels /\ live' \subseteq live /\ due' = due /\ UNCHANGED cleanerVars
      BY ZenonT(40), <1>3 DEF HandlerStep, ChannelBind, LookupReverse, LookupForward, Decide,
           Permit, Unlink, Link, Settle, Lapse, vars, mapVars, historyVars
    <2> QED
      BY ZenonT(40), <2>1, DueStay DEF DueInv
  <1> QED
    BY <1>1, <1>2, <1>3

\* The pass itself, and what is true when it ends.
LEMMA DueCleaner ==
  ASSUME TypeInv, DueInv, CleanerStep
  PROVE  /\ DueInv'
         /\ cpc # "idle" /\ cpc' = "idle" => \A c \in due : channels'[c] = NoPeer
  <1>t. /\ due \subseteq Channels /\ channels \in [Channels -> Peers \cup {NoPeer}]
        /\ lapsed \subseteq Channels \X Peers
    BY ZenonT(40) DEF TypeInv, TypeOK
  <1>1. CASE CleanupStart
    <2>1. DueInv'
      BY <1>1 DEF CleanupStart, DueInv, mapVars
    <2> QED
      BY ZenonT(40), <1>1, <2>1 DEF CleanupStart
  <1>2. ASSUME NEW c \in Channels, CleanupScan(c)
        PROVE  /\ DueInv'
               /\ cpc # "idle" /\ cpc' = "idle" => \A d \in due : channels'[d] = NoPeer
    <2>1. /\ todo' = todo \ {c} /\ UNCHANGED <<channels, live>> /\ cpc' # "reverse"
          /\ lapsed' = IF channels[c] # NoPeer /\ c \notin live
                         THEN lapsed \cup {<<c, channels[c]>>} ELSE lapsed
          /\ cpc' = "idle" => todo' = {} /\ lapsed' = {}
          /\ due' \subseteq due
      BY ZenonT(40), <1>2 DEF CleanupScan, mapVars
    <2>2. lapsed \subseteq lapsed' /\ (channels[c] # NoPeer /\ c \notin live => <<c, channels[c]>> \in lapsed')
      BY <2>1
    <2>3. ASSUME NEW d \in due
          PROVE  d \notin live /\ (d \in todo' \/ channels[d] = NoPeer \/ \E e \in lapsed' : e[1] = d)
      <3>1. CASE d = c
        <4>1. <<c, channels[c]>>[1] = c
          OBVIOUS
        <4> QED
          BY ZenonT(40), <2>2, <2>3, <3>1, <4>1 DEF DueInv
      <3>2. CASE d # c
        BY ZenonT(40), <2>1, <2>2, <2>3, <3>2 DEF DueInv
      <3> QED
        BY ZenonT(40), <3>1, <3>2
    <2> QED
      BY ZenonT(40), <2>1, <2>3 DEF DueInv
  <1>3. ASSUME NEW e \in Channels \X Peers, CleanupRemove(e)
        PROVE  DueInv' /\ cpc' # "idle"
    <2>1. /\ channels' = [channels EXCEPT ![e[1]] = NoPeer] /\ live' = live \ {e[1]}
          /\ lapsed' = lapsed \ {e} /\ todo = {} /\ UNCHANGED <<todo, due>> /\ cpc' = "reverse"
      BY ZenonT(40), <1>3 DEF CleanupRemove, historyVars
    <2>2. \A c \in Channels : channels'[c] = IF c = e[1] THEN NoPeer ELSE channels[c]
      BY ZenonT(40), <1>t, <2>1
    <2> QED
      BY ZenonT(40), <1>t, <2>1, <2>2 DEF DueInv
  <1>4. CASE CleanupReverse
    <2>1. /\ UNCHANGED <<channels, live, todo, lapsed>> /\ due' \subseteq due /\ todo = {}
          /\ cpc' # "reverse" /\ (cpc' = "idle" => lapsed = {})
      BY <1>4 DEF CleanupReverse, DueInv
    <2> QED
      BY ZenonT(40), <2>1 DEF DueInv
  <1> QED
    BY ZenonT(40), <1>1, <1>2, <1>3, <1>4 DEF CleanerStep

\* Every pass frees every channel that had lapsed when it began and was not bound
\* again, whatever the receive loop does on the other thread meanwhile.
THEOREM PassFreesCorrect == Spec => PassFrees
  <1>1. TypeInv /\ [Next]_vars => TypeInv'
    BY ZenonT(40), TypeStep
  <1>2. Init => DueInv
    BY DEF Init, DueInv
  <1>3. TypeInv /\ DueInv /\ [Next]_vars => DueInv'
    BY ZenonT(40), DueHandler, DueCleaner DEF Next
  <1>4. TypeInv /\ DueInv /\ [Next]_vars =>
          [cpc # "idle" /\ cpc' = "idle" => \A c \in due : channels'[c] = NoPeer]_vars
    <2>1. ASSUME TypeInv, DueInv, Next, ~CleanerStep
          PROVE  cpc' = cpc
      BY ZenonT(40), <2>1 DEF Next, HandlerStep, ChannelBind, LookupReverse, LookupForward, Decide, Permit,
           Bind, Unlink, Link, DropOld, Settle, Lapse, cleanerVars
    <2> QED
      BY ZenonT(40), <2>1, DueCleaner
  <1> QED
    BY TypeInit, <1>1, <1>2, <1>3, <1>4, PTL DEF Spec, PassFrees
============================================================================
