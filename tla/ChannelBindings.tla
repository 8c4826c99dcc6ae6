-------------------------- MODULE ChannelBindings --------------------------
(***************************************************************************)
(* The channel bindings of one allocation: handle_channel_bind in the      *)
(* receive loop, cleanup_expired_channels in the cleanup task.             *)
(*                                                                         *)
(* A step is one access to `channels` or to `channels_reverse`.  The tasks *)
(* run on two threads (#[tokio::main]) and each holds a read guard on the  *)
(* allocation, which excludes its removal and not the other task.  Time is *)
(* abstracted to which bindings are live.                                  *)
(***************************************************************************)
EXTENDS Naturals, FiniteSets

CONSTANTS
  Channels,     \* channel numbers
  Peers,        \* peer transport addresses
  MaxChannels,  \* max_channels_per_alloc
  NoChannel, NoPeer

ASSUME BindingsAssumption ==
  /\ NoChannel \notin Channels /\ NoPeer \notin Peers
  /\ IsFiniteSet(Channels)
  /\ MaxChannels \in Nat

VARIABLES
  channels,            \* channel -> bound peer
  live,                \* channels whose binding has not lapsed
  channels_reverse,    \* peer -> channel
  fresh,               \* bound since one of the tasks was last idle
  overtaken,           \* history: a bind has overtaken a pass
  due,                 \* history: lapsed when the pass began, not bound since
  pc, channel, peer_addr,     \* receive loop: next step, the request
  bound_peer, bound_channel,  \* what the bind check found
  old,                        \* old_peer or old_channel in bind_channel
  cpc, todo, lapsed, cur      \* cleanup: next step, to visit, found lapsed, in hand

mapVars     == <<channels, live, channels_reverse, fresh>>
historyVars == <<overtaken, due>>
handlerVars == <<pc, channel, peer_addr, bound_peer, bound_channel, old>>
cleanerVars == <<cpc, todo, lapsed, cur>>
vars == <<mapVars, historyVars, handlerVars, cleanerVars>>

TypeOK ==
  /\ channels \in [Channels -> Peers \cup {NoPeer}]
  /\ live \subseteq {c \in Channels : channels[c] # NoPeer}
  /\ channels_reverse \in [Peers -> Channels \cup {NoChannel}]
  /\ fresh \subseteq Channels /\ overtaken \in BOOLEAN /\ due \subseteq Channels
  /\ pc \in {"idle", "reverse", "forward", "decide", "permit",
             "bind", "unlink", "link", "drop"}
  /\ channel \in Channels \cup {NoChannel}
  /\ peer_addr \in Peers \cup {NoPeer}
  /\ bound_peer \in Peers \cup {NoPeer}
  /\ bound_channel \in Channels \cup {NoChannel}
  /\ old \in Channels \cup Peers \cup {NoChannel, NoPeer}
  /\ cpc \in {"idle", "scan", "reverse"}
  /\ todo \subseteq Channels
  /\ lapsed \subseteq Channels \X Peers
  /\ cur \in (Channels \X Peers) \cup {<<NoChannel, NoPeer>>}

Init ==
  /\ channels = [c \in Channels |-> NoPeer]
  /\ live = {} /\ fresh = {} /\ overtaken = FALSE /\ due = {}
  /\ channels_reverse = [p \in Peers |-> NoChannel]
  /\ pc = "idle" /\ channel = NoChannel /\ peer_addr = NoPeer
  /\ bound_peer = NoPeer /\ bound_channel = NoChannel /\ old = NoChannel
  /\ cpc = "idle" /\ todo = {} /\ lapsed = {} /\ cur = <<NoChannel, NoPeer>>

----------------------------------------------------------------------------
(* Helpers *)

\* peer_for_channel
PeerFor(c) == IF c \in live THEN channels[c] ELSE NoPeer

\* Second half of channel_for_peer: the forward entry is authoritative.
ChannelFor(p, c) == IF c \in live /\ channels[c] = p THEN c ELSE NoChannel

\* channels_count() against the cap, and the wrong comparison.
CapReachedOffByOne == Cardinality(live) > MaxChannels
CapReached == Cardinality(live) >= MaxChannels

\* Wrong: a bind over a live binding is let through.
ConflictUnchecked == FALSE

\* The channel has another live peer, or the peer another live channel.
Conflict ==
  \/ bound_peer \notin {NoPeer, peer_addr}
  \/ bound_channel \notin {NoChannel, channel}

Refresh == bound_peer # NoPeer /\ bound_channel # NoChannel

Answer ==
  /\ pc' = "idle"
  /\ channel' = NoChannel /\ peer_addr' = NoPeer
  /\ bound_peer' = NoPeer /\ bound_channel' = NoChannel /\ old' = NoChannel

----------------------------------------------------------------------------
(* handle_channel_bind *)

\* The request has passed authentication: peer_for_channel.
ChannelBind(c, p) ==
  /\ pc = "idle"
  /\ channel' = c /\ peer_addr' = p
  /\ bound_peer' = PeerFor(c)
  /\ pc' = "reverse"
  /\ UNCHANGED <<mapVars, historyVars, cleanerVars, bound_channel, old>>

\* channel_for_peer, the reverse entry.
LookupReverse ==
  /\ pc = "reverse"
  /\ old' = channels_reverse[peer_addr]
  /\ pc' = IF old' = NoChannel THEN "decide" ELSE "forward"
  /\ UNCHANGED <<mapVars, historyVars, cleanerVars, channel, peer_addr, bound_peer, bound_channel>>

\* channel_for_peer, the forward entry it names.
LookupForward ==
  /\ pc = "forward"
  /\ bound_channel' = ChannelFor(peer_addr, old)
  /\ pc' = "decide"
  /\ UNCHANGED <<mapVars, historyVars, cleanerVars, channel, peer_addr, bound_peer, old>>

\* 400 on a conflict; a refresh of the pair passes; 508 at the cap.
Decide ==
  /\ pc = "decide"
  /\ \/ Conflict /\ Answer
     \/ ~Conflict /\ ~Refresh /\ CapReached /\ Answer
     \/ /\ ~Conflict /\ (Refresh \/ ~CapReached)
        /\ pc' = "permit"
        /\ UNCHANGED <<channel, peer_addr, bound_peer, bound_channel, old>>
  /\ UNCHANGED <<mapVars, historyVars, cleanerVars>>

\* try_add_permissions_capped (PeerRouting models it): refused, or granted.
Permit ==
  /\ pc = "permit"
  /\ \/ Answer
     \/ pc' = "bind" /\ UNCHANGED <<channel, peer_addr, bound_peer, bound_channel, old>>
  /\ UNCHANGED <<mapVars, historyVars, cleanerVars>>

\* The channels a pass has found lapsed and is not done with.
Collected == {e[1] : e \in lapsed} \cup (IF cpc = "reverse" THEN {cur[1]} ELSE {})

\* bind_channel, the forward entry: refresh, replace or insert.
Bind ==
  /\ pc = "bind"
  /\ channels' = [channels EXCEPT ![channel] = peer_addr]
  /\ live' = live \cup {channel}
  /\ fresh' = fresh \cup {channel}
  /\ overtaken' = (overtaken \/ channel \in Collected)
  /\ due' = due \ {channel}
  /\ old' = channels[channel]
  /\ pc' = IF old' \in {NoPeer, peer_addr} THEN "link" ELSE "unlink"
  /\ UNCHANGED <<channels_reverse, cleanerVars, channel, peer_addr,
                 bound_peer, bound_channel>>

\* Wrong: the reverse entry of the old peer stays.
UnlinkSkipped ==
  /\ pc = "unlink"
  /\ pc' = "link"
  /\ UNCHANGED <<mapVars, historyVars, cleanerVars, channel, peer_addr, bound_peer, bound_channel, old>>

\* bind_channel: the channel was bound to another peer.
Unlink ==
  /\ pc = "unlink"
  /\ channels_reverse' = [channels_reverse EXCEPT ![old] = NoChannel]
  /\ pc' = "link"
  /\ UNCHANGED <<channels, live, fresh, historyVars, cleanerVars, channel, peer_addr,
                 bound_peer, bound_channel, old>>

\* bind_channel: the reverse entry.
Link ==
  /\ pc = "link"
  /\ channels_reverse' = [channels_reverse EXCEPT ![peer_addr] = channel]
  /\ LET old_channel == channels_reverse[peer_addr] IN
       \/ old_channel \in {NoChannel, channel} /\ Answer
       \/ /\ old_channel \notin {NoChannel, channel}
          /\ old' = old_channel /\ pc' = "drop"
          /\ UNCHANGED <<channel, peer_addr, bound_peer, bound_channel>>
  /\ UNCHANGED <<channels, live, fresh, historyVars, cleanerVars>>

\* bind_channel: the peer was bound to another channel.
DropOld ==
  /\ pc = "drop"
  /\ channels' = [channels EXCEPT ![old] = NoPeer]
  /\ live' = live \ {old} /\ fresh' = fresh \ {old}
  /\ Answer
  /\ UNCHANGED <<channels_reverse, historyVars, cleanerVars>>

----------------------------------------------------------------------------
(* cleanup_expired_channels *)

\* now_ms is read once: these are the bindings that have lapsed by then.
CleanupStart ==
  /\ cpc = "idle"
  /\ todo' = {c \in Channels \ live : channels[c] # NoPeer}
  /\ todo' # {}
  /\ due' = todo'
  /\ cpc' = "scan"
  /\ UNCHANGED <<mapVars, overtaken, handlerVars, lapsed, cur>>

\* The loop over channels.iter().
CleanupScan(c) ==
  /\ cpc = "scan" /\ c \in todo
  /\ todo' = todo \ {c}
  /\ lapsed' = IF channels[c] # NoPeer /\ c \notin live
                 THEN lapsed \cup {<<c, channels[c]>>} ELSE lapsed
  /\ cpc' = IF todo' = {} /\ lapsed' = {} THEN "idle" ELSE "scan"
  /\ due' = IF cpc' = "idle" THEN {} ELSE due
  /\ UNCHANGED <<mapVars, overtaken, handlerVars, cur>>

\* The loop over the collected pairs: channels.remove, unconditionally.
CleanupRemove(e) ==
  /\ cpc = "scan" /\ todo = {} /\ e \in lapsed
  /\ channels' = [channels EXCEPT ![e[1]] = NoPeer]
  /\ live' = live \ {e[1]} /\ fresh' = fresh \ {e[1]}
  /\ lapsed' = lapsed \ {e} /\ cur' = e
  /\ cpc' = "reverse"
  /\ UNCHANGED <<channels_reverse, historyVars, handlerVars, todo>>

\* Wrong: the pass is over after one pair.
CleanupReverseFirst ==
  /\ cpc = "reverse"
  /\ channels_reverse' = IF channels_reverse[cur[2]] = cur[1]
                           THEN [channels_reverse EXCEPT ![cur[2]] = NoChannel]
                           ELSE channels_reverse
  /\ cpc' = "idle" /\ lapsed' = {} /\ due' = {}
  /\ cur' = <<NoChannel, NoPeer>>
  /\ UNCHANGED <<channels, live, fresh, overtaken, handlerVars, todo>>

\* channels_reverse.remove_if: only if it still names this channel.
CleanupReverse ==
  /\ cpc = "reverse"
  /\ channels_reverse' = IF channels_reverse[cur[2]] = cur[1]
                           THEN [channels_reverse EXCEPT ![cur[2]] = NoChannel]
                           ELSE channels_reverse
  /\ cpc' = IF lapsed = {} THEN "idle" ELSE "scan"
  /\ due' = IF cpc' = "idle" THEN {} ELSE due
  /\ cur' = <<NoChannel, NoPeer>>
  /\ UNCHANGED <<channels, live, fresh, overtaken, handlerVars, todo, lapsed>>

----------------------------------------------------------------------------
(* Time *)

\* A request and a pass take far less than the 10 minutes of a binding: one
\* that is made meanwhile does not lapse before both tasks are done.
Settle ==
  /\ pc = "idle" /\ cpc = "idle" /\ fresh # {}
  /\ fresh' = {}
  /\ UNCHANGED <<channels, live, channels_reverse, historyVars, handlerVars, cleanerVars>>

\* The coarse clock reaches expires_ms.
Lapse(c) ==
  /\ c \in live \ fresh
  /\ live' = live \ {c}
  /\ UNCHANGED <<channels, channels_reverse, fresh, historyVars, handlerVars, cleanerVars>>

HandlerStep ==
  \/ LookupReverse \/ LookupForward \/ Decide \/ Permit
  \/ Bind \/ Unlink \/ Link \/ DropOld

CleanerStep ==
  \/ CleanupStart \/ CleanupReverse
  \/ \E c \in Channels : CleanupScan(c)
  \/ \E e \in Channels \X Peers : CleanupRemove(e)

Next ==
  \/ \E c \in Channels, p \in Peers : ChannelBind(c, p)
  \/ HandlerStep \/ CleanerStep
  \/ Settle \/ \E c \in Channels : Lapse(c)

Spec == Init /\ [][Next]_vars

----------------------------------------------------------------------------
(* Properties *)

\* At most max_channels_per_alloc bindings are live: the check, made several
\* steps before the bind, still covers it when the bind happens.
CapRespected == Cardinality(live) <= MaxChannels

\* A live binding is neither dropped nor redirected by anything but the clock
\* ("Drop channel bindings whose 10-minute lifetime has elapsed"; "a client
\* that gets a success response can use the channel immediately").
LiveKept ==
  [][\A c \in live : channels'[c] = channels[c] /\ (c \in live' \/ Lapse(c))]_vars

\* A live binding is dropped at worst, never redirected: what a client sends on
\* its channel reaches the peer it was bound to or nobody ("a channel may not be
\* rebound to a different peer [...] while bound").
NotRedirected ==
  [][\A c \in live : channels'[c] \in {channels[c], NoPeer}]_vars

AtRest == pc = "idle" /\ cpc = "idle"

\* Whatever order the two tasks' accesses come in, between requests and passes
\* the two maps are inverse of each other ("Keeps `channels` and
\* `channels_reverse` consistent"), unless a pass was overtaken: a channel was
\* bound while a pass had collected it.  A bind that claims the peer of a pair
\* in hand for another channel does no harm (remove_if).
Consistent ==
  AtRest /\ ~overtaken =>
    /\ \A c \in Channels : channels[c] # NoPeer => channels_reverse[channels[c]] = c
    /\ \A p \in Peers : channels_reverse[p] # NoChannel => channels[channels_reverse[p]] = p

\* No peer is bound to two channels ("a channel may not be rebound to a
\* different peer, nor a peer to a different channel, while bound"), unless a
\* pass was overtaken.
OneChannelPerPeer ==
  pc = "idle" /\ ~overtaken => \A c, d \in live : channels[c] = channels[d] => c = d

Promise == INSTANCE ClientChannels WITH bound <- channels

\* The two maps, the check of handle_channel_bind and the cleanup pass together
\* implement ClientChannels, on two threads: a binding begins with the forward
\* entry of bind_channel, a refresh is invisible, and until a bind overtakes a
\* pass bind_channel and cleanup_expired_channels drop only what has lapsed.
KeepsBindings == Promise!Spec

\* A pass frees every channel that had lapsed when it began, whatever is bound
\* and lapses meanwhile, unless the channel itself is bound again ("freeing the
\* channel number and the peer for a fresh bind").
PassFrees ==
  [][cpc # "idle" /\ cpc' = "idle" => \A c \in due : channels'[c] = NoPeer]_vars
============================================================================
