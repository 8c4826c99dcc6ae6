--------------------------- MODULE ClientChannels ---------------------------
(***************************************************************************)
(* What an allocation promises about its channels, with no reverse map,    *)
(* lookup or cleanup pass in sight: while there is room a channel is bound *)
(* to a peer that has no other, only time ends a binding, and until then   *)
(* the channel keeps its peer.  Once a bind has overtaken a cleanup pass   *)
(* less is left: a binding may be lost early and a peer bound twice, but   *)
(* the cap stands and no live channel changes its peer.  ChannelBindings   *)
(* implements this.                                                        *)
(***************************************************************************)
EXTENDS Naturals, FiniteSets

CONSTANTS Channels, Peers, MaxChannels, NoPeer

VARIABLES
  bound,     \* the peer each channel is, or was last, bound to
  live,      \* the channels whose binding has not lapsed
  overtaken  \* a bind has overtaken a pass

vars == <<bound, live, overtaken>>

Init ==
  /\ bound = [c \in Channels |-> NoPeer]
  /\ live = {} /\ overtaken = FALSE

\* The bind that overtakes a pass is still a good one.
Bind(c, p) ==
  /\ c \notin live /\ Cardinality(live) < MaxChannels
  /\ overtaken \/ \A d \in live : bound[d] # p
  /\ bound' = [bound EXCEPT ![c] = p]
  /\ live' = live \cup {c}
  /\ overtaken' \in {overtaken, TRUE}

\* Ten minutes after it was bound or refreshed.
Lapse(c) ==
  /\ c \in live
  /\ live' = live \ {c}
  /\ UNCHANGED <<bound, overtaken>>

\* Of a binding that has lapsed, or of any once a pass was overtaken.
Forget(c) ==
  /\ c \notin live \/ overtaken
  /\ bound' = [bound EXCEPT ![c] = NoPeer]
  /\ live' = live \ {c}
  /\ UNCHANGED overtaken

Next == \E c \in Channels : Lapse(c) \/ Forget(c) \/ \E p \in Peers : Bind(c, p)

Spec == Init /\ [][Next]_vars
=============================================================================
