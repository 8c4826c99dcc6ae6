------------------------- MODULE MCChannelBindings -------------------------
(* ChannelBindings with interchangeable channels and peers. *)
EXTENDS ChannelBindings, TLC

Interchangeable == Permutations(Channels) \cup Permutations(Peers)
============================================================================
