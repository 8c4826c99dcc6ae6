----------------------------- MODULE MCBuilders -----------------------------
(* Builders with addresses and transaction ids of a few bytes. *)
EXTENDS Builders

\* 0, 0x21, 0x7f and 0xff.
Bytes == {{}, {0, 5}, 0..6, 0..7}

MCPorts == {{}, {0}, {1, 4, 8, 13}, 0..15}
MCIps ==
  {<<a, b, a, b>> : a, b \in Bytes}
    \cup {[i \in 1..16 |-> {(i * k) % 8 : k \in b}] : b \in Bytes}
MCTxnIds == {[i \in 1..12 |-> {(i + k) % 8 : k \in b}] : b \in Bytes}
=============================================================================
