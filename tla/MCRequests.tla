----------------------------- MODULE MCRequests -----------------------------
(* An instance of Requests for TLC. *)
EXTENDS Requests, TLC

Alice == <<Text>>          \* a static user
Carol == <<Text, 1>>       \* a REST API user, <id>:<expiry>

MCCredentials == (Alice :> "password")
MCPasswords == (Alice :> "password") @@ (Carol :> "second")
MCAuthSecrets == {"first", "second"}

\* Carol's requests are served; Alice asks from the same address for what is
\* not Alice's.
MCAsks ==
  {[user |-> Carol, method |-> "allocate", arg |-> Udp],
   [user |-> Carol, method |-> "refresh", arg |-> 1],
   [user |-> Carol, method |-> "refresh", arg |-> 0],
   [user |-> Carol, method |-> "permission", arg |-> "peer"],
   [user |-> Carol, method |-> "bind", arg |-> "peer"],
   [user |-> Alice, method |-> "refresh", arg |-> 0]}

\* A longer lifetime and another peer, and a deletion.
MCTrailers ==
  {<<Attr("LIFETIME", 2), Attr("XOR-PEER-ADDRESS", "other")>>, <<Attr("LIFETIME", 0)>>}
=============================================================================
