------------------------------ MODULE Requests ------------------------------
(***************************************************************************)
(* A TURN client and the server over UDP: requests with long-term          *)
(* credentials, retransmissions, and the answers.  The network loses,      *)
(* duplicates and reorders; the wall clock is set back or forward; the     *)
(* server restarts with a new nonce secret and an empty table.             *)
(*                                                                         *)
(* One 5-tuple, hence at most one allocation.  A handler is one step: what *)
(* can happen inside it to an allocation is the subject of                 *)
(* AllocationLifecycle, ChannelBindings and PeerRouting.  If the cleanup   *)
(* task takes the allocation meanwhile, the answer and the table are those *)
(* of Reap just after the request or just before it.                       *)
(***************************************************************************)
EXTENDS Demux

CONSTANTS
  Credentials,    \* static credentials: username -> password
  AuthSecrets,    \* shared secrets of TURN REST API credentials
  Passwords,      \* the password each user of this client signs with
  NonceLifetime,  \* nonce_lifetime_secs, in ticks
  Lifetime,       \* longest lifetime of an allocation, in ticks
  MinLifetime,    \* shortest lifetime Refresh gives
  Asks,           \* what the client may ask for: user, method and argument
  Trailers,       \* attributes that may follow MESSAGE-INTEGRITY
  Txns,           \* transaction ids
  MaxTime,        \* bound: the wall clock stops here
  MaxFaults       \* bound: restarts, and times the wall clock is set

Text == -1      \* a part of a username that is not a number
Realm == "realm"
Udp == 17
Success == 0    \* the code of a success response

Users == DOMAIN Passwords
Methods == {"allocate", "refresh", "permission", "bind"}
Nonces == [time : Nat, secret : Nat]
Answers == [txn : Txns, code : Nat, signed : BOOLEAN, nonce : Nonces \cup {Nil}]

ASSUME RequestsAssumption ==
  /\ NonceLifetime \in Nat /\ MaxTime \in Nat
  /\ Lifetime \in Nat /\ MinLifetime \in 0..Lifetime
  /\ Users \subseteq Seq(Int) \ {<<>>}
  /\ Nil \notin Users \cup Nat \cup Nonces \cup Answers
  /\ \A ask \in Asks :
       /\ ask.user \in Users /\ ask.method \in Methods
       /\ ask.method \in {"allocate", "refresh"} => ask.arg \in Nat
       /\ ask.arg # Nil
  /\ \A trailer \in Trailers : trailer \in Seq({trailer[i] : i \in DOMAIN trailer})
  /\ Txns \subseteq Nat /\ Txns # {}
  /\ \A s, t, u \in Txns : Txns \ {s, t, u} # {}

VARIABLES
  now,       \* wall clock
  steps,     \* times it was set
  secret,    \* nonce_secret, by the number of restarts
  alloc,     \* the allocation of the 5-tuple
  req,       \* the request the client sends, again and again, until answered
  late,      \* an earlier request of which a copy may still arrive
  answer,    \* an answer to req in flight
  nonce      \* the last nonce the client was given

serverVars == <<secret, alloc>>
netVars    == <<late, answer>>
clientVars == <<req, nonce>>
clockVars  == <<now, steps>>
vars == <<clockVars, serverVars, netVars, clientVars>>

Init ==
  /\ now = 0 /\ steps = 0
  /\ secret = 0 /\ alloc = Nil
  /\ late = Nil /\ answer = Nil
  /\ req = Nil /\ nonce = Nil

\* StunInfo: what the parser makes of the attributes of a request.
StunInfo(attrs) ==
  [username  |-> Value(attrs, "USERNAME"),
   realm     |-> Value(attrs, "REALM"),
   nonce     |-> Value(attrs, "NONCE"),
   integrity |-> Value(attrs, "MESSAGE-INTEGRITY"),
   covered   |-> IF IntegrityAt(attrs) = {} THEN Nil ELSE Covered(attrs),
   transport |-> Value(attrs, "REQUESTED-TRANSPORT"),
   lifetime  |-> Value(attrs, "LIFETIME"),
   channel   |-> Value(attrs, "CHANNEL-NUMBER"),
   peers     |-> XorPeerAddresses(attrs),
   first     |-> FirstPeer(attrs)]

----------------------------------------------------------------------------
(* TurnAuth and Config *)

AuthEnabled == DOMAIN Credentials # {} \/ AuthSecrets # {}

\* <expiry>:<id>, <id>:<expiry> or <expiry>: what is before the first colon is
\* a number, or all that is behind it.
EphemeralExpiry(u) ==
  IF u[1] # Text THEN u[1] ELSE IF Len(u) = 2 /\ u[2] # Text THEN u[2] ELSE Nil

\* Wrong: the expiry is read and not compared.
CandidatePasswordsUndated(u) ==
  IF u \in DOMAIN Credentials THEN {Credentials[u]}
  ELSE IF EphemeralExpiry(u) # Nil THEN AuthSecrets ELSE {}

\* The password of a REST API user stands for the secret it is derived from.
CandidatePasswords(u) ==
  IF u \in DOMAIN Credentials THEN {Credentials[u]}
  ELSE IF EphemeralExpiry(u) # Nil /\ EphemeralExpiry(u) > now THEN AuthSecrets ELSE {}

ComputeKey(u, password) == <<u, Realm, password>>

\* Nothing but the key and the bytes give the HMAC.
ComputeMessageIntegrity(method, txn, attrs, key) ==
  [key |-> key, over |-> <<method, txn, attrs>>]

GenerateNonce == [time |-> now, secret |-> secret]

\* Wrong: a nonce from the future counts as fresh.
ValidateNonceFuture(n) == n.secret = secret /\ now - n.time < NonceLifetime

ValidateNonce(n) ==
  n.secret = secret /\ n.time <= now /\ now - n.time < NonceLifetime

----------------------------------------------------------------------------
(* Answers *)

Response(m, code, key, n) ==
  [txn |-> m.txn, code |-> code, signed |-> key # Nil, nonce |-> n]

BuildUnauthorized(m) == Response(m, 401, Nil, GenerateNonce)
BuildStaleNonce(m) == Response(m, 438, Nil, GenerateNonce)
BuildSuccess(m, key) == Response(m, Success, key, Nil)

\* Wrong: the key is at hand and not used.
BuildSignedErrorUnsigned(m, code, key) == Response(m, code, Nil, Nil)
BuildSignedError(m, code, key) == Response(m, code, key, Nil)

BuildError(m, code) == BuildSignedError(m, code, Nil)

----------------------------------------------------------------------------
(* Authentication *)

\* The key that verifies the request, one of those the passwords give.
KeyOf(m) ==
  LET u    == m.info.username
      mac  == m.info.integrity
      keys == {k \in {ComputeKey(u, p) : p \in CandidatePasswords(u)} :
                 mac = ComputeMessageIntegrity(m.method, m.txn, m.info.covered, k)}
  IN  IF ~AuthEnabled \/ keys = {} THEN Nil ELSE CHOOSE k \in keys : TRUE

\* verify_long_term_credentials: the error response, Nil if the request passes.
VerifyLongTermCredentials(m) ==
  LET u == m.info.username
      n == m.info.nonce
  IN  IF m.info.integrity = Nil THEN BuildUnauthorized(m)
      ELSE IF u = Nil \/ n = Nil THEN BuildError(m, 400)
      ELSE IF ~ValidateNonce(n) THEN BuildStaleNonce(m)
      ELSE IF m.info.realm # Realm THEN BuildUnauthorized(m)
      ELSE IF CandidatePasswords(u) = {} \/ KeyOf(m) = Nil THEN BuildUnauthorized(m)
      ELSE Nil

Verify(m) == IF AuthEnabled THEN VerifyLongTermCredentials(m) ELSE Nil

\* Wrong: the user is not compared with the allocation's.
AuthenticateAnyUser(m) ==
  LET error == Verify(m) IN
  IF error # Nil THEN error
  ELSE IF alloc = Nil THEN BuildSignedError(m, 437, KeyOf(m))
  ELSE Nil

\* authenticate_for_allocation, likewise.
AuthenticateForAllocation(m) ==
  LET error == Verify(m) IN
  IF error # Nil THEN error
  ELSE IF alloc = Nil THEN BuildSignedError(m, 437, KeyOf(m))
  ELSE IF AuthEnabled /\ alloc.owner # m.info.username THEN BuildUnauthorized(m)
  ELSE Nil

----------------------------------------------------------------------------
(* Handlers: the possible outcomes of a request, each an answer and the    *)
(* allocation afterwards                                                   *)

Outcome(r, a) == [answer |-> r, alloc |-> a]

\* An allocation is live to its deadline, and stays in the table until reaped.
Live == alloc # Nil /\ alloc.left >= 0

NewAllocation(m) ==
  [owner |-> IF m.info.username = Nil THEN <<Text>> ELSE m.info.username,
   txn |-> m.txn, left |-> Lifetime, over |-> 0, permissions |-> {}]

\* Wrong: a live allocation is looked for behind admission.
HandleAllocateLate(m) ==
  LET key == KeyOf(m)
      error == Verify(m) IN
  IF error # Nil THEN {Outcome(error, alloc)}
  ELSE IF m.info.transport \notin {Udp, Nil}
    THEN {Outcome(BuildSignedError(m, 442, key), alloc)}
  ELSE {Outcome(BuildSignedError(m, code, key), alloc) : code \in {486, 508}}
       \cup {Outcome(BuildSuccess(m, key), IF Live THEN alloc ELSE NewAllocation(m))}

\* A lapsed allocation is taken out first; the rate limiter may refuse.
HandleAllocate(m) ==
  LET key == KeyOf(m)
      error == Verify(m) IN
  IF error # Nil THEN {Outcome(error, alloc)}
  ELSE IF Live /\ alloc.txn = m.txn THEN {Outcome(BuildSuccess(m, key), alloc)}
  ELSE IF Live THEN {Outcome(BuildSignedError(m, 437, key), alloc)}
  ELSE IF m.info.transport \notin {Udp, Nil}
    THEN {Outcome(BuildSignedError(m, 442, key), Nil)}
  ELSE {Outcome(BuildSignedError(m, code, key), Nil) : code \in {486, 508}}
       \cup {Outcome(BuildSuccess(m, key), NewAllocation(m))}

\* Success as well if the cleanup task has taken the allocation meanwhile: as
\* if it had taken it just after.
HandleRefresh(m) ==
  LET key == KeyOf(m)
      error == AuthenticateForAllocation(m)
      asked == m.info.lifetime
      lifetime == IF asked = Nil THEN Lifetime ELSE Max({MinLifetime, Min({Lifetime, asked})})
  IN  IF error # Nil THEN {Outcome(error, alloc)}
      ELSE {Outcome(BuildSuccess(m, key),
                    IF asked = 0 THEN Nil ELSE [alloc EXCEPT !.left = lifetime])}

\* Adds the peers or is refused: 508 at the cap, and if the cleanup task has
\* taken the allocation meanwhile (as if just after).
HandleCreatePermission(m) ==
  LET key == KeyOf(m)
      error == AuthenticateForAllocation(m)
      peers == m.info.peers
  IN  IF peers = {} THEN {Outcome(BuildError(m, 400), alloc)}
      ELSE IF error # Nil THEN {Outcome(error, alloc)}
      ELSE IF "forbidden" \in peers THEN {Outcome(BuildSignedError(m, 403, key), alloc)}
      ELSE {Outcome(BuildSignedError(m, 508, key), alloc),
            Outcome(BuildSuccess(m, key), [alloc EXCEPT !.permissions = @ \cup peers])}

\* Refused for a conflict or at a cap, or 437 if the allocation is gone (as if
\* just before, by authenticate_for_allocation).
HandleChannelBind(m) ==
  LET key == KeyOf(m)
      error == AuthenticateForAllocation(m)
      peer == m.info.first
  IN  IF m.info.channel = Nil \/ peer = Nil
        THEN {Outcome(BuildError(m, 400), alloc)}
      ELSE IF error # Nil THEN {Outcome(error, alloc)}
      ELSE IF peer = "forbidden" THEN {Outcome(BuildSignedError(m, 403, key), alloc)}
      ELSE {Outcome(BuildSignedError(m, code, key), alloc) : code \in {400, 508}}
           \cup {Outcome(BuildSuccess(m, key), [alloc EXCEPT !.permissions = @ \cup {peer}])}

\* handle_stun
Handle(m) ==
  CASE m.method = "allocate"   -> HandleAllocate(m)
    [] m.method = "refresh"    -> HandleRefresh(m)
    [] m.method = "permission" -> HandleCreatePermission(m)
    [] m.method = "bind"       -> HandleChannelBind(m)

----------------------------------------------------------------------------
(* The client, as the comments of the handlers expect it (RFC 5389 10.2.3) *)

ArgumentAttrs(ask) ==
  CASE ask.method = "allocate"   -> <<Attr("REQUESTED-TRANSPORT", ask.arg)>>
    [] ask.method = "refresh"    -> <<Attr("LIFETIME", ask.arg)>>
    [] ask.method = "permission" -> <<Attr("XOR-PEER-ADDRESS", ask.arg)>>
    [] ask.method = "bind"       -> <<Attr("CHANNEL-NUMBER", 1), Attr("XOR-PEER-ADDRESS", ask.arg)>>

Sign(ask, txn, n, trailer) ==
  LET attrs == ArgumentAttrs(ask) \o
        <<Attr("USERNAME", ask.user), Attr("REALM", Realm), Attr("NONCE", n)>>
      mac == ComputeMessageIntegrity(ask.method, txn, attrs, ComputeKey(ask.user, Passwords[ask.user]))
  IN  attrs \o <<Attr("MESSAGE-INTEGRITY", mac)>> \o trailer

\* A request in flight, in the form the parser gives it; `ask' is what the
\* client knows of it.
Request(ask, txn, n, trailer) ==
  [method |-> ask.method, txn |-> txn,
   info |-> StunInfo(IF n = Nil THEN ArgumentAttrs(ask) ELSE Sign(ask, txn, n, trailer)),
   ask |-> ask]

Signed(m) == m.info.integrity # Nil

InFlight == {req, late} \ {Nil}

\* Ids are random 96-bit numbers: one is not used again while it matters.
FreshTxn ==
  Min(Txns \ ({m.txn : m \in InFlight} \cup (IF alloc = Nil THEN {} ELSE {alloc.txn})))

Ask(ask, trailer) ==
  /\ req = Nil
  /\ req' = Request(ask, FreshTxn, nonce, trailer)
  /\ UNCHANGED <<clockVars, serverVars, netVars, nonce>>

\* An unsigned answer to a signed request is as if never received, unless it
\* is a challenge.
Accepts == Signed(req) => answer.signed \/ answer.code \in {401, 438}

\* Tries again with the new nonce after 438, and after 401 to first contact.
Again == answer.code = 438 \/ (answer.code = 401 /\ ~Signed(req))

\* A copy of the request may be in flight still.  Bound: not of first contact,
\* whose every copy is only challenged.
Hear ==
  /\ answer # Nil /\ Accepts
  /\ answer' = Nil
  /\ nonce' = IF answer.nonce = Nil THEN nonce ELSE answer.nonce
  /\ \/ Again  /\ \E trailer \in Trailers : req' = Request(req.ask, FreshTxn, answer.nonce, trailer)
     \/ ~Again /\ req' = Nil
  /\ late' \in {late} \cup {m \in {req} : Signed(m)}
  /\ UNCHANGED <<clockVars, serverVars>>

----------------------------------------------------------------------------
(* The server, the network and the clock *)

\* A request arrives: once or several times, or never if it is lost each
\* time.  Its answer is for the client if its transaction is still open.
Serve(m) ==
  \E o \in Handle(m) :
    /\ alloc' = o.alloc
    /\ answer' = IF m = req THEN o.answer ELSE answer
    /\ UNCHANGED <<clockVars, secret, late, clientVars>>

LoseAnswer ==
  /\ answer # Nil
  /\ answer' = Nil
  /\ UNCHANGED <<clockVars, serverVars, late, clientVars>>

\* Has the username of a REST API user run out at wall clock time t?
RunOut(u, t) ==
  u \notin DOMAIN Credentials /\ EphemeralExpiry(u) # Nil /\ EphemeralExpiry(u) <= t

\* `over' is how long the owner's username has been out.
Tick ==
  /\ now' = Min({now + 1, MaxTime})
  /\ alloc' = IF alloc = Nil THEN Nil
              ELSE [alloc EXCEPT !.left = Max({@ - 1, -1}),
                      !.over = IF RunOut(alloc.owner, now') THEN Min({@ + 1, Lifetime + 1}) ELSE 0]
  /\ UNCHANGED <<steps, secret, netVars, clientVars>>

\* The wall clock is set; deadlines of allocations are on the monotonic one.
SetClock(t) ==
  /\ steps + secret < MaxFaults
  /\ steps' = steps + 1 /\ now' = t
  /\ alloc' = IF alloc # Nil /\ ~RunOut(alloc.owner, t) THEN [alloc EXCEPT !.over = 0] ELSE alloc
  /\ UNCHANGED <<secret, netVars, clientVars>>

\* The cleanup task: past its deadline, or idle for whatever reason.
Reap ==
  /\ alloc # Nil
  /\ alloc' = Nil
  /\ UNCHANGED <<clockVars, secret, netVars, clientVars>>

\* main: a fresh nonce_secret and an empty table.
Restart ==
  /\ steps + secret < MaxFaults
  /\ secret' = secret + 1 /\ alloc' = Nil
  /\ UNCHANGED <<clockVars, netVars, clientVars>>

Next ==
  \/ \E ask \in Asks, trailer \in Trailers : Ask(ask, trailer)
  \/ Hear
  \/ \E m \in InFlight : Serve(m)
  \/ LoseAnswer
  \/ Tick
  \/ \E t \in 0..MaxTime : SetClock(t)
  \/ Reap
  \/ Restart

Spec == Init /\ [][Next]_vars

\* The step is Hear: no other step changes a pending request.
Heard == answer # Nil /\ (req' = Nil \/ req'.txn # req.txn)

\* The client keeps retransmitting, and of a packet sent again and again some
\* copy gets through: a pending request is answered (weak fairness of
\* Serve(req), which is always enabled), an answer that keeps arriving is
\* heard (strong fairness of Hear).  That the clock stops at MaxTime stands
\* for nonces that outlive a round trip.
Fairness ==
  /\ []<>(req = Nil \/ answer # Nil)
  /\ []<>(answer # Nil /\ Accepts) => []<><<Heard>>_answer

FairSpec == Spec /\ Fairness

----------------------------------------------------------------------------
(* Properties *)

Effect(m) == alloc' # alloc /\ Serve(m)

\* A request that changes the allocation was made under the running server's
\* secret and carries a nonce of the last NonceLifetime, whatever was lost,
\* delayed or delivered twice, however the clock was set: a copy from before
\* a restart does nothing (validate_nonce).
FreshEffect ==
  [][\A m \in InFlight : Effect(m) =>
       /\ m.info.nonce.secret = secret
       /\ now - m.info.nonce.time \in 0..(NonceLifetime - 1)]_vars

\* A live allocation is changed by requests of its own user only, although
\* another user may have the client's address by now
\* (authenticate_for_allocation).
OwnerOnly ==
  [][\A m \in InFlight : Live /\ Effect(m) => m.ask.user = alloc.owner]_vars

\* The lifetime a Refresh for `asked' is to give, 0 being for a deletion.
Granted(asked) ==
  IF asked < MinLifetime THEN MinLifetime ELSE IF asked > Lifetime THEN Lifetime ELSE asked

\* A request does exactly what its signer asked for: "nothing outside the
\* HMAC-protected region can influence auth, permissions, channel bindings or
\* lifetimes".  An Allocate takes out a lapsed allocation or makes one of the
\* signer's, a Refresh deletes or sets the lifetime that was signed, the others
\* add the peer that was signed (parse_attributes, the handlers).
FaithfulEffect ==
  [][\A m \in InFlight : Effect(m) =>
       CASE m.ask.method = "allocate" ->
              /\ ~Live
              /\ alloc' # Nil =>
                   alloc' = [owner |-> m.ask.user, txn |-> m.txn, left |-> Lifetime,
                             over |-> 0, permissions |-> {}]
         [] m.ask.method = "refresh" ->
              alloc' = IF m.ask.arg = 0 THEN Nil
                       ELSE [alloc EXCEPT !.left = Granted(m.ask.arg)]
         [] OTHER -> alloc' = [alloc EXCEPT !.permissions = @ \cup {m.ask.arg}]]_vars

\* An Allocate that arrives again over the allocation it made changes
\* nothing, and is answered with success or a challenge (step 2 of
\* handle_allocate, before admission).
RetransmissionSafe ==
  [][\A m \in InFlight :
       m.method = "allocate" /\ Live /\ alloc.txn = m.txn /\ Serve(m) =>
         /\ UNCHANGED alloc
         /\ m = req => answer'.code \in {Success, 401, 438}]_vars

\* "an allocation outlives its credentials by at most one allocation
\* lifetime", ARCHITECTURE.md: Refresh checks the expiry as well.
OutlivesCredentials == Live => alloc.over <= Lifetime

\* Every request comes to an end the client can see, through losses,
\* expired nonces and restarts: no answer is one it has to ignore.
Resolved == req # Nil ~> req = Nil
=============================================================================
