------------------------------ MODULE Builders ------------------------------
(***************************************************************************)
(* How answers are put together, on top of PacketPath: the types of        *)
(* responses and XOR addresses, written by the builders and read again by  *)
(* the other side.                                                         *)
(***************************************************************************)
EXTENDS PacketPath

CONSTANTS Ports, Ips, TxnIds  \* of the addresses and messages tried

\* An address is a port and 4 or 16 bytes.
ASSUME AddressAssumption ==
  /\ Ports \subseteq SUBSET (0..15)
  /\ Ips \subseteq [1..4 -> Byte] \cup [1..16 -> Byte]
  /\ TxnIds \subseteq [1..12 -> Byte]

Addresses == [port : Ports, ip : Ips]

ErrorType(t) == t \cup {4, 8}
SuccessType(t) == t \cup {8}

\* 0x2112a442 and its upper half.
Magic == <<{0, 5}, {1, 4}, {2, 5, 7}, {1, 6}>>
MagicPort == {1, 4, 8, 13}

Family(ip) == IF Len(ip) = 4 THEN 1 ELSE 2

Mask(family, txn) == IF family = 1 THEN Magic ELSE Magic \o txn

\* Wrong: the magic cookie again and again.
AppendXorAddressMagic(a, txn) ==
  [family |-> Family(a.ip),
   port   |-> SymDiff(a.port, MagicPort),
   ip     |-> [i \in 1..Len(a.ip) |-> SymDiff(a.ip[i], Magic[1 + ((i - 1) % 4)])]]

\* XOR is the symmetric difference of two words.
AppendXorAddress(a, txn) ==
  [family |-> Family(a.ip),
   port   |-> SymDiff(a.port, MagicPort),
   ip     |-> [i \in 1..Len(a.ip) |-> SymDiff(a.ip[i], Mask(Family(a.ip), txn)[i])]]

AppendXorMappedAddress(a, txn) == [type |-> 32, value |-> AppendXorAddress(a, txn)]
AppendXorRelayedAddress(a, txn) == [type |-> 22, value |-> AppendXorAddress(a, txn)]
AppendXorPeerAddress(a, txn) == [type |-> 18, value |-> AppendXorAddress(a, txn)]

DecodeXorAddress(v, txn) ==
  LET mask == Mask(v.family, txn)
  IN  IF v.family \notin {1, 2} \/ Len(v.ip) < Len(mask)
      THEN Nil
      ELSE [port |-> SymDiff(v.port, MagicPort),
            ip   |-> [i \in 1..Len(mask) |-> SymDiff(v.ip[i], mask[i])]]

----------------------------------------------------------------------------
\* Every method.
RequestTypes == {t \in SUBSET (0..13) : Class(t) = "request"}

AnswerRequest(t, class) ==
  /\ input' = [kind |-> "request", type |-> t, class |-> class]
  /\ output' = IF class = "success" THEN SuccessType(t) ELSE ErrorType(t)

\* The address goes out in a response or an indication and is read again.
SendAddress(a, txn) ==
  /\ input' = [kind |-> "address", address |-> a]
  /\ \E attr \in {AppendXorMappedAddress(a, txn), AppendXorRelayedAddress(a, txn),
                   AppendXorPeerAddress(a, txn)} :
       output' = [type |-> attr.type, address |-> DecodeXorAddress(attr.value, txn)]

Answer ==
  \/ \E t \in RequestTypes, class \in {"success", "error"} : AnswerRequest(t, class)
  \/ \E a \in Addresses, txn \in TxnIds : SendAddress(a, txn)

AnswersNext == Next \/ (Idle /\ Answer)

AnswersSpec == Init /\ [][AnswersNext]_vars

\* What the builders of responses write is what StunInfo reads: bit 8, or bits
\* 4 and 8, make of a request's type that of a success or error response of
\* the same method, and an address of append_xor_*_address comes out of
\* decode_xor_address, IPv6 with the transaction id included.
AnswersRead ==
  /\ Handling("request") =>
       Class(output) = input.class /\ MethodBits(output) = MethodBits(input.type)
  /\ Handling("address") => output.address = input.address
============================================================================
