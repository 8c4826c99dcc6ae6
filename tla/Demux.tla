------------------------------- MODULE Demux -------------------------------
(***************************************************************************)
(* How a datagram is told apart and taken to pieces: Demuxer::classify,    *)
(* StunInfo::parse, RtpHeader::parse and the predicates of the relay       *)
(* engine.                                                                 *)
(*                                                                         *)
(* A datagram is what these functions look at: its length, first and       *)
(* second byte, the number in bytes 2-3 and whether the magic cookie is in *)
(* place.  An attribute is its type, its value (Nil for a text that is not *)
(* UTF-8), whether it lies within the message, whether it lies within the  *)
(* datagram, and whether its length suits its type.                        *)
(***************************************************************************)
EXTENDS Integers, Sequences, FiniteSetsExt

CONSTANT Nil  \* None of an Option

----------------------------------------------------------------------------
(* StunInfo::parse *)

\* A word is the set of its bits that are 1.
Byte == SUBSET (0..7)

Class(t) ==
  CASE 4 \notin t /\ 8 \notin t -> "request"
    [] 4 \in t /\ 8 \notin t    -> "indication"
    [] 4 \notin t /\ 8 \in t    -> "success"
    [] 4 \in t /\ 8 \in t       -> "error"

\* The 12 bits of the method lie around the two of the class.
MethodBits(t) ==
  (t \cap 0..3) \cup {i - 1 : i \in t \cap 5..7} \cup {i - 2 : i \in t \cap 9..13}

Parses(d) == d.len >= 20 /\ d.cookie /\ d.len >= 20 + d.field

Attr(t, v) == [type |-> t, value |-> v, fits |-> TRUE, held |-> TRUE, sized |-> TRUE]

\* The loop breaks at an attribute that runs past the end.
Fitting(attrs) ==
  LET over == {i \in 1..Len(attrs) : ~attrs[i].fits}
  IN  IF over = {} THEN attrs ELSE SubSeq(attrs, 1, Min(over) - 1)

IntegrityAt(attrs) ==
  {i \in 1..Len(Fitting(attrs)) : attrs[i].type = "MESSAGE-INTEGRITY" /\ attrs[i].sized}

\* Wrong: the loop goes on behind MESSAGE-INTEGRITY.
SeenAll(attrs) == Fitting(attrs)

\* The loop breaks at the first MESSAGE-INTEGRITY.
Seen(attrs) ==
  LET at == IntegrityAt(attrs)
  IN  IF at = {} THEN Fitting(attrs) ELSE SubSeq(attrs, 1, Min(at))

\* A later occurrence overwrites an earlier one.
Value(attrs, t) ==
  LET at == {i \in 1..Len(Seen(attrs)) : attrs[i].type = t /\ attrs[i].sized}
  IN  IF at = {} THEN Nil ELSE attrs[Max(at)].value

PeersAt(attrs) ==
  {i \in 1..Len(Seen(attrs)) : attrs[i].type = "XOR-PEER-ADDRESS" /\ attrs[i].sized}

\* xor_peer_addresses: all of them, and first().
XorPeerAddresses(attrs) == {attrs[i].value : i \in PeersAt(attrs)}
FirstPeer(attrs) == IF PeersAt(attrs) = {} THEN Nil ELSE attrs[Min(PeersAt(attrs))].value

\* What MESSAGE-INTEGRITY covers: msg.raw[..offset].
Covered(attrs) == SubSeq(attrs, 1, Min(IntegrityAt(attrs)) - 1)

\* A username is the sequence of its parts around the first colon.
HasColon(u) == u # Nil /\ Len(u) > 1

\* Wrong: the halves are taken the other way round.
ParseIceUsernameSwapped(attrs) ==
  LET u == Value(attrs, "USERNAME") IN IF HasColon(u) THEN <<u[2], u[1]>> ELSE Nil

ParseIceUsername(attrs) ==
  LET u == Value(attrs, "USERNAME") IN IF HasColon(u) THEN u ELSE Nil

----------------------------------------------------------------------------
(* Demuxer *)

RtpParses(d) == d.len >= 12 /\ d.first \div 64 = 2 /\ d.len >= 12 + 4 * (d.first % 16)

\* Wrong: sender info is counted twice over.
ReportWordsLong(d) == (IF d.second = 200 THEN 8 ELSE 2) + 6 * (d.first % 32)

\* 32-bit words of a sender or receiver report with its report blocks.
ReportWords(d) == (IF d.second = 200 THEN 7 ELSE 2) + 6 * (d.first % 32)

IsValidRtcp(d) ==
  /\ d.len >= 8 /\ d.first \div 64 = 2
  /\ (d.field + 1) * 4 <= d.len
  /\ d.second \in 200..204
  /\ d.second \in {200, 201} => d.field + 1 >= ReportWords(d)

ParseRtpRtcp(d) ==
  CASE IsValidRtcp(d) -> "rtcp"
    [] ~IsValidRtcp(d) /\ RtpParses(d) -> "rtp"
    [] OTHER -> "unknown"

ParseChannelData(d) == IF d.len >= 4 + d.field THEN "channel" ELSE "unknown"

Classify(d) ==
  CASE d.len = 0             -> "unknown"
    [] d.first \in 0..3      -> IF Parses(d) THEN "stun" ELSE "unknown"
    [] d.first \in 20..63    -> "dtls"
    [] d.first \in 64..127   -> ParseChannelData(d)
    [] d.first \in 128..191  -> ParseRtpRtcp(d)
    [] OTHER                 -> "unknown"

----------------------------------------------------------------------------
(* RelayEngine, on the payload of ChannelData *)

IsStun(d) == d.len >= 20 /\ d.first \div 64 = 0 /\ d.cookie

\* This reader looks for the end of the datagram, not of the message: it still
\* reads an attribute that runs past the message, which ends its loop.
HeldAt(attrs) ==
  {i \in 1..Len(attrs) : attrs[i].held /\ \A j \in 1..(i - 1) : attrs[j].fits}

\* The first USERNAME that has a colon, of any length and even behind
\* MESSAGE-INTEGRITY.
ExtractStunUfrags(attrs) ==
  LET at == {i \in HeldAt(attrs) : attrs[i].type = "USERNAME" /\ HasColon(attrs[i].value)}
  IN  IF at = {} THEN Nil ELSE attrs[Min(at)].value
============================================================================
