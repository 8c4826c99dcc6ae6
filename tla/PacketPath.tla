----------------------------- MODULE PacketPath -----------------------------
(***************************************************************************)
(* The receive loop on one packet at a time: what handle_packet makes of a *)
(* datagram and to whom it hands it, what the two STUN parsers read out of *)
(* a connectivity check, where a payload goes and how it is framed.        *)
(* `input` is the packet in hand, `output` what came of it.                *)
(***************************************************************************)
EXTENDS Demux

CONSTANTS
  Lengths, Firsts, Seconds, Fields,  \* of the datagrams tried
  Payloads,                          \* sizes of the media tried
  MaxAttrs,                          \* of the connectivity checks tried
  MaxDatagram                        \* largest payload of UDP

ASSUME PacketAssumption ==
  /\ Seconds \subseteq Nat /\ Fields \subseteq Nat
  /\ Payloads \subseteq Nat /\ MaxAttrs \in Nat
  /\ MaxDatagram \in Nat /\ MaxDatagram < 65536

VARIABLES input, output

vars == <<input, output>>

Init == input = Nil /\ output = Nil

\* The loop waits in recv_from.
Idle == input = Nil

----------------------------------------------------------------------------
(* handle_packet *)

Datagrams ==
  [len : Lengths, first : Firsts, second : Seconds, field : Fields, cookie : BOOLEAN]

\* The 32-bit words of SR, RR, SDES, BYE and APP without their blocks.
RtcpWords(pt) == CASE pt = 200 -> 7 [] pt = 204 -> 3 [] OTHER -> 2

\* Whole packets as an RTP stack sends them: with or without padding and
\* extension and with their CSRCs, whatever marker, payload type and sequence
\* number; or a report with its blocks, alone or at the head of a compound.
RtpPacket(low, n, b, s) ==
  [len |-> 12 + 4 * (low % 16) + n, first |-> 128 + low, second |-> b, field |-> s,
   cookie |-> FALSE]
Rtp ==
  {RtpPacket(low, n, b, s) : low \in 0..63, n \in Payloads, b \in Seconds, s \in Fields}

RtcpPacket(rc, pt, n) ==
  LET words == RtcpWords(pt) + 6 * rc
  IN  [len |-> 4 * words + n, first |-> 128 + rc, second |-> pt, field |-> words - 1,
       cookie |-> FALSE]
Rtcp == {RtcpPacket(rc, pt, n) : rc \in 0..31, pt \in 200..204, n \in Payloads}

Senders == {"client", "peer", "stranger"}

\* A datagram from a client (is_client), from a peer lookup_by_peer_addr finds
\* an allocation for, or from neither.
HandlePacket(d, sender) ==
  LET class == Classify(d) IN
  CASE class = "stun"    -> "handle_stun"
    [] class = "channel" -> "handle_channel_data"
    [] class \notin {"stun", "channel"} /\ sender = "client"   -> "relay_client_data"
    [] class \notin {"stun", "channel"} /\ sender = "stranger" -> "drop"
    [] class = "rtp"     /\ sender = "peer" -> "handle_rtp"
    [] class = "rtcp"    /\ sender = "peer" -> "handle_rtcp"
    [] class = "dtls"    /\ sender = "peer" -> "handle_dtls"
    [] class = "unknown" /\ sender = "peer" -> "handle_peer_data"

Receive(d, sender) ==
  /\ input' = [kind |-> "datagram", packet |-> d, sender |-> sender]
  /\ output' = HandlePacket(d, sender)

----------------------------------------------------------------------------
(* A connectivity check: sent as it is or in a Send indication, it goes    *)
(* through StunInfo and must be a Binding request; in ChannelData, any     *)
(* STUN message goes through the engine's own reader.                      *)

IceAttrs ==
  {Attr("USERNAME", <<"f", "g">>), Attr("USERNAME", <<"h", "k">>), Attr("USERNAME", <<"f">>),
   Attr("USERNAME", Nil), Attr("PRIORITY", 1), Attr("MESSAGE-INTEGRITY", 1),
   [Attr("USERNAME", <<"h", "k">>) EXCEPT !.sized = FALSE],
   [Attr("USERNAME", <<"h", "k">>) EXCEPT !.fits = FALSE],
   [Attr("PRIORITY", 1) EXCEPT !.fits = FALSE, !.held = FALSE]}

\* Any attributes in any order, in a Binding request or another STUN message.
IceChecks == [attrs : UNION {[1..n -> IceAttrs] : n \in 0..MaxAttrs}, request : BOOLEAN]

ReadCheck(c, way) ==
  CASE way = "channel"              -> ExtractStunUfrags(c.attrs)
    [] way = "direct" /\ c.request  -> ParseIceUsername(c.attrs)
    [] way = "direct" /\ ~c.request -> Nil

ReceiveCheck(c, way) ==
  /\ input' = [kind |-> "check", check |-> c]
  /\ output' = ReadCheck(c, way)

----------------------------------------------------------------------------
(* A payload for a peer, in a Send indication or in ChannelData            *)

IsForbiddenPeerIp(ip) ==
  ip \in {"loopback", "multicast", "broadcast", "unspecified", "link_local"}

\* The server's own IP is for the relay port only.
IsForbiddenPeerAddr(peer) ==
  IsForbiddenPeerIp(peer.ip) \/ (peer.ip = "external_ip" /\ peer.port # "port")

RelayAddr == [ip |-> "external_ip", port |-> "port"]

\* What the tables say of a sender and a peer: the sender permits the peer's IP
\* and has bound a channel to it, which ChannelBind refuses for a forbidden
\* one; the peer is the sender itself, or another client, which permits the
\* relay IP or not and has bound a channel to the sender or not.  When the peer
\* is the relay address, these last four are about the allocation the pairing
\* of ufrags names, and its channel is one to the relay address.
Situations ==
  {s \in [peer : [ip : {"loopback", "external_ip", "public"}, port : {"port", "other"}],
          permitted : BOOLEAN, bound : BOOLEAN,
          self : BOOLEAN, client : BOOLEAN, accepts : BOOLEAN, reverse : BOOLEAN] :
     /\ s.bound => ~IsForbiddenPeerAddr(s.peer)
     /\ s.self => s.client
     /\ ~s.client => ~s.accepts /\ ~s.reverse}

Framing(s) == IF s.reverse THEN "channel" ELSE "indication"

\* Wrong: a client that does not permit the relay IP gets the payload raw.
ClassifySendTargetRaw(s) ==
  IF s.self THEN "drop" ELSE IF s.client /\ s.accepts THEN Framing(s) ELSE "raw"

ClassifySendTarget(s) ==
  CASE s.self               -> "drop"
    [] ~s.self /\ s.client  -> IF s.accepts THEN Framing(s) ELSE "drop"
    [] ~s.client            -> "raw"

\* handle_send.  An ICE peer has to permit the relay IP.
RouteSend(s) ==
  IF IsForbiddenPeerAddr(s.peer) \/ ~s.permitted THEN "drop"
  ELSE IF s.peer = RelayAddr
    THEN IF s.client /\ ~s.self /\ s.accepts THEN "indication" ELSE "drop"
  ELSE ClassifySendTarget(s)

\* handle_channel_data and relay_to_listeners, which ask an ICE peer for no
\* permission.
RouteChannelData(s) ==
  IF ~s.bound \/ ~s.permitted THEN "drop"
  ELSE IF s.peer = RelayAddr THEN IF s.client /\ ~s.self THEN Framing(s) ELSE "drop"
  ELSE IF s.self THEN "drop"
  ELSE IF s.client THEN IF s.accepts THEN Framing(s) ELSE "drop"
  ELSE IF IsForbiddenPeerAddr(s.peer) THEN "drop" ELSE "raw"

RelayData(s, way) ==
  /\ input' = [kind |-> "data", situation |-> s]
  /\ output' = IF way = "send" THEN RouteSend(s) ELSE RouteChannelData(s)

----------------------------------------------------------------------------
(* Frames: Data indications and ChannelData, by their lengths *)

U16(n) == n % 65536

Pad(n) == (4 - (n % 4)) % 4
PadLoop(n) == Min({k \in 0..3 : (n + k) % 4 = 0})

XorSize(ip) == 4 + (IF ip = 4 THEN 8 ELSE 20)

\* Wrong: the length is set before the padding.
DataIndicationUnpadded(ip, n) ==
  LET body == XorSize(ip) + 4 + n
  IN  [size |-> 20 + body + Pad(body), field |-> U16(body), data |-> U16(n)]

\* A Data indication of n bytes from a peer whose address has ip bytes: its
\* size, its length field and that of DATA.
DataIndication(ip, n) ==
  LET body == XorSize(ip) + 4 + n
  IN  [size |-> 20 + body + Pad(body), field |-> U16(body + Pad(body)), data |-> U16(n)]

\* The handler's copy pads byte by byte.
HandlerDataIndication(ip, n) ==
  LET body == XorSize(ip) + 4 + n
  IN  [size |-> 20 + body + PadLoop(body), field |-> U16(body + PadLoop(body)), data |-> U16(n)]

ChannelData(n) == [size |-> 4 + n + Pad(4 + n), field |-> U16(n)]

\* Every payload that a datagram can bring.
Sizes == 0..MaxDatagram

\* n bytes for a client, from an address of ip bytes: framed by the engine or
\* the server, or by the handler.
SendIndication(ip, n) ==
  /\ input' = [kind |-> "indication", ip |-> ip, size |-> n]
  /\ output' \in {DataIndication(ip, n), HandlerDataIndication(ip, n)}

SendChannelData(n) ==
  /\ input' = [kind |-> "channel", size |-> n]
  /\ output' = ChannelData(n)

Done == ~Idle /\ input' = Nil /\ output' = Nil

Packet ==
  \/ \E d \in Datagrams \cup Rtp \cup Rtcp, s \in Senders : Receive(d, s)
  \/ \E c \in IceChecks, way \in {"direct", "channel"} : ReceiveCheck(c, way)
  \/ \E s \in Situations, way \in {"send", "channel"} : RelayData(s, way)
  \/ \E ip \in {4, 16}, n \in Sizes : SendIndication(ip, n)
  \/ \E n \in Sizes : SendChannelData(n)

Next == (Idle /\ Packet) \/ Done

Spec == Init /\ [][Next]_vars

----------------------------------------------------------------------------
(* Properties *)

Handling(kind) == input # Nil /\ input.kind = kind

\* RTP that RTCP could begin with: marker and payload type 72 to 76, and a
\* sequence number that as RTCP's length ends within the datagram and, for a
\* report, leaves room for its blocks.
Lookalike(d) ==
  \E words \in 1..(d.len \div 4) :
    /\ d.field = words - 1 /\ d.second \in 200..204
    /\ d.second \in {200, 201} => words >= RtcpWords(d.second) + 6 * (d.first % 32)

\* Media of a peer reaches the handler of its own protocol ("Validate RTCP
\* packet structure before classifying"): RTCP whatever its blocks and the
\* rest of the compound, RTP whatever its CSRCs, marker, payload type and
\* sequence number, unless its first four bytes and its length make it a whole
\* RTCP packet; even then it is not lost.
MediaRecognised ==
  Handling("datagram") /\ input.sender = "peer" =>
    /\ input.packet \in Rtcp => output = "handle_rtcp"
    /\ input.packet \in Rtp =>
         output = IF Lookalike(input.packet) THEN "handle_rtcp" ELSE "handle_rtp"

\* A check with one USERNAME at most, which lies within the message, is not too
\* long and comes before MESSAGE-INTEGRITY, as ICE agents send them.
AsIceSends(c) ==
  /\ c.request
  /\ \A i \in 1..Len(c.attrs) : c.attrs[i].type = "USERNAME" =>
       /\ c.attrs[i].fits /\ c.attrs[i].sized
       /\ \A j \in 1..Len(c.attrs) : c.attrs[j].type = "USERNAME" => j = i
       /\ \A j \in 1..Len(c.attrs) : c.attrs[j].type = "MESSAGE-INTEGRITY" => j > i

\* Where the sender wrote a pair of ufrags that can be reached.
WrittenAt(attrs) ==
  {i \in 1..Len(attrs) : /\ attrs[i].type = "USERNAME" /\ HasColon(attrs[i].value)
                         /\ \A j \in 1..i : attrs[j].fits}

\* The engine's reader of STUN inside ChannelData keeps up with the parser.  It
\* takes for STUN what classify does.  Out of a check such as ICE agents send
\* both read the pair of ufrags its sender wrote, so that a client that sends
\* some of its checks in ChannelData is paired like one that sends them all
\* directly.  And whatever the message, one the parser reads a pair from is
\* never without a pair to the engine.
ReadersAgree ==
  /\ Handling("datagram") /\ output = "handle_stun" => IsStun(input.packet)
  /\ Handling("check") =>
       LET c == input.check IN
       /\ AsIceSends(c) =>
            IF WrittenAt(c.attrs) = {} THEN output = Nil
            ELSE \E i \in WrittenAt(c.attrs) : output = c.attrs[i].value
       /\ output # Nil => ExtractStunUfrags(c.attrs) # Nil

\* How the client sends a payload does not decide where it goes, "so the two
\* data paths cannot be played against each other".  To any other peer it has
\* the same fate over a bound channel as in a Send indication.  To the relay
\* address, the channel reaches every ICE peer the indication reaches, and
\* beyond those only one that does not permit the relay IP.  Nothing leaves for
\* a peer ChannelBind would refuse, for the sender itself, or unwrapped for
\* another client, and for a client other than an ICE peer only if it permits
\* the relay IP.
DataPathsAgree ==
  Handling("data") =>
    LET s == input.situation IN
    /\ s.bound /\ s.peer # RelayAddr => output = RouteSend(s)
    /\ s.bound /\ s.peer = RelayAddr =>
         /\ RouteSend(s) # "drop" => output # "drop"
         /\ output # "drop" => RouteSend(s) # "drop" \/ ~s.accepts
    /\ output # "drop" =>
         /\ s.permitted /\ ~IsForbiddenPeerAddr(s.peer) /\ ~s.self
         /\ s.client => output # "raw"
         /\ s.client /\ s.peer # RelayAddr => s.accepts

\* A frame that fits a datagram gives its own length and that of its payload,
\* whatever the padding and close to the limit of 16 bits, and all the copies
\* of the builder agree.
FramesParse ==
  /\ Handling("indication") /\ output.size <= MaxDatagram =>
       /\ output.size = 20 + output.field
       /\ output.data = input.size
       /\ XorSize(input.ip) + 4 + output.data \in (output.field - 3)..output.field
  /\ Handling("channel") /\ output.size <= MaxDatagram =>
       /\ output.field = input.size
       /\ output.size % 4 = 0 /\ output.size - (4 + output.field) \in 0..3
=============================================================================
