-------------------------- MODULE PacketPathProofs --------------------------
(***************************************************************************)
(* What becomes of one packet, for media of any length, connectivity       *)
(* checks of any number of attributes, every situation of a payload and    *)
(* every size of a frame, and of every answer and address that is built.   *)
(*                                                                         *)
(* Each packet is dealt with in one step, so the properties are inductive  *)
(* as they stand; the work is in the lemmas on the operators of Demux,     *)
(* PacketPath and Builders.                                                *)
(***************************************************************************)
EXTENDS Builders, WellFoundedInduction, TLAPS

(* Least of a set *)

LEMMA MinIn ==
  ASSUME NEW S \in SUBSET Nat, S # {}
  PROVE  Min(S) \in S /\ \A k \in S : Min(S) <= k
  <1>1. PICK x \in S : \A y \in S : ~(<<y, x>> \in OpToRel(<, Nat))
    BY Zenon, WFMin, NatLessThanWellFounded
  <1>2. ASSUME NEW y \in S PROVE x <= y
    <2>1. <<y, x>> \in Nat \X Nat /\ <<y, x>>[1] = y /\ <<y, x>>[2] = x
      OBVIOUS
    <2>2. ~(<<y, x>>[1] < <<y, x>>[2])
      BY Zenon, <1>1, <2>1 DEF OpToRel
    <2> QED
      BY <2>1, <2>2
  <1> QED
    BY Zenon, <1>2 DEF Min

\* A finite set of indices has a greatest one.
LEMMA Greatest ==
  ASSUME NEW n \in Nat, NEW S \in SUBSET (1..n), S # {}
  PROVE  \E x \in S : \A y \in S : x >= y
  <1> DEFINE above == {k \in Nat : \A y \in S : y <= k}
             m == Min(above)
  <1>1. n \in above
    OBVIOUS
  <1>2. above \in SUBSET Nat /\ above # {}
    BY Zenon, <1>1
  <1>3. m \in above /\ \A k \in above : m <= k
    <2> HIDE DEF above
    <2> QED
      BY Zenon, <1>2, MinIn
  <1>4. m \in Nat /\ \A y \in S : y <= m
    BY Zenon, <1>3
  <1>5. m \in S
    <2> SUFFICES ASSUME m \notin S PROVE FALSE
      OBVIOUS
    <2> HIDE DEF m
    <2>1. PICK z \in S : TRUE
      BY Zenon
    <2>2. m - 1 \in Nat /\ \A y \in S : y <= m - 1
      BY <1>4, <2>1
    <2>4. m - 1 \in above
      BY Zenon, <2>2
    <2>3. m <= m - 1
      BY Zenon, <1>3, <2>4 DEF m
    <2> QED
      BY <1>4, <2>3
  <1> HIDE DEF m
  <1> QED
    BY <1>4, <1>5

----------------------------------------------------------------------------
(* Classification *)

\* A packet with version 2 is RTP unless RTCP could begin with it.
LEMMA RtpClassified ==
  ASSUME NEW d \in Rtp
  PROVE  Classify(d) = IF Lookalike(d) THEN "rtcp" ELSE "rtp"
  <1>1. PICK low \in 0..63, n \in Payloads, b \in Seconds, s \in Fields :
          d = RtpPacket(low, n, b, s)
    BY DEF Rtp
  <1>2. n \in Nat /\ s \in Nat /\ b \in Nat
    BY SMT, PacketAssumption
  <1>3. /\ d.len = 12 + 4 * (low % 16) + n /\ d.first = 128 + low
        /\ d.second = b /\ d.field = s
    BY <1>1 DEF RtpPacket
  <1>4. /\ d.len \in Nat /\ d.len # 0 /\ d.len >= 12 /\ d.first \in 128..191
        /\ d.first \notin 0..3 /\ d.first \notin 20..63 /\ d.first \notin 64..127
    BY <1>2, <1>3
  <1>5. d.first \div 64 = 2 /\ d.first % 16 = low % 16 /\ d.first % 32 \in 0..31
    BY <1>3
  <1>6. RtpParses(d)
    BY <1>2, <1>3, <1>4, <1>5 DEF RtpParses
  <1>7. IsValidRtcp(d) <=> Lookalike(d)
    <2>1. \A w \in Nat : w * 4 <= d.len <=> w <= d.len \div 4
      BY <1>4
    <2>2. d.field + 1 \in Nat /\ d.field \in Nat
      BY <1>2, <1>3
    <2>3. (d.field + 1) * 4 <= d.len <=> \E w \in 1..(d.len \div 4) : d.field = w - 1
      <3>1. ASSUME (d.field + 1) * 4 <= d.len
            PROVE  d.field + 1 \in 1..(d.len \div 4) /\ d.field = (d.field + 1) - 1
        BY <1>4, <2>2, <3>1
      <3>2. ASSUME NEW w \in 1..(d.len \div 4), d.field = w - 1
            PROVE  (d.field + 1) * 4 <= d.len
        BY <1>4, <2>2, <3>2
      <3> QED
        BY Zenon, <3>1, <3>2
    <2>4. \A w \in 1..(d.len \div 4) : d.field = w - 1 => w = d.field + 1
      BY <1>4, <2>2
    <2>5. d.second \in {200, 201} => RtcpWords(d.second) + 6 * (d.first % 32) = ReportWords(d)
      BY <1>5 DEF RtcpWords, ReportWords
    <2>6. d.len >= 8
      BY <1>4
    <2> DEFINE room(w) == d.second \in {200, 201} =>
                            w >= RtcpWords(d.second) + 6 * (d.first % 32)
    <2>7. Lookalike(d) <=>
            /\ \E w \in 1..(d.len \div 4) : d.field = w - 1
            /\ d.second \in 200..204 /\ room(d.field + 1)
      <3>1. Lookalike(d) <=> \E w \in 1..(d.len \div 4) :
              d.field = w - 1 /\ d.second \in 200..204 /\ room(w)
        BY Zenon DEF Lookalike
      <3> HIDE DEF room
      <3> QED
        BY Zenon, <2>4, <3>1
    <2>8. room(d.field + 1) <=> (d.second \in {200, 201} => d.field + 1 >= ReportWords(d))
      BY Zenon, <2>5
    <2> HIDE DEF room
    <2> QED
      BY Zenon, <1>5, <2>3, <2>6, <2>7, <2>8 DEF IsValidRtcp
  <1>8. Classify(d) = ParseRtpRtcp(d)
    BY <1>4 DEF Classify
  <1> QED
    BY <1>6, <1>7, <1>8 DEF ParseRtpRtcp

\* A report that has the length of its blocks is RTCP.
LEMMA RtcpClassified ==
  ASSUME NEW d \in Rtcp
  PROVE  Classify(d) = "rtcp"
  <1>1. PICK rc \in 0..31, pt \in 200..204, n \in Payloads : d = RtcpPacket(rc, pt, n)
    BY DEF Rtcp
  <1>0. n \in Nat
    BY SMT, PacketAssumption
  <1> DEFINE w == RtcpWords(pt)
  <1>2. /\ w \in 2..7
        /\ pt = 200 => w = 7
        /\ pt = 201 => w = 2
    BY DEF RtcpWords
  <1>3. /\ d.len = 4 * (w + 6 * rc) + n /\ d.first = 128 + rc /\ d.second = pt
        /\ d.field = w + 6 * rc - 1
    BY <1>1, <1>2 DEF RtcpPacket
  <1> HIDE DEF w
  <1>4. /\ d.len # 0 /\ d.len >= 8 /\ d.first \in 128..191
        /\ d.first \notin 0..3 /\ d.first \notin 20..63 /\ d.first \notin 64..127
        /\ (d.field + 1) * 4 <= d.len
    BY <1>0, <1>2, <1>3
  <1>5. d.first \div 64 = 2 /\ d.first % 32 = rc
    BY <1>3
  <1>6. d.second \in {200, 201} => d.field + 1 >= ReportWords(d)
    BY <1>2, <1>3, <1>5 DEF ReportWords
  <1>7. IsValidRtcp(d)
    BY <1>2, <1>3, <1>4, <1>5, <1>6 DEF IsValidRtcp
  <1> QED
    BY <1>4, <1>7 DEF Classify, ParseRtpRtcp

LEMMA Classes ==
  ASSUME NEW d
  PROVE  /\ Classify(d) \in {"stun", "dtls", "channel", "rtp", "rtcp", "unknown"}
         /\ Classify(d) = "stun" => d.first \in 0..3 /\ Parses(d)
  <1>1. ParseChannelData(d) \in {"channel", "unknown"}
    BY DEF ParseChannelData
  <1>2. ParseRtpRtcp(d) \in {"rtp", "rtcp", "unknown"}
    BY DEF ParseRtpRtcp
  <1> QED
    BY <1>1, <1>2 DEF Classify

----------------------------------------------------------------------------
(* Frames *)

\* Both ways to pad reach the next multiple of four.
LEMMA Padding ==
  ASSUME NEW n \in Nat
  PROVE  /\ Pad(n) \in 0..3 /\ (n + Pad(n)) % 4 = 0
         /\ PadLoop(n) \in 0..3 /\ (n + PadLoop(n)) % 4 = 0
  <1> DEFINE pads == {k \in 0..3 : (n + k) % 4 = 0}
  <1>1. Pad(n) \in 0..3 /\ (n + Pad(n)) % 4 = 0
    BY DEF Pad
  <1>2. pads # {} /\ pads \in SUBSET Nat
    <2>1. Pad(n) \in pads
      BY Zenon, <1>1
    <2>2. 0..3 \subseteq Nat
      OBVIOUS
    <2> QED
      BY Zenon, <2>1, <2>2
  <1>3. PadLoop(n) = Min(pads)
    BY Zenon DEF PadLoop
  <1> HIDE DEF pads
  <1>4. PadLoop(n) \in pads
    BY Zenon, <1>2, <1>3, MinIn
  <1> QED
    BY Zenon, <1>1, <1>4 DEF pads

\* A frame of a body padded by k bytes.
LEMMA Framed ==
  ASSUME NEW ip \in {4, 16}, NEW n \in Sizes, NEW k \in 0..3,
         20 + (XorSize(ip) + 4 + n) + k <= MaxDatagram
  PROVE  /\ U16(n) = n
         /\ U16(XorSize(ip) + 4 + n + k) = XorSize(ip) + 4 + n + k
  BY SMT, PacketAssumption DEF Sizes, U16, XorSize

LEMMA IndicationFrame ==
  ASSUME NEW ip \in {4, 16}, NEW n \in Sizes,
         NEW f \in {DataIndication(ip, n), HandlerDataIndication(ip, n)},
         f.size <= MaxDatagram
  PROVE  /\ f.size = 20 + f.field
         /\ f.data = n
         /\ XorSize(ip) + 4 + f.data \in (f.field - 3)..f.field
  <1> DEFINE body == XorSize(ip) + 4 + n
  <1>1. body \in Nat /\ n \in Nat
    BY SMT, PacketAssumption DEF Sizes, XorSize
  <1>2. PICK k \in 0..3 : /\ f.size = 20 + body + k
                          /\ f.field = U16(body + k)
                          /\ f.data = U16(n)
    <2>1. Pad(body) \in 0..3 /\ PadLoop(body) \in 0..3
      BY Zenon, <1>1, Padding
    <2> HIDE DEF body
    <2>2. CASE f = DataIndication(ip, n)
      <3>1. f = [size |-> 20 + body + Pad(body), field |-> U16(body + Pad(body)), data |-> U16(n)]
        BY Zenon, <2>2 DEF DataIndication, body
      <3> QED
        BY <2>1, <3>1
    <2>3. CASE f = HandlerDataIndication(ip, n)
      <3>1. f = [size |-> 20 + body + PadLoop(body), field |-> U16(body + PadLoop(body)),
                 data |-> U16(n)]
        BY Zenon, <2>3 DEF HandlerDataIndication, body
      <3> QED
        BY <2>1, <3>1
    <2> QED
      BY Zenon, <2>2, <2>3
  <1>3. U16(n) = n /\ U16(body + k) = body + k
    <2>1. 20 + (XorSize(ip) + 4 + n) + k <= MaxDatagram
      BY Zenon, <1>2
    <2> QED
      BY SMT, <2>1, Framed
  <1> HIDE DEF body
  <1>4. f.size = 20 + f.field /\ f.data = n /\ body \in (f.field - 3)..f.field
    BY <1>1, <1>2, <1>3
  <1> QED
    BY Zenon, <1>4 DEF body

LEMMA ChannelFrame ==
  ASSUME NEW n \in Sizes
  PROVE  LET f == ChannelData(n)
         IN  /\ f.field = n
             /\ f.size % 4 = 0 /\ f.size - (4 + f.field) \in 0..3
  <1>1. n \in Nat /\ 4 + n \in Nat /\ U16(n) = n
    BY SMT, PacketAssumption DEF Sizes, U16
  <1>2. Pad(4 + n) \in 0..3 /\ (4 + n + Pad(4 + n)) % 4 = 0
    BY <1>1, Padding
  <1> QED
    BY <1>1, <1>2 DEF ChannelData

----------------------------------------------------------------------------
(* Connectivity checks *)

\* Where the parser stops: at the first attribute that does not fit.
LEMMA FittingUpTo ==
  ASSUME NEW attrs, NEW n \in Nat, DOMAIN attrs = 1..n, Len(attrs) = n
  PROVE  /\ Len(Fitting(attrs)) \in 0..n
         /\ \A i \in 1..n : i \in 1..Len(Fitting(attrs)) <=> \A j \in 1..i : attrs[j].fits
  <1> DEFINE over == {i \in 1..n : ~attrs[i].fits}
  <1>0. Fitting(attrs) = IF over = {} THEN attrs ELSE SubSeq(attrs, 1, Min(over) - 1)
    BY Zenon DEF Fitting
  <1>1. CASE over = {}
    <2>1. Fitting(attrs) = attrs /\ \A j \in 1..n : attrs[j].fits
      BY Zenon, <1>0, <1>1
    <2> QED
      BY <2>1
  <1>2. CASE over # {}
    <2> DEFINE o == Min(over)
    <2>1. over \in SUBSET Nat
      BY SMT
    <2>2. o \in over /\ \A k \in over : o <= k
      <3> HIDE DEF over
      <3> QED
        BY Zenon, <1>2, <2>1, MinIn
    <2>3. o \in 1..n /\ ~attrs[o].fits /\ \A k \in 1..n : ~attrs[k].fits => o <= k
      BY Zenon, <2>2
    <2>4. Fitting(attrs) = SubSeq(attrs, 1, o - 1)
      BY Zenon, <1>0, <1>2
    <2> HIDE DEF over, o
    <2>5. Len(Fitting(attrs)) = o - 1
      BY <2>3, <2>4
    <2>6. ASSUME NEW i \in 1..n
          PROVE  i \in 1..(o - 1) <=> \A j \in 1..i : attrs[j].fits
      BY <2>3
    <2>7. o - 1 \in 0..n
      BY <2>3
    <2> QED
      BY <2>5, <2>6, <2>7
  <1> QED
    BY Zenon, <1>1, <1>2

\* What lies before MESSAGE-INTEGRITY is seen if it fits.
LEMMA SeenBefore ==
  ASSUME NEW attrs, NEW n \in Nat, DOMAIN attrs = 1..n, Len(attrs) = n,
         NEW i \in 1..n,
         \A k \in 1..n : attrs[k].type = "MESSAGE-INTEGRITY" => k > i
  PROVE  i \in 1..Len(Seen(attrs)) <=> i \in 1..Len(Fitting(attrs))
  <1> DEFINE m == Len(Fitting(attrs))
             at == IntegrityAt(attrs)
  <1>1. m \in 0..n
    BY Zenon, FittingUpTo
  <1>2. Seen(attrs) = IF at = {} THEN Fitting(attrs) ELSE SubSeq(attrs, 1, Min(at))
    BY Zenon DEF Seen
  <1>3. at = {k \in 1..m : attrs[k].type = "MESSAGE-INTEGRITY" /\ attrs[k].sized}
    BY Zenon DEF IntegrityAt
  <1> HIDE DEF m, at
  <1>4. CASE at = {}
    BY Zenon, <1>2, <1>4 DEF m
  <1>5. CASE at # {}
    <2> DEFINE a == Min(at)
    <2>1. at \in SUBSET Nat
      BY <1>1, <1>3
    <2>2. a \in at
      BY Zenon, <1>5, <2>1, MinIn
    <2> HIDE DEF a
    <2>3. a \in 1..m /\ attrs[a].type = "MESSAGE-INTEGRITY"
      BY Zenon, <1>3, <2>2
    <2>4. a \in 1..n
      BY <1>1, <2>3
    <2>5. a > i
      BY Zenon, <2>3, <2>4
    <2>6. Seen(attrs) = SubSeq(attrs, 1, a)
      BY Zenon, <1>2, <1>5 DEF a
    <2>7. Len(Seen(attrs)) = a
      BY <2>4, <2>6
    <2>8. i \in 1..a /\ i \in 1..m
      BY <1>1, <2>3, <2>5
    <2> QED
      BY Zenon, <2>7, <2>8 DEF m
  <1> QED
    BY Zenon, <1>4, <1>5

\* The attributes of a check, each within the datagram if within the message.
LEMMA CheckShape ==
  ASSUME NEW c \in IceChecks
  PROVE  \E n \in Nat :
           /\ DOMAIN c.attrs = 1..n /\ Len(c.attrs) = n
           /\ \A i \in 1..n : c.attrs[i].fits => c.attrs[i].held
  <1>0. c.attrs \in UNION {[1..n -> IceAttrs] : n \in 0..MaxAttrs}
    BY DEF IceChecks
  <1>1. PICK n \in 0..MaxAttrs : c.attrs \in [1..n -> IceAttrs]
    BY Zenon, <1>0
  <1>2. n \in Nat
    BY SMT, PacketAssumption
  <1>3. DOMAIN c.attrs = 1..n /\ Len(c.attrs) = n
    BY <1>1, <1>2
  <1>4. ASSUME NEW a \in IceAttrs PROVE a.fits => a.held
    <2>1. CASE \E t, v : a = Attr(t, v)
      BY <2>1 DEF Attr
    <2>2. CASE a = [Attr("USERNAME", <<"h", "k">>) EXCEPT !.sized = FALSE]
      BY <2>2 DEF Attr
    <2>3. CASE a = [Attr("USERNAME", <<"h", "k">>) EXCEPT !.fits = FALSE]
      BY <2>3 DEF Attr
    <2>4. CASE a = [Attr("PRIORITY", 1) EXCEPT !.fits = FALSE, !.held = FALSE]
      BY SMTT(20), <2>4 DEF Attr
    <2> QED
      BY <2>1, <2>2, <2>3, <2>4 DEF IceAttrs
  <1> QED
    BY Zenon, <1>1, <1>2, <1>3, <1>4

\* What the parser sees fits.
LEMMA SeenFits ==
  ASSUME NEW attrs, NEW n \in Nat, DOMAIN attrs = 1..n, Len(attrs) = n
  PROVE  1..Len(Seen(attrs)) \subseteq 1..Len(Fitting(attrs))
  <1> DEFINE m == Len(Fitting(attrs))
             at == IntegrityAt(attrs)
  <1>1. m \in 0..n
    BY Zenon, FittingUpTo
  <1>2. at \in SUBSET (1..m)
    BY Zenon DEF IntegrityAt
  <1>3. CASE at = {}
    BY Zenon, <1>3 DEF Seen
  <1>4. CASE at # {}
    <2> DEFINE a == Min(at)
    <2> HIDE DEF m
    <2>1. at \in SUBSET Nat
      BY <1>1, <1>2
    <2>2. a \in 1..m
      BY Zenon, <1>2, <1>4, <2>1, MinIn
    <2>3. Seen(attrs) = SubSeq(attrs, 1, a)
      BY Zenon, <1>4 DEF Seen
    <2> HIDE DEF a
    <2>4. Len(Seen(attrs)) = a
      BY <1>1, <2>2, <2>3
    <2>5. 1..a \subseteq 1..m
      BY <1>1, <2>2
    <2> QED
      BY Zenon, <2>4, <2>5 DEF m
  <1> QED
    BY Zenon, <1>3, <1>4

\* What both readers make of the attributes of a check: the engine finds a pair
\* whenever the parser does, and both the one that was written if there is but
\* one USERNAME, where it belongs.
LEMMA CheckRead ==
  ASSUME NEW attrs, NEW n \in Nat, DOMAIN attrs = 1..n, Len(attrs) = n,
         \A i \in 1..n : attrs[i].fits => attrs[i].held
  PROVE  /\ ParseIceUsername(attrs) # Nil => ExtractStunUfrags(attrs) # Nil
         /\ (\A i \in 1..n : attrs[i].type = "USERNAME" =>
               /\ attrs[i].fits /\ attrs[i].sized
               /\ \A j \in 1..n : attrs[j].type = "USERNAME" => j = i
               /\ \A j \in 1..n : attrs[j].type = "MESSAGE-INTEGRITY" => j > i) =>
              /\ WrittenAt(attrs) = {} =>
                   ExtractStunUfrags(attrs) = Nil /\ ParseIceUsername(attrs) = Nil
              /\ \A i \in WrittenAt(attrs) :
                   /\ ExtractStunUfrags(attrs) = attrs[i].value
                   /\ ParseIceUsername(attrs) = attrs[i].value
  <1> DEFINE fit == 1..Len(Fitting(attrs))
             seen == 1..Len(Seen(attrs))
             colon == {i \in HeldAt(attrs) : attrs[i].type = "USERNAME" /\ HasColon(attrs[i].value)}
             named == {i \in seen : attrs[i].type = "USERNAME" /\ attrs[i].sized}
             u == Value(attrs, "USERNAME")
             e == ExtractStunUfrags(attrs)
  <1>1. fit \subseteq 1..n
    <2>1. Len(Fitting(attrs)) \in 0..n
      BY Zenon, FittingUpTo
    <2> QED
      BY <2>1
  <1>2. \A i \in 1..n : i \in fit <=> \A j \in 1..i : attrs[j].fits
    BY Zenon, FittingUpTo
  <1>3. seen \subseteq fit
    BY Zenon, SeenFits
  <1>4. \A i \in 1..n : i \in 1..i /\ 1..(i - 1) \subseteq 1..i
    OBVIOUS
  <1>5. e = IF colon = {} THEN Nil ELSE attrs[Min(colon)].value
    BY Zenon DEF ExtractStunUfrags
  <1>6. u = IF named = {} THEN Nil ELSE attrs[Max(named)].value
    BY Zenon DEF Value
  <1>7. colon # {} => Min(colon) \in colon
    <2>1. colon \in SUBSET Nat
      BY SMT DEF HeldAt
    <2> HIDE DEF colon
    <2> QED
      BY Zenon, <2>1, MinIn
  <1>8. named # {} => Max(named) \in named /\ named \subseteq 1..n
    <2>1. named \subseteq 1..n
      BY Zenon, <1>1, <1>3
    <2> HIDE DEF named
    <2>2. named # {} => \E x \in named : \A y \in named : x >= y
      BY Zenon, <2>1, Greatest
    <2> QED
      BY Zenon, <2>1, <2>2 DEF Max
  <1> HIDE DEF fit, seen, u, e
  <1>9. \A i \in fit : attrs[i].type = "USERNAME" /\ HasColon(attrs[i].value) => i \in colon
    BY Zenon, <1>1, <1>2, <1>4 DEF HeldAt
  <1>10. ParseIceUsername(attrs) = IF HasColon(u) THEN u ELSE Nil
    BY Zenon DEF ParseIceUsername, u
  <1>11. ParseIceUsername(attrs) # Nil => e # Nil
    <2> SUFFICES ASSUME ParseIceUsername(attrs) # Nil PROVE e # Nil
      OBVIOUS
    <2>1. HasColon(u) /\ u # Nil
      BY Zenon, <1>10 DEF HasColon
    <2>2. named # {} /\ u = attrs[Max(named)].value
      BY Zenon, <1>6, <2>1
    <2>3. Max(named) \in seen /\ attrs[Max(named)].type = "USERNAME"
      BY Zenon, <1>8, <2>2
    <2>4. Max(named) \in colon
      BY Zenon, <1>3, <1>9, <2>1, <2>2, <2>3
    <2>5. Min(colon) \in colon
      BY Zenon, <1>7, <2>4
    <2>6. e = attrs[Min(colon)].value
      BY Zenon, <1>5, <2>4
    <2> QED
      BY Zenon, <2>5, <2>6 DEF HasColon
  <1>12. ASSUME \A i \in 1..n : attrs[i].type = "USERNAME" =>
                  /\ attrs[i].fits /\ attrs[i].sized
                  /\ \A j \in 1..n : attrs[j].type = "USERNAME" => j = i
                  /\ \A j \in 1..n : attrs[j].type = "MESSAGE-INTEGRITY" => j > i
         PROVE  /\ WrittenAt(attrs) = {} => e = Nil /\ ParseIceUsername(attrs) = Nil
                /\ \A i \in WrittenAt(attrs) :
                     e = attrs[i].value /\ ParseIceUsername(attrs) = attrs[i].value
    <2>1. \A i \in 1..n : attrs[i].type = "USERNAME" => (i \in seen <=> i \in fit)
      <3>1. ASSUME NEW i \in 1..n, attrs[i].type = "USERNAME"
            PROVE  i \in seen <=> i \in fit
        <4>1. \A k \in 1..n : attrs[k].type = "MESSAGE-INTEGRITY" => k > i
          BY Zenon, <1>12, <3>1
        <4> QED
          BY Zenon, <4>1, SeenBefore DEF seen, fit
      <3> QED
        BY Zenon, <3>1
    <2>2. colon \subseteq WrittenAt(attrs)
      <3>1. ASSUME NEW i \in colon PROVE i \in WrittenAt(attrs)
        <4>1. /\ i \in 1..n /\ attrs[i].type = "USERNAME" /\ HasColon(attrs[i].value)
              /\ \A j \in 1..(i - 1) : attrs[j].fits
          BY Zenon DEF HeldAt
        <4>2. attrs[i].fits
          BY Zenon, <1>12, <4>1
        <4>3. \A j \in 1..i : j = i \/ j \in 1..(i - 1)
          BY <4>1
        <4>4. \A j \in 1..i : attrs[j].fits
          BY Zenon, <4>1, <4>2, <4>3
        <4> QED
          BY Zenon, <4>1, <4>4 DEF WrittenAt
      <3> QED
        BY Zenon, <3>1
    <2>3. \A i \in WrittenAt(attrs) :
            /\ i \in 1..n /\ i \in fit /\ attrs[i].type = "USERNAME" /\ HasColon(attrs[i].value)
      BY Zenon, <1>2 DEF WrittenAt
    <2>4. WrittenAt(attrs) = {} => e = Nil /\ ParseIceUsername(attrs) = Nil
      <3> SUFFICES ASSUME WrittenAt(attrs) = {}
                   PROVE  e = Nil /\ ParseIceUsername(attrs) = Nil
        OBVIOUS
      <3>1. e = Nil
        BY Zenon, <1>5, <2>2
      <3> QED
        BY Zenon, <1>11, <3>1
    <2>5. ASSUME NEW i \in WrittenAt(attrs)
          PROVE  e = attrs[i].value /\ ParseIceUsername(attrs) = attrs[i].value
      <3>1. /\ i \in 1..n /\ i \in fit /\ i \in seen
            /\ attrs[i].type = "USERNAME" /\ HasColon(attrs[i].value) /\ attrs[i].sized
        BY Zenon, <1>12, <2>1, <2>3
      <3>2. i \in colon /\ i \in named
        BY Zenon, <1>9, <3>1
      <3>3. Min(colon) \in colon /\ Max(named) \in named /\ Max(named) \in 1..n
        BY Zenon, <1>7, <1>8, <3>2
      <3>4. Min(colon) = i
        <4>1. Min(colon) \in 1..n /\ attrs[Min(colon)].type = "USERNAME"
          BY Zenon, <2>2, <2>3, <3>3
        <4> QED
          BY Zenon, <1>12, <3>1, <4>1
      <3>5. Max(named) = i
        <4>1. attrs[Max(named)].type = "USERNAME"
          BY Zenon, <3>3
        <4> QED
          BY Zenon, <1>12, <3>1, <3>3, <4>1
      <3>6. e = attrs[i].value /\ u = attrs[i].value
        BY Zenon, <1>5, <1>6, <3>2, <3>4, <3>5
      <3> QED
        BY Zenon, <1>10, <3>1, <3>6
    <2> QED
      BY Zenon, <2>4, <2>5
  <1> QED
    BY Zenon, <1>11, <1>12 DEF e

----------------------------------------------------------------------------
(* The properties *)

\* One packet is in hand, of one kind.
LEMMA PacketKinds ==
  ASSUME [AnswersNext]_vars
  PROVE  \/ UNCHANGED vars
         \/ input' = Nil
         \/ \E d \in Datagrams \cup Rtp \cup Rtcp, s \in Senders : Receive(d, s)
         \/ \E c \in IceChecks, way \in {"direct", "channel"} : ReceiveCheck(c, way)
         \/ \E s \in Situations, way \in {"send", "channel"} : RelayData(s, way)
         \/ \E ip \in {4, 16}, n \in Sizes : SendIndication(ip, n)
         \/ \E n \in Sizes : SendChannelData(n)
         \/ \E t \in RequestTypes, class \in {"success", "error"} : AnswerRequest(t, class)
         \/ \E a \in Addresses, txn \in TxnIds : SendAddress(a, txn)
  BY Zenon DEF AnswersNext, Answer, Next, Done, Packet

LEMMA KindsDiffer ==
  /\ \A d, s : Receive(d, s) => input'.kind = "datagram"
  /\ \A c, way : ReceiveCheck(c, way) => input'.kind = "check"
  /\ \A s, way : RelayData(s, way) => input'.kind = "data"
  /\ \A ip, n : SendIndication(ip, n) => input'.kind = "indication"
  /\ \A n : SendChannelData(n) => input'.kind = "channel"
  /\ \A t, class : AnswerRequest(t, class) => input'.kind = "request"
  /\ \A a, txn : SendAddress(a, txn) => input'.kind = "address"
  BY DEF Receive, ReceiveCheck, RelayData, SendIndication, SendChannelData,
         AnswerRequest, SendAddress

\* Media of a peer reaches the handler of its own protocol, for every RTP
\* header and payload length and every report, but for RTP that makes a whole
\* RTCP packet (Demuxer::classify, is_valid_rtcp).
THEOREM MediaRecognisedCorrect == AnswersSpec => []MediaRecognised
  <1>1. Init => MediaRecognised
    BY Zenon DEF Init, MediaRecognised, Handling
  <1>2. ASSUME MediaRecognised, [AnswersNext]_vars
        PROVE  MediaRecognised'
    <2>1. CASE UNCHANGED vars
      BY <1>2, <2>1 DEF vars, MediaRecognised, Handling
    <2>2. CASE input' = Nil \/ input'.kind # "datagram"
      BY Zenon, <2>2 DEF MediaRecognised, Handling
    <2>3. ASSUME NEW d, NEW s, Receive(d, s)
          PROVE  MediaRecognised'
      <3>1. input'.packet = d /\ input'.sender = s /\ output' = HandlePacket(d, s)
        BY <2>3 DEF Receive
      <3>2. s = "peer" /\ d \in Rtp =>
              HandlePacket(d, s) = IF Lookalike(d) THEN "handle_rtcp" ELSE "handle_rtp"
        BY RtpClassified DEF HandlePacket
      <3>3. s = "peer" /\ d \in Rtcp => HandlePacket(d, s) = "handle_rtcp"
        BY RtcpClassified DEF HandlePacket
      <3> QED
        BY Zenon, <3>1, <3>2, <3>3 DEF MediaRecognised
    <2> QED
      BY <1>2, <2>1, <2>2, <2>3, PacketKinds, KindsDiffer
  <1> QED
    BY <1>1, <1>2, PTL DEF AnswersSpec

\* The two readers of connectivity checks agree on those ICE agents send, and
\* the engine finds a pair wherever the parser does, for messages of any number
\* of attributes (parse_attributes, extract_stun_ufrags).
THEOREM ReadersAgreeCorrect == AnswersSpec => []ReadersAgree
  <1>1. Init => ReadersAgree
    BY Zenon DEF Init, ReadersAgree, Handling
  <1>2. ASSUME ReadersAgree, [AnswersNext]_vars
        PROVE  ReadersAgree'
    <2>1. CASE UNCHANGED vars
      BY <1>2, <2>1 DEF vars, ReadersAgree, Handling
    <2>2. CASE input' = Nil \/ input'.kind \notin {"datagram", "check"}
      BY Zenon, <2>2 DEF ReadersAgree, Handling
    <2>3. ASSUME NEW d, NEW s \in Senders, Receive(d, s)
          PROVE  ReadersAgree'
      <3>1. /\ input'.kind = "datagram" /\ input'.packet = d
            /\ output' = HandlePacket(d, s)
        BY <2>3 DEF Receive
      <3>2. HandlePacket(d, s) = "handle_stun" => Classify(d) = "stun"
        BY Classes DEF HandlePacket, Senders
      <3>3. Classify(d) = "stun" => d.first \in 0..3 /\ Parses(d)
        BY Classes
      <3>4. d.first \in 0..3 /\ Parses(d) => IsStun(d)
        BY DEF Parses, IsStun
      <3>5. "datagram" # "check"
        OBVIOUS
      <3> QED
        BY Zenon, <3>1, <3>2, <3>3, <3>4, <3>5 DEF ReadersAgree, Handling
    <2>4. ASSUME NEW c \in IceChecks, NEW way \in {"direct", "channel"}, ReceiveCheck(c, way)
          PROVE  ReadersAgree'
      <3>1. /\ input'.kind = "check" /\ input'.check = c
            /\ output' = ReadCheck(c, way)
        BY <2>4 DEF ReceiveCheck
      <3>2. PICK n \in Nat :
              /\ DOMAIN c.attrs = 1..n /\ Len(c.attrs) = n
              /\ \A i \in 1..n : c.attrs[i].fits => c.attrs[i].held
        BY Zenon, CheckShape
      <3>3. output' # Nil => ExtractStunUfrags(c.attrs) # Nil
        BY <3>1, <3>2, CheckRead DEF ReadCheck
      <3>4. ASSUME AsIceSends(c)
            PROVE  IF WrittenAt(c.attrs) = {} THEN output' = Nil
                   ELSE \E i \in WrittenAt(c.attrs) : output' = c.attrs[i].value
        <4>1. c.request /\ output' \in {ExtractStunUfrags(c.attrs), ParseIceUsername(c.attrs)}
          BY <3>1, <3>4 DEF ReadCheck, AsIceSends
        <4>2. \A i \in 1..n : c.attrs[i].type = "USERNAME" =>
                /\ c.attrs[i].fits /\ c.attrs[i].sized
                /\ \A j \in 1..n : c.attrs[j].type = "USERNAME" => j = i
                /\ \A j \in 1..n : c.attrs[j].type = "MESSAGE-INTEGRITY" => j > i
          BY Zenon, <3>2, <3>4 DEF AsIceSends
        <4>3. /\ WrittenAt(c.attrs) = {} =>
                   ExtractStunUfrags(c.attrs) = Nil /\ ParseIceUsername(c.attrs) = Nil
              /\ \A i \in WrittenAt(c.attrs) :
                   /\ ExtractStunUfrags(c.attrs) = c.attrs[i].value
                   /\ ParseIceUsername(c.attrs) = c.attrs[i].value
          BY Zenon, <3>2, <4>2, CheckRead
        <4> QED
          BY Zenon, <4>1, <4>3
      <3>5. "datagram" # "check"
        OBVIOUS
      <3> QED
        BY Zenon, <3>1, <3>3, <3>4, <3>5 DEF ReadersAgree, Handling
    <2> QED
      BY <1>2, <2>1, <2>2, <2>3, <2>4, PacketKinds, KindsDiffer
  <1> QED
    BY <1>1, <1>2, PTL DEF AnswersSpec

\* The fate of a payload in one situation.
LEMMA Routes ==
  ASSUME NEW s \in Situations,
         NEW fate \in {RouteSend(s), RouteChannelData(s)}
  PROVE  /\ s.bound /\ s.peer # RelayAddr => fate = RouteSend(s)
         /\ s.bound /\ s.peer = RelayAddr =>
              /\ RouteSend(s) # "drop" => fate # "drop"
              /\ fate # "drop" => RouteSend(s) # "drop" \/ ~s.accepts
         /\ fate # "drop" =>
              /\ s.permitted /\ ~IsForbiddenPeerAddr(s.peer) /\ ~s.self
              /\ s.client => fate # "raw"
              /\ s.client /\ s.peer # RelayAddr => s.accepts
  <1>1. /\ s.permitted \in BOOLEAN /\ s.bound \in BOOLEAN /\ s.self \in BOOLEAN
        /\ s.client \in BOOLEAN /\ s.accepts \in BOOLEAN /\ s.reverse \in BOOLEAN
        /\ s.bound => ~IsForbiddenPeerAddr(s.peer)
        /\ s.self => s.client
    BY DEF Situations
  <1>2. ClassifySendTarget(s) =
          IF s.self THEN "drop"
          ELSE IF s.client THEN IF s.accepts THEN Framing(s) ELSE "drop"
          ELSE "raw"
    BY <1>1 DEF ClassifySendTarget
  <1>3. Framing(s) \in {"channel", "indication"}
    BY Zenon DEF Framing
  <1>4. "drop" # "raw" /\ \A f \in {"channel", "indication"} : f # "drop" /\ f # "raw"
    OBVIOUS
  <1>5. CASE s.peer # RelayAddr
    <2>1. RouteSend(s) = IF IsForbiddenPeerAddr(s.peer) \/ ~s.permitted THEN "drop"
                         ELSE ClassifySendTarget(s)
      BY Zenon, <1>5 DEF RouteSend
    <2>2. s.bound => RouteChannelData(s) = RouteSend(s)
      BY Zenon, <1>1, <1>2, <1>5 DEF RouteChannelData, RouteSend
    <2>3. ~s.bound => RouteChannelData(s) = "drop"
      BY Zenon DEF RouteChannelData
    <2>4. fate = RouteSend(s) \/ (~s.bound /\ fate = "drop")
      BY Zenon, <2>2, <2>3
    <2>5. RouteSend(s) # "drop" =>
            /\ s.permitted /\ ~IsForbiddenPeerAddr(s.peer) /\ ~s.self
            /\ s.client => RouteSend(s) # "raw" /\ s.accepts
      BY Zenon, <1>2, <1>3, <1>4, <2>1
    <2> QED
      BY Zenon, <1>5, <2>4, <2>5
  <1>6. CASE s.peer = RelayAddr
    <2>1. ~IsForbiddenPeerAddr(s.peer)
      BY <1>6 DEF RelayAddr, IsForbiddenPeerAddr, IsForbiddenPeerIp
    <2>2. RouteSend(s) = IF s.permitted /\ s.client /\ ~s.self /\ s.accepts THEN "indication"
                         ELSE "drop"
      BY Zenon, <1>6, <2>1 DEF RouteSend
    <2>3. RouteChannelData(s) = IF s.bound /\ s.permitted /\ s.client /\ ~s.self THEN Framing(s)
                                ELSE "drop"
      BY Zenon, <1>6 DEF RouteChannelData
    <2> QED
      BY Zenon, <1>3, <1>4, <1>6, <2>1, <2>2, <2>3
  <1> QED
    BY Zenon, <1>5, <1>6

\* A payload has the fate on one data path that it has on the other, but for an
\* ICE peer that does not permit the relay IP, in every situation (handle_send,
\* handle_channel_data, classify_send_target, relay_to_listeners).
THEOREM DataPathsAgreeCorrect == AnswersSpec => []DataPathsAgree
  <1>1. Init => DataPathsAgree
    BY Zenon DEF Init, DataPathsAgree, Handling
  <1>2. ASSUME DataPathsAgree, [AnswersNext]_vars
        PROVE  DataPathsAgree'
    <2>1. CASE UNCHANGED vars
      BY <1>2, <2>1 DEF vars, DataPathsAgree, Handling
    <2>2. CASE input' = Nil \/ input'.kind # "data"
      BY Zenon, <2>2 DEF DataPathsAgree, Handling
    <2>3. ASSUME NEW s \in Situations, NEW way, RelayData(s, way)
          PROVE  DataPathsAgree'
      <3>1. /\ input'.situation = s
            /\ output' \in {RouteSend(s), RouteChannelData(s)}
        BY <2>3 DEF RelayData
      <3> QED
        BY Zenon, <3>1, Routes DEF DataPathsAgree
    <2> QED
      BY <1>2, <2>1, <2>2, <2>3, PacketKinds, KindsDiffer
  <1> QED
    BY <1>1, <1>2, PTL DEF AnswersSpec

\* Every frame that fits a datagram gives its own length and that of its
\* payload (build_data_indication and its copies, build_channel_data).
THEOREM FramesParseCorrect == AnswersSpec => []FramesParse
  <1>1. Init => FramesParse
    BY Zenon DEF Init, FramesParse, Handling
  <1>2. ASSUME FramesParse, [AnswersNext]_vars
        PROVE  FramesParse'
    <2>1. CASE UNCHANGED vars
      BY <1>2, <2>1 DEF vars, FramesParse, Handling
    <2>2. CASE input' = Nil \/ input'.kind \notin {"indication", "channel"}
      BY Zenon, <2>2 DEF FramesParse, Handling
    <2>0. "indication" # "channel"
      OBVIOUS
    <2>3. ASSUME NEW ip \in {4, 16}, NEW n \in Sizes, SendIndication(ip, n)
          PROVE  FramesParse'
      <3>1. /\ input'.kind = "indication" /\ input'.ip = ip /\ input'.size = n
            /\ output' \in {DataIndication(ip, n), HandlerDataIndication(ip, n)}
        BY <2>3 DEF SendIndication
      <3>2. output'.size <= MaxDatagram =>
              /\ output'.size = 20 + output'.field
              /\ output'.data = n
              /\ XorSize(ip) + 4 + output'.data \in (output'.field - 3)..output'.field
        BY SMT, <3>1, IndicationFrame
      <3> QED
        BY Zenon, <2>0, <3>1, <3>2 DEF FramesParse, Handling
    <2>4. ASSUME NEW n \in Sizes, SendChannelData(n)
          PROVE  FramesParse'
      <3>1. /\ input'.kind = "channel" /\ input'.size = n
            /\ output' = ChannelData(n)
        BY <2>4 DEF SendChannelData
      <3>2. /\ output'.field = n
            /\ output'.size % 4 = 0 /\ output'.size - (4 + output'.field) \in 0..3
        BY SMT, <3>1, ChannelFrame
      <3> QED
        BY Zenon, <2>0, <3>1, <3>2 DEF FramesParse, Handling
    <2> QED
      BY <1>2, <2>1, <2>2, <2>3, <2>4, PacketKinds, KindsDiffer
  <1> QED
    BY <1>1, <1>2, PTL DEF AnswersSpec

----------------------------------------------------------------------------
(* Answers *)

\* XOR with a mask twice gives the word back.
LEMMA XorTwice ==
  ASSUME NEW a, NEW m
  PROVE  SymDiff(SymDiff(a, m), m) = a
  BY DEF SymDiff

\* The class bits of a response replace none of the method's.
LEMMA ResponseType ==
  ASSUME NEW t \in RequestTypes
  PROVE  /\ Class(SuccessType(t)) = "success" /\ MethodBits(SuccessType(t)) = MethodBits(t)
         /\ Class(ErrorType(t)) = "error" /\ MethodBits(ErrorType(t)) = MethodBits(t)
  <1>1. 4 \notin t /\ 8 \notin t
    BY DEF RequestTypes, Class
  <1>2. Class(SuccessType(t)) = "success" /\ Class(ErrorType(t)) = "error"
    BY <1>1 DEF Class, SuccessType, ErrorType
  <1>3. ASSUME NEW S \in {{8}, {4, 8}}
        PROVE  MethodBits(t \cup S) = MethodBits(t)
    <2>1. S \cap 0..3 = {} /\ S \cap 5..7 = {} /\ S \cap 9..13 = {}
      BY <1>3
    <2>2. \A R : S \cap R = {} => (t \cup S) \cap R = t \cap R
      BY Zenon
    <2>3. /\ (t \cup S) \cap 0..3 = t \cap 0..3
          /\ (t \cup S) \cap 5..7 = t \cap 5..7
          /\ (t \cup S) \cap 9..13 = t \cap 9..13
      BY Zenon, <2>1, <2>2
    <2> QED
      BY Zenon, <2>3 DEF MethodBits
  <1> QED
    BY Zenon, <1>2, <1>3 DEF SuccessType, ErrorType

LEMMA TupleLength ==
  ASSUME NEW S, NEW n \in Nat, NEW f \in [1..n -> S]
  PROVE  f \in Seq(S) /\ Len(f) = n /\ DOMAIN f = 1..n
  OBVIOUS

LEMMA ConcatLength ==
  ASSUME NEW S, NEW f \in Seq(S), NEW g \in Seq(S)
  PROVE  Len(f \o g) = Len(f) + Len(g)
  OBVIOUS

LEMMA MagicLength == Magic \in Seq(Byte) /\ Len(Magic) = 4
  <1>1. 0 \in 0..7 /\ 1 \in 0..7 /\ 2 \in 0..7 /\ 4 \in 0..7 /\ 5 \in 0..7 /\ 6 \in 0..7 /\ 7 \in 0..7
    OBVIOUS
  <1>2. \A x, y, z \in 0..7 : {x, y} \in Byte /\ {x, y, z} \in Byte
    BY Zenon DEF Byte
  <1>3. /\ {0, 5} \in Byte /\ {1, 4} \in Byte
        /\ {2, 5, 7} \in Byte /\ {1, 6} \in Byte
    BY Zenon, <1>1, <1>2
  <1> QED
    BY <1>3 DEF Magic

\* The mask is as long as the address, and an IPv6 address is as long as the
\* magic cookie and the transaction id.
LEMMA MaskLength ==
  ASSUME NEW ip \in Ips, NEW txn \in TxnIds
  PROVE  /\ Family(ip) \in {1, 2}
         /\ Len(ip) \in Nat /\ DOMAIN ip = 1..Len(ip)
         /\ Len(Mask(Family(ip), txn)) = Len(ip)
  <1>1. txn \in [1..12 -> Byte] /\ (ip \in [1..4 -> Byte] \/ ip \in [1..16 -> Byte])
    BY Zenon, AddressAssumption
  <1>2. 4 \in Nat /\ 12 \in Nat /\ 16 \in Nat
    OBVIOUS
  <1>3. txn \in Seq(Byte) /\ Len(txn) = 12
    BY Zenon, <1>1, <1>2, TupleLength
  <1>4. Len(Magic \o txn) = Len(Magic) + Len(txn)
    BY Zenon, <1>3, ConcatLength, MagicLength
  <1>5. Len(Magic \o txn) = 16
    BY <1>3, <1>4, MagicLength
  <1>6. CASE ip \in [1..4 -> Byte]
    <2>1. Len(ip) = 4 /\ DOMAIN ip = 1..4
      BY ZenonT(40), <1>2, <1>6, TupleLength
    <2>2. Family(ip) = 1 /\ Mask(1, txn) = Magic
      BY Zenon, <2>1 DEF Family, Mask
    <2> QED
      BY Zenon, <1>2, <2>1, <2>2, MagicLength
  <1>7. CASE ip \in [1..16 -> Byte]
    <2>1. Len(ip) = 16 /\ DOMAIN ip = 1..16
      BY ZenonT(40), <1>2, <1>7, TupleLength
    <2>2. Family(ip) = 2 /\ Mask(2, txn) = Magic \o txn
      BY <2>1 DEF Family, Mask
    <2> QED
      BY Zenon, <1>2, <1>5, <2>1, <2>2
  <1> QED
    BY ZenonT(40), <1>1, <1>6, <1>7

\* What is written for an address is read as that address.
LEMMA AddressRead ==
  ASSUME NEW a \in Addresses, NEW txn \in TxnIds
  PROVE  DecodeXorAddress(AppendXorAddress(a, txn), txn) = a
  <1> DEFINE v == AppendXorAddress(a, txn)
             mask == Mask(Family(a.ip), txn)
             back == [i \in 1..Len(mask) |-> SymDiff(v.ip[i], mask[i])]
  <1>1. a.ip \in Ips /\ a = [port |-> a.port, ip |-> a.ip]
    BY DEF Addresses
  <1>2. /\ Family(a.ip) \in {1, 2} /\ Len(a.ip) \in Nat
        /\ DOMAIN a.ip = 1..Len(a.ip) /\ Len(mask) = Len(a.ip)
    BY Zenon, <1>1, MaskLength
  <1>3. /\ v.family = Family(a.ip)
        /\ v.port = SymDiff(a.port, MagicPort)
        /\ v.ip = [i \in 1..Len(a.ip) |-> SymDiff(a.ip[i], mask[i])]
    BY DEF AppendXorAddress
  <1>4. Len(v.ip) = Len(a.ip)
    <2>1. v.ip \in [1..Len(a.ip) -> {v.ip[i] : i \in 1..Len(a.ip)}]
      BY Zenon, <1>3
    <2> QED
      BY Zenon, <1>2, <2>1, TupleLength
  <1>5. back = a.ip
    <2>1. ASSUME NEW i \in 1..Len(a.ip)
          PROVE  SymDiff(v.ip[i], mask[i]) = a.ip[i]
      BY Zenon, <1>3, XorTwice
    <2>2. back = [i \in 1..Len(a.ip) |-> a.ip[i]]
      BY Zenon, <1>2, <2>1
    <2>3. a.ip = [i \in 1..Len(a.ip) |-> a.ip[i]]
      <3>1. a.ip \in [1..4 -> Byte] \/ a.ip \in [1..16 -> Byte]
        BY Zenon, <1>1, AddressAssumption
      <3> QED
        BY Zenon, <1>2, <3>1
    <2> QED
      BY Zenon, <2>2, <2>3
  <1>6. SymDiff(v.port, MagicPort) = a.port
    BY Zenon, <1>3, XorTwice
  <1>7. DecodeXorAddress(v, txn) =
          IF v.family \notin {1, 2} \/ Len(v.ip) < Len(mask) THEN Nil
          ELSE [port |-> SymDiff(v.port, MagicPort), ip |-> back]
    BY Zenon, <1>3 DEF DecodeXorAddress
  <1>8. ~(v.family \notin {1, 2} \/ Len(v.ip) < Len(mask))
    BY <1>2, <1>3, <1>4
  <1> QED
    BY Zenon, <1>1, <1>5, <1>6, <1>7, <1>8

\* What the builders of answers write is what StunInfo reads, for every method
\* and every address and transaction id (build_success_response,
\* build_signed_error_response, append_xor_*_address, decode_xor_address).
THEOREM AnswersReadCorrect == AnswersSpec => []AnswersRead
  <1>1. Init => AnswersRead
    BY Zenon DEF Init, AnswersRead, Handling
  <1>2. ASSUME AnswersRead, [AnswersNext]_vars
        PROVE  AnswersRead'
    <2>0. "request" # "address" /\ "success" # "error"
      OBVIOUS
    <2>1. CASE UNCHANGED vars
      BY Zenon, <1>2, <2>1 DEF vars, AnswersRead, Handling
    <2>2. CASE input' = Nil \/ input'.kind \notin {"request", "address"}
      BY Zenon, <2>2 DEF AnswersRead, Handling
    <2>3. ASSUME NEW t \in RequestTypes, NEW class \in {"success", "error"},
                 AnswerRequest(t, class)
          PROVE  AnswersRead'
      <3>1. /\ input'.kind = "request" /\ input'.type = t /\ input'.class = class
            /\ output' = IF class = "success" THEN SuccessType(t) ELSE ErrorType(t)
        BY <2>3 DEF AnswerRequest
      <3>2. Class(output') = class /\ MethodBits(output') = MethodBits(t)
        BY Zenon, <2>0, <3>1, ResponseType
      <3> QED
        BY Zenon, <2>0, <3>1, <3>2 DEF AnswersRead, Handling
    <2>4. ASSUME NEW a \in Addresses, NEW txn \in TxnIds, SendAddress(a, txn)
          PROVE  AnswersRead'
      <3>1. /\ input'.kind = "address" /\ input'.address = a
            /\ output'.address = DecodeXorAddress(AppendXorAddress(a, txn), txn)
        BY <2>4 DEF SendAddress, AppendXorMappedAddress, AppendXorRelayedAddress,
                    AppendXorPeerAddress
      <3> QED
        BY Zenon, <2>0, <3>1, AddressRead DEF AnswersRead, Handling
    <2> QED
      BY <1>2, <2>1, <2>2, <2>3, <2>4, PacketKinds, KindsDiffer
  <1> QED
    BY <1>1, <1>2, PTL DEF AnswersSpec
=============================================================================
