--------------------------- MODULE RequestsProofs ---------------------------
(***************************************************************************)
(* What a request may do to an allocation, for every user, credential,     *)
(* secret, lifetime and whatever follows MESSAGE-INTEGRITY, on a network   *)
(* that loses, duplicates and delays.                                      *)
(*                                                                         *)
(* The argument: the parser reads a signed request the way its signer      *)
(* wrote it (SignedInfo); a handler that gets past authentication does     *)
(* what Permitted says and nothing else (HandleStep); the properties       *)
(* follow from that and from the invariant of the allocation.              *)
(***************************************************************************)
EXTENDS Requests, SequenceTheorems, WellFoundedInduction, TLAPS

(* Least and greatest *)

LEMMA MinIn ==
  ASSUME NEW S \in SUBSET Nat, S # {}
  PROVE  Min(S) \in S /\ \A k \in S : Min(S) <= k
  <1>1. PICK x \in S : \A y \in S : ~(<<y, x>> \in OpToRel(<, Nat))
    BY Zenon, WFMin, NatLessThanWellFounded
  <1>2. ASSUME NEW y \in S PROVE x <= y
    <2>1. <<y, x>> \in Nat \X Nat /\ <<y, x>>[1] = y /\ <<y, x>>[2] = x
      OBVIOUS
    <2>2. ~(<<y, x>>[1] < <<y, x>>[2])
      BY Zenon, <1>1, <2>1 DEF OpToRel
    <2> QED
      BY <2>1, <2>2
  <1> QED
    BY Zenon, <1>2 DEF Min

LEMMA MinIs ==
  ASSUME NEW S \in SUBSET Nat, NEW x \in S, \A k \in S : x <= k
  PROVE  Min(S) = x
  <1>1. Min(S) \in S /\ Min(S) <= x
    BY Zenon, MinIn
  <1>2. x <= Min(S) /\ Min(S) \in Nat /\ x \in Nat
    BY Zenon, <1>1
  <1> QED
    BY <1>1, <1>2

\* Of two numbers.
LEMMA MinMaxPair ==
  ASSUME NEW a \in Int, NEW b \in Int
  PROVE  /\ Min({a, b}) = IF a <= b THEN a ELSE b
         /\ Max({a, b}) = IF a >= b THEN a ELSE b
  <1>1. ASSUME NEW x \in {a, b}, \A y \in {a, b} : x <= y
        PROVE  Min({a, b}) = x
    <2>1. Min({a, b}) \in {a, b} /\ \A y \in {a, b} : Min({a, b}) <= y
      BY Zenon, <1>1 DEF Min
    <2> QED
      BY <1>1, <2>1
  <1>2. ASSUME NEW x \in {a, b}, \A y \in {a, b} : x >= y
        PROVE  Max({a, b}) = x
    <2>1. Max({a, b}) \in {a, b} /\ \A y \in {a, b} : Max({a, b}) >= y
      BY Zenon, <1>2 DEF Max
    <2> QED
      BY <1>2, <2>1
  <1>3. CASE a <= b
    <2>1. Min({a, b}) = a
      BY <1>1, <1>3
    <2>2. Max({a, b}) = b
      BY <1>2, <1>3
    <2> QED
      BY <1>3, <2>1, <2>2
  <1>4. CASE ~(a <= b)
    <2>1. Min({a, b}) = b
      BY <1>1, <1>4
    <2>2. Max({a, b}) = a
      BY <1>2, <1>4
    <2> QED
      BY <1>4, <2>1, <2>2
  <1> QED
    BY <1>3, <1>4

LEMMA MaxOne ==
  ASSUME NEW x \in Nat
  PROVE  Max({x}) = x /\ Min({x}) = x
  <1>1. x <= x /\ x >= x
    OBVIOUS
  <1> QED
    BY Zenon, <1>1 DEF Max, Min

----------------------------------------------------------------------------
(* The parser *)

\* A signed part, MESSAGE-INTEGRITY and whatever follows it.
Message(signed, mi, trailer) == (signed \o <<mi>>) \o trailer

Signable(signed) ==
  \A i \in 1..Len(signed) : signed[i].fits /\ signed[i].type # "MESSAGE-INTEGRITY"

Integrity(mi) == mi.fits /\ mi.sized /\ mi.type = "MESSAGE-INTEGRITY"

\* Where things are in a message.
LEMMA MessageParts ==
  ASSUME NEW S, NEW signed \in Seq(S), NEW mi \in S, NEW trailer \in Seq(S)
  PROVE  LET attrs == Message(signed, mi, trailer)
             n     == Len(signed) + 1
         IN  /\ attrs \in Seq(S) /\ n \in Nat /\ n >= 1 /\ n <= Len(attrs)
             /\ \A i \in 1..Len(signed) : attrs[i] = signed[i]
             /\ attrs[n] = mi
  <1> DEFINE head  == signed \o <<mi>>
             attrs == Message(signed, mi, trailer)
             n     == Len(signed) + 1
  <1>1. <<mi>> \in Seq(S) /\ Len(<<mi>>) = 1 /\ <<mi>>[1] = mi
    OBVIOUS
  <1>2. Len(signed) \in Nat /\ Len(trailer) \in Nat
    OBVIOUS
  <1>3. /\ head \in Seq(S) /\ Len(head) = Len(signed) + 1
        /\ \A i \in 1..(Len(signed) + 1) :
             head[i] = IF i <= Len(signed) THEN signed[i] ELSE <<mi>>[i - Len(signed)]
    <2> DEFINE one == <<mi>>
    <2>1. one \in Seq(S) /\ Len(one) = 1
      BY <1>1
    <2>2. /\ signed \o one \in Seq(S)
          /\ Len(signed \o one) = Len(signed) + Len(one)
          /\ \A i \in 1..(Len(signed) + Len(one)) :
               (signed \o one)[i] = IF i <= Len(signed) THEN signed[i] ELSE one[i - Len(signed)]
      <3> HIDE DEF one
      <3> QED
        BY Zenon, <2>1, ConcatProperties
    <2> QED
      BY <2>1, <2>2
  <1> HIDE DEF head
  <1>4. /\ attrs \in Seq(S) /\ Len(attrs) = Len(head) + Len(trailer)
        /\ \A i \in 1..(Len(head) + Len(trailer)) :
             attrs[i] = IF i <= Len(head) THEN head[i] ELSE trailer[i - Len(head)]
    <2>1. attrs = head \o trailer
      BY Zenon DEF Message, head
    <2> HIDE DEF attrs
    <2> QED
      BY Zenon, <1>3, <2>1, ConcatProperties
  <1> HIDE DEF attrs
  <1>5. /\ \A i \in 1..Len(signed) : head[i] = signed[i]
        /\ head[n] = mi
    <2>1. \A i \in 1..Len(signed) : i \in 1..(Len(signed) + 1) /\ i <= Len(signed)
      BY <1>2
    <2>2. n \in 1..(Len(signed) + 1) /\ ~(n <= Len(signed)) /\ n - Len(signed) = 1
      BY <1>2
    <2> HIDE DEF n
    <2> QED
      BY Zenon, <1>1, <1>3, <2>1, <2>2
  <1>6. \A i \in 1..n : i \in 1..(Len(head) + Len(trailer)) /\ i <= Len(head)
    BY <1>2, <1>3
  <1>7. n \in 1..n /\ \A i \in 1..Len(signed) : i \in 1..n
    BY <1>2
  <1>8. n \in Nat /\ n >= 1 /\ n <= Len(attrs)
    BY <1>2, <1>3, <1>4
  <1> HIDE DEF n
  <1>9. \A i \in 1..n : attrs[i] = head[i]
    BY Zenon, <1>4, <1>6
  <1> QED
    BY Zenon, <1>4, <1>5, <1>7, <1>8, <1>9 DEF attrs, n

\* parse_attributes stops at MESSAGE-INTEGRITY, and what it covers is what
\* was signed.
LEMMA ParseSigned ==
  ASSUME NEW S, NEW signed \in Seq(S), NEW mi \in S, NEW trailer \in Seq(S),
         Signable(signed), Integrity(mi)
  PROVE  LET attrs == Message(signed, mi, trailer)
         IN  /\ Len(Seen(attrs)) = Len(signed) + 1
             /\ IntegrityAt(attrs) # {}
             /\ Covered(attrs) = signed
  <1> DEFINE attrs == Message(signed, mi, trailer)
             n     == Len(signed) + 1
             over  == {i \in 1..Len(attrs) : ~attrs[i].fits}
             at    == IntegrityAt(attrs)
             fitting == Fitting(attrs)
  <1>1. /\ attrs \in Seq(S) /\ n \in Nat /\ n >= 1 /\ n <= Len(attrs)
        /\ \A i \in 1..Len(signed) : attrs[i] = signed[i]
        /\ attrs[n] = mi
    BY MessageParts
  <1> HIDE DEF attrs
  <1>2. Len(attrs) \in Nat /\ Len(signed) \in Nat /\ \A i \in 1..Len(attrs) : attrs[i] \in S
    BY <1>1
  <1>3. \A i \in 1..n : i \in 1..Len(signed) \/ i = n
    BY <1>2
  <1>4. \A i \in 1..n : attrs[i].fits
    BY Zenon, <1>1, <1>3 DEF Signable, Integrity
  <1>5. ASSUME NEW k \in 0..Len(attrs)
        PROVE  /\ SubSeq(attrs, 1, k) \in Seq(S) /\ Len(SubSeq(attrs, 1, k)) = k
               /\ \A i \in 1..k : SubSeq(attrs, 1, k)[i] = attrs[i]
    <2>1. \A i \in 1..k : attrs[i] \in S
      BY <1>2
    <2>2. /\ SubSeq(attrs, 1, k) \in Seq(S)
          /\ Len(SubSeq(attrs, 1, k)) = IF 1 <= k THEN k - 1 + 1 ELSE 0
          /\ \A i \in 1..(k - 1 + 1) : SubSeq(attrs, 1, k)[i] = attrs[1 + i - 1]
      BY <1>2, <2>1, SubSeqProperties
    <2>3. k - 1 + 1 = k /\ \A i \in 1..k : 1 + i - 1 = i
      BY <1>2
    <2>4. (IF 1 <= k THEN k - 1 + 1 ELSE 0) = k
      BY <1>2
    <2> QED
      BY Zenon, <2>2, <2>3, <2>4
  <1>6. Len(fitting) \in n..Len(attrs)
    <2>1. CASE over = {}
      <3>1. fitting = attrs
        BY Zenon, <2>1 DEF Fitting
      <3> QED
        BY <1>1, <1>2, <3>1
    <2>2. CASE over # {}
      <3> DEFINE k == Min(over)
      <3>1. over \in SUBSET Nat
        BY <1>2
      <3>2. k \in over
        BY Zenon, <2>2, <3>1, MinIn
      <3>3. fitting = SubSeq(attrs, 1, k - 1)
        BY Zenon, <2>2 DEF Fitting
      <3>4. k \in 1..Len(attrs) /\ k \notin 1..n
        BY Zenon, <1>4, <3>2
      <3> HIDE DEF k
      <3>5. k - 1 \in 0..Len(attrs) /\ k - 1 \in n..Len(attrs)
        BY <1>1, <1>2, <3>4
      <3> QED
        BY Zenon, <1>5, <3>3, <3>5
    <2> QED
      BY <2>1, <2>2
  <1> HIDE DEF fitting, over
  <1>7. at = {i \in 1..Len(fitting) : attrs[i].type = "MESSAGE-INTEGRITY" /\ attrs[i].sized}
    BY Zenon DEF IntegrityAt, fitting
  <1>8. n \in at
    <2>1. n \in 1..Len(fitting)
      BY <1>1, <1>2, <1>6
    <2> QED
      BY Zenon, <1>1, <1>7, <2>1 DEF Integrity
  <1>9. ASSUME NEW i \in at PROVE n <= i
    <2>1. i \in 1..Len(fitting) /\ attrs[i].type = "MESSAGE-INTEGRITY"
      BY Zenon, <1>7
    <2>2. i \notin 1..Len(signed)
      BY Zenon, <1>1, <2>1 DEF Signable
    <2> QED
      BY <1>2, <1>6, <2>1, <2>2
  <1>10. at \in SUBSET Nat
    <2>1. 1..Len(fitting) \subseteq Nat
      BY <1>2, <1>6
    <2> QED
      BY Zenon, <1>7, <2>1
  <1>11. Min(at) = n
    BY Zenon, <1>8, <1>9, <1>10, MinIs
  <1>12. Seen(attrs) = SubSeq(attrs, 1, n)
    BY Zenon, <1>8, <1>11 DEF Seen
  <1>13. Len(Seen(attrs)) = n
    <2>1. n \in 0..Len(attrs)
      BY <1>1, <1>2
    <2> QED
      BY Zenon, <1>5, <1>12, <2>1
  <1>14. Covered(attrs) = signed
    <2>1. Covered(attrs) = SubSeq(attrs, 1, n - 1)
      BY Zenon, <1>11 DEF Covered
    <2>2. n - 1 = Len(signed) /\ Len(signed) \in 0..Len(attrs)
      BY <1>1, <1>2
    <2> HIDE DEF n
    <2>3. /\ Covered(attrs) \in Seq(S) /\ Len(Covered(attrs)) = Len(signed)
          /\ \A i \in 1..Len(signed) : Covered(attrs)[i] = signed[i]
      BY Zenon, <1>1, <1>5, <2>1, <2>2
    <2> QED
      BY Zenon, <2>3, SeqEqual
  <1> QED
    BY Zenon, <1>8, <1>13, <1>14 DEF attrs, at, n

\* An attribute that occurs once is what the parser keeps.
LEMMA ValueIs ==
  ASSUME NEW attrs, NEW n \in Nat, Len(Seen(attrs)) = n,
         NEW t, NEW p \in 1..n, attrs[p].type = t, attrs[p].sized,
         \A i \in 1..n : attrs[i].type = t => i = p
  PROVE  /\ Value(attrs, t) = attrs[p].value
         /\ t = "XOR-PEER-ADDRESS" =>
              /\ XorPeerAddresses(attrs) = {attrs[p].value}
              /\ FirstPeer(attrs) = attrs[p].value
  <1>1. {i \in 1..Len(Seen(attrs)) : attrs[i].type = t /\ attrs[i].sized} = {p}
    BY Zenon
  <1>2. {p} # {} /\ Max({p}) = p /\ Min({p}) = p
    <2>1. p \in Nat
      OBVIOUS
    <2> QED
      BY Zenon, <2>1, MaxOne
  <1>3. Value(attrs, t) = attrs[p].value
    BY Zenon, <1>1, <1>2 DEF Value
  <1>4. t = "XOR-PEER-ADDRESS" => PeersAt(attrs) = {p}
    BY Zenon, <1>1 DEF PeersAt
  <1>5. {attrs[i].value : i \in {p}} = {attrs[p].value}
    OBVIOUS
  <1> QED
    BY Zenon, <1>2, <1>3, <1>4, <1>5 DEF XorPeerAddresses, FirstPeer

LEMMA ValueNone ==
  ASSUME NEW attrs, NEW n \in Nat, Len(Seen(attrs)) = n,
         NEW t, \A i \in 1..n : attrs[i].type # t
  PROVE  Value(attrs, t) = Nil
  <1>1. {i \in 1..Len(Seen(attrs)) : attrs[i].type = t /\ attrs[i].sized} = {}
    BY Zenon
  <1> QED
    BY Zenon, <1>1 DEF Value

----------------------------------------------------------------------------
(* The client's messages *)

ArgumentType(method) ==
  CASE method = "allocate" -> "REQUESTED-TRANSPORT"
    [] method = "refresh"  -> "LIFETIME"
    [] OTHER -> "XOR-PEER-ADDRESS"

ArgumentTypes == {"REQUESTED-TRANSPORT", "LIFETIME", "XOR-PEER-ADDRESS", "CHANNEL-NUMBER"}

Elements(s) == {s[i] : i \in 1..Len(s)}

LEMMA ElementsSeq ==
  ASSUME NEW S, NEW s \in Seq(S)
  PROVE  s \in Seq(Elements(s))
  <1>1. Len(s) \in Nat /\ s \in [1..Len(s) -> S]
    BY Zenon, LenProperties
  <1>2. s \in [1..Len(s) -> Elements(s)]
    BY Zenon, <1>1 DEF Elements
  <1> QED
    BY <1>1, <1>2

\* The argument comes last, and nothing before it has its type.
LEMMA ArgumentShape ==
  ASSUME NEW ask, ask.method \in Methods
  PROVE  LET args == ArgumentAttrs(ask)
             k    == Len(args)
         IN  /\ args \in Seq(Elements(args)) /\ k \in {1, 2}
             /\ \A i \in 1..k : args[i].fits /\ args[i].type \in ArgumentTypes
             /\ args[k].sized /\ args[k].value = ask.arg
             /\ args[k].type = ArgumentType(ask.method)
             /\ \A i \in 1..k : args[i].type = ArgumentType(ask.method) => i = k
  <1> DEFINE args == ArgumentAttrs(ask)
             type == ArgumentType(ask.method)
  <1>1. ASSUME NEW t \in ArgumentTypes, args = <<Attr(t, ask.arg)>>, type = t
        PROVE  /\ args \in Seq(Elements(args)) /\ Len(args) = 1
               /\ args[1].fits /\ args[1].sized
               /\ args[1].type = type /\ args[1].value = ask.arg
    <2> DEFINE a == Attr(t, ask.arg)
    <2>1. a.fits /\ a.sized /\ a.type = t /\ a.value = ask.arg
      BY DEF Attr
    <2> HIDE DEF a
    <2>2. <<a>> \in Seq({a}) /\ Len(<<a>>) = 1 /\ <<a>>[1] = a
      OBVIOUS
    <2> QED
      BY Zenon, <1>1, <2>1, <2>2, ElementsSeq DEF a
  <1>2. CASE ask.method # "bind"
    <2>1. \/ args = <<Attr("REQUESTED-TRANSPORT", ask.arg)>> /\ type = "REQUESTED-TRANSPORT"
          \/ args = <<Attr("LIFETIME", ask.arg)>> /\ type = "LIFETIME"
          \/ args = <<Attr("XOR-PEER-ADDRESS", ask.arg)>> /\ type = "XOR-PEER-ADDRESS"
      BY <1>2 DEF Methods, ArgumentAttrs, ArgumentType
    <2>2. /\ args \in Seq(Elements(args)) /\ Len(args) = 1
          /\ args[1].fits /\ args[1].sized
          /\ args[1].type = type /\ args[1].value = ask.arg /\ type \in ArgumentTypes
      BY <1>1, <2>1 DEF ArgumentTypes
    <2> HIDE DEF args, type
    <2> QED
      BY <2>2 DEF args, type
  <1>3. CASE ask.method = "bind"
    <2>1. /\ args = <<Attr("CHANNEL-NUMBER", 1), Attr("XOR-PEER-ADDRESS", ask.arg)>>
          /\ type = "XOR-PEER-ADDRESS"
      BY <1>3 DEF ArgumentAttrs, ArgumentType
    <2>2. /\ args \in Seq(Elements(args)) /\ Len(args) = 2
          /\ args[1].fits /\ args[1].type = "CHANNEL-NUMBER"
          /\ args[2].fits /\ args[2].sized
          /\ args[2].type = type /\ args[2].value = ask.arg
      <3> DEFINE a == Attr("CHANNEL-NUMBER", 1)
                 b == Attr("XOR-PEER-ADDRESS", ask.arg)
      <3>1. /\ a.fits /\ a.type = "CHANNEL-NUMBER"
            /\ b.fits /\ b.sized /\ b.type = "XOR-PEER-ADDRESS" /\ b.value = ask.arg
        BY DEF Attr
      <3> HIDE DEF a, b
      <3>2. <<a, b>> \in Seq({a, b}) /\ Len(<<a, b>>) = 2 /\ <<a, b>>[1] = a /\ <<a, b>>[2] = b
        OBVIOUS
      <3> QED
        BY Zenon, <2>1, <3>1, <3>2, ElementsSeq DEF a, b
    <2>3. \A i \in 1..2 : i = 1 \/ i = 2
      OBVIOUS
    <2> HIDE DEF args, type
    <2> QED
      BY <2>1, <2>2, <2>3 DEF ArgumentTypes, args, type
  <1> QED
    BY <1>2, <1>3

SignedPart(ask, n) ==
  ArgumentAttrs(ask) \o <<Attr("USERNAME", ask.user), Attr("REALM", Realm), Attr("NONCE", n)>>

LEMMA SignedShape ==
  ASSUME NEW ask, ask.method \in Methods, NEW n
  PROVE  LET signed == SignedPart(ask, n)
             args   == ArgumentAttrs(ask)
             k      == Len(args)
         IN  /\ signed \in Seq(Elements(signed)) /\ Len(signed) = k + 3
             /\ \A i \in 1..k : signed[i] = args[i]
             /\ signed[k + 1] = Attr("USERNAME", ask.user)
             /\ signed[k + 2] = Attr("REALM", Realm)
             /\ signed[k + 3] = Attr("NONCE", n)
  <1> DEFINE args == ArgumentAttrs(ask)
             k == Len(args)
             a == Attr("USERNAME", ask.user)
             b == Attr("REALM", Realm)
             c == Attr("NONCE", n)
             S == Elements(args) \cup {a, b, c}
             signed == SignedPart(ask, n)
  <1>1. args \in Seq(Elements(args)) /\ k \in {1, 2}
    BY ArgumentShape
  <1> HIDE DEF a, b, c, args
  <1>2. args \in Seq(S)
    BY Zenon, <1>1, SeqMonotonic
  <1>3. /\ <<a, b, c>> \in Seq({a, b, c}) /\ Len(<<a, b, c>>) = 3
        /\ <<a, b, c>>[1] = a /\ <<a, b, c>>[2] = b /\ <<a, b, c>>[3] = c
    OBVIOUS
  <1> DEFINE creds == <<a, b, c>>
  <1>4. creds \in Seq(S) /\ Len(creds) = 3 /\ creds[1] = a /\ creds[2] = b /\ creds[3] = c
    BY Zenon, <1>3, SeqMonotonic
  <1>5. signed = args \o creds
    BY Zenon DEF SignedPart, args, a, b, c
  <1> HIDE DEF creds, signed, S
  <1>6. /\ signed \in Seq(S) /\ Len(signed) = k + Len(creds)
        /\ \A i \in 1..(k + Len(creds)) :
             signed[i] = IF i <= k THEN args[i] ELSE creds[i - k]
    BY Zenon, <1>2, <1>4, <1>5, ConcatProperties
  <1>7. signed \in Seq(Elements(signed))
    BY Zenon, <1>6, ElementsSeq
  <1>8. k \in Nat
    BY <1>1
  <1> HIDE DEF k
  <1>9. \A i \in 1..k : signed[i] = args[i]
    BY <1>4, <1>6, <1>8
  <1>10. signed[k + 1] = creds[1] /\ signed[k + 2] = creds[2] /\ signed[k + 3] = creds[3]
    BY <1>4, <1>6, <1>8
  <1> QED
    BY Zenon, <1>4, <1>6, <1>7, <1>9, <1>10 DEF signed, args, k, a, b, c

\* What the parser makes of a signed request: the user, the nonce and the
\* argument that were signed, whatever follows MESSAGE-INTEGRITY.
LEMMA SignedInfo ==
  ASSUME NEW ask \in Asks, NEW t, NEW n, NEW trailer \in Trailers
  PROVE  LET info == StunInfo(Sign(ask, t, n, trailer))
         IN  /\ info.username = ask.user /\ info.nonce = n
             /\ ask.method = "refresh" => info.lifetime = ask.arg
             /\ ask.method \in {"permission", "bind"} =>
                  info.peers = {ask.arg} /\ info.first = ask.arg
  <1> DEFINE args   == ArgumentAttrs(ask)
             k      == Len(args)
             type   == ArgumentType(ask.method)
             signed == SignedPart(ask, n)
             mac    == ComputeMessageIntegrity(ask.method, t, signed,
                                               ComputeKey(ask.user, Passwords[ask.user]))
             mi     == Attr("MESSAGE-INTEGRITY", mac)
             attrs  == Message(signed, mi, trailer)
             S      == Elements(signed) \cup {mi} \cup {trailer[i] : i \in DOMAIN trailer}
  <1>1. Sign(ask, t, n, trailer) = attrs
    BY Zenon DEF Sign, SignedPart, Message
  <1>2. ask.method \in Methods /\ trailer \in Seq({trailer[i] : i \in DOMAIN trailer})
    BY Zenon, RequestsAssumption
  <1>3. /\ k \in {1, 2}
        /\ \A i \in 1..k : args[i].fits /\ args[i].type \in ArgumentTypes
        /\ args[k].sized /\ args[k].value = ask.arg /\ args[k].type = type
        /\ \A i \in 1..k : args[i].type = type => i = k
    BY <1>2, ArgumentShape
  <1>4. /\ signed \in Seq(Elements(signed)) /\ Len(signed) = k + 3
        /\ \A i \in 1..k : signed[i] = args[i]
        /\ signed[k + 1] = Attr("USERNAME", ask.user)
        /\ signed[k + 2] = Attr("REALM", Realm)
        /\ signed[k + 3] = Attr("NONCE", n)
    BY <1>2, SignedShape
  <1> HIDE DEF args, signed, mac
  <1>5. /\ mi.fits /\ mi.sized /\ mi.type = "MESSAGE-INTEGRITY"
        /\ signed[k + 1].fits /\ signed[k + 1].sized /\ signed[k + 1].type = "USERNAME"
        /\ signed[k + 1].value = ask.user
        /\ signed[k + 2].fits /\ signed[k + 2].type = "REALM"
        /\ signed[k + 3].fits /\ signed[k + 3].sized /\ signed[k + 3].type = "NONCE"
        /\ signed[k + 3].value = n
    BY <1>4 DEF Attr
  <1>6. signed \in Seq(S) /\ mi \in S /\ trailer \in Seq(S)
    BY Zenon, <1>2, <1>4, SeqMonotonic
  <1> HIDE DEF S, mi
  <1> HIDE DEF k
  <1>7. k \in Nat /\ k >= 1 /\ k + 3 \in Nat /\ k + 4 \in Nat
    <2>1. k \in {1, 2}
      BY Zenon, <1>3
    <2> QED
      BY <2>1
  <1>8. \A i \in 1..(k + 3) : i \in 1..k \/ i = k + 1 \/ i = k + 2 \/ i = k + 3
    BY <1>7
  <1>9. ArgumentTypes \cap {"USERNAME", "REALM", "NONCE", "MESSAGE-INTEGRITY"} = {}
    BY DEF ArgumentTypes
  <1>10. Signable(signed) /\ Integrity(mi)
    <2>1. ASSUME NEW i \in 1..(k + 3)
          PROVE  signed[i].fits /\ signed[i].type # "MESSAGE-INTEGRITY"
      <3>1. CASE i \in 1..k
        BY Zenon, <1>3, <1>4, <1>9, <3>1
      <3>2. CASE i \notin 1..k
        BY <1>5, <1>8, <3>2
      <3> QED
        BY <3>1, <3>2
    <2> QED
      BY Zenon, <1>4, <1>5, <2>1 DEF Signable, Integrity
  <1>11. Len(Seen(attrs)) = Len(signed) + 1
    BY <1>6, <1>10, ParseSigned
  <1>12. /\ \A i \in 1..Len(signed) : attrs[i] = signed[i]
         /\ attrs[Len(signed) + 1] = mi
    BY <1>6, MessageParts
  <1> HIDE DEF attrs
  <1>13. Len(Seen(attrs)) = k + 4
    BY <1>4, <1>7, <1>11
  <1>14. (\A i \in 1..(k + 3) : attrs[i] = signed[i]) /\ attrs[k + 4] = mi
    BY <1>4, <1>7, <1>12
  <1>15. \A i \in 1..(k + 4) : i \in 1..k \/ i = k + 1 \/ i = k + 2 \/ i = k + 3 \/ i = k + 4
    BY <1>7
  <1> DEFINE m == k + 4
  <1>16. /\ \A i \in 1..k : i \in 1..(k + 3) /\ i \in 1..(k + 4)
         /\ k \in 1..k /\ k + 1 \in 1..(k + 3) /\ k + 2 \in 1..(k + 3) /\ k + 3 \in 1..(k + 3)
         /\ k + 1 \in 1..(k + 4) /\ k + 3 \in 1..(k + 4)
    BY <1>7
  <1>17. /\ \A i \in 1..k : attrs[i] = args[i]
         /\ attrs[k + 1] = signed[k + 1] /\ attrs[k + 2] = signed[k + 2]
         /\ attrs[k + 3] = signed[k + 3]
    BY Zenon, <1>4, <1>14, <1>16
  <1>18. /\ \A i \in 1..k : attrs[i].type \in ArgumentTypes
         /\ attrs[k + 1].type = "USERNAME" /\ attrs[k + 2].type = "REALM"
         /\ attrs[k + 3].type = "NONCE" /\ attrs[k + 4].type = "MESSAGE-INTEGRITY"
    BY Zenon, <1>3, <1>5, <1>14, <1>17
  <1>once. ASSUME NEW u, NEW p \in 1..m, attrs[p].type = u, attrs[p].sized,
               \A i \in 1..m : attrs[i].type = u => i = p
        PROVE  /\ Value(attrs, u) = attrs[p].value
               /\ u = "XOR-PEER-ADDRESS" =>
                    /\ XorPeerAddresses(attrs) = {attrs[p].value}
                    /\ FirstPeer(attrs) = attrs[p].value
    <2>1. m \in Nat /\ Len(Seen(attrs)) = m
      BY <1>7, <1>13
    <2> HIDE DEF m
    <2> QED
      BY <1>once, <2>1, ValueIs
  <1>19. Value(attrs, "USERNAME") = ask.user
    <2>1. \A i \in 1..(k + 4) : attrs[i].type = "USERNAME" => i = k + 1
      BY <1>9, <1>15, <1>18
    <2>2. attrs[k + 1].sized /\ attrs[k + 1].value = ask.user
      BY Zenon, <1>5, <1>17
    <2> QED
      BY Zenon, <1>once, <1>16, <1>18, <2>1, <2>2
  <1>20. Value(attrs, "NONCE") = n
    <2>1. \A i \in 1..(k + 4) : attrs[i].type = "NONCE" => i = k + 3
      BY <1>9, <1>15, <1>18
    <2>2. attrs[k + 3].sized /\ attrs[k + 3].value = n
      BY Zenon, <1>5, <1>17
    <2> QED
      BY Zenon, <1>once, <1>16, <1>18, <2>1, <2>2
  <1>21. /\ Value(attrs, type) = ask.arg
         /\ type = "XOR-PEER-ADDRESS" =>
              XorPeerAddresses(attrs) = {ask.arg} /\ FirstPeer(attrs) = ask.arg
    <2>1. type \in ArgumentTypes
      BY Zenon, <1>3, <1>16
    <2> HIDE DEF type
    <2>2. attrs[k].sized /\ attrs[k].value = ask.arg /\ attrs[k].type = type
      BY Zenon, <1>3, <1>16, <1>17
    <2>3. ASSUME NEW i \in 1..(k + 4), attrs[i].type = type PROVE i = k
      <3>1. CASE i \in 1..k
        BY Zenon, <1>3, <1>17, <2>3, <3>1
      <3>2. CASE i \notin 1..k
        BY <1>9, <1>15, <1>18, <2>1, <2>3, <3>2
      <3> QED
        BY <3>1, <3>2
    <2>4. k \in 1..(k + 4)
      BY Zenon, <1>16
    <2> QED
      <3>1. attrs[k].type = type /\ attrs[k].sized /\ k \in 1..m
        BY Zenon, <2>2, <2>4
      <3>2. \A i \in 1..m : attrs[i].type = type => i = k
        BY Zenon, <2>3
      <3>3. /\ Value(attrs, type) = attrs[k].value
            /\ type = "XOR-PEER-ADDRESS" =>
                 /\ XorPeerAddresses(attrs) = {attrs[k].value}
                 /\ FirstPeer(attrs) = attrs[k].value
        BY SMT, <1>once, <3>1, <3>2
      <3> QED
        BY <2>2, <3>3
  <1>22. /\ ask.method = "refresh" => type = "LIFETIME"
         /\ ask.method \in {"permission", "bind"} => type = "XOR-PEER-ADDRESS"
    BY DEF ArgumentType
  <1> HIDE DEF type
  <1>23. LET info == StunInfo(attrs)
         IN  /\ info.username = Value(attrs, "USERNAME") /\ info.nonce = Value(attrs, "NONCE")
             /\ info.lifetime = Value(attrs, "LIFETIME")
             /\ info.peers = XorPeerAddresses(attrs) /\ info.first = FirstPeer(attrs)
    BY DEF StunInfo
  <1> QED
    BY Zenon, <1>1, <1>19, <1>20, <1>21, <1>22, <1>23

\* A first request carries no MESSAGE-INTEGRITY.
LEMMA UnsignedInfo ==
  ASSUME NEW ask \in Asks
  PROVE  StunInfo(ArgumentAttrs(ask)).integrity = Nil
  <1> DEFINE args == ArgumentAttrs(ask)
             k == Len(args)
  <1>1. ask.method \in Methods
    BY Zenon, RequestsAssumption
  <1>2. /\ k \in {1, 2}
        /\ \A i \in 1..k : args[i].fits /\ args[i].type \in ArgumentTypes
    BY <1>1, ArgumentShape
  <1> HIDE DEF args
  <1>3. \A i \in 1..k : args[i].type # "MESSAGE-INTEGRITY"
    BY <1>2 DEF ArgumentTypes
  <1>4. Fitting(args) = args
    BY Zenon, <1>2 DEF Fitting
  <1>5. IntegrityAt(args) = {}
    BY Zenon, <1>3, <1>4 DEF IntegrityAt
  <1>6. Len(Seen(args)) = k /\ k \in Nat
    BY <1>2, <1>4, <1>5 DEF Seen
  <1>7. Value(args, "MESSAGE-INTEGRITY") = Nil
    BY Zenon, <1>3, <1>6, ValueNone
  <1> QED
    BY <1>7 DEF StunInfo, args

----------------------------------------------------------------------------
(* The invariant *)

\* A request some client made.
Sent(m) ==
  \E ask \in Asks, t \in Txns, n \in Nonces \cup {Nil}, trailer \in Trailers :
    m = Request(ask, t, n, trailer)

Allocations ==
  [owner : Users, txn : Txns, left : Int, over : Nat,
   permissions : SUBSET {ask.arg : ask \in Asks}]

\* The types: what is in flight was sent by the client, and an allocation
\* belongs to a user.
TypeInv ==
  /\ now \in Nat /\ secret \in Nat
  /\ nonce \in Nonces \cup {Nil}
  /\ answer \in Answers \cup {Nil}
  /\ req = Nil => answer = Nil
  /\ req # Nil => Sent(req)
  /\ late # Nil => Sent(late)
  /\ alloc # Nil => alloc \in Allocations

\* An allocation at wall clock time t.  The time it has left and the time its
\* owner has been out are spent together: no Refresh of an owner that has run
\* out passes.
Sound(a, t) ==
  a # Nil =>
    /\ a \in Allocations
    /\ a.left >= 0 => a.left + a.over <= Lifetime
    /\ ~RunOut(a.owner, t) => a.over = 0

RequestsInv == TypeInv /\ Sound(alloc, now)

----------------------------------------------------------------------------
(* Authentication *)

\* What the handlers read in a request is what its sender asked for.
LEMMA SentFacts ==
  ASSUME NEW m, Sent(m)
  PROVE  /\ m.ask \in Asks /\ m.method = m.ask.method /\ m.method \in Methods
         /\ m.txn \in Txns
         /\ Signed(m) =>
              /\ m.info.username = m.ask.user /\ m.info.nonce \in Nonces
              /\ m.method = "refresh" => m.info.lifetime = m.ask.arg
              /\ m.method \in {"permission", "bind"} =>
                   m.info.peers = {m.ask.arg} /\ m.info.first = m.ask.arg
  <1>1. PICK ask \in Asks, t \in Txns, n \in Nonces \cup {Nil}, trailer \in Trailers :
          m = Request(ask, t, n, trailer)
    BY Zenon DEF Sent
  <1>2. /\ m.ask = ask /\ m.method = ask.method /\ m.txn = t
        /\ m.info = StunInfo(IF n = Nil THEN ArgumentAttrs(ask) ELSE Sign(ask, t, n, trailer))
    BY <1>1 DEF Request
  <1>3. ask.method \in Methods
    BY Zenon, RequestsAssumption
  <1>4. CASE n = Nil
    <2>1. m.info.integrity = Nil
      BY Zenon, <1>2, <1>4, UnsignedInfo
    <2> QED
      BY Zenon, <1>2, <1>3, <2>1 DEF Signed
  <1>5. CASE n # Nil
    <2>1. m.info = StunInfo(Sign(ask, t, n, trailer)) /\ n \in Nonces
      BY Zenon, <1>2, <1>5
    <2>2. /\ m.info.username = ask.user /\ m.info.nonce = n
          /\ ask.method = "refresh" => m.info.lifetime = ask.arg
          /\ ask.method \in {"permission", "bind"} =>
               m.info.peers = {ask.arg} /\ m.info.first = ask.arg
      BY <2>1, SignedInfo
    <2> QED
      BY Zenon, <1>2, <1>3, <2>1, <2>2
  <1> QED
    BY Zenon, <1>4, <1>5

\* Every answer is an answer.
LEMMA Built ==
  ASSUME TypeInv, NEW m, m.txn \in Txns, NEW key
  PROVE  /\ BuildUnauthorized(m) \in Answers /\ BuildUnauthorized(m).code = 401
         /\ BuildStaleNonce(m) \in Answers /\ BuildStaleNonce(m).code = 438
         /\ BuildSuccess(m, key) \in Answers /\ BuildSuccess(m, key).code = Success
         /\ \A code \in Nat : BuildSignedError(m, code, key) \in Answers
         /\ \A code \in Nat : BuildError(m, code) \in Answers
         /\ Nil \notin Answers
  <1>1. GenerateNonce \in Nonces
    BY DEF TypeInv, GenerateNonce, Nonces
  <1>2. ASSUME NEW code \in Nat, NEW k, NEW n \in Nonces \cup {Nil}
        PROVE  Response(m, code, k, n) \in Answers /\ Response(m, code, k, n).code = code
    BY DEF Response, Answers
  <1>3. Nil \notin Answers
    BY Zenon, RequestsAssumption
  <1>4. 401 \in Nat /\ 438 \in Nat /\ Success \in Nat
    BY DEF Success
  <1> QED
    BY <1>1, <1>2, <1>3, <1>4
    DEF BuildUnauthorized, BuildStaleNonce, BuildSuccess, BuildSignedError, BuildError

\* A request passes with a nonce of now and a username that has not run out;
\* what does not pass is challenged.
LEMMA VerifyFacts ==
  ASSUME AuthEnabled, TypeInv, NEW m, Sent(m)
  PROVE  /\ Verify(m) # Nil => Verify(m) \in Answers /\ Verify(m).code \in {401, 438}
         /\ Verify(m) = Nil =>
              /\ Signed(m) /\ ValidateNonce(m.info.nonce)
              /\ CandidatePasswords(m.info.username) # {}
  <1> DEFINE u == m.info.username
             n == m.info.nonce
  <1>1. Verify(m) = VerifyLongTermCredentials(m)
    BY Zenon DEF Verify
  <1>2. /\ BuildUnauthorized(m) \in Answers /\ BuildUnauthorized(m).code = 401
        /\ BuildStaleNonce(m) \in Answers /\ BuildStaleNonce(m).code = 438
        /\ Nil \notin Answers
    <2>1. m.txn \in Txns
      BY Zenon, SentFacts
    <2> QED
      BY <2>1, Built
  <1>3. CASE m.info.integrity = Nil
    BY <1>1, <1>2, <1>3 DEF VerifyLongTermCredentials
  <1>4. CASE m.info.integrity # Nil
    <2>1. Signed(m)
      BY Zenon, <1>4 DEF Signed
    <2>2. u = m.ask.user /\ n \in Nonces /\ m.ask \in Asks
      BY Zenon, <2>1, SentFacts
    <2>3. u # Nil
      BY Zenon, <2>2, RequestsAssumption
    <2>4. n # Nil
      BY Zenon, <2>2, RequestsAssumption
    <2>5. VerifyLongTermCredentials(m) =
            IF ~ValidateNonce(n) THEN BuildStaleNonce(m)
            ELSE IF m.info.realm # Realm THEN BuildUnauthorized(m)
            ELSE IF CandidatePasswords(u) = {} \/ KeyOf(m) = Nil THEN BuildUnauthorized(m)
            ELSE Nil
      BY Zenon, <1>4, <2>3, <2>4 DEF VerifyLongTermCredentials
    <2> HIDE DEF u, n
    <2> QED
      BY <1>1, <1>2, <2>1, <2>5 DEF u, n
  <1> QED
    BY Zenon, <1>3, <1>4

----------------------------------------------------------------------------
(* The handlers *)

\* What request m may make of the allocation.
Permitted(m, a) ==
  \/ a = alloc
  \/ /\ Verify(m) = Nil
     /\ \/ /\ m.method = "allocate" /\ ~Live
           /\ a \in {Nil, NewAllocation(m)}
        \/ /\ m.method # "allocate" /\ alloc # Nil /\ alloc.owner = m.ask.user
           /\ \/ m.method = "refresh" /\ m.ask.arg = 0 /\ a = Nil
              \/ /\ m.method = "refresh" /\ m.ask.arg # 0
                 /\ a = [alloc EXCEPT !.left = Granted(m.ask.arg)]
              \/ /\ m.method \in {"permission", "bind"}
                 /\ a = [alloc EXCEPT !.permissions = @ \cup {m.ask.arg}]

\* The lifetime is within its bounds.
LEMMA GrantedIn ==
  ASSUME NEW asked \in Nat
  PROVE  /\ Granted(asked) \in 0..Lifetime
         /\ Max({MinLifetime, Min({Lifetime, asked})}) = Granted(asked)
  <1>1. Lifetime \in Nat /\ MinLifetime \in 0..Lifetime
    BY Zenon, RequestsAssumption
  <1> DEFINE low == Min({Lifetime, asked})
  <1>2. low = IF Lifetime <= asked THEN Lifetime ELSE asked
    BY <1>1, MinMaxPair
  <1> HIDE DEF low
  <1>3. low \in 0..Lifetime
    BY <1>1, <1>2
  <1>4. Max({MinLifetime, low}) = IF MinLifetime >= low THEN MinLifetime ELSE low
    <2>1. MinLifetime \in Int /\ low \in Int
      BY SMTT(20), <1>1, <1>3
    <2> QED
      BY Zenon, <2>1, MinMaxPair
  <1>5. Max({MinLifetime, low}) = Granted(asked)
    BY <1>1, <1>2, <1>4 DEF Granted
  <1>6. Granted(asked) \in 0..Lifetime
    BY <1>1 DEF Granted
  <1> QED
    BY Zenon, <1>5, <1>6 DEF low

\* An Allocate over its own live allocation is answered with success or a
\* challenge.
AllocateAnswer(m, r) ==
  m.method = "allocate" /\ Live /\ alloc.txn = m.txn => r.code \in {Success, 401, 438}

LEMMA AllocateStep ==
  ASSUME AuthEnabled, TypeInv, NEW m, Sent(m), m.method = "allocate",
         NEW o \in HandleAllocate(m)
  PROVE  o.answer \in Answers /\ Permitted(m, o.alloc) /\ AllocateAnswer(m, o.answer)
  <1> DEFINE key == KeyOf(m)
  <1>1. /\ BuildSuccess(m, key) \in Answers /\ BuildSuccess(m, key).code = Success
        /\ \A code \in Nat : BuildSignedError(m, code, key) \in Answers
    <2>1. m.txn \in Txns
      BY Zenon, SentFacts
    <2> QED
      BY <2>1, Built
  <1>2. ASSUME NEW r, NEW a PROVE Outcome(r, a).answer = r /\ Outcome(r, a).alloc = a
    BY DEF Outcome
  <1>3. CASE Verify(m) # Nil
    <2>1. o = Outcome(Verify(m), alloc)
      BY Zenon, <1>3 DEF HandleAllocate
    <2>2. Verify(m) \in Answers /\ Verify(m).code \in {401, 438}
      BY <1>3, VerifyFacts
    <2> QED
      BY <1>2, <2>1, <2>2 DEF Permitted, AllocateAnswer
  <1>4. CASE Verify(m) = Nil /\ Live
    <2>1. \/ alloc.txn = m.txn /\ o = Outcome(BuildSuccess(m, key), alloc)
          \/ alloc.txn # m.txn /\ o = Outcome(BuildSignedError(m, 437, key), alloc)
      BY <1>4 DEF HandleAllocate
    <2> HIDE DEF key
    <2> QED
      BY <1>1, <1>2, <2>1 DEF Permitted, AllocateAnswer
  <1>5. CASE Verify(m) = Nil /\ ~Live
    <2>1. \/ \E code \in {442, 486, 508} : o = Outcome(BuildSignedError(m, code, key), Nil)
          \/ o = Outcome(BuildSuccess(m, key), NewAllocation(m))
      BY <1>5 DEF HandleAllocate
    <2> HIDE DEF key
    <2>2. o.answer \in Answers /\ o.alloc \in {Nil, NewAllocation(m)}
      BY <1>1, <1>2, <2>1
    <2> QED
      BY Zenon, <1>5, <2>2 DEF Permitted, AllocateAnswer
  <1> QED
    BY Zenon, <1>3, <1>4, <1>5

\* Past authenticate_for_allocation the allocation is there and the user's.
LEMMA AuthenticateFacts ==
  ASSUME AuthEnabled, TypeInv, NEW m, Sent(m)
  PROVE  /\ AuthenticateForAllocation(m) # Nil => AuthenticateForAllocation(m) \in Answers
         /\ AuthenticateForAllocation(m) = Nil =>
              Verify(m) = Nil /\ Signed(m) /\ alloc # Nil /\ alloc.owner = m.ask.user
  <1>1. /\ BuildUnauthorized(m) \in Answers
        /\ BuildSignedError(m, 437, KeyOf(m)) \in Answers
        /\ Nil \notin Answers
    <2>1. m.txn \in Txns
      BY Zenon, SentFacts
    <2> QED
      BY <2>1, Built
  <1>2. CASE Verify(m) # Nil
    <2>1. Verify(m) \in Answers
      BY Zenon, <1>2, VerifyFacts
    <2> QED
      BY Zenon, <1>2, <2>1 DEF AuthenticateForAllocation
  <1>3. CASE Verify(m) = Nil
    <2>1. Signed(m) /\ m.info.username = m.ask.user
      BY <1>3, VerifyFacts, SentFacts
    <2> QED
      BY <1>1, <1>3, <2>1 DEF AuthenticateForAllocation
  <1> QED
    BY Zenon, <1>2, <1>3

LEMMA RefreshStep ==
  ASSUME AuthEnabled, TypeInv, NEW m, Sent(m), m.method = "refresh",
         NEW o \in HandleRefresh(m)
  PROVE  o.answer \in Answers /\ Permitted(m, o.alloc)
  <1> DEFINE key == KeyOf(m)
             error == AuthenticateForAllocation(m)
             asked == m.info.lifetime
             lifetime == IF asked = Nil THEN Lifetime ELSE Max({MinLifetime, Min({Lifetime, asked})})
  <1>1. BuildSuccess(m, key) \in Answers
    <2>1. m.txn \in Txns
      BY Zenon, SentFacts
    <2> QED
      BY <2>1, Built
  <1>2. ASSUME NEW r, NEW a PROVE Outcome(r, a).answer = r /\ Outcome(r, a).alloc = a
    BY DEF Outcome
  <1>3. CASE error # Nil
    <2>1. o = Outcome(error, alloc)
      BY Zenon, <1>3 DEF HandleRefresh
    <2>2. error \in Answers
      BY Zenon, <1>3, AuthenticateFacts
    <2> HIDE DEF error
    <2> QED
      BY Zenon, <1>2, <2>1, <2>2 DEF Permitted
  <1>4. CASE error = Nil
    <2>1. Verify(m) = Nil /\ Signed(m) /\ alloc # Nil /\ alloc.owner = m.ask.user
      BY Zenon, <1>4, AuthenticateFacts
    <2>2. asked = m.ask.arg
      BY Zenon, <2>1, SentFacts
    <2>3. asked \in Nat
      <3>1. m.ask \in Asks /\ m.ask.method = "refresh"
        BY Zenon, SentFacts
      <3> QED
        BY Zenon, <2>2, <3>1, RequestsAssumption
    <2>4. lifetime = Granted(m.ask.arg)
      <3>1. asked # Nil
        BY Zenon, <2>3, RequestsAssumption
      <3> QED
        BY Zenon, <2>2, <2>3, <3>1, GrantedIn
    <2>5. o = Outcome(BuildSuccess(m, key),
                      IF asked = 0 THEN Nil ELSE [alloc EXCEPT !.left = lifetime])
      BY Zenon, <1>4 DEF HandleRefresh
    <2> HIDE DEF key, asked, lifetime
    <2>6. /\ o.answer \in Answers
          /\ \/ asked = 0 /\ o.alloc = Nil
             \/ asked # 0 /\ o.alloc = [alloc EXCEPT !.left = lifetime]
      BY <1>1, <1>2, <2>5
    <2> QED
      BY ZenonT(30), <2>1, <2>2, <2>4, <2>6 DEF Permitted
  <1> QED
    BY Zenon, <1>3, <1>4

LEMMA CreatePermissionStep ==
  ASSUME AuthEnabled, TypeInv, NEW m, Sent(m), m.method = "permission",
         NEW o \in HandleCreatePermission(m)
  PROVE  o.answer \in Answers /\ Permitted(m, o.alloc)
  <1> DEFINE key == KeyOf(m)
             error == AuthenticateForAllocation(m)
             peers == m.info.peers
  <1>1. /\ BuildSuccess(m, key) \in Answers
        /\ \A code \in Nat : BuildSignedError(m, code, key) \in Answers
        /\ BuildError(m, 400) \in Answers
    <2>1. m.txn \in Txns
      BY Zenon, SentFacts
    <2> QED
      BY <2>1, Built
  <1>2. ASSUME NEW r, NEW a PROVE Outcome(r, a).answer = r /\ Outcome(r, a).alloc = a
    BY DEF Outcome
  <1>3. error # Nil => error \in Answers
    BY Zenon, AuthenticateFacts
  <1>4. \/ o \in {Outcome(BuildError(m, 400), alloc), Outcome(BuildSignedError(m, 403, key), alloc)}
        \/ error # Nil /\ o = Outcome(error, alloc)
        \/ /\ error = Nil
           /\ \/ o = Outcome(BuildSignedError(m, 508, key), alloc)
              \/ o = Outcome(BuildSuccess(m, key), [alloc EXCEPT !.permissions = @ \cup peers])
    BY DEF HandleCreatePermission
  <1>5. error = Nil =>
          /\ Verify(m) = Nil /\ alloc # Nil /\ alloc.owner = m.ask.user
          /\ peers = {m.ask.arg}
    <2>1. error = Nil => Verify(m) = Nil /\ Signed(m) /\ alloc # Nil /\ alloc.owner = m.ask.user
      BY Zenon, AuthenticateFacts
    <2>2. Signed(m) => peers = {m.ask.arg}
      BY Zenon, SentFacts
    <2> QED
      BY Zenon, <2>1, <2>2
  <1> HIDE DEF key, error, peers
  <1>6. /\ o.answer \in Answers
        /\ \/ o.alloc = alloc
           \/ /\ error = Nil
              /\ o.alloc = [alloc EXCEPT !.permissions = @ \cup peers]
    BY <1>1, <1>2, <1>3, <1>4
  <1> QED
    BY Zenon, <1>5, <1>6 DEF Permitted

LEMMA ChannelBindStep ==
  ASSUME AuthEnabled, TypeInv, NEW m, Sent(m), m.method = "bind",
         NEW o \in HandleChannelBind(m)
  PROVE  o.answer \in Answers /\ Permitted(m, o.alloc)
  <1> DEFINE key == KeyOf(m)
             error == AuthenticateForAllocation(m)
             peer == m.info.first
  <1>1. /\ BuildSuccess(m, key) \in Answers
        /\ \A code \in Nat : BuildSignedError(m, code, key) \in Answers
        /\ BuildError(m, 400) \in Answers
    <2>1. m.txn \in Txns
      BY Zenon, SentFacts
    <2> QED
      BY <2>1, Built
  <1>2. ASSUME NEW r, NEW a PROVE Outcome(r, a).answer = r /\ Outcome(r, a).alloc = a
    BY DEF Outcome
  <1>3. error # Nil => error \in Answers
    BY Zenon, AuthenticateFacts
  <1>4. \/ o \in {Outcome(BuildError(m, 400), alloc), Outcome(BuildSignedError(m, 403, key), alloc)}
        \/ error # Nil /\ o = Outcome(error, alloc)
        \/ /\ error = Nil
           /\ \/ o \in {Outcome(BuildSignedError(m, code, key), alloc) : code \in {400, 508}}
              \/ o = Outcome(BuildSuccess(m, key), [alloc EXCEPT !.permissions = @ \cup {peer}])
    BY DEF HandleChannelBind
  <1>5. error = Nil =>
          /\ Verify(m) = Nil /\ alloc # Nil /\ alloc.owner = m.ask.user
          /\ peer = m.ask.arg
    <2>1. error = Nil => Verify(m) = Nil /\ Signed(m) /\ alloc # Nil /\ alloc.owner = m.ask.user
      BY Zenon, AuthenticateFacts
    <2>2. Signed(m) => peer = m.ask.arg
      BY Zenon, SentFacts
    <2> QED
      BY Zenon, <2>1, <2>2
  <1> HIDE DEF key, error, peer
  <1>6. /\ o.answer \in Answers
        /\ \/ o.alloc = alloc
           \/ /\ error = Nil
              /\ o.alloc = [alloc EXCEPT !.permissions = @ \cup {peer}]
    BY <1>1, <1>2, <1>3, <1>4
  <1> QED
    BY Zenon, <1>5, <1>6 DEF Permitted

\* A handler does what is permitted, and always answers.
LEMMA HandleStep ==
  ASSUME AuthEnabled, TypeInv, NEW m, Sent(m), NEW o \in Handle(m)
  PROVE  o.answer \in Answers /\ Permitted(m, o.alloc) /\ AllocateAnswer(m, o.answer)
  <1>1. m.method \in Methods
    BY Zenon, SentFacts
  <1>2. CASE m.method = "allocate"
    <2>1. o \in HandleAllocate(m)
      BY <1>2 DEF Handle
    <2> QED
      BY Zenon, <1>2, <2>1, AllocateStep
  <1>3. CASE m.method = "refresh"
    <2>1. o \in HandleRefresh(m)
      BY <1>3 DEF Handle
    <2> QED
      BY <1>3, <2>1, RefreshStep DEF AllocateAnswer
  <1>4. CASE m.method = "permission"
    <2>1. o \in HandleCreatePermission(m)
      BY <1>4 DEF Handle
    <2> QED
      BY <1>4, <2>1, CreatePermissionStep DEF AllocateAnswer
  <1>5. CASE m.method = "bind"
    <2>1. o \in HandleChannelBind(m)
      BY <1>5 DEF Handle
    <2> QED
      BY <1>5, <2>1, ChannelBindStep DEF AllocateAnswer
  <1> QED
    BY Zenon, <1>1, <1>2, <1>3, <1>4, <1>5 DEF Methods

----------------------------------------------------------------------------
(* The invariant holds *)

\* A username that has run out authenticates nothing.
LEMMA PassedUser ==
  ASSUME AuthEnabled, TypeInv, NEW m, Sent(m), Verify(m) = Nil
  PROVE  m.ask.user \in Users /\ ~RunOut(m.ask.user, now) /\ m.info.username = m.ask.user
  <1> DEFINE u == m.ask.user
  <1>1. m.ask \in Asks /\ m.info.username = u /\ CandidatePasswords(u) # {}
    <2>1. Signed(m) /\ CandidatePasswords(m.info.username) # {}
      BY VerifyFacts
    <2>2. m.ask \in Asks /\ m.info.username = u
      BY Zenon, <2>1, SentFacts
    <2> QED
      BY Zenon, <2>1, <2>2
  <1>2. u \in Users /\ u \in Seq(Int) /\ u # <<>>
    BY Zenon, <1>1, RequestsAssumption
  <1> HIDE DEF u
  <1>3. EphemeralExpiry(u) # Nil => EphemeralExpiry(u) \in Int
    BY <1>2 DEF EphemeralExpiry
  <1>4. u \in DOMAIN Credentials \/ (EphemeralExpiry(u) # Nil /\ EphemeralExpiry(u) > now)
    BY Zenon, <1>1 DEF CandidatePasswords
  <1>5. now \in Nat
    BY Zenon DEF TypeInv
  <1>6. ~RunOut(u, now)
    BY <1>3, <1>4, <1>5 DEF RunOut
  <1> QED
    BY Zenon, <1>1, <1>2, <1>6 DEF u

\* There is a transaction id to take.
LEMMA Fresh ==
  ASSUME TypeInv
  PROVE  FreshTxn \in Txns
  <1> DEFINE used == {m.txn : m \in InFlight} \cup (IF alloc = Nil THEN {} ELSE {alloc.txn})
             free == Txns \ used
  <1>1. PICK s \in Txns : req # Nil => s = req.txn
    BY Zenon, SentFacts, RequestsAssumption DEF TypeInv
  <1>2. PICK t \in Txns : late # Nil => t = late.txn
    BY Zenon, SentFacts, RequestsAssumption DEF TypeInv
  <1>3. PICK u \in Txns : alloc # Nil => u = alloc.txn
    <2>1. alloc # Nil => alloc.txn \in Txns
      BY DEF TypeInv, Allocations
    <2> QED
      BY Zenon, <2>1, RequestsAssumption
  <1>4. used \subseteq {s, t, u}
    BY <1>1, <1>2, <1>3 DEF InFlight
  <1>5. Txns \ {s, t, u} # {} /\ Txns \subseteq Nat
    BY Zenon, RequestsAssumption
  <1>6. free # {} /\ free \in SUBSET Nat
    <2> HIDE DEF used
    <2> QED
      BY Zenon, <1>4, <1>5
  <1>7. FreshTxn = Min(free)
    BY Zenon DEF FreshTxn
  <1> HIDE DEF free
  <1>8. Min(free) \in free
    BY Zenon, <1>6, MinIn
  <1> QED
    BY Zenon, <1>7, <1>8 DEF free

\* A request leaves an allocation the invariant allows.
LEMMA PermittedSound ==
  ASSUME AuthEnabled, TypeInv, Sound(alloc, now), NEW m, Sent(m), NEW a, Permitted(m, a)
  PROVE  Sound(a, now)
  <1>1. Lifetime \in Nat
    BY Zenon, RequestsAssumption
  <1>2. CASE a = alloc \/ a = Nil
    BY Zenon, <1>2 DEF Sound
  <1>3. CASE Verify(m) = Nil /\ a = NewAllocation(m)
    <2>1. m.ask.user \in Users /\ m.info.username = m.ask.user /\ m.txn \in Txns
      BY Zenon, <1>3, PassedUser, SentFacts
    <2>2. Nil \notin Users
      BY Zenon, RequestsAssumption
    <2>3. a = [owner |-> m.ask.user, txn |-> m.txn, left |-> Lifetime, over |-> 0,
               permissions |-> {}]
      BY <1>3, <2>1, <2>2 DEF NewAllocation
    <2> QED
      BY <1>1, <2>1, <2>3 DEF Sound, Allocations
  <1>4. ASSUME Verify(m) = Nil, alloc # Nil, alloc.owner = m.ask.user,
               m.method = "refresh", a = [alloc EXCEPT !.left = Granted(m.ask.arg)]
        PROVE  Sound(a, now)
    <2> DEFINE l == Granted(m.ask.arg)
    <2>0. l \in 0..Lifetime
      <3>1. m.ask \in Asks /\ m.ask.method = "refresh"
        BY Zenon, <1>4, SentFacts
      <3>2. m.ask.arg \in Nat
        BY Zenon, <3>1, RequestsAssumption
      <3> QED
        BY Zenon, <3>2, GrantedIn
    <2> HIDE DEF l
    <2>1. ~RunOut(alloc.owner, now)
      BY Zenon, <1>4, PassedUser
    <2>2. alloc \in Allocations /\ alloc.over = 0
      BY Zenon, <1>4, <2>1 DEF Sound
    <2>3. a = [alloc EXCEPT !.left = l]
      BY Zenon, <1>4 DEF l
    <2>4. a \in Allocations /\ a.over = 0 /\ a.left = l
      BY <1>1, <2>0, <2>2, <2>3 DEF Allocations
    <2> QED
      BY <1>1, <2>0, <2>4 DEF Sound
  <1>5. ASSUME alloc # Nil, a = [alloc EXCEPT !.permissions = @ \cup {m.ask.arg}]
        PROVE  Sound(a, now)
    <2>1. m.ask \in Asks
      BY Zenon, SentFacts
    <2>2. alloc \in Allocations
      BY Zenon, <1>5 DEF Sound
    <2>3. /\ a \in Allocations
          /\ a.left = alloc.left /\ a.over = alloc.over /\ a.owner = alloc.owner
      BY <1>5, <2>1, <2>2 DEF Allocations
    <2> QED
      BY Zenon, <1>5, <2>3 DEF Sound
  <1> QED
    BY Zenon, <1>2, <1>3, <1>4, <1>5 DEF Permitted

\* Time passes, or is set.
LEMMA ClockSound ==
  ASSUME RequestsInv, Tick \/ \E t \in 0..MaxTime : SetClock(t)
  PROVE  now' \in Nat /\ Sound(alloc', now')
  <1>1. Lifetime \in Nat /\ MaxTime \in Nat /\ now \in Nat
    BY Zenon, RequestsAssumption DEF RequestsInv, TypeInv
  <1>2. alloc # Nil =>
          /\ alloc \in Allocations
          /\ alloc.left >= 0 => alloc.left + alloc.over <= Lifetime
          /\ ~RunOut(alloc.owner, now) => alloc.over = 0
    BY Zenon DEF RequestsInv, Sound
  <1>3. CASE Tick
    <2>1. now' \in Nat
      <3> DEFINE next == now + 1
      <3>1. next \in Nat
        BY <1>1
      <3>2. now' = Min({next, MaxTime})
        BY Zenon, <1>3 DEF Tick
      <3> HIDE DEF next
      <3>3. Min({next, MaxTime}) = IF next <= MaxTime THEN next ELSE MaxTime
        BY <1>1, <3>1, MinMaxPair
      <3> QED
        BY Zenon, <1>1, <3>1, <3>2, <3>3
    <2>2. CASE alloc = Nil
      BY Zenon, <1>3, <2>1, <2>2 DEF Tick, Sound
    <2>3. CASE alloc # Nil
      <3> DEFINE left == Max({alloc.left - 1, -1})
                 more == Min({alloc.over + 1, Lifetime + 1})
                 over == IF RunOut(alloc.owner, now') THEN more ELSE 0
      <3>1. alloc \in Allocations /\ alloc.left \in Int /\ alloc.over \in Nat
        BY <1>2, <2>3 DEF Allocations
      <3>2. alloc' = [alloc EXCEPT !.left = left, !.over = over]
        BY Zenon, <1>3, <2>3 DEF Tick
      <3>3. left = IF alloc.left - 1 >= -1 THEN alloc.left - 1 ELSE -1
        <4> DEFINE less == alloc.left - 1
                   low == -1
        <4>1. less \in Int /\ low \in Int
          BY <3>1
        <4> HIDE DEF less, low
        <4>2. Max({less, low}) = IF less >= low THEN less ELSE low
          BY <4>1, MinMaxPair
        <4> QED
          BY Zenon, <4>2 DEF less, low
      <3>4. more = IF alloc.over + 1 <= Lifetime + 1 THEN alloc.over + 1 ELSE Lifetime + 1
        BY <1>1, <3>1, MinMaxPair
      <3> HIDE DEF left, more
      <3>5. left \in Int /\ over \in Nat
        BY <1>1, <3>1, <3>3, <3>4
      <3>6. left >= 0 => left + over <= Lifetime
        BY <1>1, <1>2, <2>3, <3>1, <3>3, <3>4
      <3>7. ~RunOut(alloc.owner, now') => over = 0
        BY Zenon
      <3> HIDE DEF over
      <3>8. /\ alloc' \in Allocations
            /\ alloc'.left = left /\ alloc'.over = over /\ alloc'.owner = alloc.owner
        BY ZenonT(30), <3>1, <3>2, <3>5 DEF Allocations
      <3> QED
        BY Zenon, <2>1, <3>6, <3>7, <3>8 DEF Sound
    <2> QED
      BY Zenon, <2>2, <2>3
  <1>4. ASSUME NEW t \in 0..MaxTime, SetClock(t)
        PROVE  now' \in Nat /\ Sound(alloc', now')
    <2>1. now' = t /\ t \in Nat
      BY <1>1, <1>4 DEF SetClock
    <2>2. CASE alloc # Nil /\ ~RunOut(alloc.owner, t)
      <3>1. alloc' = [alloc EXCEPT !.over = 0]
        BY Zenon, <1>4, <2>2 DEF SetClock
      <3>2. /\ alloc' \in Allocations /\ alloc.over \in Nat /\ alloc.left \in Int
            /\ alloc'.left = alloc.left /\ alloc'.over = 0 /\ alloc'.owner = alloc.owner
        BY <1>2, <2>2, <3>1 DEF Allocations
      <3>3. alloc'.left >= 0 => alloc'.left + alloc'.over <= Lifetime
        BY <1>1, <1>2, <2>2, <3>2
      <3> QED
        BY Zenon, <2>1, <3>2, <3>3 DEF Sound
    <2>3. CASE ~(alloc # Nil /\ ~RunOut(alloc.owner, t))
      <3>1. alloc' = alloc
        BY Zenon, <1>4, <2>3 DEF SetClock
      <3> QED
        BY Zenon, <1>2, <2>1, <2>3, <3>1 DEF Sound
    <2> QED
      BY Zenon, <2>2, <2>3
  <1> QED
    BY Zenon, <1>3, <1>4

\* The client's steps send requests.
LEMMA ClientSends ==
  ASSUME RequestsInv, Hear \/ \E ask \in Asks, trailer \in Trailers : Ask(ask, trailer)
  PROVE  /\ nonce' \in Nonces \cup {Nil}
         /\ req' # Nil => Sent(req')
         /\ late' # Nil => Sent(late')
         /\ answer' = Nil
  <1>1. FreshTxn \in Txns
    BY Zenon, Fresh DEF RequestsInv
  <1>2. /\ nonce \in Nonces \cup {Nil} /\ answer \in Answers \cup {Nil}
        /\ req = Nil => answer = Nil
        /\ req # Nil => Sent(req)
        /\ late # Nil => Sent(late)
    BY Zenon DEF RequestsInv, TypeInv
  <1>3. CASE Hear
    <2>1. answer \in Answers /\ Sent(req)
      BY Zenon, <1>2, <1>3 DEF Hear
    <2>2. answer.nonce \in Nonces \cup {Nil}
      BY <2>1 DEF Answers
    <2>3. req.ask \in Asks
      BY Zenon, <2>1, SentFacts
    <2>4. \A trailer \in Trailers : Sent(Request(req.ask, FreshTxn, answer.nonce, trailer))
      BY Zenon, <1>1, <2>2, <2>3 DEF Sent
    <2>5. req' # Nil => Sent(req')
      BY Zenon, <1>3, <2>4 DEF Hear
    <2>6. late' # Nil => Sent(late')
      BY Zenon, <1>2, <1>3, <2>1 DEF Hear
    <2>7. nonce' \in Nonces \cup {Nil} /\ answer' = Nil
      BY Zenon, <1>2, <1>3, <2>2 DEF Hear
    <2> QED
      BY Zenon, <2>5, <2>6, <2>7
  <1>4. ASSUME NEW ask \in Asks, NEW trailer \in Trailers, Ask(ask, trailer)
        PROVE  /\ nonce' \in Nonces \cup {Nil}
               /\ req' # Nil => Sent(req')
               /\ late' # Nil => Sent(late')
               /\ answer' = Nil
    <2>1. Sent(Request(ask, FreshTxn, nonce, trailer))
      BY Zenon, <1>1, <1>2, <1>4 DEF Sent
    <2> QED
      BY Zenon, <1>2, <1>4, <2>1 DEF Ask, netVars
  <1> QED
    BY Zenon, <1>3, <1>4

\* What a request does when it arrives.
LEMMA ServeStep ==
  ASSUME AuthEnabled, RequestsInv, NEW m \in InFlight, Serve(m)
  PROVE  /\ Sent(m) /\ Permitted(m, alloc')
         /\ m = req => answer' \in Answers /\ AllocateAnswer(m, answer')
         /\ m # req => answer' = answer
         /\ m # Nil
         /\ UNCHANGED <<clockVars, secret, late, clientVars>>
  <1>1. Sent(m)
    <2>1. (m = req \/ m = late) /\ m # Nil
      BY Zenon DEF InFlight
    <2> QED
      BY <2>1 DEF RequestsInv, TypeInv
  <1>2. PICK o \in Handle(m) :
          /\ alloc' = o.alloc
          /\ answer' = IF m = req THEN o.answer ELSE answer
          /\ UNCHANGED <<clockVars, secret, late, clientVars>>
    BY Zenon DEF Serve
  <1>3. o.answer \in Answers /\ Permitted(m, o.alloc) /\ AllocateAnswer(m, o.answer)
    BY Zenon, <1>1, HandleStep DEF RequestsInv
  <1>4. Permitted(m, alloc')
    BY <1>2, <1>3
  <1>5. m = req => answer' \in Answers /\ AllocateAnswer(m, answer')
    BY <1>2, <1>3
  <1>6. (m # req => answer' = answer) /\ m # Nil
    BY Zenon, <1>2 DEF InFlight
  <1> QED
    BY Zenon, <1>1, <1>2, <1>4, <1>5, <1>6

LEMMA InvStep ==
  ASSUME AuthEnabled, RequestsInv, [Next]_vars
  PROVE  RequestsInv'
  <1> USE DEF clockVars, serverVars, netVars, clientVars
  <1>1. TypeInv /\ Sound(alloc, now)
    BY Zenon DEF RequestsInv
  <1> DEFINE Kept ==
        /\ now' \in Nat /\ secret' \in Nat
        /\ nonce' \in Nonces \cup {Nil}
        /\ answer' \in Answers \cup {Nil}
        /\ req' = Nil => answer' = Nil
        /\ req' # Nil => Sent(req')
        /\ late' # Nil => Sent(late')
        /\ Sound(alloc', now')
  <1>2. SUFFICES Kept
    BY Zenon DEF RequestsInv, TypeInv, Sound
  <1>3. /\ now \in Nat /\ secret \in Nat
        /\ nonce \in Nonces \cup {Nil}
        /\ answer \in Answers \cup {Nil}
        /\ req = Nil => answer = Nil
        /\ req # Nil => Sent(req)
        /\ late # Nil => Sent(late)
    BY Zenon, <1>1 DEF TypeInv
  <1>4. Sound(Nil, now)
    BY Zenon DEF Sound
  <1>5. CASE Hear \/ \E ask \in Asks, trailer \in Trailers : Ask(ask, trailer)
    <2>1. UNCHANGED <<now, secret, alloc>>
      BY Zenon, <1>5 DEF Hear, Ask
    <2> QED
      BY Zenon, <1>1, <1>3, <1>5, <2>1, ClientSends
  <1>6. ASSUME NEW m \in InFlight, Serve(m)
        PROVE  Kept
    <2>1. /\ Sent(m) /\ Permitted(m, alloc') /\ m # Nil
          /\ m = req => answer' \in Answers
          /\ m # req => answer' = answer
          /\ UNCHANGED <<now, secret, late, req, nonce>>
      BY Zenon, <1>6, ServeStep
    <2>2. Sound(alloc', now)
      BY <1>1, <2>1, PermittedSound
    <2>3. Sound(alloc', now')
      BY Zenon, <2>1, <2>2
    <2> QED
      BY Zenon, <1>3, <2>1, <2>3
  <1>7. CASE LoseAnswer
    BY Zenon, <1>1, <1>3, <1>7 DEF LoseAnswer
  <1>8. CASE Tick \/ \E t \in 0..MaxTime : SetClock(t)
    <2>1. UNCHANGED <<secret, late, answer, req, nonce>>
      BY Zenon, <1>8 DEF Tick, SetClock
    <2> QED
      BY Zenon, <1>3, <1>8, <2>1, ClockSound
  <1>9. CASE Reap
    BY Zenon, <1>3, <1>4, <1>9 DEF Reap
  <1>10. CASE Restart
    <2>1. secret' = secret + 1 /\ alloc' = Nil /\ UNCHANGED <<now, late, answer, req, nonce>>
      BY Zenon, <1>10 DEF Restart
    <2>2. secret' \in Nat
      BY <1>3, <2>1
    <2> QED
      BY Zenon, <1>3, <1>4, <2>1, <2>2
  <1>11. CASE UNCHANGED vars
    BY Zenon, <1>1, <1>3, <1>11 DEF vars
  <1> QED
    BY Zenon, <1>5, <1>6, <1>7, <1>8, <1>9, <1>10, <1>11 DEF Next

LEMMA InvCorrect ==
  ASSUME AuthEnabled
  PROVE  Spec => []RequestsInv
  <1>1. Init => RequestsInv
    BY DEF Init, RequestsInv, TypeInv, Sound
  <1>2. RequestsInv /\ [Next]_vars => RequestsInv'
    BY Zenon, InvStep
  <1> QED
    BY <1>1, <1>2, PTL DEF Spec

----------------------------------------------------------------------------
(* The properties.  They are those of a server with credentials or shared  *)
(* secrets: without any, requests are not authenticated at all.            *)

\* A request that changes the allocation carries a nonce the running server
\* gave out within the last nonce_lifetime_secs (validate_nonce).
THEOREM FreshEffectCorrect ==
  ASSUME AuthEnabled
  PROVE  Spec => FreshEffect
  <1> DEFINE Fresh1(m) ==
        Effect(m) => /\ m.info.nonce.secret = secret
                     /\ now - m.info.nonce.time \in 0..(NonceLifetime - 1)
  <1>1. ASSUME RequestsInv, NEW m \in InFlight
        PROVE  Fresh1(m)
    <2> SUFFICES ASSUME alloc' # alloc, Serve(m)
                 PROVE  /\ m.info.nonce.secret = secret
                        /\ now - m.info.nonce.time \in 0..(NonceLifetime - 1)
      BY Zenon DEF Effect
    <2>1. Sent(m) /\ Permitted(m, alloc')
      BY Zenon, <1>1, ServeStep
    <2>2. Verify(m) = Nil
      BY <2>1 DEF Permitted
    <2>3. TypeInv
      BY Zenon, <1>1 DEF RequestsInv
    <2>4. Signed(m) /\ ValidateNonce(m.info.nonce)
      BY <2>1, <2>2, <2>3, VerifyFacts
    <2>5. m.info.nonce \in Nonces
      BY Zenon, <2>1, <2>4, SentFacts
    <2>6. now \in Nat /\ NonceLifetime \in Nat
      BY Zenon, <2>3, RequestsAssumption DEF TypeInv
    <2> QED
      BY <2>4, <2>5, <2>6 DEF ValidateNonce, Nonces
  <1> HIDE DEF Fresh1
  <1>2. RequestsInv /\ [Next]_vars => [\A m \in InFlight : Fresh1(m)]_vars
    BY Zenon, <1>1
  <1>3. Spec => [][\A m \in InFlight : Fresh1(m)]_vars
    BY <1>2, InvCorrect, PTL DEF Spec
  <1> QED
    BY <1>3 DEF Fresh1, FreshEffect

\* A live allocation is changed by requests of its own user only
\* (authenticate_for_allocation, and step 2 of handle_allocate).
THEOREM OwnerOnlyCorrect ==
  ASSUME AuthEnabled
  PROVE  Spec => OwnerOnly
  <1> DEFINE Own(m) == Live /\ Effect(m) => m.ask.user = alloc.owner
  <1>1. ASSUME RequestsInv, NEW m \in InFlight
        PROVE  Own(m)
    <2> SUFFICES ASSUME Live, alloc' # alloc, Serve(m)
                 PROVE  m.ask.user = alloc.owner
      BY Zenon DEF Effect
    <2>1. Permitted(m, alloc')
      BY Zenon, <1>1, ServeStep
    <2> QED
      BY <2>1 DEF Permitted
  <1> HIDE DEF Own
  <1>2. RequestsInv /\ [Next]_vars => [\A m \in InFlight : Own(m)]_vars
    BY Zenon, <1>1
  <1>3. Spec => [][\A m \in InFlight : Own(m)]_vars
    BY <1>2, InvCorrect, PTL DEF Spec
  <1> QED
    BY <1>3 DEF Own, OwnerOnly

\* Retransmitting an Allocate over the allocation it made changes nothing and
\* is answered with success or a challenge (step 2 of handle_allocate).
THEOREM RetransmissionSafeCorrect ==
  ASSUME AuthEnabled
  PROVE  Spec => RetransmissionSafe
  <1> DEFINE Safe(m) ==
        m.method = "allocate" /\ Live /\ alloc.txn = m.txn /\ Serve(m) =>
          /\ UNCHANGED alloc
          /\ m = req => answer'.code \in {Success, 401, 438}
  <1>1. ASSUME RequestsInv, NEW m \in InFlight
        PROVE  Safe(m)
    <2> SUFFICES ASSUME m.method = "allocate", Live, alloc.txn = m.txn, Serve(m)
                 PROVE  /\ alloc' = alloc
                        /\ m = req => answer'.code \in {Success, 401, 438}
      OBVIOUS
    <2>1. Permitted(m, alloc') /\ (m = req => AllocateAnswer(m, answer'))
      BY Zenon, <1>1, ServeStep
    <2>2. alloc' = alloc
      BY <2>1 DEF Permitted
    <2>3. m = req => answer'.code \in {Success, 401, 438}
      BY <2>1 DEF AllocateAnswer
    <2> QED
      BY Zenon, <2>2, <2>3
  <1> HIDE DEF Safe
  <1>2. RequestsInv /\ [Next]_vars => [\A m \in InFlight : Safe(m)]_vars
    BY Zenon, <1>1
  <1>3. Spec => [][\A m \in InFlight : Safe(m)]_vars
    BY <1>2, InvCorrect, PTL DEF Spec
  <1> QED
    BY <1>3 DEF Safe, RetransmissionSafe

\* A request does exactly what its signer asked for, whatever follows
\* MESSAGE-INTEGRITY in the datagram: the lifetime, the deletion, the peer and
\* the owner are those that were signed (parse_attributes, the handlers).
THEOREM FaithfulEffectCorrect ==
  ASSUME AuthEnabled
  PROVE  Spec => FaithfulEffect
  <1> DEFINE Asked(m) ==
        CASE m.ask.method = "allocate" ->
               /\ ~Live
               /\ alloc' # Nil =>
                    alloc' = [owner |-> m.ask.user, txn |-> m.txn, left |-> Lifetime,
                              over |-> 0, permissions |-> {}]
          [] m.ask.method = "refresh" ->
               alloc' = IF m.ask.arg = 0 THEN Nil
                        ELSE [alloc EXCEPT !.left = Granted(m.ask.arg)]
          [] OTHER -> alloc' = [alloc EXCEPT !.permissions = @ \cup {m.ask.arg}]
             Faithful(m) == Effect(m) => Asked(m)
  <1>1. ASSUME RequestsInv, NEW m \in InFlight
        PROVE  Faithful(m)
    <2> SUFFICES ASSUME alloc' # alloc, Serve(m)
                 PROVE  Asked(m)
      BY Zenon DEF Effect
    <2>1. Sent(m) /\ Permitted(m, alloc')
      BY Zenon, <1>1, ServeStep
    <2>2. m.method = m.ask.method /\ Verify(m) = Nil /\ TypeInv
      BY <1>1, <2>1, SentFacts DEF Permitted, RequestsInv
    <2>3. CASE m.method = "allocate"
      <3>1. ~Live /\ alloc' \in {Nil, NewAllocation(m)}
        BY <2>1, <2>3 DEF Permitted
      <3>2. m.ask.user \in Users /\ m.info.username = m.ask.user
        BY Zenon, <2>1, <2>2, PassedUser
      <3>3. Nil \notin Users
        BY Zenon, RequestsAssumption
      <3>4. NewAllocation(m) = [owner |-> m.ask.user, txn |-> m.txn, left |-> Lifetime,
                                over |-> 0, permissions |-> {}]
        BY SMTT(20), <3>2, <3>3 DEF NewAllocation
      <3> QED
        BY <2>2, <2>3, <3>1, <3>4
    <2>4. CASE m.method = "refresh"
      <3>1. alloc' = IF m.ask.arg = 0 THEN Nil ELSE [alloc EXCEPT !.left = Granted(m.ask.arg)]
        BY <2>1, <2>4 DEF Permitted
      <3> QED
        BY <2>2, <2>4, <3>1
    <2>5. CASE m.method \notin {"allocate", "refresh"}
      <3>1. alloc' = [alloc EXCEPT !.permissions = @ \cup {m.ask.arg}]
        BY <2>1, <2>5 DEF Permitted
      <3> QED
        BY Zenon, <2>2, <2>5, <3>1
    <2> QED
      BY Zenon, <2>3, <2>4, <2>5
  <1> HIDE DEF Faithful
  <1>2. RequestsInv /\ [Next]_vars => [\A m \in InFlight : Faithful(m)]_vars
    BY Zenon, <1>1
  <1>3. Spec => [][\A m \in InFlight : Faithful(m)]_vars
    BY <1>2, InvCorrect, PTL DEF Spec
  <1> QED
    BY <1>3 DEF Faithful, FaithfulEffect

\* An allocation outlives its owner's credentials by at most one lifetime:
\* Refresh checks their expiry as Allocate does, and nothing else prolongs it.
THEOREM OutlivesCredentialsCorrect ==
  ASSUME AuthEnabled
  PROVE  Spec => []OutlivesCredentials
  <1>1. RequestsInv => OutlivesCredentials
    <2> SUFFICES ASSUME RequestsInv, Live
                 PROVE  alloc.over <= Lifetime
      BY Zenon DEF OutlivesCredentials
    <2>1. alloc \in Allocations /\ alloc.left >= 0 /\ alloc.left + alloc.over <= Lifetime
      BY Zenon DEF RequestsInv, Sound, Live
    <2>2. alloc.left \in Int /\ alloc.over \in Nat /\ Lifetime \in Nat
      BY <2>1, RequestsAssumption DEF Allocations
    <2> QED
      BY <2>1, <2>2
  <1> QED
    BY <1>1, InvCorrect, PTL
=============================================================================
