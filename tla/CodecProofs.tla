----------------------------- MODULE CodecProofs ------------------------------
(***************************************************************************)
(* What is encoded is decoded to itself, whatever follows it in the        *)
(* message, for every value of each type that the model passes.            *)
(***************************************************************************)
EXTENDS Codec, SequenceTheorems, WellFoundedInduction, TLAPS

(* Induction over the natural numbers, for a set instead of a predicate.   *)
(* A set of natural numbers has a least one.                               *)
LEMMA Least ==
  ASSUME NEW T, T \subseteq Nat, T # {}
  PROVE  \E x \in T : \A y \in T : ~(y < x)
<1>1. \E x \in T : \A y \in T : <<y, x>> \notin OpToRel(<, Nat)
  BY NatLessThanWellFounded, WFMin, Zenon
<1>2. \A x, y \in T : <<y, x>> \notin OpToRel(<, Nat) => ~(y < x)
  BY DEF OpToRel
<1>3. QED
  BY <1>1, <1>2, Zenon

LEMMA Induction ==
  ASSUME NEW S, 0 \in S, \A n \in Nat : n \in S => n + 1 \in S
  PROVE  Nat \subseteq S
<1> DEFINE T == {n \in Nat : n \notin S}
<1>1. ASSUME NEW x \in T, \A y \in T : ~(y < x)
      PROVE  FALSE
  <2>1. x \in Nat /\ x # 0 /\ x - 1 \in Nat
    OBVIOUS
  <2>2. x - 1 \in S
    BY <1>1, <2>1
  <2>3. QED
    BY <2>1, <2>2
<1>2. T = {}
  <2> HIDE DEF T
  <2>1. T \subseteq Nat
    BY DEF T
  <2>2. QED
    BY <1>1, <2>1, Least, Zenon
<1>3. QED
  BY <1>2

-----------------------------------------------------------------------------
(* The tokens there are, and the messages made of them.                    *)
Kinds == {"String", "bool", "i32", "u16", "u64"}
Values == Texts \cup Uuids \cup Nat \cup BOOLEAN
Tokens == [kind: Kinds, val: Values]
Messages == Seq(Tokens)

(* A token is read as what it was written, by a reader of its width.       *)
LEMMA ReadToken ==
  ASSUME NEW kind \in Kinds, NEW v \in Values, NEW m \in Messages
  PROVE  /\ Token(kind, v) \in Messages
         /\ Read(kind, Token(kind, v) \o m) = [val |-> v, rest |-> m]
<1> DEFINE t == [kind |-> kind, val |-> v]
           s == <<t>> \o m
<1>1. t \in Tokens
  BY DEF Tokens
<1> HIDE DEF t
<1>2. <<t>> \in Messages /\ Len(<<t>>) = 1
  BY <1>1 DEF Messages
<1>3. /\ s \in Messages /\ Len(s) = 1 + Len(m)
      /\ \A i \in 1..(1 + Len(m)) : s[i] = IF i <= 1 THEN t ELSE m[i - 1]
  BY <1>2, ConcatProperties DEF Messages
<1>4. Len(m) \in Nat
  BY DEF Messages
<1> HIDE DEF s
<1>5. s # <<>> /\ Head(s) = t
  BY <1>3, <1>4 DEF Messages
<1>6. Tail(s) = m
  <2>1. /\ Tail(s) \in Messages /\ Len(Tail(s)) = Len(m)
        /\ \A i \in 1..Len(m) : Tail(s)[i] = s[i + 1]
    BY <1>3, <1>4, <1>5, HeadTailProperties DEF Messages
  <2>2. \A i \in 1..Len(m) : Tail(s)[i] = m[i]
    BY <1>3, <1>4, <2>1
  <2>3. QED
    BY <2>1, <2>2, SeqEqual DEF Messages
<1>7. Read(kind, s) = [val |-> v, rest |-> m]
  <2>1. t.kind = kind /\ t.val = v
    BY DEF t
  <2>2. QED
    BY <1>5, <1>6, <2>1 DEF Read
<1>8. Token(kind, v) = <<t>> /\ s = <<t>> \o m
  BY DEF s, t, Token
<1>9. QED
  BY <1>2, <1>7, <1>8, Zenon

(* Messages are joined, in whatever order of the joins.                    *)
LEMMA Append2 ==
  ASSUME NEW a \in Messages, NEW b \in Messages
  PROVE  a \o b \in Messages
BY ConcatProperties DEF Messages

LEMMA Regroup ==
  ASSUME NEW a \in Messages, NEW b \in Messages, NEW c \in Messages
  PROVE  (a \o b) \o c = a \o (b \o c)
BY ConcatAssociative DEF Messages

(* Each type of the bridge: what is encoded is a message, and decoding     *)
(* gives the value back and leaves the rest for the next reader.           *)
LEMMA StringCodec ==
  ASSUME NEW v \in Texts \cup Uuids, NEW m \in Messages
  PROVE  /\ EncodeString(v) \in Messages
         /\ DecodeString(EncodeString(v) \o m) = [val |-> v, rest |-> m]
<1>1. v \in Values /\ "String" \in Kinds
  BY DEF Values, Kinds
<1>2. QED
  BY <1>1, ReadToken DEF EncodeString, DecodeString

LEMMA OptionCodec ==
  ASSUME NEW v \in Option(Texts \cup Uuids), NEW m \in Messages
  PROVE  /\ EncodeOption(v) \in Messages
         /\ DecodeOption(EncodeOption(v) \o m) = [val |-> v, rest |-> m]
<1>1. /\ TRUE \in Values /\ FALSE \in Values /\ "bool" \in Kinds
  BY DEF Values, Kinds
<1>2. CASE v = Null
  <2>1. /\ Token("bool", FALSE) \in Messages
        /\ Read("bool", Token("bool", FALSE) \o m) = [val |-> FALSE, rest |-> m]
    BY <1>1, ReadToken
  <2>2. EncodeOption(v) = Token("bool", FALSE)
    BY <1>2 DEF EncodeOption
  <2>3. DecodeOption(EncodeOption(v) \o m) = [[val |-> FALSE, rest |-> m] EXCEPT !.val = Null]
    <3>1. [val |-> FALSE, rest |-> m].val # TRUE
      OBVIOUS
    <3>2. QED
      BY <2>1, <2>2, <3>1, Zenon DEF DecodeOption
  <2>4. QED
    BY <1>2, <2>1, <2>2, <2>3
<1>3. CASE v # Null
  <2>1. v \in Texts \cup Uuids
    BY <1>3 DEF Option
  <2>2. /\ EncodeString(v) \in Messages
        /\ DecodeString(EncodeString(v) \o m) = [val |-> v, rest |-> m]
    BY <2>1, StringCodec
  <2>3. EncodeString(v) \o m \in Messages
    BY <2>2, Append2
  <2> DEFINE flag == Token("bool", TRUE)
  <2>4. /\ flag \in Messages
        /\ Read("bool", flag \o (EncodeString(v) \o m))
             = [val |-> TRUE, rest |-> EncodeString(v) \o m]
    BY <1>1, <2>3, ReadToken
  <2>5. EncodeOption(v) = flag \o EncodeString(v)
    BY <1>3 DEF EncodeOption
  <2> HIDE DEF flag
  <2>6. EncodeOption(v) \in Messages
    BY <2>2, <2>4, <2>5, Append2, Zenon
  <2>7. EncodeOption(v) \o m = flag \o (EncodeString(v) \o m)
    <3>1. (flag \o EncodeString(v)) \o m = flag \o (EncodeString(v) \o m)
      BY <2>2, <2>4, Regroup
    <3>2. QED
      BY <2>5, <3>1, Zenon
  <2>8. DecodeOption(EncodeOption(v) \o m) = DecodeString(EncodeString(v) \o m)
    <3> DEFINE isSome == [val |-> TRUE, rest |-> EncodeString(v) \o m]
    <3>1. isSome.val = TRUE /\ isSome.rest = EncodeString(v) \o m
      BY Zenon
    <3>2. Read("bool", EncodeOption(v) \o m) = isSome
      BY <2>4, <2>7, Zenon
    <3> HIDE DEF isSome
    <3>3. QED
      BY <3>1, <3>2, Zenon DEF DecodeOption
  <2>9. QED
    BY <2>2, <2>6, <2>8
<1>4. QED
  BY <1>2, <1>3

LEMMA ProtocolCodec ==
  ASSUME NEW p \in {Protocols[i] : i \in DOMAIN Protocols}, NEW m \in Messages
  PROVE  /\ EncodeProtocol(p) \in Messages
         /\ DecodeProtocol(EncodeProtocol(p) \o m) = [val |-> p, rest |-> m]
<1> DEFINE i == CHOOSE j \in DOMAIN Protocols : Protocols[j] = p
<1>1. DOMAIN Protocols = 1..6
  BY DEF Protocols
<1>2. i \in 1..6 /\ Protocols[i] = p
  <2>1. \E j \in DOMAIN Protocols : Protocols[j] = p
    OBVIOUS
  <2>2. i \in DOMAIN Protocols /\ Protocols[i] = p
    BY <2>1
  <2>3. QED
    BY <1>1, <2>2
<1>3. EncodeProtocol(p) = Token("i32", i - 1)
  BY DEF EncodeProtocol
<1> HIDE DEF i
<1>4. i - 1 \in 0..5 /\ i - 1 \in Values /\ "i32" \in Kinds
  BY <1>2 DEF Values, Kinds
<1>5. /\ Token("i32", i - 1) \in Messages
      /\ Read("i32", Token("i32", i - 1) \o m) = [val |-> i - 1, rest |-> m]
  BY <1>4, ReadToken
<1>6. DecodeProtocol(EncodeProtocol(p) \o m) = [val |-> Protocols[(i - 1) + 1], rest |-> m]
  BY <1>3, <1>4, <1>5 DEF DecodeProtocol
<1>7. (i - 1) + 1 = i
  BY <1>2
<1>8. QED
  BY <1>2, <1>3, <1>5, <1>6, <1>7

-----------------------------------------------------------------------------
(* t[i] is what remains of a message, all, when i of its n parts have been *)
(* read, and m when all have.                                              *)
Remains(parts, n, m, t) ==
    /\ t \in [0..n -> Messages] /\ t[n] = m
    /\ \A i \in 1..n : t[i - 1] = parts[i] \o t[i]
Splits(parts, n, m, all) == \E t : Remains(parts, n, m, t) /\ all = t[0]

(* Reading a part takes it off what remained.                              *)
LEMMA Peeled ==
  ASSUME NEW parts, NEW n \in Nat, NEW m, NEW t, Remains(parts, n, m, t)
  PROVE  t[n] = m /\ \A i \in 1..n : t[i - 1] = parts[i] \o t[i] /\ t[i] \in Messages
BY DEF Remains

(* A message made of parts falls apart into them again, from its head.     *)
LEMMA ConcatSplits ==
  ASSUME NEW parts \in Seq(Messages), NEW m \in Messages
  PROVE  Concat(parts) \in Messages /\ Splits(parts, Len(parts), m, Concat(parts) \o m)
<1> DEFINE n == Len(parts)
           start == <<>>
           Is(g, k) == g = [i \in 0..k |-> IF i = 0 THEN start ELSE g[i - 1] \o parts[i]]
           w == CHOOSE g : Is(g, n)
<1>1. n \in Nat /\ parts \in [1..n -> Messages]
  OBVIOUS
<1> HIDE DEF n, start
<1>2. ASSUME NEW k \in Nat PROVE \E g : Is(g, k)
  <2> DEFINE S == {j \in Nat : \E g : Is(g, j)}
  <2>1. 0 \in S
    <3>1. Is([i \in 0..0 |-> start], 0)
      OBVIOUS
    <3>2. QED
      BY <3>1
  <2>2. ASSUME NEW j \in Nat, j \in S PROVE j + 1 \in S
    <3>1. PICK g : Is(g, j)
      BY <2>2
    <3> DEFINE h == [i \in 0..(j + 1) |-> IF i = j + 1 THEN g[j] \o parts[j + 1] ELSE g[i]]
    <3>2. Is(h, j + 1)
      <4>1. \A i \in 0..j : h[i] = g[i]
        OBVIOUS
      <4>2. h[0] = start
        BY <3>1, <4>1
      <4>3. ASSUME NEW i \in 1..(j + 1) PROVE h[i] = h[i - 1] \o parts[i]
        <5>1. i - 1 \in 0..j /\ h[i - 1] = g[i - 1]
          BY <4>1
        <5>2. CASE i = j + 1
          <6>1. h[i] = g[j] \o parts[i] /\ i - 1 = j
            BY <5>2
          <6>2. QED
            BY <5>1, <6>1, Zenon
        <5>3. CASE i # j + 1
          <6>1. i \in 0..j /\ i # 0
            BY <5>3
          <6>2. g[i] = g[i - 1] \o parts[i]
            BY <3>1, <6>1
          <6>3. QED
            BY <4>1, <5>1, <6>1, <6>2, Zenon
        <5>4. QED
          BY <5>2, <5>3
      <4>4. \A i \in 0..(j + 1) : i = 0 \/ i \in 1..(j + 1)
        OBVIOUS
      <4>5. \A i \in 0..(j + 1) : h[i] = IF i = 0 THEN start ELSE h[i - 1] \o parts[i]
        BY <4>2, <4>3, <4>4, Zenon
      <4>6. QED
        BY <4>5
    <3> HIDE DEF h, Is
    <3>3. QED
      BY <3>2
  <2>3. QED
    <3> HIDE DEF S
    <3>1. Nat \subseteq S
      BY <2>1, <2>2, Induction
    <3>2. QED
      BY <3>1 DEF S
<1>3. Is(w, n)
  BY <1>1, <1>2
<1>4. Concat(parts) = w[n]
  BY DEF Concat, Loop, n, start
<1> HIDE DEF w
<1>5. w[0] = <<>> /\ \A i \in 1..n : w[i] = w[i - 1] \o parts[i]
  BY <1>1, <1>3 DEF start
<1> DEFINE Left(k, r, t) == Remains(parts, k, r, t) /\ w[k] \o r = t[0]
           Good(k) == w[k] \in Messages /\ \A r \in Messages : \E t : Left(k, r, t)
           S == {k \in Nat : k <= n => Good(k)}
<1> USE DEF Remains
<1>6. Good(0)
  <2>1. w[0] \in Messages /\ \A r \in Messages : w[0] \o r = r
    BY <1>5, EmptySeq, ConcatEmptySeq DEF Messages
  <2>2. ASSUME NEW r \in Messages PROVE \E t : Left(0, r, t)
    <3>1. Left(0, r, [i \in 0..0 |-> r])
      BY <2>1
    <3>2. QED
      BY <3>1
  <2>3. QED
    BY <2>1, <2>2
<1>7. ASSUME NEW k \in Nat, k + 1 <= n, Good(k) PROVE Good(k + 1)
  <2>1. /\ k + 1 \in 1..n /\ (k + 1) - 1 = k
        /\ w[k] \in Messages /\ parts[k + 1] \in Messages
    BY <1>1, <1>7
  <2>2. w[k + 1] = w[k] \o parts[k + 1]
    <3>1. w[k + 1] = w[(k + 1) - 1] \o parts[k + 1]
      BY <1>5, <2>1
    <3>2. QED
      BY <2>1, <3>1
  <2>3. w[k + 1] \in Messages
    BY <2>1, <2>2, Append2
  <2>4. ASSUME NEW r \in Messages PROVE \E t : Left(k + 1, r, t)
    <3> DEFINE q == parts[k + 1] \o r
    <3>1. q \in Messages
      BY <2>1, Append2
    <3>2. PICK t : Left(k, q, t)
      BY <1>7, <3>1
    <3> DEFINE u == [i \in 0..(k + 1) |-> IF i = k + 1 THEN r ELSE t[i]]
    <3>3. u \in [0..(k + 1) -> Messages] /\ u[k + 1] = r /\ \A i \in 0..k : u[i] = t[i]
      BY <3>2
    <3>4. w[k + 1] \o r = w[k] \o q
      <4>1. (w[k] \o parts[k + 1]) \o r = w[k] \o q
        BY <2>1, Regroup
      <4>2. QED
        BY <2>2, <4>1
    <3> HIDE DEF u
    <3>5. w[k + 1] \o r = u[0]
      <4>1. w[k] \o q = t[0] /\ u[0] = t[0]
        BY <3>2, <3>3
      <4>2. QED
        BY <3>4, <4>1
    <3>6. ASSUME NEW i \in 1..(k + 1) PROVE u[i - 1] = parts[i] \o u[i]
      <4>1. CASE i = k + 1
        <5>1. u[k] = q
          BY <3>2, <3>3
        <5>2. QED
          BY <2>1, <3>3, <4>1, <5>1
      <4>2. CASE i \in 1..k
        <5>1. i - 1 \in 0..k /\ i \in 0..k
          BY <4>2
        <5>2. t[i - 1] = parts[i] \o t[i]
          BY <3>2, <4>2
        <5>3. QED
          BY <3>3, <5>1, <5>2
      <4>3. i = k + 1 \/ i \in 1..k
        OBVIOUS
      <4>4. QED
        BY <4>1, <4>2, <4>3, Zenon
    <3>7. Left(k + 1, r, u)
      BY <3>3, <3>5, <3>6
    <3>8. QED
      BY <3>7
  <2>5. QED
    BY <2>3, <2>4
<1> HIDE DEF Good
<1>8. 0 \in S /\ \A k \in Nat : k \in S => k + 1 \in S
  BY <1>1, <1>6, <1>7
<1>9. Nat \subseteq S
  <2> HIDE DEF S
  <2>1. QED
    BY <1>8, Induction
<1>10. Good(n)
  <2>1. n \in Nat /\ n <= n
    BY <1>1
  <2>2. QED
    BY <1>9, <2>1
<1>11. PICK t : Left(n, m, t)
  BY <1>10 DEF Good
<1>12. w[n] \in Messages
  BY <1>10 DEF Good
<1>13. Splits(parts, n, m, w[n] \o m)
  <2> HIDE DEF Remains
  <2>1. QED
    BY <1>11 DEF Splits
<1>14. QED
  BY <1>4, <1>12, <1>13, Zenon DEF n

(* ... and so does a vector, after its length.                             *)
LEMMA VecSplits ==
  ASSUME NEW codes \in Seq(Messages), NEW m \in Messages
  PROVE  /\ EncodeVec(codes) \in Messages
         /\ \E t : /\ Remains(codes, Len(codes), m, t)
                  /\ Read("i32", EncodeVec(codes) \o m) = [val |-> Len(codes), rest |-> t[0]]
<1> DEFINE n == Len(codes)
           length == Token("i32", n)
           body == Concat(codes)
<1>1. n \in Nat /\ n \in Values /\ "i32" \in Kinds
  BY DEF Values, Kinds
<1>2. /\ length \in Messages
      /\ \A r \in Messages : Read("i32", length \o r) = [val |-> n, rest |-> r]
  BY <1>1, ReadToken
<1>3. EncodeVec(codes) = length \o body
  BY DEF EncodeVec
<1>4. body \in Messages /\ Splits(codes, n, m, body \o m)
  BY ConcatSplits
<1> HIDE DEF n, length, body
<1>5. PICK t : Remains(codes, n, m, t) /\ body \o m = t[0]
  BY <1>4 DEF Splits
<1>6. EncodeVec(codes) \o m = length \o t[0]
  <2>1. (length \o body) \o m = length \o (body \o m)
    BY <1>2, <1>4, Regroup
  <2>2. QED
    BY <1>3, <1>5, <2>1
<1>7. t[0] \in Messages
  BY <1>1, <1>5 DEF Remains
<1>8. Read("i32", EncodeVec(codes) \o m) = [val |-> n, rest |-> t[0]]
  BY <1>2, <1>6, <1>7, Zenon
<1>9. EncodeVec(codes) \in Messages
  BY <1>2, <1>3, <1>4, Append2
<1>10. QED
  BY <1>5, <1>8, <1>9, Zenon DEF n

(* A sequence read so far, and one element more.                           *)
LEMMA Grown ==
  ASSUME NEW E, NEW s \in Seq(E), NEW k \in Nat, k + 1 <= Len(s)
  PROVE  Append(SubSeq(s, 1, k), s[k + 1]) = SubSeq(s, 1, k + 1)
<1> DEFINE a == SubSeq(s, 1, k)
           b == SubSeq(s, 1, k + 1)
<1>1. \A i \in 1..Len(s) : s[i] \in E
  BY ElementOfSeq
<1>2. a \in Seq(E) /\ Len(a) = k /\ \A i \in 1..k : a[i] = s[i]
  BY <1>1, SubSeqProperties
<1>3. b \in Seq(E) /\ Len(b) = k + 1 /\ \A i \in 1..(k + 1) : b[i] = s[i]
  BY <1>1, SubSeqProperties
<1>4. s[k + 1] \in E
  BY <1>1
<1> HIDE DEF a, b
<1> DEFINE c == Append(a, s[k + 1])
<1>5. c \in Seq(E) /\ Len(c) = k + 1 /\ \A i \in 1..(k + 1) : c[i] = s[i]
  BY <1>2, <1>4
<1> HIDE DEF c
<1>6. c = b
  BY <1>3, <1>5, SeqEqual
<1>7. QED
  BY <1>6 DEF a, b, c

(* A reader that appends what it reads, turn by turn, has s in the end.    *)
LEMMA ReadBack ==
  ASSUME NEW E, NEW s \in Seq(E), NEW t, NEW g, g[0] = [val |-> <<>>, rest |-> t[0]],
         \A i \in 1..Len(s) : g[i - 1].rest = t[i - 1] =>
             g[i] = [val |-> Append(g[i - 1].val, s[i]), rest |-> t[i]]
  PROVE  g[Len(s)] = [val |-> s, rest |-> t[Len(s)]]
<1> DEFINE P(k) == k <= Len(s) => g[k] = [val |-> SubSeq(s, 1, k), rest |-> t[k]]
           S == {k \in Nat : P(k)}
<1>1. 0 \in S
  <2>1. SubSeq(s, 1, 0) = <<>>
    BY SubSeqEmpty
  <2>2. QED
    BY <2>1
<1>2. ASSUME NEW k \in Nat, k \in S PROVE k + 1 \in S
  <2> SUFFICES ASSUME k + 1 <= Len(s) PROVE P(k + 1)
    OBVIOUS
  <2>1. k + 1 \in 1..Len(s) /\ (k + 1) - 1 = k /\ k <= Len(s)
    <3>1. Len(s) \in Nat
      OBVIOUS
    <3>2. QED
      BY <3>1
  <2>2. g[k] = [val |-> SubSeq(s, 1, k), rest |-> t[k]]
    BY <1>2, <2>1
  <2>3. g[k].val = SubSeq(s, 1, k) /\ g[k].rest = t[k]
    BY <2>2
  <2>4. g[k + 1] = [val |-> Append(SubSeq(s, 1, k), s[k + 1]), rest |-> t[k + 1]]
    BY <2>1, <2>3
  <2>5. Append(SubSeq(s, 1, k), s[k + 1]) = SubSeq(s, 1, k + 1)
    BY <2>1, Grown
  <2>6. QED
    BY <2>4, <2>5
<1>3. Nat \subseteq S
  <2> HIDE DEF S
  <2>1. QED
    BY <1>1, <1>2, Induction
<1>4. P(Len(s))
  BY <1>3
<1>5. SubSeq(s, 1, Len(s)) = s
  BY SubSeqFull
<1>6. QED
  BY <1>4, <1>5

-----------------------------------------------------------------------------
(* The types made of others (frb_generated.rs): the fields are read in the *)
(* order they were written, as many elements as were counted.              *)
LEMMA TagsCodec ==
  ASSUME NEW s \in Seq(Texts), NEW m \in Messages
  PROVE  /\ EncodeTags(s) \in Messages
         /\ DecodeTags(EncodeTags(s) \o m) = [val |-> s, rest |-> m]
<1> DEFINE n == Len(s)
           codes == [i \in DOMAIN s |-> EncodeString(s[i])]
           word == EncodeTags(s) \o m
<1>1. n \in Nat /\ DOMAIN s = 1..n /\ \A i \in 1..n : s[i] \in Texts
  OBVIOUS
<1>2. /\ codes \in Seq(Messages) /\ Len(codes) = n
      /\ \A i \in 1..n : codes[i] = EncodeString(s[i])
  BY <1>1, StringCodec
<1>3. EncodeTags(s) = EncodeVec(codes)
  BY DEF EncodeTags
<1> HIDE DEF n, codes
<1>4. EncodeTags(s) \in Messages
  BY <1>2, <1>3, VecSplits
<1>5. PICK t : Remains(codes, n, m, t) /\ Read("i32", word) = [val |-> n, rest |-> t[0]]
  BY <1>2, <1>3, VecSplits, Zenon
<1> HIDE DEF word
<1>6. ASSUME NEW i \in 1..n
      PROVE  DecodeString(t[i - 1]) = [val |-> s[i], rest |-> t[i]]
  <2>1. t[i - 1] = codes[i] \o t[i] /\ codes[i] = EncodeString(s[i])
    BY <1>2, <1>5, Zenon DEF Remains
  <2>2. s[i] \in Texts /\ t[i] \in Messages
    BY <1>1, <1>5 DEF Remains
  <2>3. DecodeString(EncodeString(s[i]) \o t[i]) = [val |-> s[i], rest |-> t[i]]
    BY <2>2, StringCodec
  <2>4. QED
    BY <2>1, <2>3, Zenon
<1> DEFINE Push(r, i) == LET e == DecodeString(r.rest) IN
                         [val |-> Append(r.val, e.val), rest |-> e.rest]
           start == [val |-> <<>>, rest |-> t[0]]
           Is(g) == g = [i \in 0..n |-> IF i = 0 THEN start ELSE Push(g[i - 1], i)]
           h == CHOOSE g : Is(g)
<1>7. DecodeTags(word) = h[n]
  <2>1. Read("i32", word).val = n /\ [Read("i32", word) EXCEPT !.val = <<>>] = start
    BY <1>5
  <2>2. QED
    BY <1>1, <2>1 DEF DecodeTags, DecodeVec, Loop
<1>8. ASSUME NEW g, NEW i \in 1..n, g[i - 1].rest = t[i - 1]
      PROVE  Push(g[i - 1], i) = [val |-> Append(g[i - 1].val, s[i]), rest |-> t[i]]
  <2>1. DecodeString(g[i - 1].rest) = [val |-> s[i], rest |-> t[i]]
    BY <1>6, <1>8, Zenon
  <2>2. QED
    BY <2>1
<1> HIDE DEF Push
<1>9. Is(h)
  <2> DEFINE g == [i \in 0..n |-> [val |-> SubSeq(s, 1, i), rest |-> t[i]]]
  <2>1. g[0] = start
    BY <1>1, SubSeqEmpty
  <2>2. ASSUME NEW i \in 1..n PROVE g[i] = Push(g[i - 1], i)
    <3>1. i - 1 \in Nat /\ i - 1 \in 0..n /\ (i - 1) + 1 = i
      BY <1>1
    <3>2. Append(SubSeq(s, 1, i - 1), s[i]) = SubSeq(s, 1, i)
      BY <3>1, Grown DEF n
    <3>3. g[i - 1].val = SubSeq(s, 1, i - 1) /\ g[i - 1].rest = t[i - 1]
      BY <3>1
    <3>4. g[i] = [val |-> SubSeq(s, 1, i), rest |-> t[i]]
      <4>1. i \in 0..n
        BY <1>1
      <4>2. QED
        BY <4>1
    <3> HIDE DEF g
    <3>5. Push(g[i - 1], i) = [val |-> Append(g[i - 1].val, s[i]), rest |-> t[i]]
      BY <1>8, <3>3
    <3>6. QED
      BY <3>2, <3>3, <3>4, <3>5
  <2>3. \A i \in 0..n : g[i] = IF i = 0 THEN start ELSE Push(g[i - 1], i)
    <3> HIDE DEF g, start
    <3>1. \A i \in 0..n : i = 0 \/ i \in 1..n
      BY <1>1
    <3>2. QED
      BY <2>1, <2>2, <3>1, Zenon
  <2>4. \E f : Is(f)
    <3>1. Is(g)
      BY <2>3
    <3> HIDE DEF g, Is
    <3>2. QED
      BY <3>1
  <2>5. QED
    BY <2>4
<1> HIDE DEF h
<1>10. h[0] = start /\ \A i \in 1..n : h[i] = Push(h[i - 1], i)
  BY <1>1, <1>9
<1>11. h[n] = [val |-> s, rest |-> t[n]]
  BY <1>8, <1>10, ReadBack DEF n
<1>12. QED
  BY <1>4, <1>5, <1>7, <1>11 DEF word, Remains

(* The three fields of a Folder.                                           *)
LEMMA FolderCodec ==
  ASSUME NEW f \in Folder, NEW m \in Messages
  PROVE  /\ EncodeFolder(f) \in Messages
         /\ DecodeFolder(EncodeFolder(f) \o m) = [val |-> f, rest |-> m]
<1>1. /\ f.id \in Texts \cup Uuids /\ f.name \in Texts \cup Uuids
      /\ f.parent_id \in Option(Texts \cup Uuids)
  <2>1. /\ f.id \in Uuids /\ f.name \in Texts /\ f.parent_id \in Option(Uuids)
    BY DEF Folder
  <2>2. /\ Option(Texts) \subseteq Option(Texts \cup Uuids)
        /\ Option(Uuids) \subseteq Option(Texts \cup Uuids)
        /\ Ports \subseteq Values /\ Nat \subseteq Values /\ {"u16", "u64"} \subseteq Kinds
    BY DEF Option, Ports, Values, Kinds
  <2>3. QED
    BY <2>1, <2>2
<1> DEFINE parts == <<EncodeString(f.id), EncodeString(f.name), EncodeOption(f.parent_id)>>
<1>2. /\ EncodeString(f.id) \in Messages
      /\ EncodeString(f.name) \in Messages
      /\ EncodeOption(f.parent_id) \in Messages
  <2>1. /\ EncodeString(f.id) \in Messages
        /\ EncodeString(f.name) \in Messages
    BY <1>1, StringCodec
  <2>2. /\ EncodeOption(f.parent_id) \in Messages
    BY <1>1, OptionCodec
  <2>3. QED
    BY <2>1, <2>2
<1>3. parts \in Seq(Messages) /\ Len(parts) = 3 /\ EncodeFolder(f) = Concat(parts)
  BY <1>2 DEF EncodeFolder
<1>4. /\ parts[1] = EncodeString(f.id)
      /\ parts[2] = EncodeString(f.name)
      /\ parts[3] = EncodeOption(f.parent_id)
  OBVIOUS
<1> HIDE DEF parts
<1>5. EncodeFolder(f) \in Messages
  BY <1>3, ConcatSplits
<1>6. PICK t : Remains(parts, 3, m, t) /\ EncodeFolder(f) \o m = t[0]
  <2>1. Splits(parts, Len(parts), m, Concat(parts) \o m)
    BY <1>3, ConcatSplits
  <2>2. QED
    BY <1>3, <2>1 DEF Splits
<1>7. /\ t[0] = parts[1] \o t[1] /\ t[1] \in Messages
      /\ t[1] = parts[2] \o t[2] /\ t[2] \in Messages
      /\ t[2] = parts[3] \o t[3] /\ t[3] \in Messages
  <2> DEFINE Peels(i) == t[i - 1] = parts[i] \o t[i] /\ t[i] \in Messages
  <2>1. \A i \in 1..3 : Peels(i)
    BY <1>6, Peeled
  <2>2. /\ 1 - 1 = 0 /\ 2 - 1 = 1 /\ 3 - 1 = 2
    OBVIOUS
  <2> HIDE DEF Peels
  <2>3. /\ Peels(1) /\ Peels(2) /\ Peels(3)
    BY <2>1
  <2>4. QED
    BY <2>2, <2>3 DEF Peels
<1>8. /\ DecodeString(t[0]) = [val |-> f.id, rest |-> t[1]]
      /\ DecodeString(t[1]) = [val |-> f.name, rest |-> t[2]]
      /\ DecodeOption(t[2]) = [val |-> f.parent_id, rest |-> t[3]]
  <2>1. DecodeString(t[0]) = [val |-> f.id, rest |-> t[1]]
    <3>1. t[0] = EncodeString(f.id) \o t[1]
      BY <1>4, <1>7, Zenon
    <3>2. t[1] \in Messages
      BY <1>7
    <3>3. QED
      BY <1>1, <3>1, <3>2, StringCodec
  <2>2. DecodeString(t[1]) = [val |-> f.name, rest |-> t[2]]
    <3>1. t[1] = EncodeString(f.name) \o t[2]
      BY <1>4, <1>7, Zenon
    <3>2. t[2] \in Messages
      BY <1>7
    <3>3. QED
      BY <1>1, <3>1, <3>2, StringCodec
  <2>3. DecodeOption(t[2]) = [val |-> f.parent_id, rest |-> t[3]]
    <3>1. t[2] = EncodeOption(f.parent_id) \o t[3]
      BY <1>4, <1>7, Zenon
    <3>2. t[3] \in Messages
      BY <1>7
    <3>3. QED
      BY <1>1, <3>1, <3>2, OptionCodec
  <2>4. QED
    BY <2>1, <2>2, <2>3
<1>9. DecodeFolder(t[0]) = [val |-> [id |-> f.id, name |-> f.name, parent_id |-> f.parent_id],
                            rest |-> t[3]]
  <2> DEFINE
       d1 == DecodeString(t[0])
       d2 == DecodeString(d1.rest)
       d3 == DecodeOption(d2.rest)
  <2>1. DecodeFolder(t[0]) = [val |-> [id |-> d1.val, name |-> d2.val, parent_id |-> d3.val],
                              rest |-> d3.rest]
    BY DEF DecodeFolder
  <2>2. d1 = [val |-> f.id, rest |-> t[1]]
    BY <1>8
  <2> HIDE DEF d1
  <2>3. d2 = [val |-> f.name, rest |-> t[2]]
    BY <1>8, <2>2
  <2> HIDE DEF d2
  <2>4. d3 = [val |-> f.parent_id, rest |-> t[3]]
    BY <1>8, <2>3
  <2> HIDE DEF d3
  <2>5. QED
    BY <2>1, <2>2, <2>3, <2>4
<1>10. f = [id |-> f.id, name |-> f.name, parent_id |-> f.parent_id]
  BY DEF Folder
<1>11. t[3] = m
  BY <1>6 DEF Remains
<1>12. QED
  BY <1>5, <1>6, <1>9, <1>10, <1>11, Zenon

(* The fifteen fields of a Connection.                                     *)
LEMMA ConnectionCodec ==
  ASSUME NEW c \in Connection, NEW m \in Messages
  PROVE  /\ EncodeConnection(c) \in Messages
         /\ DecodeConnection(EncodeConnection(c) \o m) = [val |-> c, rest |-> m]
<1>1. /\ c.id \in Texts \cup Uuids /\ c.name \in Texts \cup Uuids
      /\ c.protocol \in {Protocols[i] : i \in DOMAIN Protocols} /\ c.host \in Texts \cup Uuids
      /\ c.port \in Values /\ c.username \in Option(Texts \cup Uuids)
      /\ c.password \in Option(Texts \cup Uuids)
      /\ c.private_key_path \in Option(Texts \cup Uuids)
      /\ c.private_key_passphrase \in Option(Texts \cup Uuids)
      /\ c.folder_id \in Option(Texts \cup Uuids) /\ c.tags \in Seq(Texts)
      /\ c.notes \in Option(Texts \cup Uuids) /\ c.jump_host_id \in Option(Texts \cup Uuids)
      /\ c.timeout_seconds \in Values /\ c.domain \in Option(Texts \cup Uuids)
      /\ {"u16", "u64"} \subseteq Kinds
  <2>1. /\ c.id \in Uuids /\ c.name \in Texts
        /\ c.protocol \in {Protocols[i] : i \in DOMAIN Protocols} /\ c.host \in Texts
        /\ c.port \in Ports /\ c.username \in Option(Texts) /\ c.password \in Option(Texts)
        /\ c.private_key_path \in Option(Texts) /\ c.private_key_passphrase \in Option(Texts)
        /\ c.folder_id \in Option(Uuids) /\ c.tags \in Seq(Texts) /\ c.notes \in Option(Texts)
        /\ c.jump_host_id \in Option(Uuids) /\ c.timeout_seconds \in Nat
        /\ c.domain \in Option(Texts)
    BY DEF Connection
  <2>2. /\ Option(Texts) \subseteq Option(Texts \cup Uuids)
        /\ Option(Uuids) \subseteq Option(Texts \cup Uuids)
        /\ Ports \subseteq Values /\ Nat \subseteq Values /\ {"u16", "u64"} \subseteq Kinds
    BY DEF Option, Ports, Values, Kinds
  <2>3. QED
    BY <2>1, <2>2
<1> DEFINE parts == <<EncodeString(c.id), EncodeString(c.name), EncodeProtocol(c.protocol),
                     EncodeString(c.host), Token("u16", c.port), EncodeOption(c.username),
                     EncodeOption(c.password), EncodeOption(c.private_key_path),
                     EncodeOption(c.private_key_passphrase), EncodeOption(c.folder_id),
                     EncodeTags(c.tags), EncodeOption(c.notes), EncodeOption(c.jump_host_id),
                     Token("u64", c.timeout_seconds), EncodeOption(c.domain)>>
<1>2. /\ EncodeString(c.id) \in Messages
      /\ EncodeString(c.name) \in Messages
      /\ EncodeProtocol(c.protocol) \in Messages
      /\ EncodeString(c.host) \in Messages
      /\ Token("u16", c.port) \in Messages
      /\ EncodeOption(c.username) \in Messages
      /\ EncodeOption(c.password) \in Messages
      /\ EncodeOption(c.private_key_path) \in Messages
      /\ EncodeOption(c.private_key_passphrase) \in Messages
      /\ EncodeOption(c.folder_id) \in Messages
      /\ EncodeTags(c.tags) \in Messages
      /\ EncodeOption(c.notes) \in Messages
      /\ EncodeOption(c.jump_host_id) \in Messages
      /\ Token("u64", c.timeout_seconds) \in Messages
      /\ EncodeOption(c.domain) \in Messages
  <2>1. /\ EncodeString(c.id) \in Messages
        /\ EncodeString(c.name) \in Messages
        /\ EncodeString(c.host) \in Messages
    BY <1>1, StringCodec
  <2>2. /\ EncodeProtocol(c.protocol) \in Messages
    BY <1>1, ProtocolCodec
  <2>3. /\ Token("u16", c.port) \in Messages
        /\ Token("u64", c.timeout_seconds) \in Messages
    BY <1>1, ReadToken
  <2>4. /\ EncodeOption(c.username) \in Messages
        /\ EncodeOption(c.password) \in Messages
        /\ EncodeOption(c.private_key_path) \in Messages
        /\ EncodeOption(c.private_key_passphrase) \in Messages
        /\ EncodeOption(c.folder_id) \in Messages
        /\ EncodeOption(c.notes) \in Messages
        /\ EncodeOption(c.jump_host_id) \in Messages
        /\ EncodeOption(c.domain) \in Messages
    BY <1>1, OptionCodec
  <2>5. /\ EncodeTags(c.tags) \in Messages
    BY <1>1, TagsCodec
  <2>6. QED
    BY <2>1, <2>2, <2>3, <2>4, <2>5
<1>3. parts \in Seq(Messages) /\ Len(parts) = 15 /\ EncodeConnection(c) = Concat(parts)
  BY <1>2 DEF EncodeConnection
<1>4. /\ parts[1] = EncodeString(c.id)
      /\ parts[2] = EncodeString(c.name)
      /\ parts[3] = EncodeProtocol(c.protocol)
      /\ parts[4] = EncodeString(c.host)
      /\ parts[5] = Token("u16", c.port)
      /\ parts[6] = EncodeOption(c.username)
      /\ parts[7] = EncodeOption(c.password)
      /\ parts[8] = EncodeOption(c.private_key_path)
      /\ parts[9] = EncodeOption(c.private_key_passphrase)
      /\ parts[10] = EncodeOption(c.folder_id)
      /\ parts[11] = EncodeTags(c.tags)
      /\ parts[12] = EncodeOption(c.notes)
      /\ parts[13] = EncodeOption(c.jump_host_id)
      /\ parts[14] = Token("u64", c.timeout_seconds)
      /\ parts[15] = EncodeOption(c.domain)
  OBVIOUS
<1> HIDE DEF parts
<1>5. EncodeConnection(c) \in Messages
  BY <1>3, ConcatSplits
<1>6. PICK t : Remains(parts, 15, m, t) /\ EncodeConnection(c) \o m = t[0]
  <2>1. Splits(parts, Len(parts), m, Concat(parts) \o m)
    BY <1>3, ConcatSplits
  <2>2. QED
    BY <1>3, <2>1 DEF Splits
<1>7. /\ t[0] = parts[1] \o t[1] /\ t[1] \in Messages
      /\ t[1] = parts[2] \o t[2] /\ t[2] \in Messages
      /\ t[2] = parts[3] \o t[3] /\ t[3] \in Messages
      /\ t[3] = parts[4] \o t[4] /\ t[4] \in Messages
      /\ t[4] = parts[5] \o t[5] /\ t[5] \in Messages
      /\ t[5] = parts[6] \o t[6] /\ t[6] \in Messages
      /\ t[6] = parts[7] \o t[7] /\ t[7] \in Messages
      /\ t[7] = parts[8] \o t[8] /\ t[8] \in Messages
      /\ t[8] = parts[9] \o t[9] /\ t[9] \in Messages
      /\ t[9] = parts[10] \o t[10] /\ t[10] \in Messages
      /\ t[10] = parts[11] \o t[11] /\ t[11] \in Messages
      /\ t[11] = parts[12] \o t[12] /\ t[12] \in Messages
      /\ t[12] = parts[13] \o t[13] /\ t[13] \in Messages
      /\ t[13] = parts[14] \o t[14] /\ t[14] \in Messages
      /\ t[14] = parts[15] \o t[15] /\ t[15] \in Messages
  <2> DEFINE Peels(i) == t[i - 1] = parts[i] \o t[i] /\ t[i] \in Messages
  <2>1. \A i \in 1..15 : Peels(i)
    BY <1>6, Peeled
  <2>2. /\ 1 - 1 = 0 /\ 2 - 1 = 1 /\ 3 - 1 = 2 /\ 4 - 1 = 3 /\ 5 - 1 = 4 /\ 6 - 1 = 5
        /\ 7 - 1 = 6 /\ 8 - 1 = 7 /\ 9 - 1 = 8 /\ 10 - 1 = 9 /\ 11 - 1 = 10 /\ 12 - 1 = 11
        /\ 13 - 1 = 12 /\ 14 - 1 = 13 /\ 15 - 1 = 14
    OBVIOUS
  <2> HIDE DEF Peels
  <2>3. /\ Peels(1) /\ Peels(2) /\ Peels(3) /\ Peels(4) /\ Peels(5) /\ Peels(6) /\ Peels(7)
        /\ Peels(8) /\ Peels(9) /\ Peels(10) /\ Peels(11) /\ Peels(12) /\ Peels(13)
        /\ Peels(14) /\ Peels(15)
    BY <2>1
  <2>4. QED
    BY <2>2, <2>3 DEF Peels
<1>8. /\ DecodeString(t[0]) = [val |-> c.id, rest |-> t[1]]
      /\ DecodeString(t[1]) = [val |-> c.name, rest |-> t[2]]
      /\ DecodeProtocol(t[2]) = [val |-> c.protocol, rest |-> t[3]]
      /\ DecodeString(t[3]) = [val |-> c.host, rest |-> t[4]]
      /\ Read("u16", t[4]) = [val |-> c.port, rest |-> t[5]]
      /\ DecodeOption(t[5]) = [val |-> c.username, rest |-> t[6]]
      /\ DecodeOption(t[6]) = [val |-> c.password, rest |-> t[7]]
      /\ DecodeOption(t[7]) = [val |-> c.private_key_path, rest |-> t[8]]
      /\ DecodeOption(t[8]) = [val |-> c.private_key_passphrase, rest |-> t[9]]
      /\ DecodeOption(t[9]) = [val |-> c.folder_id, rest |-> t[10]]
      /\ DecodeTags(t[10]) = [val |-> c.tags, rest |-> t[11]]
      /\ DecodeOption(t[11]) = [val |-> c.notes, rest |-> t[12]]
      /\ DecodeOption(t[12]) = [val |-> c.jump_host_id, rest |-> t[13]]
      /\ Read("u64", t[13]) = [val |-> c.timeout_seconds, rest |-> t[14]]
      /\ DecodeOption(t[14]) = [val |-> c.domain, rest |-> t[15]]
  <2>1. DecodeString(t[0]) = [val |-> c.id, rest |-> t[1]]
    <3>1. t[0] = EncodeString(c.id) \o t[1]
      BY <1>4, <1>7, Zenon
    <3>2. t[1] \in Messages
      BY <1>7
    <3>3. QED
      BY <1>1, <3>1, <3>2, StringCodec
  <2>2. DecodeString(t[1]) = [val |-> c.name, rest |-> t[2]]
    <3>1. t[1] = EncodeString(c.name) \o t[2]
      BY <1>4, <1>7, Zenon
    <3>2. t[2] \in Messages
      BY <1>7
    <3>3. QED
      BY <1>1, <3>1, <3>2, StringCodec
  <2>3. DecodeProtocol(t[2]) = [val |-> c.protocol, rest |-> t[3]]
    <3>1. t[2] = EncodeProtocol(c.protocol) \o t[3]
      BY <1>4, <1>7, Zenon
    <3>2. t[3] \in Messages
      BY <1>7
    <3>3. QED
      BY <1>1, <3>1, <3>2, ProtocolCodec
  <2>4. DecodeString(t[3]) = [val |-> c.host, rest |-> t[4]]
    <3>1. t[3] = EncodeString(c.host) \o t[4]
      BY <1>4, <1>7, Zenon
    <3>2. t[4] \in Messages
      BY <1>7
    <3>3. QED
      BY <1>1, <3>1, <3>2, StringCodec
  <2>5. Read("u16", t[4]) = [val |-> c.port, rest |-> t[5]]
    <3>1. t[4] = Token("u16", c.port) \o t[5]
      BY <1>4, <1>7, Zenon
    <3>2. t[5] \in Messages
      BY <1>7
    <3>3. QED
      BY <1>1, <3>1, <3>2, ReadToken
  <2>6. DecodeOption(t[5]) = [val |-> c.username, rest |-> t[6]]
    <3>1. t[5] = EncodeOption(c.username) \o t[6]
      BY <1>4, <1>7, Zenon
    <3>2. t[6] \in Messages
      BY <1>7
    <3>3. QED
      BY <1>1, <3>1, <3>2, OptionCodec
  <2>7. DecodeOption(t[6]) = [val |-> c.password, rest |-> t[7]]
    <3>1. t[6] = EncodeOption(c.password) \o t[7]
      BY <1>4, <1>7, Zenon
    <3>2. t[7] \in Messages
      BY <1>7
    <3>3. QED
      BY <1>1, <3>1, <3>2, OptionCodec
  <2>8. DecodeOption(t[7]) = [val |-> c.private_key_path, rest |-> t[8]]
    <3>1. t[7] = EncodeOption(c.private_key_path) \o t[8]
      BY <1>4, <1>7, Zenon
    <3>2. t[8] \in Messages
      BY <1>7
    <3>3. QED
      BY <1>1, <3>1, <3>2, OptionCodec
  <2>9. DecodeOption(t[8]) = [val |-> c.private_key_passphrase, rest |-> t[9]]
    <3>1. t[8] = EncodeOption(c.private_key_passphrase) \o t[9]
      BY <1>4, <1>7, Zenon
    <3>2. t[9] \in Messages
      BY <1>7
    <3>3. QED
      BY <1>1, <3>1, <3>2, OptionCodec
  <2>10. DecodeOption(t[9]) = [val |-> c.folder_id, rest |-> t[10]]
    <3>1. t[9] = EncodeOption(c.folder_id) \o t[10]
      BY <1>4, <1>7, Zenon
    <3>2. t[10] \in Messages
      BY <1>7
    <3>3. QED
      BY <1>1, <3>1, <3>2, OptionCodec
  <2>11. DecodeTags(t[10]) = [val |-> c.tags, rest |-> t[11]]
    <3>1. t[10] = EncodeTags(c.tags) \o t[11]
      BY <1>4, <1>7, Zenon
    <3>2. t[11] \in Messages
      BY <1>7
    <3>3. QED
      BY <1>1, <3>1, <3>2, TagsCodec
  <2>12. DecodeOption(t[11]) = [val |-> c.notes, rest |-> t[12]]
    <3>1. t[11] = EncodeOption(c.notes) \o t[12]
      BY <1>4, <1>7, Zenon
    <3>2. t[12] \in Messages
      BY <1>7
    <3>3. QED
      BY <1>1, <3>1, <3>2, OptionCodec
  <2>13. DecodeOption(t[12]) = [val |-> c.jump_host_id, rest |-> t[13]]
    <3>1. t[12] = EncodeOption(c.jump_host_id) \o t[13]
      BY <1>4, <1>7, Zenon
    <3>2. t[13] \in Messages
      BY <1>7
    <3>3. QED
      BY <1>1, <3>1, <3>2, OptionCodec
  <2>14. Read("u64", t[13]) = [val |-> c.timeout_seconds, rest |-> t[14]]
    <3>1. t[13] = Token("u64", c.timeout_seconds) \o t[14]
      BY <1>4, <1>7, Zenon
    <3>2. t[14] \in Messages
      BY <1>7
    <3>3. QED
      BY <1>1, <3>1, <3>2, ReadToken
  <2>15. DecodeOption(t[14]) = [val |-> c.domain, rest |-> t[15]]
    <3>1. t[14] = EncodeOption(c.domain) \o t[15]
      BY <1>4, <1>7, Zenon
    <3>2. t[15] \in Messages
      BY <1>7
    <3>3. QED
      BY <1>1, <3>1, <3>2, OptionCodec
  <2>16. QED
    BY <2>1, <2>2, <2>3, <2>4, <2>5, <2>6, <2>7, <2>8, <2>9, <2>10, <2>11, <2>12, <2>13,
       <2>14, <2>15
<1>9. DecodeConnection(t[0]) =
          [val |-> [id |-> c.id, name |-> c.name, protocol |-> c.protocol, host |-> c.host,
                    port |-> c.port, username |-> c.username, password |-> c.password,
                    private_key_path |-> c.private_key_path,
                    private_key_passphrase |-> c.private_key_passphrase,
                    folder_id |-> c.folder_id, tags |-> c.tags, notes |-> c.notes,
                    jump_host_id |-> c.jump_host_id,
                    timeout_seconds |-> c.timeout_seconds, domain |-> c.domain],
           rest |-> t[15]]
  <2> DEFINE
       d1 == DecodeString(t[0])
       d2 == DecodeString(d1.rest)
       d3 == DecodeProtocol(d2.rest)
       d4 == DecodeString(d3.rest)
       d5 == Read("u16", d4.rest)
       d6 == DecodeOption(d5.rest)
       d7 == DecodeOption(d6.rest)
       d8 == DecodeOption(d7.rest)
       d9 == DecodeOption(d8.rest)
       d10 == DecodeOption(d9.rest)
       d11 == DecodeTags(d10.rest)
       d12 == DecodeOption(d11.rest)
       d13 == DecodeOption(d12.rest)
       d14 == Read("u64", d13.rest)
       d15 == DecodeOption(d14.rest)
  <2>1. DecodeConnection(t[0]) =
            [val |-> [id |-> d1.val, name |-> d2.val, protocol |-> d3.val, host |-> d4.val,
                      port |-> d5.val, username |-> d6.val, password |-> d7.val,
                      private_key_path |-> d8.val, private_key_passphrase |-> d9.val,
                      folder_id |-> d10.val, tags |-> d11.val, notes |-> d12.val,
                      jump_host_id |-> d13.val, timeout_seconds |-> d14.val,
                      domain |-> d15.val],
             rest |-> d15.rest]
    BY DEF DecodeConnection
  <2>2. d1 = [val |-> c.id, rest |-> t[1]]
    BY <1>8
  <2> HIDE DEF d1
  <2>3. d2 = [val |-> c.name, rest |-> t[2]]
    BY <1>8, <2>2
  <2> HIDE DEF d2
  <2>4. d3 = [val |-> c.protocol, rest |-> t[3]]
    BY <1>8, <2>3
  <2> HIDE DEF d3
  <2>5. d4 = [val |-> c.host, rest |-> t[4]]
    BY <1>8, <2>4
  <2> HIDE DEF d4
  <2>6. d5 = [val |-> c.port, rest |-> t[5]]
    BY <1>8, <2>5
  <2> HIDE DEF d5
  <2>7. d6 = [val |-> c.username, rest |-> t[6]]
    BY <1>8, <2>6
  <2> HIDE DEF d6
  <2>8. d7 = [val |-> c.password, rest |-> t[7]]
    BY <1>8, <2>7
  <2> HIDE DEF d7
  <2>9. d8 = [val |-> c.private_key_path, rest |-> t[8]]
    BY <1>8, <2>8
  <2> HIDE DEF d8
  <2>10. d9 = [val |-> c.private_key_passphrase, rest |-> t[9]]
    BY <1>8, <2>9
  <2> HIDE DEF d9
  <2>11. d10 = [val |-> c.folder_id, rest |-> t[10]]
    BY <1>8, <2>10
  <2> HIDE DEF d10
  <2>12. d11 = [val |-> c.tags, rest |-> t[11]]
    BY <1>8, <2>11
  <2> HIDE DEF d11
  <2>13. d12 = [val |-> c.notes, rest |-> t[12]]
    BY <1>8, <2>12
  <2> HIDE DEF d12
  <2>14. d13 = [val |-> c.jump_host_id, rest |-> t[13]]
    BY <1>8, <2>13
  <2> HIDE DEF d13
  <2>15. d14 = [val |-> c.timeout_seconds, rest |-> t[14]]
    BY <1>8, <2>14
  <2> HIDE DEF d14
  <2>16. d15 = [val |-> c.domain, rest |-> t[15]]
    BY <1>8, <2>15
  <2> HIDE DEF d15
  <2>17. QED
    BY <2>1, <2>2, <2>3, <2>4, <2>5, <2>6, <2>7, <2>8, <2>9, <2>10, <2>11, <2>12, <2>13,
       <2>14, <2>15, <2>16
<1>10. c = [id |-> c.id, name |-> c.name, protocol |-> c.protocol, host |-> c.host,
            port |-> c.port, username |-> c.username, password |-> c.password,
            private_key_path |-> c.private_key_path,
            private_key_passphrase |-> c.private_key_passphrase, folder_id |-> c.folder_id,
            tags |-> c.tags, notes |-> c.notes, jump_host_id |-> c.jump_host_id,
            timeout_seconds |-> c.timeout_seconds, domain |-> c.domain]
  BY DEF Connection
<1>11. t[15] = m
  BY <1>6 DEF Remains
<1>12. QED
  BY <1>5, <1>6, <1>9, <1>10, <1>11, Zenon

(* Vec<Folder>, as get_folders returns it.                                 *)
LEMMA FoldersCodec ==
  ASSUME NEW s \in Seq(Folder), NEW m \in Messages
  PROVE  /\ EncodeFolders(s) \in Messages
         /\ DecodeFolders(EncodeFolders(s) \o m) = [val |-> s, rest |-> m]
<1> DEFINE n == Len(s)
           codes == [i \in DOMAIN s |-> EncodeFolder(s[i])]
           word == EncodeFolders(s) \o m
<1>1. n \in Nat /\ DOMAIN s = 1..n /\ \A i \in 1..n : s[i] \in Folder
  OBVIOUS
<1>2. /\ codes \in Seq(Messages) /\ Len(codes) = n
      /\ \A i \in 1..n : codes[i] = EncodeFolder(s[i])
  BY <1>1, FolderCodec
<1>3. EncodeFolders(s) = EncodeVec(codes)
  BY DEF EncodeFolders
<1> HIDE DEF n, codes
<1>4. EncodeFolders(s) \in Messages
  BY <1>2, <1>3, VecSplits
<1>5. PICK t : Remains(codes, n, m, t) /\ Read("i32", word) = [val |-> n, rest |-> t[0]]
  BY <1>2, <1>3, VecSplits, Zenon
<1> HIDE DEF word
<1>6. ASSUME NEW i \in 1..n
      PROVE  DecodeFolder(t[i - 1]) = [val |-> s[i], rest |-> t[i]]
  <2>1. t[i - 1] = codes[i] \o t[i] /\ codes[i] = EncodeFolder(s[i])
    BY <1>2, <1>5, Zenon DEF Remains
  <2>2. s[i] \in Folder /\ t[i] \in Messages
    BY <1>1, <1>5 DEF Remains
  <2>3. DecodeFolder(EncodeFolder(s[i]) \o t[i]) = [val |-> s[i], rest |-> t[i]]
    BY <2>2, FolderCodec
  <2>4. QED
    BY <2>1, <2>3, Zenon
<1> DEFINE Push(r, i) == LET e == DecodeFolder(r.rest) IN
                         [val |-> Append(r.val, e.val), rest |-> e.rest]
           start == [val |-> <<>>, rest |-> t[0]]
           Is(g) == g = [i \in 0..n |-> IF i = 0 THEN start ELSE Push(g[i - 1], i)]
           h == CHOOSE g : Is(g)
<1>7. DecodeFolders(word) = h[n]
  <2>1. Read("i32", word).val = n /\ [Read("i32", word) EXCEPT !.val = <<>>] = start
    BY <1>5
  <2>2. QED
    BY <1>1, <2>1 DEF DecodeFolders, DecodeVec, Loop
<1>8. ASSUME NEW g, NEW i \in 1..n, g[i - 1].rest = t[i - 1]
      PROVE  Push(g[i - 1], i) = [val |-> Append(g[i - 1].val, s[i]), rest |-> t[i]]
  <2>1. DecodeFolder(g[i - 1].rest) = [val |-> s[i], rest |-> t[i]]
    BY <1>6, <1>8, Zenon
  <2>2. QED
    BY <2>1
<1> HIDE DEF Push
<1>9. Is(h)
  <2> DEFINE g == [i \in 0..n |-> [val |-> SubSeq(s, 1, i), rest |-> t[i]]]
  <2>1. g[0] = start
    BY <1>1, SubSeqEmpty
  <2>2. ASSUME NEW i \in 1..n PROVE g[i] = Push(g[i - 1], i)
    <3>1. i - 1 \in Nat /\ i - 1 \in 0..n /\ (i - 1) + 1 = i
      BY <1>1
    <3>2. Append(SubSeq(s, 1, i - 1), s[i]) = SubSeq(s, 1, i)
      BY <3>1, Grown DEF n
    <3>3. g[i - 1].val = SubSeq(s, 1, i - 1) /\ g[i - 1].rest = t[i - 1]
      BY <3>1
    <3>4. g[i] = [val |-> SubSeq(s, 1, i), rest |-> t[i]]
      <4>1. i \in 0..n
        BY <1>1
      <4>2. QED
        BY <4>1
    <3> HIDE DEF g
    <3>5. Push(g[i - 1], i) = [val |-> Append(g[i - 1].val, s[i]), rest |-> t[i]]
      BY <1>8, <3>3
    <3>6. QED
      BY <3>2, <3>3, <3>4, <3>5
  <2>3. \A i \in 0..n : g[i] = IF i = 0 THEN start ELSE Push(g[i - 1], i)
    <3> HIDE DEF g, start
    <3>1. \A i \in 0..n : i = 0 \/ i \in 1..n
      BY <1>1
    <3>2. QED
      BY <2>1, <2>2, <3>1, Zenon
  <2>4. \E f : Is(f)
    <3>1. Is(g)
      BY <2>3
    <3> HIDE DEF g, Is
    <3>2. QED
      BY <3>1
  <2>5. QED
    BY <2>4
<1> HIDE DEF h
<1>10. h[0] = start /\ \A i \in 1..n : h[i] = Push(h[i - 1], i)
  BY <1>1, <1>9
<1>11. h[n] = [val |-> s, rest |-> t[n]]
  BY <1>8, <1>10, ReadBack DEF n
<1>12. QED
  BY <1>4, <1>5, <1>7, <1>11 DEF word, Remains

(* Vec<Connection>, as get_connections returns it.                         *)
LEMMA ConnectionsCodec ==
  ASSUME NEW s \in Seq(Connection), NEW m \in Messages
  PROVE  /\ EncodeConnections(s) \in Messages
         /\ DecodeConnections(EncodeConnections(s) \o m) = [val |-> s, rest |-> m]
<1> DEFINE n == Len(s)
           codes == [i \in DOMAIN s |-> EncodeConnection(s[i])]
           word == EncodeConnections(s) \o m
<1>1. n \in Nat /\ DOMAIN s = 1..n /\ \A i \in 1..n : s[i] \in Connection
  OBVIOUS
<1>2. /\ codes \in Seq(Messages) /\ Len(codes) = n
      /\ \A i \in 1..n : codes[i] = EncodeConnection(s[i])
  BY <1>1, ConnectionCodec
<1>3. EncodeConnections(s) = EncodeVec(codes)
  BY DEF EncodeConnections
<1> HIDE DEF n, codes
<1>4. EncodeConnections(s) \in Messages
  BY <1>2, <1>3, VecSplits
<1>5. PICK t : Remains(codes, n, m, t) /\ Read("i32", word) = [val |-> n, rest |-> t[0]]
  BY <1>2, <1>3, VecSplits, Zenon
<1> HIDE DEF word
<1>6. ASSUME NEW i \in 1..n
      PROVE  DecodeConnection(t[i - 1]) = [val |-> s[i], rest |-> t[i]]
  <2>1. t[i - 1] = codes[i] \o t[i] /\ codes[i] = EncodeConnection(s[i])
    BY <1>2, <1>5, Zenon DEF Remains
  <2>2. s[i] \in Connection /\ t[i] \in Messages
    BY <1>1, <1>5 DEF Remains
  <2>3. DecodeConnection(EncodeConnection(s[i]) \o t[i]) = [val |-> s[i], rest |-> t[i]]
    BY <2>2, ConnectionCodec
  <2>4. QED
    BY <2>1, <2>3, Zenon
<1> DEFINE Push(r, i) == LET e == DecodeConnection(r.rest) IN
                         [val |-> Append(r.val, e.val), rest |-> e.rest]
           start == [val |-> <<>>, rest |-> t[0]]
           Is(g) == g = [i \in 0..n |-> IF i = 0 THEN start ELSE Push(g[i - 1], i)]
           h == CHOOSE g : Is(g)
<1>7. DecodeConnections(word) = h[n]
  <2>1. Read("i32", word).val = n /\ [Read("i32", word) EXCEPT !.val = <<>>] = start
    BY <1>5
  <2>2. QED
    BY <1>1, <2>1 DEF DecodeConnections, DecodeVec, Loop
<1>8. ASSUME NEW g, NEW i \in 1..n, g[i - 1].rest = t[i - 1]
      PROVE  Push(g[i - 1], i) = [val |-> Append(g[i - 1].val, s[i]), rest |-> t[i]]
  <2>1. DecodeConnection(g[i - 1].rest) = [val |-> s[i], rest |-> t[i]]
    BY <1>6, <1>8, Zenon
  <2>2. QED
    BY <2>1
<1> HIDE DEF Push
<1>9. Is(h)
  <2> DEFINE g == [i \in 0..n |-> [val |-> SubSeq(s, 1, i), rest |-> t[i]]]
  <2>1. g[0] = start
    BY <1>1, SubSeqEmpty
  <2>2. ASSUME NEW i \in 1..n PROVE g[i] = Push(g[i - 1], i)
    <3>1. i - 1 \in Nat /\ i - 1 \in 0..n /\ (i - 1) + 1 = i
      BY <1>1
    <3>2. Append(SubSeq(s, 1, i - 1), s[i]) = SubSeq(s, 1, i)
      BY <3>1, Grown DEF n
    <3>3. g[i - 1].val = SubSeq(s, 1, i - 1) /\ g[i - 1].rest = t[i - 1]
      BY <3>1
    <3>4. g[i] = [val |-> SubSeq(s, 1, i), rest |-> t[i]]
      <4>1. i \in 0..n
        BY <1>1
      <4>2. QED
        BY <4>1
    <3> HIDE DEF g
    <3>5. Push(g[i - 1], i) = [val |-> Append(g[i - 1].val, s[i]), rest |-> t[i]]
      BY <1>8, <3>3
    <3>6. QED
      BY <3>2, <3>3, <3>4, <3>5
  <2>3. \A i \in 0..n : g[i] = IF i = 0 THEN start ELSE Push(g[i - 1], i)
    <3> HIDE DEF g, start
    <3>1. \A i \in 0..n : i = 0 \/ i \in 1..n
      BY <1>1
    <3>2. QED
      BY <2>1, <2>2, <3>1, Zenon
  <2>4. \E f : Is(f)
    <3>1. Is(g)
      BY <2>3
    <3> HIDE DEF g, Is
    <3>2. QED
      BY <3>1
  <2>5. QED
    BY <2>4
<1> HIDE DEF h
<1>10. h[0] = start /\ \A i \in 1..n : h[i] = Push(h[i - 1], i)
  BY <1>1, <1>9
<1>11. h[n] = [val |-> s, rest |-> t[n]]
  BY <1>8, <1>10, ReadBack DEF n
<1>12. QED
  BY <1>4, <1>5, <1>7, <1>11 DEF word, Remains
-----------------------------------------------------------------------------
(* Dart and Rust agree on the order, the widths and the flags of a message *)
(* (frb_generated.rs:3322 reads what 3985 wrote): a connection, and both   *)
(* lists HomeScreen asks for, arrive as they were sent, whatever their     *)
(* texts, ports, tags and lengths, and nothing is left over.               *)
THEOREM CodecRoundTrips ==
    /\ \A c \in Connection :
           DecodeConnection(EncodeConnection(c)) = [val |-> c, rest |-> <<>>]
    /\ \A s \in Seq(Connection) :
           DecodeConnections(EncodeConnections(s)) = [val |-> s, rest |-> <<>>]
    /\ \A s \in Seq(Folder) :
           DecodeFolders(EncodeFolders(s)) = [val |-> s, rest |-> <<>>]
<1>1. <<>> \in Messages /\ \A m \in Messages : m \o <<>> = m
  BY EmptySeq, ConcatEmptySeq DEF Messages
<1>2. ASSUME NEW c \in Connection
      PROVE  DecodeConnection(EncodeConnection(c)) = [val |-> c, rest |-> <<>>]
  <2>1. /\ EncodeConnection(c) \in Messages
        /\ DecodeConnection(EncodeConnection(c) \o <<>>) = [val |-> c, rest |-> <<>>]
    BY <1>1, ConnectionCodec
  <2>2. EncodeConnection(c) \o <<>> = EncodeConnection(c)
    BY <1>1, <2>1
  <2>3. QED
    BY <2>1, <2>2, Zenon
<1>3. ASSUME NEW s \in Seq(Connection)
      PROVE  DecodeConnections(EncodeConnections(s)) = [val |-> s, rest |-> <<>>]
  <2>1. /\ EncodeConnections(s) \in Messages
        /\ DecodeConnections(EncodeConnections(s) \o <<>>) = [val |-> s, rest |-> <<>>]
    BY <1>1, ConnectionsCodec
  <2>2. EncodeConnections(s) \o <<>> = EncodeConnections(s)
    BY <1>1, <2>1
  <2>3. QED
    BY <2>1, <2>2, Zenon
<1>4. ASSUME NEW s \in Seq(Folder)
      PROVE  DecodeFolders(EncodeFolders(s)) = [val |-> s, rest |-> <<>>]
  <2>1. /\ EncodeFolders(s) \in Messages
        /\ DecodeFolders(EncodeFolders(s) \o <<>>) = [val |-> s, rest |-> <<>>]
    BY <1>1, FoldersCodec
  <2>2. EncodeFolders(s) \o <<>> = EncodeFolders(s)
    BY <1>1, <2>1
  <2>3. QED
    BY <2>1, <2>2, Zenon
<1>5. QED
  BY <1>2, <1>3, <1>4, Zenon
=============================================================================
