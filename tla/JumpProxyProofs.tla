--------------------------- MODULE JumpProxyProofs ---------------------------
(***************************************************************************)
(* Theorems about JumpProxy for conversations of any length and a socket   *)
(* of any size: its types, and that it carries every message in order and  *)
(* once, which makes it a pair of streams.                                 *)
(***************************************************************************)
EXTENDS JumpProxy, SequenceTheorems, TLAPS

(* Concatenation of messages. *)
LEMMA Associative ==
  ASSUME NEW s \in Seq(Nat), NEW t \in Seq(Nat), NEW u \in Seq(Nat)
  PROVE  s \o (t \o u) = (s \o t) \o u
<1>1. (s \o t) \o u = s \o (t \o u)
  BY SMTT(60)
<1>2. QED
  BY <1>1

LEMMA ConcatAppend ==
  ASSUME NEW s \in Seq(Nat), NEW t \in Seq(Nat), NEW m \in Nat
  PROVE  s \o Append(t, m) = Append(s \o t, m)
<1> DEFINE e == <<m>>
<1>1. Append(t, m) = t \o e /\ Append(s \o t, m) = (s \o t) \o e
  BY AppendIsConcat, ConcatProperties
<1>2. e \in Seq(Nat)
  OBVIOUS
<1> HIDE DEF e
<1>3. s \o (t \o e) = (s \o t) \o e
  BY <1>2, Associative
<1>4. QED
  BY <1>1, <1>3

LEMMA FirstAndRest ==
  ASSUME NEW m \in Nat, NEW u \in Seq(Nat)
  PROVE  Head(<<m>> \o u) = m /\ Tail(<<m>> \o u) = u
<1> DEFINE q == <<m>> \o u
           n == Len(u)
<1>1. <<m>> \in Seq(Nat) /\ Len(<<m>>) = 1 /\ <<m>>[1] = m /\ n \in Nat
  BY LenProperties
<1>2. /\ q \in Seq(Nat) /\ Len(q) = 1 + n
      /\ \A i \in 1..(1 + n) : q[i] = IF i <= 1 THEN <<m>>[i] ELSE u[i - 1]
  BY <1>1, ConcatProperties
<1>3. q # <<>>
  <2>1. Len(q) # 0
    BY <1>1, <1>2
  <2> HIDE DEF q
  <2>2. QED
    BY <2>1, EmptySeq
<1> HIDE DEF q
<1>4. Head(q) = q[1] /\ q[1] = m
  BY <1>1, <1>2, <1>3
<1>5. Tail(q) \in Seq(Nat) /\ Len(Tail(q)) = n /\ \A i \in 1..n : Tail(q)[i] = q[i + 1]
  BY <1>1, <1>2, <1>3, HeadTailProperties
<1>6. ASSUME NEW i \in 1..n
      PROVE  q[i + 1] = u[i]
  <2>1. i + 1 \in 1..(1 + n) /\ ~(i + 1 <= 1) /\ (i + 1) - 1 = i
    BY <1>1
  <2>2. QED
    BY <1>2, <2>1
<1>7. Tail(q) = u
  BY <1>5, <1>6, SeqEqual
<1>8. QED
  BY <1>4, <1>7 DEF q

LEMMA ConcatTail ==
  ASSUME NEW near \in Seq(Nat), near # <<>>, NEW w \in Seq(Nat)
  PROVE  Head(near \o w) = Head(near) /\ Tail(near \o w) = Tail(near) \o w
<1>1. near = <<Head(near)>> \o Tail(near)
  <2>1. 1 \in 1..Len(near) /\ Len(near) \in 1..Len(near) /\ Head(near) = near[1]
    BY EmptySeq, LenProperties
  <2>2. /\ SubSeq(near, 1, Len(near)) = near
        /\ SubSeq(near, 1, Len(near)) = <<near[1]>> \o SubSeq(near, 1 + 1, Len(near))
    BY <2>1, SubSeqFull, SubSeqRecursiveFirst
  <2>3. Tail(near) = SubSeq(near, 2, Len(near))
    BY TailIsSubSeq
  <2>4. QED
    BY <2>1, <2>2, <2>3
<1> DEFINE m == Head(near)
           t == Tail(near)
<1>2. m \in Nat /\ t \in Seq(Nat)
  BY HeadTailProperties
<1> HIDE DEF m, t
<1>3. <<m>> \in Seq(Nat) /\ t \o w \in Seq(Nat)
  BY <1>2, ConcatProperties
<1>4. near \o w = <<m>> \o (t \o w)
  BY <1>1, <1>2, <1>3, ConcatAssociative DEF m, t
<1>5. Head(<<m>> \o (t \o w)) = m /\ Tail(<<m>> \o (t \o w)) = t \o w
  BY <1>2, <1>3, FirstAndRest
<1>6. QED
  BY <1>4, <1>5 DEF m, t

(* The part of the buffer that still fits into the socket. *)
LEMMA Fitting ==
  ASSUME NEW s \in Seq(Nat), NEW n \in Int, n < Len(s)
  PROVE  SubSeq(s, 1, n) \in Seq(Nat)
<1>1. Len(s) \in Nat /\ \A i \in 1..Len(s) : s[i] \in Nat
  BY LenProperties, ElementOfSeq
<1>2. QED
  BY <1>1, SubSeqProperties

(* What did not fit into the socket would have followed what did. *)
Begins(near, way) == \E w \in Seq(Nat) : near \o w = way

(* What a partial write has written. *)
Part(q, n) == SubSeq(q, 1, n)

LEMMA CutShort ==
  ASSUME NEW p \in Seq(Nat), NEW q \in Seq(Nat), NEW r \in Seq(Nat), NEW n \in Int, n < Len(q)
  PROVE  Begins(p \o Part(q, n), (p \o q) \o r)
<1> SUFFICES \E w \in Seq(Nat) : (p \o SubSeq(q, 1, n)) \o w = (p \o q) \o r
  BY DEF Begins, Part
<1> DEFINE u == SubSeq(q, 1, n)
<1>1. PICK v \in Seq(Nat) : u \in Seq(Nat) /\ u \o v = q
  <2>1. CASE 0 <= n
    <3>1. n \in 0..Len(q) /\ 1 \in 1..(Len(q) + 1) /\ n \in (1 - 1)..Len(q) /\ Len(q) \in n..Len(q)
      BY <2>1, LenProperties
    <3>2. u \o SubSeq(q, n + 1, Len(q)) = q
      BY <3>1, ConcatAdjacentSubSeq, SubSeqFull, ZenonT(60)
    <3>3. u \in Seq(Nat)
      BY Fitting
    <3>4. SubSeq(q, n + 1, Len(q)) \in Seq(Nat)
      <4>1. \A i \in (n + 1)..Len(q) : q[i] \in Nat
        BY <2>1, LenProperties, ElementOfSeq
      <4>2. n + 1 \in Int /\ Len(q) \in Int
        BY LenProperties
      <4>3. QED
        BY <4>1, <4>2, SubSeqProperties
    <3>5. QED
      BY <3>2, <3>3, <3>4
  <2>2. CASE n < 0
    <3>1. u = <<>>
      BY <2>2, SubSeqEmpty
    <3>2. <<>> \in Seq(Nat) /\ <<>> \o q = q
      BY EmptySeq, ConcatEmptySeq
    <3>3. QED
      BY <3>1, <3>2
  <2>3. 0 <= n \/ n < 0
    OBVIOUS
  <2>4. QED
    BY <2>1, <2>2, <2>3, Zenon
<1> HIDE DEF u
<1>2. v \o r \in Seq(Nat) /\ p \o u \in Seq(Nat)
  BY <1>1, ConcatProperties
<1>3. (p \o u) \o (v \o r) = (p \o q) \o r
  <2>1. (p \o u) \o (v \o r) = ((p \o u) \o v) \o r
    <3> DEFINE pu == p \o u
    <3>1. pu \in Seq(Nat) /\ v \in Seq(Nat)
      BY <1>1, <1>2
    <3> HIDE DEF pu
    <3>2. pu \o (v \o r) = (pu \o v) \o r
      BY <3>1, Associative, ZenonT(60)
    <3>3. QED
      BY <3>2 DEF pu
  <2>2. (p \o u) \o v = p \o (u \o v)
    BY <1>1, Associative, ZenonT(60)
  <2>3. QED
    BY <1>1, <2>1, <2>2
<1>4. QED
  BY <1>2, <1>3 DEF u

USE ProxyAssumption DEF Sides, Noise, Numbers

(* The bytes taken from the front of a sequence, and those left behind.    *)
LEMMA Taken ==
  ASSUME NEW s \in Seq(Nat), NEW n \in 1..Len(s)
  PROVE  /\ SubSeq(s, 1, n) \in Seq(Nat) /\ SubSeq(s, 1, n) # <<>>
         /\ SubSeq(s, n + 1, Len(s)) \in Seq(Nat)
<1>1. n \in Nat /\ Len(s) \in Nat /\ 1 <= n /\ n <= Len(s) /\ \A i \in 1..Len(s) : s[i] \in Nat
  BY LenProperties, ElementOfSeq
<1>2. SubSeq(s, 1, n) \in Seq(Nat) /\ Len(SubSeq(s, 1, n)) = n
  BY <1>1, SubSeqProperties
<1>3. SubSeq(s, n + 1, Len(s)) \in Seq(Nat)
  BY <1>1, SubSeqProperties
<1> DEFINE t == SubSeq(s, 1, n)
<1>4. t # <<>>
  <2>1. Len(t) # 0
    BY <1>1, <1>2
  <2>2. Len(<<>>) = 0
    BY EmptySeq
  <2> HIDE DEF t
  <2>3. QED
    BY <2>1, <2>2
<1>5. QED
  BY <1>2, <1>3, <1>4

LEMMA NotedInOrder ==
  ASSUME TypeOK, NEW s \in Sides, NEW p \in {up, back}, p # <<>>, Note(s, Head(p))
  PROVE  heard' \in [Sides -> Seq(Numbers)] /\ Tail(p) \in Seq(Nat)
<1>1. p \in Seq(Nat) /\ heard \in [Sides -> Seq(Numbers)]
  BY DEF TypeOK
<1>2. Head(p) \in Nat /\ Tail(p) \in Seq(Nat)
  BY <1>1, HeadTailProperties
<1>3. CASE Head(p) = Noise
  BY <1>1, <1>2, <1>3 DEF Note
<1>4. CASE Head(p) # Noise
  <2>1. Append(heard[s], Head(p)) \in Seq(Numbers)
    BY <1>1, <1>2, <1>4, AppendProperties
  <2>2. QED
    BY <1>1, <1>2, <1>4, <2>1 DEF Note
<1>5. QED
  BY <1>3, <1>4

LEMMA InitTypes == Init => TypeOK
<1>1. <<>> \in Seq(Nat) /\ <<>> \in Seq(Numbers)
  BY EmptySeq
<1>2. QED
  BY <1>1 DEF Init, TypeOK

LEMMA HostsKeepTypes ==
  ASSUME TypeOK,
         \/ \E s \in Sides : Say(s)
         \/ Chatter \/ ClientHears \/ TargetHears
         \/ ConnectLocal \/ ConnectRefused
         \/ TargetCloses \/ ConnectFails \/ LeaveTarget \/ LeaveJump
  PROVE  TypeOK'
<1>1. \A p \in {local, up, down, back, hold} : p \in Seq(Nat)
  BY DEF TypeOK
<1>2. ASSUME NEW s \in Sides, Say(s)
      PROVE  TypeOK'
  <2>1. said' \in [Sides -> Nat] /\ said'[s] \in Nat
    BY <1>2, SMTT(30) DEF Say, TypeOK
  <2>2. Append(local, said'[s]) \in Seq(Nat) /\ Append(down, said'[s]) \in Seq(Nat)
    BY <1>1, <2>1, AppendProperties
  <2>3. local' \in Seq(Nat) /\ down' \in Seq(Nat)
    BY <1>1, <1>2, <2>2 DEF Say
  <2>4. QED
    BY <1>2, <2>1, <2>3 DEF Say, TypeOK
<1>3. CASE Chatter
  <2>1. Append(down, Noise) \in Seq(Nat)
    BY <1>1, AppendProperties
  <2>2. QED
    BY <1>3, <2>1 DEF Chatter, TypeOK, hosts
<1>4. CASE ClientHears
  <2>1. heard' \in [Sides -> Seq(Numbers)] /\ back' \in Seq(Nat)
    BY <1>4, NotedInOrder DEF ClientHears
  <2>2. QED
    BY <1>4, <2>1 DEF ClientHears, TypeOK
<1>5. CASE TargetHears
  <2>1. heard' \in [Sides -> Seq(Numbers)] /\ up' \in Seq(Nat)
    BY <1>5, NotedInOrder DEF TargetHears
  <2>2. QED
    BY <1>5, <2>1 DEF TargetHears, TypeOK
<1>6. CASE \/ ConnectLocal \/ ConnectRefused
           \/ TargetCloses \/ ConnectFails \/ LeaveTarget \/ LeaveJump
  BY <1>6 DEF ConnectLocal, ConnectRefused, TargetCloses, ConnectFails, LeaveTarget, LeaveJump,
              TypeOK, pipes, hosts
<1>7. QED
  BY <1>2, <1>3, <1>4, <1>5, <1>6

LEMMA ShuttleKeepsTypes ==
  ASSUME TypeOK, Shuttle \/ AcceptFails
  PROVE  TypeOK'
<1>1. \A p \in {local, up, down, back, hold} : p \in Seq(Nat)
  BY DEF TypeOK
<1>2. CASE Accept \/ AcceptFails
  BY <1>2 DEF Accept, AcceptFails, TypeOK, hosts, pipes
<1>3. CASE ReadLocal
  <2>1. ASSUME NEW n \in 1..Len(local), hold' = SubSeq(local, 1, n),
               local' = SubSeq(local, n + 1, Len(local)), pc' = "write_channel"
        PROVE  TypeOK'
    <3>1. hold' \in Seq(Nat) /\ hold' # <<>> /\ local' \in Seq(Nat)
      BY <1>1, <2>1, Taken
    <3>2. QED
      BY <1>3, <2>1, <3>1 DEF ReadLocal, TypeOK, hosts
  <2>2. CASE pc' \in {"gone", "read_channel"} /\ UNCHANGED <<local, hold>>
    BY <1>3, <2>2 DEF ReadLocal, TypeOK, hosts
  <2>3. QED
    BY <1>3, <2>1, <2>2 DEF ReadLocal
<1>4. CASE WriteChannel
  <2>1. up \o hold \in Seq(Nat) /\ <<>> \in Seq(Nat)
    BY <1>1, ConcatProperties, EmptySeq
  <2>2. up' \in Seq(Nat) /\ pc' \in {"read_channel", "gone"}
    BY <1>1, <1>4, <2>1 DEF WriteChannel
  <2>3. QED
    BY <1>4, <2>1, <2>2 DEF WriteChannel, TypeOK, hosts
<1>5. CASE ReadChannel
  <2>1. ASSUME NEW n \in 1..Len(down), hold' = SubSeq(down, 1, n),
               down' = SubSeq(down, n + 1, Len(down)), pc' = "write_local"
        PROVE  TypeOK'
    <3>1. hold' \in Seq(Nat) /\ hold' # <<>> /\ down' \in Seq(Nat)
      BY <1>1, <2>1, Taken
    <3>2. QED
      BY <1>5, <2>1, <3>1 DEF ReadChannel, TypeOK, hosts
  <2>2. CASE pc' = "gone" /\ UNCHANGED <<hold, down>>
    BY <1>5, <2>2 DEF ReadChannel, TypeOK, hosts
  <2>3. QED
    BY <1>5, <2>1, <2>2 DEF ReadChannel
<1>6. CASE WriteLocal
  <2>1. back \o hold \in Seq(Nat) /\ <<>> \in Seq(Nat)
    BY <1>1, ConcatProperties, EmptySeq
  <2>2. ASSUME Len(hold) > Room
        PROVE  back \o SubSeq(hold, 1, Room) \in Seq(Nat)
    <3>1. Room \in Int /\ Room < Len(hold)
      BY <1>1, <2>2, LenProperties DEF Room
    <3>2. SubSeq(hold, 1, Room) \in Seq(Nat)
      BY <1>1, <3>1, Fitting
    <3>3. QED
      BY <1>1, <3>2, ConcatProperties
  <2>3. back' \in Seq(Nat) /\ pc' \in {"read_local", "gone"}
    BY <1>1, <1>6, <2>1, <2>2 DEF WriteLocal
  <2>4. QED
    BY <1>6, <2>1, <2>3 DEF WriteLocal, TypeOK, hosts
<1>7. QED
  BY <1>2, <1>3, <1>4, <1>5, <1>6 DEF Shuttle

-----------------------------------------------------------------------------
(* Every variable of the tunnel holds a value of its kind, and the proxy   *)
(* has bytes in `buf` exactly between a read and the write that follows    *)
(* it: no path through the loop writes an empty or a stale buffer.         *)
THEOREM TunnelTypeCorrect == Spec => []TypeOK
<1>1. TypeOK /\ [Next]_vars => TypeOK'
  <2>1. CASE Next
    BY <2>1, HostsKeepTypes, ShuttleKeepsTypes DEF Next
  <2>2. CASE UNCHANGED vars
    BY <2>2 DEF vars, hosts, pipes, TypeOK
  <2>3. QED
    BY <2>1, <2>2
<1>2. QED
  BY <1>1, InitTypes, PTL DEF Spec

-----------------------------------------------------------------------------
(* What is between two ends: q is carried by `near`, which a side reads,   *)
(* and what follows it.  While the loop runs, all that follows arrives.    *)
Flow(near, way, a, b, runs) == \E w \in Seq(Nat) :
    Carries(near \o w, a, b) /\ (runs => near \o w = way)

(* Each side heard a first part of what the other said.  A side that holds *)
(* on has the next part before it, all of it unless the loop was left.     *)
Running == pc # "gone"
StreamInv ==
    /\ \A s \in Sides : heard[s] = OneTo(Len(heard[s])) /\ Len(heard[s]) <= said[Peer(s)]
    /\ open["target"] => Flow(up, Upward, Len(heard["target"]), said["client"], Running)
    /\ open["client"] => Flow(back, Downward, Len(heard["client"]), said["target"], Running)

(* One more message, a numbered one or not, comes last. *)
LEMMA CarriesAppend ==
  ASSUME NEW q \in Seq(Nat), NEW a \in Nat, NEW b \in Nat, a <= b, Carries(q, a, b),
         NEW m \in Nat, NEW c \in Nat, (m = Noise /\ c = b) \/ (m = b + 1 /\ c = b + 1)
  PROVE  Carries(Append(q, m), a, c)
<1> DEFINE r == Append(q, m)
           n == Len(q)
<1>1. /\ r \in Seq(Nat) /\ n \in Nat /\ DOMAIN q = 1..n /\ DOMAIN r = 1..(n + 1)
      /\ \A i \in 1..n : r[i] = q[i]
      /\ r[n + 1] = m
      /\ \A i \in 1..n : q[i] \in Nat
  BY AppendProperties, LenProperties, ElementOfSeq
<1>2. /\ Range(q) \ {Noise} = (a + 1)..b
      /\ \A i, j \in 1..n : i < j /\ Noise \notin {q[i], q[j]} => q[i] < q[j]
  BY <1>1 DEF Carries
<1>3. Range(q) = {q[i] : i \in 1..n} /\ Range(r) = {r[i] : i \in 1..(n + 1)}
  BY <1>1 DEF Range
<1> HIDE DEF r, n
<1>4. Range(r) = Range(q) \cup {m}
  <2>1. ASSUME NEW i \in 1..(n + 1)
        PROVE  r[i] \in Range(q) \cup {m}
    <3>1. i \in 1..n \/ i = n + 1
      BY <1>1
    <3>2. QED
      BY <1>1, <1>3, <3>1
  <2>2. m \in Range(r)
    BY <1>1, <1>3
  <2>3. ASSUME NEW i \in 1..n
        PROVE  q[i] \in Range(r)
    <3>1. i \in 1..(n + 1) /\ r[i] = q[i]
      BY <1>1
    <3>2. QED
      BY <1>3, <3>1
  <2>4. QED
    BY <1>3, <2>1, <2>2, <2>3
<1>5. Range(r) \ {Noise} = (a + 1)..c
  BY <1>2, <1>4
<1>6. ASSUME NEW i \in 1..(n + 1), NEW j \in 1..(n + 1), i < j, Noise \notin {r[i], r[j]}
      PROVE  r[i] < r[j]
  <2>1. i \in 1..n /\ r[i] = q[i] /\ q[i] # Noise
    BY <1>1, <1>6
  <2>2. CASE j \in 1..n
    BY <1>1, <1>2, <1>6, <2>1, <2>2
  <2>3. CASE j = n + 1
    <3>1. r[j] = m /\ m = b + 1
      BY <1>1, <1>6, <2>3
    <3>2. q[i] \in (a + 1)..b
      BY <1>2, <1>3, <2>1
    <3>3. QED
      BY <2>1, <3>1, <3>2
  <2>4. QED
    BY <1>1, <1>6, <2>2, <2>3
<1>7. Carries(r, a, c)
  BY <1>1, <1>5, <1>6 DEF Carries
<1>8. QED
  BY <1>7 DEF r

(* The first message is Noise or the next one. *)
LEMMA CarriesTail ==
  ASSUME NEW q \in Seq(Nat), q # <<>>, NEW a \in Nat, NEW b \in Nat, Carries(q, a, b)
  PROVE  \/ Head(q) = Noise /\ Carries(Tail(q), a, b)
         \/ Head(q) = a + 1 /\ a + 1 <= b /\ Carries(Tail(q), a + 1, b)
<1> DEFINE t == Tail(q)
           n == Len(q)
           m == q[1]
<1>1. /\ n \in Nat \ {0} /\ DOMAIN q = 1..n /\ DOMAIN t = 1..(n - 1) /\ Head(q) = m
      /\ \A i \in 1..(n - 1) : t[i] = q[i + 1]
      /\ \A i \in 1..n : q[i] \in Nat
  BY EmptySeq, HeadTailProperties, LenProperties, ElementOfSeq
<1>2. /\ Range(q) \ {Noise} = (a + 1)..b
      /\ \A i, j \in 1..n : i < j /\ Noise \notin {q[i], q[j]} => q[i] < q[j]
  BY <1>1 DEF Carries
<1>3. Range(q) = {q[i] : i \in 1..n} /\ Range(t) = {t[i] : i \in 1..(n - 1)}
  BY <1>1 DEF Range
<1> HIDE DEF t, n
<1>4. Range(q) = {m} \cup Range(t)
  <2>1. Range(t) \subseteq Range(q)
    BY <1>1, <1>3
  <2>2. ASSUME NEW i \in 1..n
        PROVE  q[i] \in {m} \cup Range(t)
    <3>1. CASE i = 1
      BY <3>1
    <3>2. CASE i # 1
      <4>1. i - 1 \in 1..(n - 1) /\ (i - 1) + 1 = i
        BY <1>1, <3>2
      <4>2. t[i - 1] = q[i]
        BY <1>1, <4>1
      <4>3. QED
        BY <1>3, <4>1, <4>2
    <3>3. QED
      BY <3>1, <3>2
  <2>3. m \in Range(q)
    BY <1>1, <1>3
  <2>4. QED
    BY <1>3, <2>1, <2>2, <2>3
<1>5. \A i, j \in 1..(n - 1) : i < j /\ Noise \notin {t[i], t[j]} => t[i] < t[j]
  <2> SUFFICES ASSUME NEW i \in 1..(n - 1), NEW j \in 1..(n - 1), i < j, Noise \notin {t[i], t[j]}
               PROVE  t[i] < t[j]
    OBVIOUS
  <2>1. i + 1 \in 1..n /\ j + 1 \in 1..n /\ i + 1 < j + 1
    BY <1>1
  <2>2. QED
    BY <1>1, <1>2, <2>1
<1>6. CASE m = Noise
  <2>1. Range(t) \ {Noise} = (a + 1)..b
    BY <1>2, <1>4, <1>6
  <2>2. Carries(t, a, b)
    BY <1>1, <1>5, <2>1 DEF Carries
  <2>3. QED
    BY <1>1, <1>6, <2>2 DEF t
<1>7. CASE m # Noise
  <2>1. \A k \in Range(t) \ {Noise} : m < k
    <3> SUFFICES ASSUME NEW i \in 1..(n - 1), t[i] # Noise
                 PROVE  m < t[i]
      BY <1>3
    <3>1. 1 \in 1..n /\ i + 1 \in 1..n /\ 1 < i + 1 /\ t[i] = q[i + 1]
      BY <1>1
    <3>2. QED
      BY <1>2, <1>7, <3>1
  <2>2. m \in (a + 1)..b
    BY <1>2, <1>4, <1>7
  <2>3. m = a + 1
    <3>1. a + 1 \in (a + 1)..b
      BY <2>2
    <3>2. a + 1 \in {m} \cup (Range(t) \ {Noise})
      BY <1>2, <1>4, <3>1
    <3>3. QED
      BY <2>1, <2>2, <3>2
  <2>4. Range(t) \ {Noise} = (a + 2)..b
    <3>1. m \notin Range(t) \ {Noise}
      BY <2>1, <2>2
    <3>2. Range(t) \ {Noise} = ((a + 1)..b) \ {m}
      BY <1>2, <1>4, <1>7, <3>1
    <3>3. ((a + 1)..b) \ {a + 1} = (a + 2)..b
      OBVIOUS
    <3>4. QED
      BY <2>3, <3>2, <3>3
  <2>5. Carries(t, a + 1, b)
    <3>1. (a + 1) + 1 = a + 2
      OBVIOUS
    <3>2. QED
      BY <1>1, <1>5, <2>4, <3>1 DEF Carries
  <2>6. QED
    BY <1>1, <2>2, <2>3, <2>5 DEF t
<1>8. QED
  BY <1>6, <1>7

-----------------------------------------------------------------------------
(* What a step does to a flow.  It stays, or ends with the loop. *)
LEMMA FlowStays ==
  ASSUME NEW near, NEW way, NEW a, NEW b, NEW runs \in BOOLEAN, Flow(near, way, a, b, runs),
         NEW way2, NEW runs2 \in BOOLEAN, runs2 => runs /\ way2 = way
  PROVE  Flow(near, way2, a, b, runs2)
  BY DEF Flow

(* More is said, at the far end. *)
LEMMA FlowGrows ==
  ASSUME NEW near \in Seq(Nat), NEW way, NEW a \in Nat, NEW b \in Nat, a <= b,
         Flow(near, way, a, b, TRUE),
         NEW m \in Nat, NEW c \in Nat, (m = Noise /\ c = b) \/ (m = b + 1 /\ c = b + 1),
         NEW runs2 \in BOOLEAN
  PROVE  Flow(near, Append(way, m), a, c, runs2)
<1>1. PICK w \in Seq(Nat) : Carries(near \o w, a, b) /\ near \o w = way
  BY DEF Flow
<1>2. way \in Seq(Nat)
  BY <1>1, ConcatProperties
<1>3. Carries(Append(way, m), a, c)
  BY <1>1, <1>2, CarriesAppend
<1>4. Append(w, m) \in Seq(Nat) /\ near \o Append(w, m) = Append(way, m)
  BY <1>1, AppendProperties, ConcatAppend
<1>5. QED
  BY <1>3, <1>4 DEF Flow

(* What follows moves on, though some of it may be lost with the loop. *)
LEMMA FlowMoves ==
  ASSUME NEW near, NEW way, NEW a, NEW b, Flow(near, way, a, b, TRUE),
         NEW near2, NEW w2 \in Seq(Nat), near2 \o w2 = way,
         NEW way2, NEW runs2 \in BOOLEAN, runs2 => way2 = way
  PROVE  Flow(near2, way2, a, b, runs2)
  BY DEF Flow

(* The side hears what is before it. *)
LEMMA FlowHeard ==
  ASSUME NEW near \in Seq(Nat), near # <<>>, NEW way, NEW a \in Nat, NEW b \in Nat,
         NEW runs \in BOOLEAN, Flow(near, way, a, b, runs)
  PROVE  \/ Head(near) = Noise /\ Flow(Tail(near), Tail(way), a, b, runs)
         \/ /\ Head(near) = a + 1 /\ a + 1 <= b
            /\ Flow(Tail(near), Tail(way), a + 1, b, runs)
<1>1. PICK w \in Seq(Nat) : Carries(near \o w, a, b) /\ (runs => near \o w = way)
  BY DEF Flow
<1>2. near \o w \in Seq(Nat) /\ near \o w # <<>>
  BY <1>1, ConcatProperties, ConcatEqualIffEmpty
<1>3. Head(near \o w) = Head(near) /\ Tail(near \o w) = Tail(near) \o w
  BY <1>1, ConcatTail
<1>4. \/ Head(near) = Noise /\ Carries(Tail(near) \o w, a, b)
      \/ Head(near) = a + 1 /\ a + 1 <= b /\ Carries(Tail(near) \o w, a + 1, b)
  <2> DEFINE q == near \o w
  <2>1. q \in Seq(Nat) /\ q # <<>> /\ Carries(q, a, b)
    BY <1>1, <1>2
  <2> HIDE DEF q
  <2>2. \/ Head(q) = Noise /\ Carries(Tail(q), a, b)
        \/ Head(q) = a + 1 /\ a + 1 <= b /\ Carries(Tail(q), a + 1, b)
    BY <2>1, CarriesTail
  <2>3. QED
    BY <1>3, <2>2 DEF q
<1>5. runs => Tail(near) \o w = Tail(way)
  BY <1>1, <1>3
<1>6. QED
  BY <1>4, <1>5 DEF Flow

-----------------------------------------------------------------------------
(* What a side hears goes after what it heard. *)
LEMMA HeardInOrder ==
  ASSUME TypeOK, StreamInv, NEW s \in Sides, NEW near \in {up, back}, near # <<>>, NEW way,
         Flow(near, way, Len(heard[s]), said[Peer(s)], Running), Note(s, Head(near)), UNCHANGED said
  PROVE  /\ \A t \in Sides : heard'[t] = OneTo(Len(heard'[t])) /\ Len(heard'[t]) <= said'[Peer(t)]
         /\ \A t \in Sides \ {s} : heard'[t] = heard[t]
         /\ Flow(Tail(near), Tail(way), Len(heard'[s]), said'[Peer(s)], Running)
         /\ \/ heard' = heard
            \/ /\ Len(heard[s]) < said[Peer(s)]
               /\ heard' = [heard EXCEPT ![s] = Append(@, Len(@) + 1)]
<1> DEFINE a == Len(heard[s])
           b == said[Peer(s)]
<1>1. near \in Seq(Nat) /\ heard \in [Sides -> Seq(Numbers)] /\ a \in Nat /\ b \in Nat
  BY LenProperties DEF TypeOK, Peer
<1>2. heard[s] = OneTo(a) /\ a <= b
  BY DEF StreamInv
<1>3. \/ Head(near) = Noise /\ Flow(Tail(near), Tail(way), a, b, Running)
      \/ Head(near) = a + 1 /\ a + 1 <= b /\ Flow(Tail(near), Tail(way), a + 1, b, Running)
  <2> DEFINE runs == Running
             m == Head(near)
  <2>1. Flow(near, way, a, b, runs) /\ runs \in BOOLEAN
    BY DEF Running
  <2> HIDE DEF a, b, runs
  <2>2. a \in Nat /\ b \in Nat /\ near \in Seq(Nat) /\ near # <<>>
    BY <1>1
  <2>3. \/ Head(near) = Noise /\ Flow(Tail(near), Tail(way), a, b, runs)
        \/ Head(near) = a + 1 /\ a + 1 <= b /\ Flow(Tail(near), Tail(way), a + 1, b, runs)
    BY <2>1, <2>2, FlowHeard
  <2>4. QED
    BY <2>3 DEF runs
<1>4. CASE Head(near) = Noise
  <2>1. heard' = heard
    BY <1>4 DEF Note
  <2>2. Flow(Tail(near), Tail(way), a, b, Running)
    BY <1>1, <1>3, <1>4
  <2>3. QED
    BY <2>1, <2>2 DEF StreamInv
<1>5. CASE Head(near) # Noise
  <2>1. Head(near) = a + 1 /\ a + 1 <= b /\ Flow(Tail(near), Tail(way), a + 1, b, Running)
    BY <1>3, <1>5
  <2>2. heard' = [heard EXCEPT ![s] = Append(heard[s], a + 1)]
    BY <1>5, <2>1 DEF Note
  <2>3. heard'[s] = Append(heard[s], a + 1) /\ \A t \in Sides \ {s} : heard'[t] = heard[t]
    BY <1>1, <2>2
  <2>4. Len(heard'[s]) = a + 1 /\ heard'[s] = OneTo(a + 1)
    <3> HIDE DEF a
    <3>1. heard[s] \in Seq(Numbers) /\ heard[s] = [i \in 1..a |-> i] /\ Len(heard[s]) = a
      BY <1>1, <1>2 DEF OneTo, a
    <3>2. a + 1 \in Numbers
      BY <1>1
    <3> DEFINE h == Append(heard[s], a + 1)
    <3>3. /\ h \in Seq(Numbers) /\ Len(h) = a + 1 /\ h[a + 1] = a + 1
          /\ \A i \in 1..a : h[i] = heard[s][i]
      BY <1>1, <3>1, <3>2, AppendProperties
    <3>4. DOMAIN h = 1..(a + 1) /\ h = [i \in DOMAIN h |-> h[i]]
      BY <3>3, LenProperties
    <3>5. \A i \in 1..(a + 1) : h[i] = i
      BY <1>1, <3>1, <3>3
    <3> HIDE DEF h
    <3>6. h = [i \in 1..(a + 1) |-> i]
      BY <3>4, <3>5
    <3>7. QED
      BY <2>3, <3>3, <3>6 DEF OneTo, h
  <2>5. said' = said
    OBVIOUS
  <2>6. ASSUME NEW t \in Sides
        PROVE  heard'[t] = OneTo(Len(heard'[t])) /\ Len(heard'[t]) <= said'[Peer(t)]
    <3>1. CASE t = s
      BY <2>1, <2>4, <2>5, <3>1
    <3>2. CASE t # s
      BY <2>3, <2>5, <3>2 DEF StreamInv
    <3>3. QED
      BY <3>1, <3>2
  <2>7. Flow(Tail(near), Tail(way), Len(heard'[s]), said'[Peer(s)], Running)
    BY <2>1, <2>4, <2>5
  <2>8. a < b
    BY <1>1, <2>1
  <2>9. QED
    BY <2>2, <2>3, <2>6, <2>7, <2>8
<1>6. QED
  BY <1>4, <1>5

(* A step in which nobody says or hears anything. *)
LEMMA SilentStep ==
  ASSUME StreamInv, UNCHANGED <<said, heard>>, \A s \in Sides : open'[s] => open[s],
         open["target"]' => \E w \in Seq(Nat) :
            \/ up' = up /\ (Running' => Running /\ Upward' = Upward)
            \/ Running /\ up' \o w = Upward /\ (Running' => Upward' = Upward),
         open["client"]' => \E w \in Seq(Nat) :
            \/ back' = back /\ (Running' => Running /\ Downward' = Downward)
            \/ Running /\ back' \o w = Downward /\ (Running' => Downward' = Downward)
  PROVE  StreamInv'
<1>0. Running \in BOOLEAN /\ Running' \in BOOLEAN
  BY DEF Running
<1>1. ASSUME open["target"]'
      PROVE  Flow(up', Upward', Len(heard'["target"]), said'["client"], Running')
  <2>1. Flow(up, Upward, Len(heard["target"]), said["client"], Running)
    BY <1>1 DEF StreamInv
  <2>2. PICK w \in Seq(Nat) :
           \/ up' = up /\ (Running' => Running /\ Upward' = Upward)
           \/ Running /\ up' \o w = Upward /\ (Running' => Upward' = Upward)
    BY <1>1
  <2> DEFINE a == Len(heard["target"])
             b == said["client"]
             runs == Running'
             next == Upward'
             rest == up'
  <2> HIDE DEF a, b, runs, next, rest
  <2>3. CASE up' = up /\ (Running' => Running /\ Upward' = Upward)
    <3>1. Flow(up, Upward, a, b, Running) /\ rest = up /\ (runs => Running /\ next = Upward)
      BY <2>1, <2>3 DEF a, b, runs, next, rest
    <3>2. runs \in BOOLEAN
      BY <1>0 DEF runs
    <3>3. Flow(up, next, a, b, runs)
      BY <1>0, <3>1, <3>2, FlowStays
    <3>4. QED
      BY <3>1, <3>3 DEF a, b, runs, next, rest
  <2>4. CASE Running /\ up' \o w = Upward /\ (Running' => Upward' = Upward)
    <3>1. Flow(up, Upward, a, b, TRUE) /\ rest \o w = Upward /\ (runs => next = Upward)
      BY <1>0, <2>1, <2>4 DEF a, b, runs, next, rest
    <3>2. runs \in BOOLEAN
      BY <1>0 DEF runs
    <3>3. Flow(rest, next, a, b, runs)
      BY <2>2, <3>1 DEF Flow
    <3>4. QED
      BY <3>3 DEF a, b, runs, next, rest
  <2>5. QED
    BY <2>2, <2>3, <2>4
<1>2. ASSUME open["client"]'
      PROVE  Flow(back', Downward', Len(heard'["client"]), said'["target"], Running')
  <2>1. Flow(back, Downward, Len(heard["client"]), said["target"], Running)
    BY <1>2 DEF StreamInv
  <2>2. PICK w \in Seq(Nat) :
           \/ back' = back /\ (Running' => Running /\ Downward' = Downward)
           \/ Running /\ back' \o w = Downward /\ (Running' => Downward' = Downward)
    BY <1>2
  <2> DEFINE a == Len(heard["client"])
             b == said["target"]
             runs == Running'
             next == Downward'
             rest == back'
  <2> HIDE DEF a, b, runs, next, rest
  <2>3. CASE back' = back /\ (Running' => Running /\ Downward' = Downward)
    <3>1. Flow(back, Downward, a, b, Running) /\ rest = back /\ (runs => Running /\ next = Downward)
      BY <2>1, <2>3 DEF a, b, runs, next, rest
    <3>2. runs \in BOOLEAN
      BY <1>0 DEF runs
    <3>3. Flow(back, next, a, b, runs)
      BY <1>0, <3>1, <3>2, FlowStays
    <3>4. QED
      BY <3>1, <3>3 DEF a, b, runs, next, rest
  <2>4. CASE Running /\ back' \o w = Downward /\ (Running' => Downward' = Downward)
    <3>1. Flow(back, Downward, a, b, TRUE) /\ rest \o w = Downward /\ (runs => next = Downward)
      BY <1>0, <2>1, <2>4 DEF a, b, runs, next, rest
    <3>2. runs \in BOOLEAN
      BY <1>0 DEF runs
    <3>3. Flow(rest, next, a, b, runs)
      BY <2>2, <3>1 DEF Flow
    <3>4. QED
      BY <3>3 DEF a, b, runs, next, rest
  <2>5. QED
    BY <2>2, <2>3, <2>4
<1>3. QED
  BY <1>1, <1>2 DEF StreamInv

(* The streams keep their order and all that is on its way. *)
LEMMA HostsKeepStreams ==
  ASSUME TypeOK, StreamInv,
         \/ \E s \in Sides : Say(s)
         \/ Chatter \/ ClientHears \/ TargetHears
         \/ ConnectLocal \/ ConnectRefused
         \/ TargetCloses \/ ConnectFails \/ LeaveTarget \/ LeaveJump
  PROVE  StreamInv'
<1>1. /\ \A p \in {local, up, down, back, hold} : p \in Seq(Nat)
      /\ said \in [Sides -> Nat] /\ heard \in [Sides -> Seq(Numbers)]
  BY DEF TypeOK
<1> DEFINE bu == Buffered("write_channel")
           bd == Buffered("write_local")
<1>2. bu \in Seq(Nat) /\ bd \in Seq(Nat)
  BY <1>1, EmptySeq DEF Buffered
<1>3. Upward = (up \o bu) \o local /\ Downward = (back \o bd) \o down
  BY DEF Upward, Downward
<1>4. up \o bu \in Seq(Nat) /\ back \o bd \in Seq(Nat) /\ Upward \in Seq(Nat) /\ Downward \in Seq(Nat)
  <2> HIDE DEF bu, bd
  <2>1. up \o bu \in Seq(Nat) /\ back \o bd \in Seq(Nat)
    BY <1>1, <1>2, ConcatProperties
  <2>2. QED
    BY <1>1, <1>3, <2>1, ConcatProperties
<1>5. \A m \in Nat : /\ (up \o bu) \o Append(local, m) = Append(Upward, m)
                     /\ (back \o bd) \o Append(down, m) = Append(Downward, m)
  <2> DEFINE u == up \o bu
             d == back \o bd
  <2>1. u \in Seq(Nat) /\ d \in Seq(Nat) /\ Upward = u \o local /\ Downward = d \o down
    BY <1>3, <1>4
  <2> HIDE DEF u, d
  <2>2. \A m \in Nat : u \o Append(local, m) = Append(Upward, m) /\ d \o Append(down, m) = Append(Downward, m)
    BY <1>1, <2>1, ConcatAppend, ZenonT(60)
  <2>3. QED
    BY <2>2 DEF u, d
<1>6. /\ \A s \in Sides : Len(heard[s]) \in Nat /\ said[s] \in Nat /\ Len(heard[s]) <= said[Peer(s)]
      /\ Peer("client") = "target" /\ Peer("target") = "client"
  BY <1>1, LenProperties DEF StreamInv, Peer
<1>7. ASSUME NEW s \in Sides, Say(s)
      PROVE  StreamInv'
  <2>1. /\ Running /\ Running' /\ UNCHANGED <<heard, open, up, back>> /\ bu' = bu /\ bd' = bd
        /\ said' = [said EXCEPT ![s] = @ + 1]
    BY <1>7 DEF Say, MaySay, Running, Buffered
  <2>2. \A t \in Sides : heard'[t] = OneTo(Len(heard'[t])) /\ Len(heard'[t]) <= said'[Peer(t)]
    <3>1. \A t \in Sides : said[Peer(t)] <= said'[Peer(t)] /\ said'[Peer(t)] \in Nat /\ said[Peer(t)] \in Nat
      BY <1>1, <2>1 DEF Peer
    <3>2. QED
      BY <1>6, <2>1, <3>1 DEF StreamInv
  <2>3. CASE s = "client"
    <3>1. said'["client"] = said["client"] + 1 /\ said'["target"] = said["target"]
      BY <1>1, <2>1, <2>3
    <3>2. local' = Append(local, said["client"] + 1) /\ down' = down
      BY <1>7, <2>3, <3>1 DEF Say
    <3>3. Upward' = Append(Upward, said["client"] + 1) /\ Downward' = Downward
      <4>1. Upward' = (up \o bu) \o Append(local, said["client"] + 1) /\ Downward' = (back \o bd) \o down
        BY <2>1, <3>2 DEF Upward, Downward
      <4>2. said["client"] + 1 \in Nat
        BY <1>6
      <4>3. QED
        BY <1>3, <1>5, <4>1, <4>2
    <3>4. open["target"] => Flow(up, Append(Upward, said["client"] + 1), Len(heard["target"]),
                                 said["client"] + 1, TRUE)
      <4> DEFINE a == Len(heard["target"])
                 b == said["client"]
      <4>1. open["target"] => Flow(up, Upward, a, b, TRUE)
        BY <2>1 DEF StreamInv
      <4>2. a \in Nat /\ b \in Nat /\ a <= b
        BY <1>6
      <4> HIDE DEF a, b
      <4>3. b + 1 \in Nat
        BY <4>2
      <4>4. open["target"] => Flow(up, Append(Upward, b + 1), a, b + 1, TRUE)
        BY <1>1, <4>1, <4>2, <4>3, FlowGrows
      <4>5. QED
        BY <4>4 DEF a, b
    <3>5. QED
      BY <2>1, <2>2, <3>1, <3>3, <3>4 DEF StreamInv
  <2>4. CASE s = "target"
    <3>1. said'["target"] = said["target"] + 1 /\ said'["client"] = said["client"]
      BY <1>1, <2>1, <2>4
    <3>2. down' = Append(down, said["target"] + 1) /\ local' = local
      BY <1>7, <2>4, <3>1 DEF Say
    <3>3. Downward' = Append(Downward, said["target"] + 1) /\ Upward' = Upward
      <4>1. Downward' = (back \o bd) \o Append(down, said["target"] + 1) /\ Upward' = (up \o bu) \o local
        BY <2>1, <3>2 DEF Upward, Downward
      <4>2. said["target"] + 1 \in Nat
        BY <1>6
      <4>3. QED
        BY <1>3, <1>5, <4>1, <4>2
    <3>4. open["client"] => Flow(back, Append(Downward, said["target"] + 1), Len(heard["client"]),
                                 said["target"] + 1, TRUE)
      <4> DEFINE a == Len(heard["client"])
                 b == said["target"]
      <4>1. open["client"] => Flow(back, Downward, a, b, TRUE)
        BY <2>1 DEF StreamInv
      <4>2. a \in Nat /\ b \in Nat /\ a <= b
        BY <1>6
      <4> HIDE DEF a, b
      <4>3. b + 1 \in Nat
        BY <4>2
      <4>4. open["client"] => Flow(back, Append(Downward, b + 1), a, b + 1, TRUE)
        BY <1>1, <4>1, <4>2, <4>3, FlowGrows
      <4>5. QED
        BY <4>4 DEF a, b
    <3>5. QED
      BY <2>1, <2>2, <3>1, <3>3, <3>4 DEF StreamInv
  <2>5. QED
    BY <2>3, <2>4
<1>8. CASE Chatter
  <2>1. /\ Running /\ Running' /\ UNCHANGED <<heard, open, up, back, said, local>> /\ bu' = bu /\ bd' = bd
        /\ down' = Append(down, Noise)
    BY <1>8 DEF Chatter, hosts, Running, Buffered
  <2>2. Downward' = Append(Downward, Noise) /\ Upward' = Upward
    <3>1. Downward' = (back \o bd) \o Append(down, Noise) /\ Upward' = (up \o bu) \o local
      BY <2>1 DEF Upward, Downward
    <3>2. QED
      BY <1>3, <1>5, <3>1
  <2>3. open["client"] => Flow(back, Append(Downward, Noise), Len(heard["client"]), said["target"], TRUE)
    <3> DEFINE a == Len(heard["client"])
               b == said["target"]
    <3>1. open["client"] => Flow(back, Downward, a, b, TRUE)
      BY <2>1 DEF StreamInv
    <3>2. a \in Nat /\ b \in Nat /\ a <= b
      BY <1>6
    <3> HIDE DEF a, b
    <3>3. open["client"] => Flow(back, Append(Downward, Noise), a, b, TRUE)
      BY <1>1, <3>1, <3>2, FlowGrows
    <3>4. QED
      BY <3>3 DEF a, b
  <2>4. QED
    BY <2>1, <2>2, <2>3 DEF StreamInv
<1>9. ASSUME NEW p \in Seq(Nat), p # <<>>, NEW q \in Seq(Nat), NEW r \in Seq(Nat)
      PROVE  Tail((p \o q) \o r) = (Tail(p) \o q) \o r
  <2> DEFINE u == p \o q
  <2>1. u \in Seq(Nat) /\ u # <<>> /\ Tail(u) = Tail(p) \o q
    BY <1>9, ConcatProperties, ConcatEqualIffEmpty, ConcatTail
  <2> HIDE DEF u
  <2>2. Tail(u \o r) = Tail(u) \o r
    BY <2>1, ConcatTail
  <2>3. QED
    BY <2>1, <2>2 DEF u
<1>10. CASE ClientHears
  <2>1. /\ open["client"] /\ back # <<>> /\ Note("client", Head(back)) /\ back' = Tail(back)
        /\ UNCHANGED <<said, open, local, up, down, pc, hold>>
    BY <1>10 DEF ClientHears
  <2>2. bu' = bu /\ bd' = bd /\ Running' = Running
    BY <2>1 DEF Buffered, Running
  <2>3. Upward' = Upward /\ Downward' = Tail(Downward)
    <3>1. Upward' = (up \o bu) \o local /\ Downward' = (Tail(back) \o bd) \o down
      BY <2>1, <2>2 DEF Upward, Downward
    <3> HIDE DEF bu, bd
    <3>2. Tail((back \o bd) \o down) = (Tail(back) \o bd) \o down
      BY <1>1, <1>2, <1>9, <2>1
    <3>3. QED
      BY <1>3, <3>1, <3>2
  <2>4. Flow(back, Downward, Len(heard["client"]), said[Peer("client")], Running)
    BY <1>6, <2>1 DEF StreamInv
  <2>5. /\ \A t \in Sides : heard'[t] = OneTo(Len(heard'[t])) /\ Len(heard'[t]) <= said'[Peer(t)]
        /\ heard'["target"] = heard["target"]
        /\ Flow(Tail(back), Tail(Downward), Len(heard'["client"]), said'["target"], Running)
    BY <1>6, <2>1, <2>4, HeardInOrder
  <2>6. QED
    BY <2>1, <2>2, <2>3, <2>5 DEF StreamInv
<1>11. CASE TargetHears
  <2>1. /\ open["target"] /\ up # <<>> /\ Note("target", Head(up)) /\ up' = Tail(up)
        /\ UNCHANGED <<said, open, local, back, down, pc, hold>>
    BY <1>11 DEF TargetHears
  <2>2. bu' = bu /\ bd' = bd /\ Running' = Running
    BY <2>1 DEF Buffered, Running
  <2>3. Downward' = Downward /\ Upward' = Tail(Upward)
    <3>1. Downward' = (back \o bd) \o down /\ Upward' = (Tail(up) \o bu) \o local
      BY <2>1, <2>2 DEF Upward, Downward
    <3> HIDE DEF bu, bd
    <3>2. Tail((up \o bu) \o local) = (Tail(up) \o bu) \o local
      BY <1>1, <1>2, <1>9, <2>1
    <3>3. QED
      BY <1>3, <3>1, <3>2
  <2>4. Flow(up, Upward, Len(heard["target"]), said[Peer("target")], Running)
    BY <1>6, <2>1 DEF StreamInv
  <2>5. /\ \A t \in Sides : heard'[t] = OneTo(Len(heard'[t])) /\ Len(heard'[t]) <= said'[Peer(t)]
        /\ heard'["client"] = heard["client"]
        /\ Flow(Tail(up), Tail(Upward), Len(heard'["target"]), said'["client"], Running)
    BY <1>6, <2>1, <2>4, HeardInOrder
  <2>6. QED
    BY <2>1, <2>2, <2>3, <2>5 DEF StreamInv
<1>12. CASE \/ ConnectLocal \/ ConnectRefused
            \/ TargetCloses \/ ConnectFails \/ LeaveTarget \/ LeaveJump
  <2>1. /\ UNCHANGED <<said, heard, up, local, back, down, pc, hold>>
        /\ \A s \in Sides : open'[s] => open[s]
    BY <1>12 DEF ConnectLocal, ConnectRefused, TargetCloses, ConnectFails, LeaveTarget, LeaveJump,
                 TypeOK, pipes, hosts
  <2>2. Upward' = Upward /\ Downward' = Downward /\ Running' = Running
    BY <2>1 DEF Upward, Downward, Running, Buffered
  <2>3. QED
    BY <2>1, <2>2, SilentStep
<1>13. QED
  BY <1>7, <1>8, <1>10, <1>11, <1>12

(* A read takes a first part and leaves the rest, which still follows it.  *)
LEMMA SplitStays ==
  ASSUME NEW p \in Seq(Nat), NEW q \in Seq(Nat), NEW n \in 1..Len(q)
  PROVE  (p \o SubSeq(q, 1, n)) \o SubSeq(q, n + 1, Len(q)) = (p \o <<>>) \o q
<1>1. n \in 0..Len(q) /\ 1 \in 1..(Len(q) + 1) /\ n \in (1 - 1)..Len(q) /\ Len(q) \in n..Len(q)
  BY LenProperties
<1>2. SubSeq(q, 1, n) \o SubSeq(q, n + 1, Len(q)) = q
  BY <1>1, ConcatAdjacentSubSeq, SubSeqFull
<1>3. SubSeq(q, 1, n) \in Seq(Nat) /\ SubSeq(q, n + 1, Len(q)) \in Seq(Nat)
  BY Taken
<1>4. p \o <<>> = p
  BY ConcatEmptySeq
<1> DEFINE u == SubSeq(q, 1, n)
           v == SubSeq(q, n + 1, Len(q))
<1>5. u \in Seq(Nat) /\ v \in Seq(Nat) /\ u \o v = q
  BY <1>2, <1>3
<1> HIDE DEF u, v
<1>6. (p \o u) \o v = p \o q
  BY <1>5, Associative
<1>7. QED
  BY <1>4, <1>6 DEF u, v

LEMMA ShuttleKeepsStreams ==
  ASSUME TypeOK, StreamInv, Shuttle \/ AcceptFails
  PROVE  StreamInv'
<1>1. \A p \in {local, up, down, back, hold} : p \in Seq(Nat)
  BY DEF TypeOK
<1>2. UNCHANGED <<said, heard, open, bye>>
  BY DEF Shuttle, Accept, AcceptFails, ReadLocal, WriteChannel, ReadChannel, WriteLocal, hosts
<1>3. <<>> \in Seq(Nat)
  BY EmptySeq
<1>4. CASE Accept \/ AcceptFails
  <2>1. UNCHANGED <<up, local, back, down>> /\ Running
        /\ Buffered("write_channel")' = Buffered("write_channel")
        /\ Buffered("write_local")' = Buffered("write_local")
    BY <1>4 DEF Accept, AcceptFails, pipes, Running, Buffered
  <2>2. Upward' = Upward /\ Downward' = Downward
    BY <2>1 DEF Upward, Downward
  <2>3. QED
    BY <1>2, <1>3, <2>1, <2>2, SilentStep
<1>5. CASE ReadLocal
  <2>1. /\ UNCHANGED <<up, back, down>> /\ Running
        /\ Buffered("write_channel") = <<>> /\ Buffered("write_local") = <<>>
        /\ Buffered("write_local")' = <<>>
    BY <1>5 DEF ReadLocal, Running, Buffered
  <2>2. Downward' = Downward
    BY <2>1 DEF Downward
  <2>3. Running' => Upward' = Upward
    <3>1. ASSUME NEW n \in 1..Len(local), hold' = SubSeq(local, 1, n),
                 local' = SubSeq(local, n + 1, Len(local)), pc' = "write_channel"
          PROVE  Upward' = Upward
      <4>1. Buffered("write_channel")' = SubSeq(local, 1, n)
        BY <3>1 DEF Buffered
      <4>2. Upward' = (up \o SubSeq(local, 1, n)) \o SubSeq(local, n + 1, Len(local))
        BY <2>1, <3>1, <4>1 DEF Upward
      <4>3. Upward = (up \o <<>>) \o local
        BY <2>1 DEF Upward
      <4>4. QED
        BY <1>1, <3>1, <4>2, <4>3, SplitStays
    <3>2. ASSUME pc' = "read_channel", UNCHANGED <<local, hold>>
          PROVE  Upward' = Upward
      BY <2>1, <3>2 DEF Upward, Buffered
    <3>3. QED
      BY <1>5, <3>1, <3>2 DEF ReadLocal, Running
  <2>4. QED
    BY <1>2, <1>3, <2>1, <2>2, <2>3, SilentStep
<1>6. CASE WriteChannel
  <2>1. /\ UNCHANGED <<local, back, down>> /\ Running /\ pc' \in {"read_channel", "gone"}
        /\ Buffered("write_channel") = hold /\ Buffered("write_local") = <<>>
        /\ Buffered("write_channel")' = <<>> /\ Buffered("write_local")' = <<>>
    BY <1>6 DEF WriteChannel, Running, Buffered
  <2>2. Downward' = Downward
    BY <2>1 DEF Downward
  <2>3. CASE up' = up \o hold /\ pc' = "read_channel"
    <3>1. up' \o local = Upward
      BY <2>1, <2>3 DEF Upward
    <3>2. Upward' = up' \o local
      <4>1. up' \in Seq(Nat)
        BY <1>1, <2>3, ConcatProperties
      <4>2. up' \o <<>> = up'
        BY <4>1, ConcatEmptySeq
      <4>3. QED
        BY <2>1, <4>2 DEF Upward
    <3>3. QED
      BY <1>1, <1>2, <1>3, <2>1, <2>2, <3>1, <3>2, SilentStep
  <2>4. CASE up' = up /\ pc' = "gone"
    <3>1. ~Running'
      BY <2>4 DEF Running
    <3>2. QED
      BY <1>2, <1>3, <2>1, <2>2, <2>4, <3>1, SilentStep
  <2>5. QED
    BY <1>6, <2>3, <2>4 DEF WriteChannel
<1>7. CASE ReadChannel
  <2>1. /\ UNCHANGED <<local, back, up>> /\ Running
        /\ Buffered("write_channel") = <<>> /\ Buffered("write_local") = <<>>
        /\ Buffered("write_channel")' = <<>>
    BY <1>7 DEF ReadChannel, Running, Buffered
  <2>2. Upward' = Upward
    BY <2>1 DEF Upward
  <2>3. Running' => Downward' = Downward
    <3>1. ASSUME NEW n \in 1..Len(down), hold' = SubSeq(down, 1, n),
                 down' = SubSeq(down, n + 1, Len(down)), pc' = "write_local"
          PROVE  Downward' = Downward
      <4>1. Buffered("write_local")' = SubSeq(down, 1, n)
        BY <3>1 DEF Buffered
      <4>2. Downward' = (back \o SubSeq(down, 1, n)) \o SubSeq(down, n + 1, Len(down))
        BY <2>1, <3>1, <4>1 DEF Downward
      <4>3. Downward = (back \o <<>>) \o down
        BY <2>1 DEF Downward
      <4>4. QED
        BY <1>1, <3>1, <4>2, <4>3, SplitStays
    <3>2. QED
      BY <1>7, <3>1 DEF ReadChannel, Running
  <2>4. QED
    BY <1>2, <1>3, <2>1, <2>2, <2>3, SilentStep
<1>8. CASE WriteLocal
  <2>1. /\ UNCHANGED <<local, up, down>> /\ Running /\ pc' \in {"read_local", "gone"}
        /\ Buffered("write_channel") = <<>> /\ Buffered("write_local") = hold
        /\ Buffered("write_channel")' = <<>> /\ Buffered("write_local")' = <<>>
    BY <1>8 DEF WriteLocal, Running, Buffered
  <2>2. Upward' = Upward
    BY <2>1 DEF Upward
  <2>3. CASE back' = back \o hold /\ pc' = "read_local"
    <3>1. back' \o down = Downward
      BY <2>1, <2>3 DEF Downward
    <3>2. Downward' = back' \o down
      <4>1. back' \in Seq(Nat)
        BY <1>1, <2>3, ConcatProperties
      <4>2. back' \o <<>> = back'
        BY <4>1, ConcatEmptySeq
      <4>3. QED
        BY <2>1, <4>2 DEF Downward
    <3>3. QED
      BY <1>1, <1>2, <1>3, <2>1, <2>2, <3>1, <3>2, SilentStep
  <2>4. CASE Len(hold) > Room /\ back' = back \o SubSeq(hold, 1, Room) /\ pc' = "gone"
    <3>1. ~Running'
      BY <2>4 DEF Running
    <3>2. Room \in Int /\ Room < Len(hold)
      BY <1>1, <2>4, LenProperties DEF Room
    <3>3. back \in Seq(Nat) /\ hold \in Seq(Nat) /\ down \in Seq(Nat)
      BY <1>1
    <3>4. Begins(back \o Part(hold, Room), (back \o hold) \o down)
      BY <3>2, <3>3, CutShort
    <3>5. PICK w \in Seq(Nat) : back' \o w = Downward
      BY <2>1, <2>4, <3>4 DEF Downward, Begins, Part
    <3>6. QED
      BY <1>2, <1>3, <2>1, <2>2, <3>1, <3>5, SilentStep
  <2>5. CASE ~open["client"]
    <3>1. ~open["client"]'
      BY <1>2, <2>5
    <3>2. QED
      BY <1>2, <1>3, <2>1, <2>2, <3>1, SilentStep
  <2>6. QED
    BY <1>8, <2>3, <2>4, <2>5 DEF WriteLocal
<1>9. QED
  BY <1>4, <1>5, <1>6, <1>7, <1>8 DEF Shuttle

LEMMA StreamsInvariant == Spec => [](TypeOK /\ StreamInv)
<1>1. Init => StreamInv
  <2> SUFFICES ASSUME Init
               PROVE  StreamInv
    OBVIOUS
  <2>1. <<>> \in Seq(Nat) /\ Len(<<>>) = 0 /\ <<>> = [i \in 1..0 |-> i] /\ <<>> \o <<>> = <<>>
    BY EmptySeq, ConcatEmptySeq
  <2>2. Carries(<<>>, 0, 0)
    <3>1. DOMAIN <<>> = {} /\ Range(<<>>) = {} /\ (0 + 1)..0 = {}
      BY LenProperties, <2>1 DEF Range
    <3>2. QED
      BY <3>1 DEF Carries
  <2>3. Upward = <<>> /\ Downward = <<>>
    BY <2>1 DEF Init, Upward, Downward, Buffered
  <2>4. OneTo(0) = <<>>
    BY <2>1 DEF OneTo
  <2>5. /\ \A s \in Sides : heard[s] = <<>> /\ said[s] = 0 /\ said[Peer(s)] = 0
        /\ up = <<>> /\ back = <<>>
    BY DEF Init, Peer
  <2>6. Flow(<<>>, <<>>, 0, 0, Running)
    BY <2>1, <2>2 DEF Flow
  <2>7. QED
    BY <2>1, <2>3, <2>4, <2>5, <2>6 DEF StreamInv
<1>2. TypeOK /\ StreamInv /\ [Next]_vars => StreamInv'
  <2> SUFFICES ASSUME TypeOK, StreamInv, [Next]_vars
               PROVE  StreamInv'
    OBVIOUS
  <2>1. CASE Next
    BY <2>1, HostsKeepStreams, ShuttleKeepsStreams DEF Next
  <2>2. CASE UNCHANGED vars
    BY <2>2 DEF vars, hosts, pipes, StreamInv, Running, Upward, Downward, Buffered
  <2>3. QED
    BY <2>1, <2>2
<1>3. QED
  BY <1>1, <1>2, TunnelTypeCorrect, PTL DEF Spec

(* What a side said and the other has not heard is in the socket, in `buf` *)
(* or in the channel, in order and once, while the loop runs and both hold *)
(* on, however reads and writes divide it and however small the socket is. *)
THEOREM NothingIsMissing == Spec => []NothingMissing
<1>1. StreamInv => NothingMissing
  <2> SUFFICES ASSUME StreamInv, Running, BothOpen
               PROVE  AllOf("target", Upward) /\ AllOf("client", Downward)
    BY DEF NothingMissing, Running
  <2>1. /\ Carries(Upward, Len(heard["target"]), said["client"])
        /\ Carries(Downward, Len(heard["client"]), said["target"])
    BY DEF StreamInv, Flow, BothOpen
  <2>2. QED
    BY <2>1 DEF StreamInv, AllOf, Peer
<1>2. QED
  BY <1>1, StreamsInvariant, PTL

(* The tunnel is a pair of streams: what a side receives is the next       *)
(* message that the other side sent, until it hangs up or the loop is      *)
(* left, which only ends the stream.                                       *)
THEOREM TunnelImplementsStreams == Spec => ImplementsTunnel
<1> DEFINE sent == [s \in Sides |-> OneTo(said[s])]
<1>1. Init => Streams!Init
  <2>1. <<>> = [i \in 1..0 |-> i]
    BY EmptySeq
  <2>2. QED
    BY <2>1 DEF Init, Streams!Init, Streams!Sides, OneTo
<1>2. ASSUME TypeOK, StreamInv, [Next]_vars
      PROVE  [Streams!Next]_<<sent, heard>>
  <2>1. /\ \A p \in {local, up, down, back, hold} : p \in Seq(Nat)
        /\ said \in [Sides -> Nat] /\ heard \in [Sides -> Seq(Numbers)]
    BY <1>2 DEF TypeOK
  <2>2. ASSUME NEW s \in Sides, Say(s)
        PROVE  Streams!Send(s)
    <3>1. /\ said' = [said EXCEPT ![s] = @ + 1] /\ heard' = heard
          /\ said[s] < Len(Needs[s])
      BY <2>2 DEF Say, MaySay
    <3>2. said[s] + 1 \in 1..(Len(Needs["client"]) + Len(Needs["target"]))
      <4>1. Len(Needs["client"]) \in Nat /\ Len(Needs["target"]) \in Nat
        BY LenProperties
      <4>2. QED
        BY <2>1, <3>1, <4>1, SMTT(30)
    <3>3. OneTo(said[s] + 1) = Append(OneTo(said[s]), said[s] + 1)
      <4> DEFINE n == said[s]
                 g == OneTo(n)
                 h == OneTo(n + 1)
      <4>1. n \in Nat
        BY <2>1
      <4> HIDE DEF n
      <4>2. g \in Seq(Nat) /\ Len(g) = n /\ h \in Seq(Nat) /\ Len(h) = n + 1
        BY <4>1, IsASeq DEF OneTo
      <4>3. /\ \A i \in 1..n : g[i] = i
            /\ \A i \in 1..(n + 1) : h[i] = i
        BY <4>1 DEF OneTo
      <4> HIDE DEF g, h
      <4>4. Append(g, n + 1) \in Seq(Nat) /\ Len(Append(g, n + 1)) = n + 1
        BY <4>1, <4>2, AppendProperties
      <4>5. \A i \in 1..(n + 1) : Append(g, n + 1)[i] = h[i]
        BY <4>1, <4>2, <4>3, AppendProperties
      <4>6. h = Append(g, n + 1)
        BY <4>2, <4>4, <4>5, SeqEqual
      <4>7. QED
        BY <4>6 DEF n, g, h
    <3>4. sent' = [sent EXCEPT ![s] = Append(@, said[s] + 1)]
      BY <2>1, <3>1, <3>3
    <3>5. QED
      BY <3>1, <3>2, <3>4 DEF Streams!Send
  <2>3. ASSUME NEW s \in Sides, Len(heard[s]) < said[Peer(s)], said' = said,
               heard' = [heard EXCEPT ![s] = Append(@, Len(@) + 1)]
        PROVE  Streams!Receive(s)
    <3>1. Streams!Peer(s) = Peer(s) /\ Peer(s) \in Sides
      BY DEF Streams!Peer, Peer
    <3>2. sent[Peer(s)] = OneTo(said[Peer(s)]) /\ sent' = sent
      BY <2>3, <3>1
    <3>3. Len(OneTo(said[Peer(s)])) = said[Peer(s)] /\ Len(heard[s]) \in Nat
      BY <2>1, <3>1, LenProperties DEF OneTo
    <3>4. OneTo(said[Peer(s)])[Len(heard[s]) + 1] = Len(heard[s]) + 1
      BY <2>1, <2>3, <3>1, <3>3 DEF OneTo
    <3>5. QED
      BY <2>3, <3>1, <3>2, <3>3, <3>4 DEF Streams!Receive
  <2>4. CASE \/ Chatter \/ ConnectLocal \/ ConnectRefused \/ TargetCloses \/ ConnectFails
             \/ LeaveTarget \/ LeaveJump \/ AcceptFails \/ Shuttle \/ UNCHANGED vars
    <3>1. said' = said /\ heard' = heard
      BY <2>4 DEF Chatter, ConnectLocal, ConnectRefused, TargetCloses, ConnectFails, LeaveTarget,
                  LeaveJump, vars, hosts, AcceptFails, Shuttle, Accept, ReadLocal, WriteChannel, ReadChannel, WriteLocal
    <3>2. QED
      BY <3>1
  <2>5. CASE ClientHears
    <3>1. /\ open["client"] /\ back # <<>> /\ Note("client", Head(back)) /\ said' = said
      BY <2>5 DEF ClientHears
    <3>2. Flow(back, Downward, Len(heard["client"]), said[Peer("client")], Running)
      BY <1>2, <3>1 DEF StreamInv, Peer
    <3>3. \/ heard' = heard
          \/ /\ Len(heard["client"]) < said[Peer("client")]
             /\ heard' = [heard EXCEPT !["client"] = Append(@, Len(@) + 1)]
      BY <1>2, <3>1, <3>2, HeardInOrder
    <3>4. QED
      BY <2>3, <3>1, <3>3 DEF Streams!Next, Streams!Sides
  <2>6. CASE TargetHears
    <3>1. /\ open["target"] /\ up # <<>> /\ Note("target", Head(up)) /\ said' = said
      BY <2>6 DEF TargetHears
    <3>2. Flow(up, Upward, Len(heard["target"]), said[Peer("target")], Running)
      BY <1>2, <3>1 DEF StreamInv, Peer
    <3>3. \/ heard' = heard
          \/ /\ Len(heard["target"]) < said[Peer("target")]
             /\ heard' = [heard EXCEPT !["target"] = Append(@, Len(@) + 1)]
      BY <1>2, <3>1, <3>2, HeardInOrder
    <3>4. QED
      BY <2>3, <3>1, <3>3 DEF Streams!Next, Streams!Sides
  <2>7. QED
    BY <1>2, <2>2, <2>4, <2>5, <2>6 DEF Next, Streams!Next, Streams!Sides
<1>3. QED
  BY <1>1, <1>2, StreamsInvariant, PTL DEF Spec, ImplementsTunnel, Streams!Spec
=============================================================================
