-------------------------- MODULE StreamFlowProofs --------------------------
(***************************************************************************)
(* Proofs of the safety properties of StreamFlow, for any set of readers,  *)
(* any bounds and any set of methods.                                      *)
(*                                                                         *)
(* The loops of the read methods are recursive functions.  Induction over  *)
(* the natural numbers is proved here from the pigeonhole principle, and    *)
(* with it what a loop has reached after each round.  The core of the       *)
(* invariant is Consistent: the pieces in the buffer are consecutive bytes, *)
(* the first of them cut at the offset, and the counters, what was read and *)
(* the ends of chunks agree with them.                                      *)
(***************************************************************************)
EXTENDS StreamFlow, SequenceTheorems, FiniteSetTheorems, TLAPS

-----------------------------------------------------------------------------
(* Induction and loops.                                                    *)

\* A set of naturals with 0 that is closed under successor is all of them: its
\* members up to one that is missing would map one to one to those but 0.
LEMMA InductionOnSets ==
  ASSUME NEW P \in SUBSET Nat, 0 \in P, \A n \in P : n + 1 \in P
  PROVE  P = Nat
<1> SUFFICES ASSUME NEW m \in Nat, m \notin P PROVE FALSE
  OBVIOUS
<1> DEFINE Q == P \cap 0 .. m
           next == [k \in Q |-> k + 1]
<1>1. IsFiniteSet(Q) /\ 0 \in Q
  <2>1. IsFiniteSet(0 .. m) /\ Q \in SUBSET (0 .. m)
    BY FS_Interval
  <2> QED
    BY <2>1, FS_Subset
<1>2. /\ IsFiniteSet(Q \ {0}) /\ Cardinality(Q \ {0}) = Cardinality(Q) - 1
      /\ Cardinality(Q) \in Nat
  BY <1>1, FS_RemoveElement, FS_CardinalityType
<1>3. next \in [Q -> Q \ {0}]
  OBVIOUS
<1>4. \E x, y \in Q : x # y /\ next[x] = next[y]
  <2> HIDE DEF Q, next
  <2> QED
    BY <1>1, <1>2, <1>3, FS_PigeonHole
<1> QED
  BY <1>4

\* A loop starts where it starts, and each round goes on from the last one.
LEMMA RoundsExist ==
  ASSUME NEW a, NEW step
  PROVE  /\ Rounds(a, step)[0] = a
         /\ \A i \in Nat : Rounds(a, step)[i + 1] = step[Rounds(a, step)[i]]
<1> DEFINE Upto(g, k) == g = [i \in 0 .. k |-> IF i = 0 THEN a ELSE step[g[i - 1]]]
           upto == [k \in Nat |-> CHOOSE g : Upto(g, k)]
           f == [k \in Nat |-> upto[k][k]]
<1>1. ASSUME NEW g, NEW k \in Nat, Upto(g, k), NEW i \in 0 .. k
      PROVE  g[i] = IF i = 0 THEN a ELSE step[g[i - 1]]
  <2> DEFINE h == [j \in 0 .. k |-> IF j = 0 THEN a ELSE step[g[j - 1]]]
  <2>1. h[i] = IF i = 0 THEN a ELSE step[g[i - 1]]
    OBVIOUS
  <2>2. g = h
    BY <1>1, Zenon
  <2> QED
    BY <2>1, <2>2, Zenon
<1>2. \A k \in Nat : \E g : Upto(g, k)
  <2> DEFINE P == {k \in Nat : \E g : Upto(g, k)}
  <2>1. 0 \in P
    <3> DEFINE g == [i \in 0 .. 0 |-> a]
    <3>1. g = [i \in 0 .. 0 |-> IF i = 0 THEN a ELSE step[g[i - 1]]]
      OBVIOUS
    <3> HIDE DEF g
    <3> QED
      BY <3>1, Zenon
  <2>2. ASSUME NEW k \in P PROVE k + 1 \in P
    <3>1. PICK g : Upto(g, k)
      OBVIOUS
    <3> DEFINE h == [i \in 0 .. k + 1 |-> IF i = 0 THEN a ELSE step[g[i - 1]]]
    <3>2. \A i \in 0 .. k : h[i] = g[i]
      BY <1>1, <3>1
    <3>3. h = [i \in 0 .. k + 1 |-> IF i = 0 THEN a ELSE step[h[i - 1]]]
      <4>1. \A i \in 0 .. k + 1 : i # 0 => i - 1 \in 0 .. k
        OBVIOUS
      <4>2. \A i \in 0 .. k + 1 : i # 0 => h[i - 1] = g[i - 1]
        <5> HIDE DEF h
        <5> QED
          BY <3>2, <4>1
      <4> QED
        BY <4>2
    <3> HIDE DEF h
    <3>4. Upto(h, k + 1)
      BY <3>3, Zenon
    <3> QED
      BY <3>4
  <2> HIDE DEF P
  <2>3. P = Nat
    BY <2>1, <2>2, InductionOnSets DEF P
  <2> QED
    BY <2>3 DEF P
<1>3. \A k \in Nat : Upto(upto[k], k)
  BY <1>2
<1>4. ASSUME NEW k \in Nat, NEW l \in 0 .. k PROVE upto[k][l] = upto[l][l]
  <2> DEFINE P == {i \in Nat : i <= l => upto[k][i] = upto[l][i]}
  <2>1. 0 \in P
    <3>1. 0 \in 0 .. k /\ 0 \in 0 .. l /\ l \in Nat
      OBVIOUS
    <3>2. upto[k][0] = a /\ upto[l][0] = a
      <4> HIDE DEF upto, Upto
      <4> QED
        BY <1>1, <1>3, <3>1
    <3> QED
      BY <3>2
  <2>2. ASSUME NEW i \in P PROVE i + 1 \in P
    <3> SUFFICES ASSUME i + 1 <= l PROVE upto[k][i + 1] = upto[l][i + 1]
      OBVIOUS
    <3>1. i + 1 \in 0 .. k /\ i + 1 \in 0 .. l /\ i + 1 # 0 /\ (i + 1) - 1 = i /\ l \in Nat
      OBVIOUS
    <3>2. upto[k][i] = upto[l][i]
      OBVIOUS
    <3> HIDE DEF upto, Upto
    <3>3. upto[k][i + 1] = step[upto[k][i]] /\ upto[l][i + 1] = step[upto[l][i]]
      BY <1>1, <1>3, <3>1
    <3> QED
      BY <3>2, <3>3
  <2> HIDE DEF P
  <2>3. P = Nat
    BY <2>1, <2>2, InductionOnSets DEF P
  <2>4. l \in P
    BY <2>3
  <2> QED
    BY <2>4 DEF P
<1>5. ASSUME NEW k \in Nat PROVE f[k] = IF k = 0 THEN a ELSE step[f[k - 1]]
  <2>1. upto[k][k] = IF k = 0 THEN a ELSE step[upto[k][k - 1]]
    <3> HIDE DEF upto, Upto
    <3> QED
      BY <1>1, <1>3
  <2>2. k # 0 => upto[k][k - 1] = upto[k - 1][k - 1]
    <3>1. k # 0 => k - 1 \in 0 .. k
      OBVIOUS
    <3> HIDE DEF upto
    <3> QED
      BY <1>4, <3>1
  <2>3. f[k] = upto[k][k] /\ (k # 0 => f[k - 1] = upto[k - 1][k - 1])
    OBVIOUS
  <2> QED
    BY <2>1, <2>2, <2>3
<1>6. f = [k \in Nat |-> IF k = 0 THEN a ELSE step[f[k - 1]]]
  <2> HIDE DEF upto
  <2> QED
    BY <1>5
<1> DEFINE r == Rounds(a, step)
<1>7. r = [k \in Nat |-> IF k = 0 THEN a ELSE step[r[k - 1]]]
  <2> HIDE DEF f
  <2>1. \E g : g = [k \in Nat |-> IF k = 0 THEN a ELSE step[g[k - 1]]]
    BY <1>6, Zenon
  <2>2. r = CHOOSE g : g = [k \in Nat |-> IF k = 0 THEN a ELSE step[g[k - 1]]]
    BY DEF Rounds
  <2> HIDE DEF r
  <2> QED
    BY <2>1, <2>2, Zenon
<1> HIDE DEF r
<1>8. ASSUME NEW k \in Nat PROVE r[k] = IF k = 0 THEN a ELSE step[r[k - 1]]
  <2> DEFINE h == [i \in Nat |-> IF i = 0 THEN a ELSE step[r[i - 1]]]
  <2>1. h[k] = IF k = 0 THEN a ELSE step[r[k - 1]]
    OBVIOUS
  <2> QED
    BY <1>7, <2>1, Zenon
<1>9. \A i \in Nat : i + 1 \in Nat /\ i + 1 # 0 /\ (i + 1) - 1 = i
  OBVIOUS
<1> QED
  BY <1>8, <1>9 DEF r

-----------------------------------------------------------------------------
(* Pieces of consecutive bytes.                                            *)

\* A piece: consecutive bytes.
Whole(p) ==
  /\ p \in Seq(Nat) /\ p # <<>> /\ p[1] >= 1
  /\ \A j \in 1 .. Len(p) : p[j] = p[1] + j - 1

\* The byte after a piece.
PastEnd(p) == p[1] + Len(p)

\* Pieces that follow one another up to byte t.
Linked(b, t) ==
  /\ b \in Seq(Seq(Nat))
  /\ \A i \in 1 .. Len(b) : Whole(b[i]) /\ PastEnd(b[i]) <= t + 1
  /\ \A i \in 1 .. Len(b) - 1 : b[i + 1][1] = PastEnd(b[i])
  /\ b # <<>> => PastEnd(b[Len(b)]) = t + 1

Left(s) == Len(Head(s.buffer)) - s.offset

\* What holds of the fields of a stream that was fed t bytes.
Consistent(s, t) ==
  /\ s \in Streams
  /\ t \in Nat /\ s.cursor \in 0 .. t /\ s.size = t - s.cursor
  /\ Linked(s.buffer, t)
  /\ Empty(s) => s.cursor = t /\ s.offset = 0
  /\ ~Empty(s) => /\ s.offset < Len(s.buffer[1])
                  /\ s.buffer[1][1] + s.offset = s.cursor + 1
  /\ s.got = [i \in 1 .. s.cursor |-> i]
  /\ s.splits # NoSplits => \A p \in s.splits : p \in 1 .. t /\ p >= s.cursor

\* Consecutive bytes as sequences.
LEMMA UpToIsSeq ==
  ASSUME NEW k \in Nat, NEW c \in Nat
  PROVE  /\ [i \in 1 .. k |-> c + i] \in Seq(Nat) /\ Len([i \in 1 .. k |-> c + i]) = k
         /\ [i \in 1 .. k |-> i] \in Seq(Nat) /\ Len([i \in 1 .. k |-> i]) = k
<1>1. [i \in 1 .. k |-> c + i] \in [1 .. k -> Nat] /\ [i \in 1 .. k |-> i] \in [1 .. k -> Nat]
  OBVIOUS
<1> QED
  BY <1>1, SeqDef, LenProperties

\* The empty sequence is the one without length.
LEMMA NoLength ==
  ASSUME NEW S, NEW s \in Seq(S)
  PROVE  Len(s) \in Nat /\ (s = <<>> <=> Len(s) = 0)
  BY EmptySeq, LenProperties

\* The end of a piece is a piece.
LEMMA WholePart ==
  ASSUME NEW p, Whole(p), NEW a \in Nat, a < Len(p)
  PROVE  LET q == SubSeq(p, a + 1, Len(p))
         IN  /\ Whole(q) /\ Len(q) = Len(p) - a /\ q[1] = p[1] + a /\ PastEnd(q) = PastEnd(p)
             /\ \A j \in 1 .. Len(q) : q[j] = p[1] + a + j - 1
<1> DEFINE q == SubSeq(p, a + 1, Len(p))
<1>1. p \in Seq(Nat) /\ Len(p) \in Nat /\ p[1] \in Nat
  BY LenProperties, ElementOfSeq DEF Whole
<1>2. \A i \in a + 1 .. Len(p) : p[i] \in Nat
  BY <1>1, ElementOfSeq
<1>3. /\ q \in Seq(Nat) /\ Len(q) = Len(p) - a
      /\ \A i \in 1 .. Len(p) - a : q[i] = p[a + 1 + i - 1]
  BY <1>1, <1>2, SubSeqProperties
<1> HIDE DEF q
<1>4. \A j \in 1 .. Len(q) : q[j] = p[1] + a + j - 1
  BY <1>1, <1>3 DEF Whole
<1>5. q[1] = p[1] + a
  <2>1. 1 \in 1 .. Len(q)
    BY <1>1, <1>3
  <2> QED
    BY <1>1, <1>4, <2>1
<1>6. q # <<>>
  BY <1>1, <1>3, NoLength
<1>7. \A j \in 1 .. Len(q) : q[j] = q[1] + j - 1
  BY <1>4, <1>5
<1>8. Whole(q) /\ PastEnd(q) = PastEnd(p)
  BY <1>1, <1>3, <1>5, <1>6, <1>7 DEF Whole, PastEnd
<1> QED
  BY <1>3, <1>4, <1>5, <1>8 DEF q

\* A buffer without its first piece.
LEMMA LinkedTail ==
  ASSUME NEW b, NEW t \in Nat, Linked(b, t), b # <<>>
  PROVE  /\ Linked(Tail(b), t)
         /\ Head(b) = b[1] /\ Whole(b[1]) /\ Len(b[1]) \in Nat /\ b[1][1] \in Nat
         /\ Len(Tail(b)) = Len(b) - 1
         /\ Tail(b) # <<>> => Tail(b)[1][1] = PastEnd(b[1])
         /\ Tail(b) = <<>> => PastEnd(b[1]) = t + 1
         /\ PastEnd(b[1]) <= t + 1
<1>1. b \in Seq(Seq(Nat)) /\ Len(b) \in Nat \ {0}
  BY EmptySeq DEF Linked
<1>2. Head(b) = b[1]
  BY <1>1
<1>3. /\ Tail(b) \in Seq(Seq(Nat)) /\ Len(Tail(b)) = Len(b) - 1
      /\ \A i \in 1 .. Len(b) - 1 : Tail(b)[i] = b[i + 1]
  BY <1>1, HeadTailProperties
<1>4. Tail(b) = <<>> <=> Len(b) = 1
  <2>1. Tail(b) = <<>> <=> Len(Tail(b)) = 0
    BY <1>3, NoLength
  <2> QED
    BY <1>1, <1>3, <2>1
<1>5. Linked(Tail(b), t)
  <2>1. \A i \in 1 .. Len(Tail(b)) : Whole(Tail(b)[i]) /\ PastEnd(Tail(b)[i]) <= t + 1
    BY <1>1, <1>3 DEF Linked
  <2>2. \A i \in 1 .. Len(Tail(b)) - 1 : Tail(b)[i + 1][1] = PastEnd(Tail(b)[i])
    BY <1>1, <1>3 DEF Linked
  <2>3. Tail(b) # <<>> => PastEnd(Tail(b)[Len(Tail(b))]) = t + 1
    BY <1>1, <1>3, <1>4 DEF Linked
  <2> QED
    BY <1>3, <2>1, <2>2, <2>3 DEF Linked
<1>6. Whole(b[1]) /\ PastEnd(b[1]) <= t + 1
  BY <1>1 DEF Linked
<1>7. Len(b[1]) \in Nat /\ b[1][1] \in Nat
  BY <1>6, LenProperties, EmptySeq, ElementOfSeq DEF Whole
<1>8. Tail(b) # <<>> => Tail(b)[1][1] = PastEnd(b[1])
  BY <1>1, <1>3, <1>4 DEF Linked
<1>9. Tail(b) = <<>> => PastEnd(b[1]) = t + 1
  BY <1>1, <1>4 DEF Linked
<1> QED
  BY <1>2, <1>3, <1>5, <1>6, <1>7, <1>8, <1>9

\* A buffer with a piece put back in front of it.
LEMMA LinkedPrepend ==
  ASSUME NEW b, NEW t \in Nat, Linked(b, t), NEW p, Whole(p), PastEnd(p) <= t + 1,
         b # <<>> => b[1][1] = PastEnd(p),
         b = <<>> => PastEnd(p) = t + 1
  PROVE  /\ Linked(<<p>> \o b, t)
         /\ <<p>> \o b # <<>> /\ (<<p>> \o b)[1] = p
<1> DEFINE c == <<p>> \o b
<1>1. b \in Seq(Seq(Nat)) /\ Len(b) \in Nat /\ (b = <<>> <=> Len(b) = 0) /\ p \in Seq(Nat)
  BY EmptySeq, LenProperties DEF Linked, Whole
<1>2. <<p>> \in Seq(Seq(Nat)) /\ Len(<<p>>) = 1 /\ <<p>>[1] = p
  BY <1>1
<1>3. /\ c \in Seq(Seq(Nat)) /\ Len(c) = Len(b) + 1
      /\ \A i \in 1 .. Len(b) + 1 : c[i] = IF i <= 1 THEN p ELSE b[i - 1]
  BY <1>1, <1>2, ConcatProperties
<1> HIDE DEF c
<1>4. c # <<>> /\ c[1] = p
  BY <1>1, <1>3, EmptySeq
<1>5. \A i \in 1 .. Len(c) : Whole(c[i]) /\ PastEnd(c[i]) <= t + 1
  <2> SUFFICES ASSUME NEW i \in 1 .. Len(c) PROVE Whole(c[i]) /\ PastEnd(c[i]) <= t + 1
    OBVIOUS
  <2>1. c[i] = p \/ (i - 1 \in 1 .. Len(b) /\ c[i] = b[i - 1])
    BY <1>1, <1>3
  <2> QED
    BY <2>1 DEF Linked
<1>6. \A i \in 1 .. Len(c) - 1 : c[i + 1][1] = PastEnd(c[i])
  <2> SUFFICES ASSUME NEW i \in 1 .. Len(c) - 1 PROVE c[i + 1][1] = PastEnd(c[i])
    OBVIOUS
  <2>1. CASE i = 1
    BY <1>1, <1>3, <2>1
  <2>2. CASE i # 1
    <3>0. Len(b) \in Nat /\ i \in 1 .. Len(b)
      BY <1>1, <1>3
    <3>1. /\ i - 1 \in 1 .. Len(b) - 1 /\ (i - 1) + 1 = i
          /\ i \in 1 .. Len(b) + 1 /\ ~(i <= 1)
      BY <2>2, <3>0
    <3>2. c[i] = b[i - 1]
      BY <1>3, <3>1
    <3>3. c[i + 1] = b[i]
      <4>1. i + 1 \in 1 .. Len(b) + 1 /\ (i + 1) - 1 = i /\ ~(i + 1 <= 1)
        BY <1>1, <1>3
      <4> QED
        BY <1>3, <4>1
    <3>4. b[(i - 1) + 1][1] = PastEnd(b[i - 1])
      BY <3>1 DEF Linked
    <3> QED
      BY <3>1, <3>2, <3>3, <3>4
  <2> QED
    BY <2>1, <2>2
<1>7. PastEnd(c[Len(c)]) = t + 1
  <2>1. CASE b = <<>>
    BY <1>1, <1>3, <2>1
  <2>2. CASE b # <<>>
    <3>1. Len(c) \in 1 .. Len(b) + 1 /\ ~(Len(c) <= 1) /\ Len(c) - 1 = Len(b)
      BY <1>1, <1>3, <2>2
    <3>2. c[Len(c)] = b[Len(b)]
      BY <1>3, <3>1
    <3> QED
      BY <2>2, <3>2 DEF Linked
  <2> QED
    BY <2>1, <2>2
<1> QED
  BY <1>3, <1>4, <1>5, <1>6, <1>7 DEF Linked, c

\* A buffer that is fed the next k bytes.
LEMMA LinkedAppend ==
  ASSUME NEW b, NEW t \in Nat, Linked(b, t), NEW k \in Nat \ {0}
  PROVE  LET p == [i \in 1 .. k |-> t + i]
         IN  /\ Linked(Append(b, p), t + k) /\ Append(b, p) # <<>>
             /\ Append(b, p)[1] = IF b = <<>> THEN p ELSE b[1]
             /\ Len(p) = k /\ p[1] = t + 1
<1> DEFINE p == [i \in 1 .. k |-> t + i]
           c == Append(b, p)
<1>1. b \in Seq(Seq(Nat)) /\ Len(b) \in Nat /\ (b = <<>> <=> Len(b) = 0)
  BY EmptySeq, LenProperties DEF Linked
<1>2. p \in Seq(Nat) /\ Len(p) = k /\ \A j \in 1 .. k : p[j] = t + j
  BY UpToIsSeq
<1> HIDE DEF p
<1>3. Whole(p) /\ p[1] = t + 1 /\ PastEnd(p) = t + k + 1
  <2>1. p # <<>> /\ p[1] = t + 1
    BY <1>2, NoLength
  <2>2. \A j \in 1 .. Len(p) : p[j] = p[1] + j - 1
    BY <1>2, <2>1
  <2> QED
    BY <1>2, <2>1, <2>2 DEF Whole, PastEnd
<1>4. /\ c \in Seq(Seq(Nat)) /\ c # <<>> /\ Len(c) = Len(b) + 1
      /\ \A i \in 1 .. Len(b) : c[i] = b[i]
      /\ c[Len(b) + 1] = p
  <2>1. b \in Seq(Seq(Nat)) /\ p \in Seq(Nat)
    BY <1>1, <1>2
  <2> QED
    BY <2>1, AppendProperties
<1> HIDE DEF c
<1>5. \A i \in 1 .. Len(c) : Whole(c[i]) /\ PastEnd(c[i]) <= t + k + 1
  <2> SUFFICES ASSUME NEW i \in 1 .. Len(c) PROVE Whole(c[i]) /\ PastEnd(c[i]) <= t + k + 1
    OBVIOUS
  <2>1. CASE i = Len(b) + 1
    BY <1>3, <1>4, <2>1
  <2>2. CASE i # Len(b) + 1
    <3>1. i \in 1 .. Len(b) /\ c[i] = b[i]
      BY <1>1, <1>4, <2>2
    <3>2. Whole(b[i]) /\ PastEnd(b[i]) <= t + 1 /\ b[i] \in Seq(Nat) /\ b[i] # <<>>
      BY <3>1 DEF Linked, Whole
    <3>3. PastEnd(b[i]) \in Int
      BY <3>2, EmptySeq, ElementOfSeq DEF PastEnd
    <3> QED
      BY <3>1, <3>2, <3>3
  <2> QED
    BY <2>1, <2>2
<1>6. \A i \in 1 .. Len(c) - 1 : c[i + 1][1] = PastEnd(c[i])
  <2> SUFFICES ASSUME NEW i \in 1 .. Len(c) - 1 PROVE c[i + 1][1] = PastEnd(c[i])
    OBVIOUS
  <2>1. CASE i = Len(b)
    BY <1>1, <1>3, <1>4, <2>1 DEF Linked
  <2>2. CASE i # Len(b)
    <3>1. \A l \in Nat : \A j \in 1 .. (l + 1) - 1 :
            j # l => j \in 1 .. l - 1 /\ j \in 1 .. l /\ j + 1 \in 1 .. l
      OBVIOUS
    <3>2. Len(b) \in Nat /\ i \in 1 .. (Len(b) + 1) - 1
      BY <1>1, <1>4
    <3>3. i \in 1 .. Len(b) - 1 /\ i \in 1 .. Len(b) /\ i + 1 \in 1 .. Len(b)
      BY <2>2, <3>1, <3>2
    <3>4. c[i] = b[i] /\ c[i + 1] = b[i + 1]
      BY <1>4, <3>3
    <3> QED
      BY <3>3, <3>4 DEF Linked
  <2> QED
    BY <2>1, <2>2
<1>7. PastEnd(c[Len(c)]) = t + k + 1
  BY <1>1, <1>3, <1>4
<1>8. c[1] = IF b = <<>> THEN p ELSE b[1]
  BY <1>1, <1>4
<1>9. t + k \in Nat /\ (t + k) + 1 = t + k + 1
  OBVIOUS
<1> QED
  BY <1>2, <1>3, <1>4, <1>5, <1>6, <1>7, <1>8, <1>9 DEF Linked, c, p

-----------------------------------------------------------------------------
(* Taking bytes: read_nowait_chunk, _read_nowait and readuntil.            *)

\* What Consistent says of a buffer that is not empty.
LEMMA FirstPiece ==
  ASSUME NEW s, NEW t, Consistent(s, t), ~Empty(s)
  PROVE  LET left == SubSeq(Head(s.buffer), s.offset + 1, Len(Head(s.buffer)))
         IN  /\ Whole(left) /\ left \in Seq(Nat) /\ Len(left) = Left(s)
             /\ Left(s) \in Nat \ {0} /\ s.cursor + Left(s) <= t
             /\ \A j \in 1 .. Left(s) : left[j] = s.cursor + j
             /\ PastEnd(left) = s.cursor + Left(s) + 1
             /\ PastEnd(Head(s.buffer)) = s.cursor + Left(s) + 1
             /\ s.offset \in Nat /\ s.cursor \in Nat /\ t \in Nat
             /\ Head(s.buffer) = s.buffer[1] /\ Len(Head(s.buffer)) = Left(s) + s.offset
<1> DEFINE first == s.buffer[1]
           left == SubSeq(first, s.offset + 1, Len(first))
<1>1. /\ Linked(s.buffer, t) /\ s.buffer # <<>> /\ t \in Nat /\ s.cursor \in Nat
      /\ s.offset \in Nat /\ s.offset < Len(first) /\ first[1] + s.offset = s.cursor + 1
  BY DEF Consistent, Empty, Streams
<1>2. /\ Head(s.buffer) = first /\ Whole(first) /\ Len(first) \in Nat /\ first[1] \in Nat
      /\ PastEnd(first) <= t + 1
  BY <1>1, LinkedTail
<1> HIDE DEF first
<1>3. /\ Whole(left) /\ Len(left) = Len(first) - s.offset /\ left[1] = first[1] + s.offset
      /\ PastEnd(left) = PastEnd(first)
      /\ \A j \in 1 .. Len(left) : left[j] = first[1] + s.offset + j - 1
  BY <1>1, <1>2, WholePart
<1>4. Left(s) = Len(first) - s.offset
  BY <1>2 DEF Left
<1> HIDE DEF left
<1>5. PastEnd(first) = first[1] + Len(first)
  BY DEF PastEnd
<1>6. left \in Seq(Nat)
  BY <1>3 DEF Whole
<1>7. \A j \in 1 .. Left(s) : left[j] = s.cursor + j
  <2> SUFFICES ASSUME NEW j \in 1 .. Left(s) PROVE left[j] = s.cursor + j
    OBVIOUS
  <2>1. j \in 1 .. Len(left)
    BY <1>3, <1>4
  <2>2. left[j] = first[1] + s.offset + j - 1 /\ j \in Int
    BY <1>3, <2>1
  <2> QED
    BY <1>1, <1>2, <2>2
<1>8. /\ Len(left) = Left(s) /\ Left(s) \in Nat \ {0} /\ Len(first) = Left(s) + s.offset
      /\ PastEnd(first) = s.cursor + Left(s) + 1 /\ s.cursor + Left(s) <= t
  <2>1. /\ Len(left) = Left(s) /\ Len(first) = Left(s) + s.offset
        /\ Left(s) \in Nat \ {0}
    <3>1. Len(first) \in Nat /\ s.offset \in Nat /\ s.offset < Len(first)
      BY <1>1, <1>2
    <3>2. Left(s) = Len(first) - s.offset
      BY <1>4
    <3>3. Left(s) \in Nat \ {0} /\ Len(first) = Left(s) + s.offset
      BY <3>1, <3>2
    <3> QED
      BY <1>3, <3>2, <3>3
  <2>2. PastEnd(first) = s.cursor + Left(s) + 1
    <3>7. first[1] + s.offset = s.cursor + 1
      BY <1>1
    <3>8. first[1] \in Nat /\ s.offset \in Nat /\ s.cursor \in Nat /\ Left(s) \in Nat
      BY <1>1, <1>2, <2>1
    <3>1. first[1] + (Left(s) + s.offset) = s.cursor + Left(s) + 1
      BY <3>7, <3>8
    <3> QED
      BY <1>5, <2>1, <3>1
  <2>3. s.cursor + Left(s) <= t
    BY <1>1, <1>2, <2>1, <2>2
  <2> QED
    BY <2>1, <2>2, <2>3
<1> QED
  BY <1>1, <1>2, <1>3, <1>6, <1>7, <1>8 DEF left, first

\* _read_nowait_chunk takes what it was asked for, or the rest of the first
\* piece, and keeps the books.
LEMMA ChunkTaken ==
  ASSUME NEW s, NEW t, Consistent(s, t), ~Empty(s), NEW n \in Nat \cup {-1}
  PROVE  LET u == ReadNowaitChunk(s, n)
         IN  /\ Consistent(u, t)
             /\ u.splits = NoSplits <=> s.splits = NoSplits
             /\ Len(s.buffer) \in Nat \ {0}
             /\ IF n # -1 /\ n < Left(s)
                  THEN u.cursor = s.cursor + n /\ Len(u.buffer) = Len(s.buffer)
                  ELSE u.cursor = s.cursor + Left(s) /\ Len(u.buffer) = Len(s.buffer) - 1
<1> DEFINE left == SubSeq(Head(s.buffer), s.offset + 1, Len(Head(s.buffer)))
           part == n # -1 /\ Len(left) > n
           data == IF part THEN SubSeq(left, 1, n) ELSE left
           d == IF part THEN n ELSE Left(s)
           cursor == s.cursor + Len(data)
           u == ReadNowaitChunk(s, n)
<1>1. /\ Whole(left) /\ left \in Seq(Nat) /\ Len(left) = Left(s)
      /\ Left(s) \in Nat \ {0} /\ s.cursor + Left(s) <= t
      /\ \A j \in 1 .. Left(s) : left[j] = s.cursor + j
      /\ PastEnd(s.buffer[1]) = s.cursor + Left(s) + 1
      /\ s.offset \in Nat /\ s.cursor \in Nat /\ t \in Nat
      /\ Head(s.buffer) = s.buffer[1] /\ Len(s.buffer[1]) = Left(s) + s.offset
  BY FirstPiece
<1> HIDE DEF left
<1>2. s \in Streams /\ Linked(s.buffer, t) /\ s.buffer # <<>>
  BY DEF Consistent, Empty
<1>3. /\ Linked(Tail(s.buffer), t) /\ Len(Tail(s.buffer)) = Len(s.buffer) - 1
      /\ Tail(s.buffer) # <<>> => Tail(s.buffer)[1][1] = PastEnd(s.buffer[1])
      /\ Tail(s.buffer) = <<>> => PastEnd(s.buffer[1]) = t + 1
  BY <1>1, <1>2, LinkedTail
<1>4. /\ part <=> n # -1 /\ n < Left(s)
      /\ part => n \in Nat /\ d = n
      /\ ~part => d = Left(s)
      /\ d \in Nat /\ d <= Left(s)
  BY <1>1
<1>5. /\ data \in Seq(Nat) /\ Len(data) = d
      /\ \A j \in 1 .. d : data[j] = s.cursor + j
  <2>1. CASE part
    <3>1. n \in Nat /\ \A i \in 1 .. n : left[i] \in Nat
      <4>1. n \in Nat /\ \A i \in 1 .. n : i \in 1 .. Len(left)
        BY <1>1, <1>4, <2>1
      <4> QED
        BY <1>1, <4>1, ElementOfSeq
    <3>2. /\ SubSeq(left, 1, n) \in Seq(Nat)
          /\ Len(SubSeq(left, 1, n)) = IF 1 <= n THEN n - 1 + 1 ELSE 0
          /\ \A i \in 1 .. n - 1 + 1 : SubSeq(left, 1, n)[i] = left[1 + i - 1]
      BY <3>1, SubSeqProperties
    <3>3. Len(SubSeq(left, 1, n)) = n /\ \A i \in 1 .. n : SubSeq(left, 1, n)[i] = left[i]
      BY <3>1, <3>2
    <3>4. \A i \in 1 .. n : left[i] = s.cursor + i
      BY <1>1, <1>4, <2>1, <3>1
    <3> HIDE DEF part
    <3>5. data = SubSeq(left, 1, n) /\ d = n
      BY <1>4, <2>1
    <3> QED
      BY <3>2, <3>3, <3>4, <3>5
  <2>2. CASE ~part
    <3> HIDE DEF part
    <3>1. data = left /\ d = Left(s)
      BY <2>2
    <3> QED
      BY <1>1, <3>1
  <2> QED
    BY <2>1, <2>2
<1>6. /\ u.buffer = IF part THEN s.buffer ELSE Tail(s.buffer)
      /\ u.offset = IF part THEN s.offset + n ELSE 0
      /\ u.size = s.size - d
      /\ u.cursor = s.cursor + d
      /\ u.splits = IF s.splits = NoSplits THEN NoSplits ELSE {p \in s.splits : p >= s.cursor + d}
      /\ u.got = s.got \o data
      /\ u = [buffer |-> u.buffer, offset |-> u.offset, size |-> u.size, cursor |-> u.cursor,
              splits |-> u.splits, got |-> u.got]
  <2>1. u = [s EXCEPT !.buffer = IF part THEN @ ELSE Tail(@),
                      !.offset = IF part THEN @ + n ELSE 0,
                      !.size   = @ - Len(data),
                      !.cursor = cursor,
                      !.splits = IF @ = NoSplits THEN @ ELSE {p \in @ : p >= cursor},
                      !.got    = @ \o data]
    BY DEF ReadNowaitChunk, left
  <2> HIDE DEF u, data, d, part
  <2>2. Len(data) = d /\ cursor = s.cursor + d
    BY <1>5
  <2> HIDE DEF cursor
  <2>3. /\ u.buffer = IF part THEN s.buffer ELSE Tail(s.buffer)
        /\ u.offset = IF part THEN s.offset + n ELSE 0
        /\ u.size = s.size - Len(data)
        /\ u.cursor = cursor
        /\ u.splits = IF s.splits = NoSplits THEN s.splits ELSE {p \in s.splits : p >= cursor}
        /\ u.got = s.got \o data
    BY <1>2, <2>1 DEF Streams
  <2>4. u = [buffer |-> u.buffer, offset |-> u.offset, size |-> u.size, cursor |-> u.cursor,
             splits |-> u.splits, got |-> u.got]
    BY <1>2, <2>1 DEF Streams
  <2> QED
    BY <2>2, <2>3, <2>4
<1> HIDE DEF d, part, data
<1>0. s.cursor + d \in Nat /\ s.cursor + d <= t
  BY <1>1, <1>4
<1> HIDE DEF u
<1>7. u.got = [i \in 1 .. u.cursor |-> i]
  <2>1. s.got = [i \in 1 .. s.cursor |-> i]
    BY DEF Consistent
  <2>2. s.got \in Seq(Nat) /\ Len(s.got) = s.cursor
    BY <1>1, <2>1, UpToIsSeq
  <2>3. /\ s.got \o data \in Seq(Nat) /\ Len(s.got \o data) = s.cursor + d
        /\ \A i \in 1 .. s.cursor + d : (s.got \o data)[i] =
             IF i <= s.cursor THEN s.got[i] ELSE data[i - s.cursor]
    <3>1. /\ s.got \o data \in Seq(Nat) /\ Len(s.got \o data) = Len(s.got) + Len(data)
          /\ \A i \in 1 .. Len(s.got) + Len(data) : (s.got \o data)[i] =
               IF i <= Len(s.got) THEN s.got[i] ELSE data[i - Len(s.got)]
      BY <1>5, <2>2, ConcatProperties
    <3> QED
      BY <1>5, <2>2, <3>1
  <2>4. \A i \in 1 .. s.cursor + d : (s.got \o data)[i] = i
    <3> SUFFICES ASSUME NEW i \in 1 .. s.cursor + d PROVE (s.got \o data)[i] = i
      OBVIOUS
    <3>1. CASE i <= s.cursor
      <4>1. i \in 1 .. s.cursor /\ (s.got \o data)[i] = s.got[i]
        BY <1>1, <1>4, <2>3, <3>1
      <4> QED
        BY <2>1, <4>1
    <3>2. CASE ~(i <= s.cursor)
      <4>1. i - s.cursor \in 1 .. d
        BY <1>1, <1>4, <3>2
      <4>2. /\ (s.got \o data)[i] = data[i - s.cursor]
            /\ data[i - s.cursor] = s.cursor + (i - s.cursor)
        BY <1>5, <2>3, <3>2, <4>1
      <4> QED
        BY <1>1, <4>2
    <3> QED
      BY <3>1, <3>2
  <2>6. /\ [i \in 1 .. s.cursor + d |-> i] \in Seq(Nat)
        /\ Len([i \in 1 .. s.cursor + d |-> i]) = s.cursor + d
    BY <1>0, UpToIsSeq
  <2>7. s.got \o data = [i \in 1 .. s.cursor + d |-> i]
    <3> DEFINE e == [i \in 1 .. s.cursor + d |-> i]
    <3>1. \A i \in 1 .. s.cursor + d : e[i] = i
      OBVIOUS
    <3> HIDE DEF e
    <3> QED
      BY <2>3, <2>4, <2>6, <3>1, SeqEqual DEF e
  <2> QED
    BY <1>6, <2>7
<1>8. /\ u.splits = NoSplits <=> s.splits = NoSplits
      /\ u.splits # NoSplits => \A p \in u.splits : p \in 1 .. t /\ p >= u.cursor
  <2>1. s.splits # NoSplits => \A p \in s.splits : p \in 1 .. t
    BY DEF Consistent
  <2>2. CASE s.splits = NoSplits
    BY <1>6, <2>2
  <2>3. CASE s.splits # NoSplits
    <3>1. 0 \notin u.splits
      BY <1>6, <2>1, <2>3
    <3> QED
      BY <1>6, <2>1, <2>3, <3>1 DEF NoSplits
  <2> QED
    BY <2>2, <2>3
<1>9. u \in Streams
  <2>1. u.buffer \in Seq(Seq(Nat))
    BY <1>2, <1>3, <1>6 DEF Linked
  <2>2. u.offset \in Nat
    BY <1>1, <1>4, <1>6
  <2>3. u.size \in Int /\ u.cursor \in Nat
    BY <1>0, <1>2, <1>4, <1>6 DEF Streams
  <2>4. u.splits \in SUBSET Nat
    BY <1>2, <1>6 DEF Streams
  <2>5. u.got \in Seq(Nat)
    BY <1>7, <2>3, UpToIsSeq
  <2> QED
    BY <1>6, <2>1, <2>2, <2>3, <2>4, <2>5 DEF Streams
<1>10. Linked(u.buffer, t)
  BY <1>2, <1>3, <1>6
<1>11. /\ u.buffer = <<>> => u.cursor = t /\ u.offset = 0
       /\ u.buffer # <<>> => /\ u.offset < Len(u.buffer[1])
                             /\ u.buffer[1][1] + u.offset = u.cursor + 1
  <2>1. CASE part
    <3>1. /\ u.buffer = s.buffer /\ u.offset = s.offset + n /\ u.cursor = s.cursor + n
          /\ n \in Nat /\ n < Left(s)
      BY <1>4, <1>6, <2>1
    <3>2. s.buffer[1][1] + s.offset = s.cursor + 1 /\ s.buffer[1][1] \in Nat
      BY <1>1, <1>2, LinkedTail DEF Consistent, Empty
    <3>3. /\ s.offset \in Nat /\ s.cursor \in Nat /\ Left(s) \in Nat
          /\ Len(s.buffer[1]) = Left(s) + s.offset
      BY <1>1
    <3>4. s.offset + n < Len(s.buffer[1])
      BY <3>1, <3>3
    <3>5. s.buffer[1][1] + (s.offset + n) = s.cursor + n + 1
      <4>1. s.offset \in Nat /\ s.cursor \in Nat /\ n \in Nat
        BY <3>1, <3>3
      <4> QED
        BY <3>2, <4>1
    <3> QED
      BY <1>2, <3>1, <3>4, <3>5
  <2>2. CASE ~part
    <3>1. u.buffer = Tail(s.buffer) /\ u.offset = 0 /\ u.cursor = s.cursor + Left(s)
      BY <1>4, <1>6, <2>2
    <3>2. CASE u.buffer = <<>>
      <4>1. s.cursor + Left(s) + 1 = t + 1 /\ s.cursor \in Nat /\ Left(s) \in Nat /\ t \in Nat
        BY <1>1, <1>3, <3>1, <3>2
      <4>2. s.cursor + Left(s) = t
        BY <4>1
      <4> QED
        BY <3>1, <3>2, <4>2
    <3>3. CASE u.buffer # <<>>
      <4>1. Whole(u.buffer[1]) /\ Len(u.buffer[1]) \in Nat
        BY <1>1, <1>10, <3>3, LinkedTail
      <4>2. Len(u.buffer[1]) > 0
        BY <4>1, NoLength DEF Whole
      <4>3. s.cursor \in Nat /\ Left(s) \in Nat
        BY <1>1
      <4>4. u.buffer[1][1] = s.cursor + Left(s) + 1
        <5>1. u.buffer[1][1] = PastEnd(s.buffer[1])
          BY <1>3, <3>1, <3>3
        <5> QED
          BY <1>1, <5>1
      <4>5. u.buffer[1][1] + 0 = s.cursor + Left(s) + 1
        BY <4>3, <4>4
      <4> QED
        BY <3>1, <3>3, <4>2, <4>5
    <3> QED
      BY <3>2, <3>3
  <2> QED
    BY <2>1, <2>2
<1>12. u.cursor \in 0 .. t /\ u.size = t - u.cursor
  BY <1>0, <1>1, <1>4, <1>6 DEF Consistent
<1>13. Consistent(u, t)
  BY <1>1, <1>7, <1>8, <1>9, <1>10, <1>11, <1>12 DEF Consistent, Empty
<1>14. Len(s.buffer) \in Nat \ {0}
  BY <1>2, NoLength DEF Linked
<1>15. IF n # -1 /\ n < Left(s)
         THEN u.cursor = s.cursor + n /\ Len(u.buffer) = Len(s.buffer)
         ELSE u.cursor = s.cursor + Left(s) /\ Len(u.buffer) = Len(s.buffer) - 1
  BY <1>3, <1>4, <1>6
<1> QED
  BY <1>8, <1>13, <1>14, <1>15 DEF u

\* There is nothing left to read exactly when everything was read.
LEMMA EmptyIsAll ==
  ASSUME NEW s, NEW t, Consistent(s, t)
  PROVE  /\ Empty(s) <=> s.cursor = t
         /\ Empty(s) <=> Len(s.buffer) = 0
         /\ s.cursor \in Nat /\ t \in Nat /\ s.cursor <= t /\ Len(s.buffer) \in Nat
<1>1. s.cursor \in Nat /\ t \in Nat /\ s.cursor <= t /\ s.buffer \in Seq(Seq(Nat))
  BY DEF Consistent, Linked
<1>2. Empty(s) => s.cursor = t
  BY DEF Consistent
<1>3. ASSUME ~Empty(s) PROVE s.cursor # t
  <2>1. Left(s) \in Nat \ {0} /\ s.cursor + Left(s) <= t
    BY <1>3, FirstPiece
  <2> QED
    BY <1>1, <2>1
<1>4. Len(s.buffer) \in Nat /\ (Empty(s) <=> Len(s.buffer) = 0)
  BY <1>1, NoLength DEF Empty
<1> QED
  BY <1>1, <1>2, <1>3, <1>4

\* What is true of the loop of _read_nowait after each of its rounds.
TakingInv(s, t, n, l, i) ==
  /\ l \in [s : Streams, n : Int] /\ l.n \in Nat \cup {-1}
  /\ Consistent(l.s, t)
  /\ l.s.splits = NoSplits <=> s.splits = NoSplits
  /\ IF n = -1 THEN l.n = -1 ELSE l.n # -1 /\ l.s.cursor + l.n = s.cursor + n
  /\ l.s.cursor >= s.cursor
  /\ l.n = 0 \/ Len(l.s.buffer) <= Len(s.buffer) - i

\* One more round of _read_nowait.
LEMMA TakingStep ==
  ASSUME NEW s, NEW t, Consistent(s, t), NEW n \in Nat \cup {-1}, NEW l, NEW i \in Nat,
         i < Len(s.buffer), TakingInv(s, t, n, l, i)
  PROVE  TakingInv(s, t, n, TakePiece[l], i + 1)
<1> DEFINE u == ReadNowaitChunk(l.s, l.n)
           m == IF l.n = -1 THEN -1 ELSE l.n - (u.cursor - l.s.cursor)
<1>1. l \in [s : Streams, n : Int] /\ l.n \in Nat \cup {-1} /\ Consistent(l.s, t)
  BY DEF TakingInv
<1>2. TakePiece[l] = IF l.n = 0 \/ Empty(l.s) THEN l ELSE [s |-> u, n |-> m]
  BY <1>1 DEF TakePiece
<1>3. /\ s.cursor \in Nat /\ t \in Nat /\ s.cursor <= t /\ Len(s.buffer) \in Nat
      /\ l.s.cursor \in Nat /\ l.s.cursor <= t /\ Len(l.s.buffer) \in Nat
      /\ Empty(l.s) <=> Len(l.s.buffer) = 0
  BY <1>1, EmptyIsAll
<1>4. CASE l.n = 0 \/ Empty(l.s)
  <2>1. TakePiece[l] = l
    BY <1>2, <1>4
  <2>2. l.n = 0 \/ Len(l.s.buffer) <= Len(s.buffer) - (i + 1)
    BY <1>3, <1>4
  <2> QED
    BY <2>1, <2>2 DEF TakingInv
<1>5. CASE ~(l.n = 0 \/ Empty(l.s))
  <2>1. /\ Consistent(u, t)
        /\ u.splits = NoSplits <=> l.s.splits = NoSplits
        /\ IF l.n # -1 /\ l.n < Left(l.s)
             THEN u.cursor = l.s.cursor + l.n /\ Len(u.buffer) = Len(l.s.buffer)
             ELSE u.cursor = l.s.cursor + Left(l.s) /\ Len(u.buffer) = Len(l.s.buffer) - 1
    BY <1>1, <1>5, ChunkTaken
  <2>2. Left(l.s) \in Nat \ {0}
    BY <1>1, <1>5, FirstPiece
  <2> HIDE DEF u
  <2>3. u \in Streams /\ u.cursor \in Nat /\ Len(u.buffer) \in Nat
    BY <2>1, EmptyIsAll DEF Consistent
  <2>4. IF l.n # -1 /\ l.n < Left(l.s) THEN m = 0 ELSE m = IF l.n = -1 THEN -1 ELSE l.n - Left(l.s)
    BY <1>1, <1>3, <2>1, <2>2
  <2>5. /\ m \in Nat \cup {-1} /\ u.cursor >= l.s.cursor
        /\ l.n = -1 <=> m = -1
        /\ l.n # -1 => u.cursor + m = l.s.cursor + l.n
        /\ m = 0 \/ Len(u.buffer) = Len(l.s.buffer) - 1
    BY <1>1, <1>3, <2>1, <2>2, <2>4
  <2> HIDE DEF m
  <2> DEFINE k == [s |-> u, n |-> m]
  <2>6. k \in [s : Streams, n : Int] /\ k.s = u /\ k.n = m /\ TakePiece[l] = k
    BY <1>2, <1>5, <2>3, <2>5
  <2> HIDE DEF k
  <2>7. IF n = -1 THEN m = -1 ELSE m # -1 /\ u.cursor + m = s.cursor + n
    BY <2>5 DEF TakingInv
  <2>8. u.cursor >= s.cursor
    BY <1>3, <2>3, <2>5 DEF TakingInv
  <2>9. m = 0 \/ Len(u.buffer) <= Len(s.buffer) - (i + 1)
    <3>1. Len(l.s.buffer) <= Len(s.buffer) - i
      BY <1>5 DEF TakingInv
    <3>2. /\ Len(s.buffer) \in Nat /\ Len(l.s.buffer) \in Nat /\ Len(u.buffer) \in Nat
          /\ m = 0 \/ Len(u.buffer) = Len(l.s.buffer) - 1
      BY <1>3, <2>3, <2>5
    <3> QED
      BY <3>1, <3>2
  <2>10. u.splits = NoSplits <=> s.splits = NoSplits
    BY <2>1 DEF TakingInv
  <2> QED
    BY <2>1, <2>5, <2>6, <2>7, <2>8, <2>9, <2>10 DEF TakingInv
<1> QED
  BY <1>4, <1>5

\* _read_nowait takes what it was asked for, or everything when there is less.
LEMMA ReadNowaitTakes ==
  ASSUME NEW s, NEW t, Consistent(s, t), NEW n \in Nat \cup {-1}
  PROVE  LET u == ReadNowait(s, n)
         IN  /\ Consistent(u, t)
             /\ u.splits = NoSplits <=> s.splits = NoSplits
             /\ u.cursor = IF n = -1 \/ s.cursor + n > t THEN t ELSE s.cursor + n
<1> DEFINE start == [s |-> s, n |-> n]
           r == Rounds(start, TakePiece)
           u == ReadNowait(s, n)
           P == {i \in Nat : i <= Len(s.buffer) => TakingInv(s, t, n, r[i], i)}
<1>1. r[0] = start /\ \A i \in Nat : r[i + 1] = TakePiece[r[i]]
  BY RoundsExist
<1>2. /\ s.cursor \in Nat /\ t \in Nat /\ s.cursor <= t /\ Len(s.buffer) \in Nat
      /\ s \in Streams
  BY EmptyIsAll DEF Consistent
<1>3. u = r[Len(s.buffer)].s
  BY DEF ReadNowait
<1> HIDE DEF r
<1>4. 0 \in P
  <2>1. /\ start \in [s : Streams, n : Int] /\ start.s = s /\ start.n = n
    BY <1>2
  <2> HIDE DEF start
  <2>2. n # -1 => s.cursor + n = s.cursor + n
    OBVIOUS
  <2>3. Consistent(start.s, t) /\ start.n \in Nat \cup {-1}
    BY <2>1
  <2>4. /\ start.s.splits = NoSplits <=> s.splits = NoSplits
        /\ start.s.cursor >= s.cursor
    BY <1>2, <2>1
  <2>5. IF n = -1 THEN start.n = -1 ELSE start.n # -1 /\ start.s.cursor + start.n = s.cursor + n
    BY <2>1
  <2>6. Len(start.s.buffer) <= Len(s.buffer) - 0
    BY <1>2, <2>1
  <2>7. TakingInv(s, t, n, start, 0)
    BY <2>1, <2>3, <2>4, <2>5, <2>6 DEF TakingInv
  <2>8. TakingInv(s, t, n, r[0], 0)
    BY <1>1, <2>7
  <2> QED
    BY <2>8
<1>5. ASSUME NEW i \in P PROVE i + 1 \in P
  <2> SUFFICES ASSUME i + 1 <= Len(s.buffer) PROVE TakingInv(s, t, n, r[i + 1], i + 1)
    OBVIOUS
  <2>1. i \in Nat /\ i < Len(s.buffer) /\ i <= Len(s.buffer)
    BY <1>2
  <2>2. TakingInv(s, t, n, r[i], i)
    BY <2>1
  <2>3. TakingInv(s, t, n, TakePiece[r[i]], i + 1)
    BY <2>1, <2>2, TakingStep
  <2> QED
    BY <1>1, <2>1, <2>3
<1>6. TakingInv(s, t, n, r[Len(s.buffer)], Len(s.buffer))
  <2> HIDE DEF P
  <2>1. P = Nat
    BY <1>4, <1>5, InductionOnSets DEF P
  <2>2. Len(s.buffer) \in P
    BY <1>2, <2>1
  <2> QED
    BY <1>2, <2>2 DEF P
<1> DEFINE l == r[Len(s.buffer)]
<1> HIDE DEF l, P, u
<1>7. /\ Consistent(l.s, t) /\ l.n \in Nat \cup {-1}
      /\ l.s.splits = NoSplits <=> s.splits = NoSplits
      /\ IF n = -1 THEN l.n = -1 ELSE l.n # -1 /\ l.s.cursor + l.n = s.cursor + n
      /\ l.n = 0 \/ Len(l.s.buffer) <= Len(s.buffer) - Len(s.buffer)
  BY <1>6 DEF TakingInv, l
<1>8. /\ l.s.cursor \in Nat /\ l.s.cursor <= t
      /\ l.n = 0 \/ l.s.cursor = t
  <2>1. /\ l.s.cursor \in Nat /\ l.s.cursor <= t /\ Len(l.s.buffer) \in Nat
        /\ Empty(l.s) <=> l.s.cursor = t
        /\ Empty(l.s) <=> Len(l.s.buffer) = 0
    BY <1>7, EmptyIsAll
  <2> QED
    BY <1>2, <1>7, <2>1
<1>9. l.s.cursor = IF n = -1 \/ s.cursor + n > t THEN t ELSE s.cursor + n
  <2>1. CASE n = -1
    BY <1>7, <1>8, <2>1
  <2>2. CASE n # -1
    <3>1. l.s.cursor + l.n = s.cursor + n /\ l.n \in Nat /\ n \in Nat
      BY <1>7, <2>2
    <3> QED
      BY <1>2, <1>8, <2>2, <3>1
  <2> QED
    BY <2>1, <2>2
<1>10. u = l.s
  BY <1>3 DEF l
<1> QED
  BY <1>7, <1>9, <1>10 DEF u

\* Every set of naturals that is not empty has a least element.
LEMMA LeastOfNat ==
  ASSUME NEW S \in SUBSET Nat, S # {}
  PROVE  Min(S) \in S /\ \A y \in S : Min(S) <= y
<1>1. \E x \in S : \A y \in S : x <= y
  <2> SUFFICES ASSUME \A x \in S : \E y \in S : y < x PROVE FALSE
    OBVIOUS
  <2> DEFINE P == {n \in Nat : \A m \in 0 .. n : m \notin S}
  <2>1. 0 \in P
    OBVIOUS
  <2>2. ASSUME NEW n \in P PROVE n + 1 \in P
    <3>1. \A m \in 0 .. n : m \notin S
      OBVIOUS
    <3>2. n + 1 \notin S
      BY <3>1
    <3>3. n \in Nat /\ \A m \in 0 .. n + 1 : m \in 0 .. n \/ m = n + 1
      OBVIOUS
    <3> QED
      BY <3>1, <3>2, <3>3
  <2> HIDE DEF P
  <2>3. P = Nat
    BY <2>1, <2>2, InductionOnSets DEF P
  <2>4. \A n \in Nat : n \notin S
    BY <2>3 DEF P
  <2> QED
    BY <2>4
<1>2. \E x \in S : \A y \in S : x =< y
  BY <1>1
<1> QED
  BY <1>2 DEF Min

\* The separator that readuntil finds lies in the first piece; if it has one
\* byte, there is none before it.
LEMMA SeparatorFound ==
  ASSUME NEW s, NEW t, Consistent(s, t), ~Empty(s)
  PROVE  LET end == SeparatorEnd(s)
         IN  /\ end \in 0 .. Left(s)
             /\ SepLen = 1 =>
                  IF end = 0
                    THEN \A i \in s.cursor + 1 .. s.cursor + Left(s) : i \notin Separator
                    ELSE \A i \in s.cursor + 1 .. s.cursor + end - 1 : i \notin Separator
<1> DEFINE first == Head(s.buffer)
           ends == {i \in s.offset + 1 .. Len(first) - SepLen + 1 : first[i] \in Separator}
           end == SeparatorEnd(s)
<1>1. /\ Whole(first) /\ first[1] + s.offset = s.cursor + 1 /\ first[1] \in Nat
      /\ Len(first) = Left(s) + s.offset
      /\ s.offset \in Nat /\ s.cursor \in Nat /\ Left(s) \in Nat \ {0}
  <2>1. Head(s.buffer) = s.buffer[1] /\ Whole(s.buffer[1]) /\ s.buffer[1][1] \in Nat
    BY LinkedTail DEF Consistent, Empty
  <2>2. s.buffer[1][1] + s.offset = s.cursor + 1
    BY DEF Consistent
  <2> QED
    BY <2>1, <2>2, FirstPiece
<1>2. SepLen \in Nat \ {0}
  BY StreamAssumption
<1>3. end = IF ends = {} THEN 0 ELSE Min(ends) - s.offset + SepLen - 1
  BY DEF SeparatorEnd
<1> HIDE DEF first
<1>4. ends \in SUBSET Nat
  BY <1>1
<1>5. ends # {} => /\ Min(ends) \in s.offset + 1 .. Len(first) - SepLen + 1
                   /\ \A i \in ends : Min(ends) <= i
  <2>1. ends # {} => Min(ends) \in ends /\ \A i \in ends : Min(ends) <= i
    <3> HIDE DEF ends
    <3> QED
      BY <1>4, LeastOfNat
  <2> QED
    BY <2>1
<1>6. \A i \in Int : i \in 1 .. Left(s) =>
        /\ first[i + s.offset] = s.cursor + i
        /\ SepLen = 1 => i + s.offset \in s.offset + 1 .. Len(first) - SepLen + 1
  <2> SUFFICES ASSUME NEW i \in 1 .. Left(s)
               PROVE  /\ first[i + s.offset] = s.cursor + i
                      /\ SepLen = 1 => i + s.offset \in s.offset + 1 .. Len(first) - SepLen + 1
    OBVIOUS
  <2>1. i + s.offset \in 1 .. Len(first) /\ i + s.offset \in Nat
    BY <1>1
  <2>2. first[i + s.offset] = first[1] + (i + s.offset) - 1
    BY <1>1, <2>1 DEF Whole
  <2>3. /\ first[1] + s.offset = s.cursor + 1
        /\ first[1] \in Nat /\ s.offset \in Nat /\ s.cursor \in Nat /\ i \in Nat
    BY <1>1
  <2>4. first[1] + (i + s.offset) - 1 = s.cursor + i
    BY <2>3
  <2>5. Len(first) \in Nat /\ (SepLen = 1 => Len(first) - SepLen + 1 = Len(first))
    BY <1>1, <1>2
  <2>6. SepLen = 1 => i + s.offset \in s.offset + 1 .. Len(first) - SepLen + 1
    BY <1>1, <2>1, <2>3, <2>5
  <2> QED
    BY <2>2, <2>4, <2>6
<1>7. ASSUME SepLen = 1, NEW i \in 1 .. Left(s), s.cursor + i \in Separator
      PROVE  ends # {} /\ Min(ends) <= i + s.offset
  <2>1. i + s.offset \in ends
    BY <1>6, <1>7
  <2> HIDE DEF ends
  <2> QED
    BY <1>5, <2>1
<1> DEFINE least == Min(ends)
<1> HIDE DEF ends, end
<1>8. CASE ends = {}
  <2>1. end = 0
    BY <1>3, <1>8
  <2>2. ASSUME SepLen = 1, NEW i \in s.cursor + 1 .. s.cursor + Left(s) PROVE i \notin Separator
    <3>1. i - s.cursor \in 1 .. Left(s) /\ s.cursor + (i - s.cursor) = i
      BY <1>1
    <3> QED
      BY <1>7, <1>8, <2>2, <3>1
  <2> QED
    BY <1>1, <2>1, <2>2 DEF end
<1>9. CASE ends # {}
  <2>1. least \in s.offset + 1 .. Len(first) - SepLen + 1 /\ end = least - s.offset + SepLen - 1
    BY <1>3, <1>5, <1>9
  <2>2. end \in 1 .. Left(s) /\ (SepLen = 1 => end = least - s.offset)
    <3> HIDE DEF least
    <3>1. Len(first) \in Nat
      BY <1>1
    <3>2. least \in Int /\ s.offset + 1 <= least /\ least <= Len(first) - SepLen + 1
      BY <1>1, <1>2, <2>1, <3>1
    <3>4. end = least - s.offset + SepLen - 1 /\ Len(first) = Left(s) + s.offset
      BY <1>1, <2>1
    <3>5. s.offset \in Nat /\ Left(s) \in Nat
      BY <1>1
    <3>6. SepLen \in Nat /\ SepLen >= 1
      BY <1>2
    <3>7. end \in Int
      BY <3>2, <3>4, <3>5, <3>6
    <3>8. end >= 1
      <4>1. least - s.offset >= 1
        BY <3>2, <3>5
      <4> QED
        BY <3>2, <3>4, <3>5, <3>6, <4>1
    <3>9. end <= Left(s)
      <4>1. least <= (Left(s) + s.offset) - SepLen + 1
        BY <3>2, <3>4
      <4> QED
        BY <3>2, <3>4, <3>5, <3>6, <4>1
    <3>3. end \in Int /\ end >= 1 /\ end <= Left(s)
      BY <3>7, <3>8, <3>9
    <3> QED
      BY <1>1, <2>1, <3>2, <3>3
  <2>3. ASSUME SepLen = 1, NEW i \in s.cursor + 1 .. s.cursor + end - 1 PROVE i \notin Separator
    <3>1. /\ i - s.cursor \in 1 .. Left(s) /\ s.cursor + (i - s.cursor) = i
          /\ i - s.cursor < end
      BY <1>1, <2>2
    <3>2. s.cursor + (i - s.cursor) \in Separator => least <= (i - s.cursor) + s.offset
      BY <1>7, <2>3, <3>1
    <3>3. least \in Int /\ i \in Int
      BY <1>1, <1>2, <2>1, <2>2
    <3>4. s.cursor \in Nat /\ s.offset \in Nat /\ end = least - s.offset
      BY <1>1, <2>2, <2>3
    <3>5. i \in Separator => least <= (i - s.cursor) + s.offset
      BY <3>1, <3>2
    <3>6. i - s.cursor < end
      BY <3>1
    <3> HIDE DEF least
    <3> QED
      BY <3>3, <3>4, <3>5, <3>6
  <2> QED
    BY <1>1, <2>2, <2>3 DEF end
<1> QED
  BY <1>8, <1>9

\* What is true of the inner loop of readuntil after each of its rounds.
SearchInv(s, t, c, u, i) ==
  /\ u \in [s : Streams, found : BOOLEAN, count : Nat]
  /\ Consistent(u.s, t)
  /\ u.s.splits = NoSplits <=> s.splits = NoSplits
  /\ u.s.cursor >= s.cursor
  /\ u.count + s.cursor = c + u.s.cursor
  /\ u.found \/ u.count > High \/ Len(u.s.buffer) <= Len(s.buffer) - i
  /\ SepLen = 1 => \A p \in s.cursor + 1 .. u.s.cursor :
                     p \in Separator => u.found /\ p = u.s.cursor

\* One more round of readuntil.
LEMMA SearchStep ==
  ASSUME NEW s, NEW t, Consistent(s, t), NEW c \in Nat, NEW u, NEW i \in Nat,
         i < Len(s.buffer), SearchInv(s, t, c, u, i)
  PROVE  SearchInv(s, t, c, TakeLine[u], i + 1)
<1> DEFINE end == SeparatorEnd(u.s)
           n == IF end = 0 THEN -1 ELSE end
           v == ReadNowaitChunk(u.s, n)
           k == [s |-> v, found |-> end # 0, count |-> u.count + v.cursor - u.s.cursor]
<1>1. u \in [s : Streams, found : BOOLEAN, count : Nat] /\ Consistent(u.s, t)
  BY DEF SearchInv
<1>2. TakeLine[u] = IF Empty(u.s) \/ u.found \/ u.count > High THEN u ELSE k
  BY <1>1 DEF TakeLine
<1>3. /\ s.cursor \in Nat /\ t \in Nat /\ s.cursor <= t /\ Len(s.buffer) \in Nat
      /\ u.s.cursor \in Nat /\ u.s.cursor <= t /\ Len(u.s.buffer) \in Nat
      /\ Empty(u.s) <=> Len(u.s.buffer) = 0
  BY <1>1, EmptyIsAll
<1> HIDE DEF k
<1>4. CASE Empty(u.s) \/ u.found \/ u.count > High
  <2>1. TakeLine[u] = u
    BY <1>2, <1>4
  <2>2. u.found \/ u.count > High \/ Len(u.s.buffer) <= Len(s.buffer) - (i + 1)
    BY <1>3, <1>4
  <2> QED
    BY <2>1, <2>2 DEF SearchInv
<1>5. CASE ~(Empty(u.s) \/ u.found \/ u.count > High)
  <2>1. /\ end \in 0 .. Left(u.s)
        /\ SepLen = 1 =>
             IF end = 0
               THEN \A p \in u.s.cursor + 1 .. u.s.cursor + Left(u.s) : p \notin Separator
               ELSE \A p \in u.s.cursor + 1 .. u.s.cursor + end - 1 : p \notin Separator
    BY <1>1, <1>5, SeparatorFound
  <2>2. Left(u.s) \in Nat \ {0}
    BY <1>1, <1>5, FirstPiece
  <2> HIDE DEF end
  <2>3. n \in Nat \cup {-1} /\ n # 0 /\ (n # -1 => n = end) /\ (n = -1 <=> end = 0)
    BY <2>1, <2>2
  <2> HIDE DEF n
  <2>4. /\ Consistent(v, t)
        /\ v.splits = NoSplits <=> u.s.splits = NoSplits
        /\ IF n # -1 /\ n < Left(u.s)
             THEN v.cursor = u.s.cursor + n /\ Len(v.buffer) = Len(u.s.buffer)
             ELSE v.cursor = u.s.cursor + Left(u.s) /\ Len(v.buffer) = Len(u.s.buffer) - 1
    BY <1>1, <1>5, <2>3, ChunkTaken
  <2> HIDE DEF v
  <2>5. v \in Streams /\ v.cursor \in Nat /\ Len(v.buffer) \in Nat
    BY <2>4, EmptyIsAll DEF Consistent
  <2>6. /\ v.cursor >= u.s.cursor
        /\ end = 0 => Len(v.buffer) = Len(u.s.buffer) - 1
        /\ v.cursor = IF end = 0 THEN u.s.cursor + Left(u.s) ELSE u.s.cursor + end
    <3>1. CASE end = 0
      BY <1>3, <2>2, <2>3, <2>4, <3>1
    <3>2. CASE end # 0
      <4>1. n = end /\ n # -1 /\ end \in Nat /\ end <= Left(u.s)
        BY <2>1, <2>2, <2>3, <3>2
      <4>2. v.cursor = u.s.cursor + end
        <5>1. CASE n < Left(u.s)
          BY <2>4, <4>1, <5>1
        <5>2. CASE ~(n < Left(u.s))
          BY <2>2, <2>4, <4>1, <5>2
        <5> QED
          BY <5>1, <5>2
      <4> QED
        BY <1>3, <3>2, <4>1, <4>2
    <3> QED
      BY <3>1, <3>2
  <2>7. u.count \in Nat /\ u.count + s.cursor = c + u.s.cursor /\ u.s.cursor >= s.cursor
    BY <1>1 DEF SearchInv
  <2> DEFINE count == u.count + v.cursor - u.s.cursor
  <2>8. count \in Nat /\ count + s.cursor = c + v.cursor /\ v.cursor >= s.cursor
    <3>1. /\ s.cursor \in Nat /\ u.s.cursor \in Nat /\ v.cursor \in Nat
          /\ v.cursor >= u.s.cursor
      BY <1>3, <2>5, <2>6
    <3>2. count \in Nat
      BY <2>7, <3>1
    <3>3. count + s.cursor = c + v.cursor
      <4>1. /\ u.count \in Int /\ v.cursor \in Int /\ u.s.cursor \in Int
            /\ s.cursor \in Int /\ c \in Int
            /\ u.count + s.cursor = c + u.s.cursor
        BY <2>7, <3>1
      <4>2. u.count = c + u.s.cursor - s.cursor
        BY <4>1
      <4>3. count = c + v.cursor - s.cursor
        BY <4>1, <4>2
      <4> HIDE DEF count
      <4> QED
        BY <4>1, <4>3
    <3> QED
      BY <2>7, <3>1, <3>2, <3>3
  <2> HIDE DEF count
  <2>9. /\ k \in [s : Streams, found : BOOLEAN, count : Nat]
        /\ k.s = v /\ k.found = (end # 0) /\ k.count = count
    BY <2>5, <2>8 DEF k, count
  <2>10. end # 0 \/ Len(v.buffer) <= Len(s.buffer) - (i + 1)
    <3>1. Len(u.s.buffer) <= Len(s.buffer) - i
      BY <1>5 DEF SearchInv
    <3>2. end = 0 => Len(v.buffer) = Len(u.s.buffer) - 1
      BY <2>6
    <3> QED
      BY <1>3, <2>5, <3>1, <3>2
  <2>11. ASSUME SepLen = 1, NEW p \in s.cursor + 1 .. v.cursor, p \in Separator
         PROVE  end # 0 /\ p = v.cursor
    <3>1. p > u.s.cursor
      <4>1. SepLen = 1 => \A q \in s.cursor + 1 .. u.s.cursor :
                            q \in Separator => u.found /\ q = u.s.cursor
        BY DEF SearchInv
      <4>2. p \notin s.cursor + 1 .. u.s.cursor
        BY <1>5, <2>11, <4>1
      <4> QED
        BY <1>3, <2>5, <4>2
    <3>2. p \in Nat /\ p <= v.cursor
      BY <1>3, <2>5
    <3>3. CASE end = 0
      <4>1. p \in u.s.cursor + 1 .. u.s.cursor + Left(u.s)
        BY <1>3, <2>2, <2>6, <3>1, <3>2, <3>3
      <4> QED
        BY <2>1, <2>11, <3>3, <4>1
    <3>4. CASE end # 0
      <4>1. p \notin u.s.cursor + 1 .. u.s.cursor + end - 1
        BY <2>1, <2>11, <3>4
      <4>2. end \in Nat /\ v.cursor = u.s.cursor + end
        BY <2>1, <2>2, <2>6, <3>4
      <4>3. u.s.cursor \in Nat
        BY <1>3
      <4>4. p <= u.s.cursor + end - 1 => p \in u.s.cursor + 1 .. u.s.cursor + end - 1
        BY <3>1, <3>2, <4>2, <4>3
      <4>5. ~(p <= u.s.cursor + end - 1)
        BY <4>1, <4>4
      <4> QED
        BY <3>2, <3>4, <4>2, <4>3, <4>5
    <3> QED
      BY <3>3, <3>4
  <2>12. TakeLine[u] = k
    BY <1>2, <1>5
  <2>13. k.s.splits = NoSplits <=> s.splits = NoSplits
    BY <2>4, <2>9 DEF SearchInv
  <2>14. SepLen = 1 => \A p \in s.cursor + 1 .. k.s.cursor :
                     p \in Separator => k.found /\ p = k.s.cursor
    BY <2>9, <2>11
  <2>15. /\ Consistent(k.s, t) /\ k.s.cursor >= s.cursor
         /\ k.count + s.cursor = c + k.s.cursor
         /\ k.found \/ k.count > High \/ Len(k.s.buffer) <= Len(s.buffer) - (i + 1)
    BY <2>4, <2>8, <2>9, <2>10
  <2> QED
    BY <2>9, <2>12, <2>13, <2>14, <2>15 DEF SearchInv
<1> QED
  BY <1>4, <1>5

\* readuntil looks at what is there up to the first separator.
LEMMA ReadUntilTakes ==
  ASSUME NEW s, NEW t, Consistent(s, t), NEW c \in Nat
  PROVE  LET u == ReadUntil(s, c)
         IN  /\ Consistent(u.s, t) /\ u.found \in BOOLEAN /\ u.count \in Nat
             /\ u.s.splits = NoSplits <=> s.splits = NoSplits
             /\ u.s.cursor >= s.cursor
             /\ u.found \/ u.count > High \/ Empty(u.s)
             /\ SepLen = 1 => \A p \in s.cursor + 1 .. u.s.cursor :
                                p \in Separator => u.found /\ p = u.s.cursor
<1> DEFINE start == [s |-> s, found |-> FALSE, count |-> c]
           r == Rounds(start, TakeLine)
           u == ReadUntil(s, c)
           P == {i \in Nat : i <= Len(s.buffer) => SearchInv(s, t, c, r[i], i)}
<1>1. r[0] = start /\ \A i \in Nat : r[i + 1] = TakeLine[r[i]]
  BY RoundsExist
<1>2. /\ s.cursor \in Nat /\ t \in Nat /\ s.cursor <= t /\ Len(s.buffer) \in Nat
      /\ s \in Streams
  BY EmptyIsAll DEF Consistent
<1>3. u = r[Len(s.buffer)]
  BY DEF ReadUntil
<1> HIDE DEF r
<1>4. 0 \in P
  <2>1. /\ start \in [s : Streams, found : BOOLEAN, count : Nat]
        /\ start.s = s /\ start.found = FALSE /\ start.count = c
    BY <1>2
  <2> HIDE DEF start
  <2>2. /\ Consistent(start.s, t)
        /\ start.s.splits = NoSplits <=> s.splits = NoSplits
        /\ start.count + s.cursor = c + start.s.cursor
    BY <2>1
  <2>3. start.s.cursor >= s.cursor
    BY <1>2, <2>1
  <2>4. Len(start.s.buffer) <= Len(s.buffer) - 0
    BY <1>2, <2>1
  <2>5. \A p \in s.cursor + 1 .. start.s.cursor : p \in Separator => FALSE
    BY <1>2, <2>1
  <2>6. SearchInv(s, t, c, start, 0)
    BY <2>1, <2>2, <2>3, <2>4, <2>5 DEF SearchInv
  <2>7. SearchInv(s, t, c, r[0], 0)
    BY <1>1, <2>6
  <2> QED
    BY <2>7
<1>5. ASSUME NEW i \in P PROVE i + 1 \in P
  <2> SUFFICES ASSUME i + 1 <= Len(s.buffer) PROVE SearchInv(s, t, c, r[i + 1], i + 1)
    OBVIOUS
  <2>1. i \in Nat /\ i < Len(s.buffer) /\ i <= Len(s.buffer)
    BY <1>2
  <2>2. SearchInv(s, t, c, r[i], i)
    BY <2>1
  <2>3. SearchInv(s, t, c, TakeLine[r[i]], i + 1)
    BY <2>1, <2>2, SearchStep
  <2> QED
    BY <1>1, <2>1, <2>3
<1>6. SearchInv(s, t, c, u, Len(s.buffer))
  <2> HIDE DEF P
  <2>1. P = Nat
    BY <1>4, <1>5, InductionOnSets DEF P
  <2>2. Len(s.buffer) \in P
    BY <1>2, <2>1
  <2>3. SearchInv(s, t, c, r[Len(s.buffer)], Len(s.buffer))
    BY <1>2, <2>2 DEF P
  <2> QED
    BY <1>3, <2>3
<1> HIDE DEF u
<1>7. /\ Consistent(u.s, t) /\ u.found \in BOOLEAN /\ u.count \in Nat
      /\ u.s.splits = NoSplits <=> s.splits = NoSplits
      /\ u.s.cursor >= s.cursor
      /\ u.found \/ u.count > High \/ Len(u.s.buffer) <= Len(s.buffer) - Len(s.buffer)
      /\ SepLen = 1 => \A p \in s.cursor + 1 .. u.s.cursor :
                         p \in Separator => u.found /\ p = u.s.cursor
  BY <1>6 DEF SearchInv
<1>8. Len(u.s.buffer) <= Len(s.buffer) - Len(s.buffer) => Empty(u.s)
  <2>1. Len(u.s.buffer) \in Nat /\ (Empty(u.s) <=> Len(u.s.buffer) = 0)
    BY <1>7, EmptyIsAll
  <2> QED
    BY <1>2, <2>1
<1> QED
  BY <1>7, <1>8 DEF u

-----------------------------------------------------------------------------
(* The read methods, each from its loop head to its next await.            *)

\* A method that reads.
Operation == [kind : {"some", "nowait", "all", "exactly", "until", "chunk"},
              n : Nat \cup {-1}, count : Nat, from : Nat]

\* How it ends.
Ways == {"wait", "ok", "raised", "incomplete", "too big", "chunk end", "closed", "busy"}

\* What a read method has done when it comes to its next await or ends.
Effect(s, o, t, run) ==
  /\ Consistent(run.s, t)
  /\ run.s.splits = NoSplits <=> s.splits = NoSplits
  /\ run.s.cursor >= s.cursor
  /\ run.o \in Operation /\ run.o.kind = o.kind /\ run.o.from = o.from
  /\ run.how \in Ways
  /\ run.how = "wait" => /\ Empty(run.s) /\ ~eof
                         /\ o.kind = "chunk" => run.s.splits \in {{}, NoSplits}
                         /\ o.kind = "exactly" => run.o.n > 0
  /\ o.kind = "exactly" => /\ run.how = "ok" => run.o.n = 0
                           /\ run.how = "incomplete" => eof /\ run.s.cursor = t
  /\ o.kind = "until" /\ SepLen = 1 =>
       \A p \in s.cursor + 1 .. run.s.cursor :
          p \in Separator => run.how # "wait" /\ p = run.s.cursor

\* readany, read(n) and read_nowait.
LEMMA ReadSomeEffect ==
  ASSUME NEW s, NEW t, Consistent(s, t), NEW o \in Operation, o.kind \in {"some", "nowait"},
         eof \in BOOLEAN
  PROVE  Effect(s, o, t, ReadSome(s, o))
<1> DEFINE u == ReadNowait(s, o.n)
           run == ReadSome(s, o)
<1>1. o.n \in Nat \cup {-1} /\ s.cursor \in Nat /\ t \in Nat /\ s.cursor <= t
  BY EmptyIsAll DEF Operation
<1>2. /\ Consistent(u, t)
      /\ u.splits = NoSplits <=> s.splits = NoSplits
      /\ u.cursor = IF o.n = -1 \/ s.cursor + o.n > t THEN t ELSE s.cursor + o.n
  BY <1>1, ReadNowaitTakes
<1> HIDE DEF u
<1>3. u.cursor >= s.cursor
  BY <1>1, <1>2
<1>4. CASE Empty(s) /\ ~eof
  <2>1. run.s = s /\ run.o = o /\ run.how = "wait"
    BY <1>4 DEF ReadSome, Outcome
  <2> HIDE DEF run
  <2>2. Effect(s, o, t, run)
    BY <1>1, <1>4, <2>1 DEF Effect, Ways
  <2> QED
    BY <2>2 DEF run
<1>5. CASE ~(Empty(s) /\ ~eof)
  <2>1. run.s = u /\ run.o = o /\ run.how = "ok"
    BY <1>5 DEF ReadSome, Outcome, u
  <2> HIDE DEF run
  <2>2. Effect(s, o, t, run)
    BY <1>1, <1>2, <1>3, <1>5, <2>1 DEF Effect, Ways
  <2> QED
    BY <2>2 DEF run
<1> QED
  BY <1>4, <1>5

\* read(-1).
LEMMA ReadAllEffect ==
  ASSUME NEW s, NEW t, Consistent(s, t), NEW o \in Operation, o.kind = "all",
         eof \in BOOLEAN, exc \in BOOLEAN
  PROVE  Effect(s, o, t, ReadAll(s, o))
<1> DEFINE u == ReadNowait(s, -1)
           run == ReadAll(s, o)
<1>1. s.cursor \in Nat /\ t \in Nat /\ s.cursor <= t
  BY EmptyIsAll
<1>2. Consistent(u, t) /\ (u.splits = NoSplits <=> s.splits = NoSplits) /\ u.cursor = t
  BY <1>1, ReadNowaitTakes
<1>3. Empty(u) /\ u.cursor >= s.cursor
  BY <1>1, <1>2, EmptyIsAll
<1> HIDE DEF u
<1>4. CASE Empty(s)
  <2>1. run.s = s /\ run.o = o /\ run.how = IF eof THEN "ok" ELSE "wait"
    BY <1>4 DEF ReadAll, Outcome
  <2> HIDE DEF run
  <2>2. Effect(s, o, t, run)
    BY <1>1, <1>4, <2>1 DEF Effect, Ways
  <2> QED
    BY <2>2 DEF run
<1>5. CASE ~Empty(s)
  <2>1. /\ run.s = u /\ run.o = o
        /\ run.how = IF exc THEN "raised" ELSE IF eof THEN "ok" ELSE "wait"
    BY <1>5 DEF ReadAll, Outcome, u
  <2> HIDE DEF run
  <2>2. Effect(s, o, t, run)
    BY <1>1, <1>2, <1>3, <1>5, <2>1 DEF Effect, Ways
  <2> QED
    BY <2>2 DEF run
<1> QED
  BY <1>4, <1>5

\* readexactly.
LEMMA ReadExactlyEffect ==
  ASSUME NEW s, NEW t, Consistent(s, t), NEW o \in Operation, o.kind = "exactly", o.n > 0,
         eof \in BOOLEAN, exc \in BOOLEAN
  PROVE  Effect(s, o, t, ReadExactly(s, o))
<1> DEFINE u == ReadNowait(s, o.n)
           left == o.n - (u.cursor - s.cursor)
           run == ReadExactly(s, o)
<1>1. o.n \in Nat /\ s.cursor \in Nat /\ t \in Nat /\ s.cursor <= t
  BY EmptyIsAll DEF Operation
<1>2. /\ Consistent(u, t)
      /\ u.splits = NoSplits <=> s.splits = NoSplits
      /\ u.cursor = IF s.cursor + o.n > t THEN t ELSE s.cursor + o.n
  <2>1. o.n # -1
    BY <1>1
  <2> QED
    BY <1>1, <2>1, ReadNowaitTakes
<1>3. Empty(u) <=> u.cursor = t
  BY <1>2, EmptyIsAll
<1>4. /\ u.cursor >= s.cursor /\ left \in Nat
      /\ left # 0 => Empty(u) /\ u.cursor = t
  <2> HIDE DEF u
  <2>1. CASE s.cursor + o.n > t
    BY <1>1, <1>2, <1>3, <2>1
  <2>2. CASE ~(s.cursor + o.n > t)
    BY <1>1, <1>2, <1>3, <2>2
  <2> QED
    BY <2>1, <2>2
<1>5. CASE Empty(s)
  <2>2. s.cursor = t
    BY <1>5, EmptyIsAll
  <2>4. left # 0
    <3> HIDE DEF u
    <3>1. u.cursor \in Nat /\ u.cursor <= t /\ u.cursor >= s.cursor
      BY <1>2, <1>4, EmptyIsAll
    <3>2. u.cursor = s.cursor
      BY <1>1, <2>2, <3>1
    <3> QED
      BY <1>1, <3>2
  <2>1. run.s = s /\ run.o = o /\ run.how = IF eof THEN "incomplete" ELSE "wait"
    BY <1>5, <2>4 DEF ReadExactly, Outcome
  <2> HIDE DEF run, u, left
  <2>3. Effect(s, o, t, run)
    BY <1>1, <1>5, <2>1, <2>2 DEF Effect, Ways
  <2> QED
    BY <2>3 DEF run
<1>6. CASE ~Empty(s) /\ left = 0
  <2>1. run.s = u /\ run.o = [o EXCEPT !.n = 0] /\ run.how = "ok"
    BY <1>6 DEF ReadExactly, Outcome
  <2> HIDE DEF run, u, left
  <2>2. run.o \in Operation /\ run.o.kind = o.kind /\ run.o.from = o.from /\ run.o.n = 0
    BY <2>1 DEF Operation
  <2>3. Effect(s, o, t, run)
    BY <1>2, <1>4, <2>1, <2>2 DEF Effect, Ways
  <2> QED
    BY <2>3 DEF run
<1>7. CASE ~Empty(s) /\ left # 0
  <2>1. /\ run.s = u /\ run.o = [o EXCEPT !.n = left]
        /\ run.how = IF exc THEN "raised" ELSE IF eof THEN "incomplete" ELSE "wait"
    BY <1>7 DEF ReadExactly, Outcome
  <2> HIDE DEF run, u, left
  <2>2. /\ run.o \in Operation /\ run.o.kind = o.kind /\ run.o.from = o.from
        /\ run.o.n > 0
    BY <1>4, <1>7, <2>1 DEF Operation
  <2>3. Effect(s, o, t, run)
    BY <1>2, <1>4, <1>7, <2>1, <2>2 DEF Effect, Ways
  <2> QED
    BY <2>3 DEF run
<1> QED
  BY <1>5, <1>6, <1>7

\* readuntil.
LEMMA ReadLineEffect ==
  ASSUME NEW s, NEW t, Consistent(s, t), NEW o \in Operation, o.kind = "until",
         eof \in BOOLEAN
  PROVE  Effect(s, o, t, ReadLine(s, o))
<1> DEFINE u == ReadUntil(s, o.count)
           run == ReadLine(s, o)
<1>1. o.count \in Nat /\ s.cursor \in Nat /\ High \in Nat
  BY EmptyIsAll, StreamAssumption DEF Operation, High
<1>2. /\ Consistent(u.s, t) /\ u.found \in BOOLEAN /\ u.count \in Nat
      /\ u.s.splits = NoSplits <=> s.splits = NoSplits
      /\ u.s.cursor >= s.cursor
      /\ u.found \/ u.count > High \/ Empty(u.s)
      /\ SepLen = 1 => \A p \in s.cursor + 1 .. u.s.cursor :
                         p \in Separator => u.found /\ p = u.s.cursor
  BY <1>1, ReadUntilTakes
<1>3. /\ run.s = u.s /\ run.o = [o EXCEPT !.count = u.count]
      /\ run.how = IF u.count > High THEN "too big" ELSE IF u.found \/ eof THEN "ok" ELSE "wait"
  BY DEF ReadLine, Outcome
<1> HIDE DEF run, u
<1>4. run.o \in Operation /\ run.o.kind = o.kind /\ run.o.from = o.from
  BY <1>2, <1>3 DEF Operation
<1>5. run.how = "wait" => ~u.found /\ Empty(u.s) /\ ~eof
  BY <1>2, <1>3
<1>6. Effect(s, o, t, run)
  BY <1>2, <1>3, <1>4, <1>5 DEF Effect, Ways
<1> QED
  BY <1>6 DEF run

\* Dropping ends of chunks.
LEMMA ChunkEndsDropped ==
  ASSUME NEW s, NEW t, Consistent(s, t), NEW S, s.splits # NoSplits => S \subseteq s.splits
  PROVE  LET u == [s EXCEPT !.splits = IF @ = NoSplits THEN @ ELSE S]
         IN  /\ Consistent(u, t)
             /\ u.splits = NoSplits <=> s.splits = NoSplits
             /\ u.splits = IF s.splits = NoSplits THEN NoSplits ELSE S
             /\ u.cursor = s.cursor /\ u.buffer = s.buffer
<1> DEFINE u == [s EXCEPT !.splits = IF @ = NoSplits THEN @ ELSE S]
<1>1. s \in Streams /\ (s.splits # NoSplits => \A p \in s.splits : p \in 1 .. t /\ p >= s.cursor)
  BY DEF Consistent
<1>2. /\ u \in Streams
      /\ u.buffer = s.buffer /\ u.offset = s.offset /\ u.size = s.size
      /\ u.cursor = s.cursor /\ u.got = s.got
      /\ u.splits = IF s.splits = NoSplits THEN NoSplits ELSE S
  BY <1>1 DEF Streams
<1> HIDE DEF u
<1>3. t \in Nat
  BY DEF Consistent
<1>4. /\ u.splits = NoSplits <=> s.splits = NoSplits
      /\ u.splits # NoSplits => \A p \in u.splits : p \in 1 .. t /\ p >= u.cursor
  <2>1. CASE s.splits = NoSplits
    BY <1>2, <2>1
  <2>2. CASE s.splits # NoSplits
    <3>1. 0 \notin S
      BY <1>1, <1>3, <2>2
    <3> QED
      BY <1>1, <1>2, <2>2, <3>1 DEF NoSplits
  <2> QED
    BY <2>1, <2>2
<1>5. Consistent(u, t)
  BY <1>2, <1>4 DEF Consistent, Empty
<1> QED
  BY <1>2, <1>4, <1>5 DEF u

\* readchunk.
LEMMA ReadChunkEffect ==
  ASSUME NEW s, NEW t, Consistent(s, t), NEW o \in Operation, o.kind = "chunk",
         eof \in BOOLEAN, exc \in BOOLEAN
  PROVE  Effect(s, o, t, ReadChunk(s, o))
<1> DEFINE live == IF s.splits = NoSplits THEN {} ELSE {p \in s.splits : p >= s.cursor}
           rest == [s EXCEPT !.splits = IF @ = NoSplits THEN @ ELSE live \ {Min(live)}]
           none == [s EXCEPT !.splits = IF @ = NoSplits THEN @ ELSE {}]
           run == ReadChunk(s, o)
           n == Min(live) - s.cursor
<1>1. s.cursor \in Nat /\ t \in Nat /\ s.cursor <= t
  BY EmptyIsAll
<1>2. live \in SUBSET Nat /\ (s.splits # NoSplits => live \subseteq s.splits)
  BY DEF Consistent, Streams
<1>3. live # {} => Min(live) \in Nat /\ n \in Nat
  <2>1. live # {} => Min(live) \in live
    <3> HIDE DEF live
    <3> QED
      BY <1>2, LeastOfNat
  <2>2. \A p \in live : p >= s.cursor
    OBVIOUS
  <2> HIDE DEF live
  <2>3. live # {} => Min(live) \in Nat /\ Min(live) >= s.cursor
    BY <1>2, <2>1, <2>2
  <2> QED
    BY <1>1, <2>3
<1>4. /\ Consistent(rest, t) /\ (rest.splits = NoSplits <=> s.splits = NoSplits)
      /\ rest.cursor = s.cursor
  <2>1. s.splits # NoSplits => live \ {Min(live)} \subseteq s.splits
    BY <1>2
  <2> HIDE DEF live
  <2> QED
    BY <2>1, ChunkEndsDropped
<1>5. /\ Consistent(none, t) /\ (none.splits = NoSplits <=> s.splits = NoSplits)
      /\ none.cursor = s.cursor /\ none.splits \in {{}, NoSplits} /\ none.buffer = s.buffer
  <2>1. s.splits # NoSplits => {} \subseteq s.splits
    OBVIOUS
  <2>2. /\ Consistent(none, t) /\ (none.splits = NoSplits <=> s.splits = NoSplits)
        /\ none.splits = IF s.splits = NoSplits THEN NoSplits ELSE {}
        /\ none.cursor = s.cursor /\ none.buffer = s.buffer
    BY <2>1, ChunkEndsDropped
  <2> HIDE DEF none
  <2> QED
    BY <2>2
<1>6. run = CASE exc -> Outcome(s, o, "raised")
       [] ~exc /\ live # {} ->
            Outcome(IF Min(live) = s.cursor THEN rest
                    ELSE ReadNowait(rest, Min(live) - s.cursor), o, "chunk end")
       [] ~exc /\ live = {} /\ ~Empty(s) -> Outcome(ReadNowaitChunk(none, -1), o, "ok")
       [] OTHER         -> Outcome(none, o, IF eof THEN "ok" ELSE "wait")
  BY DEF ReadChunk
<1> HIDE DEF run, live, rest, none
<1> SUFFICES Effect(s, o, t, run)
  BY DEF run
<1>7. CASE exc
  <2>1. run.s = s /\ run.o = o /\ run.how = "raised"
    BY <1>6, <1>7 DEF Outcome
  <2> QED
    BY <1>1, <2>1 DEF Effect, Ways
<1>8. CASE ~exc /\ live # {}
  <2> DEFINE u == IF Min(live) = s.cursor THEN rest ELSE ReadNowait(rest, n)
  <2>1. run.s = u /\ run.o = o /\ run.how = "chunk end"
    BY <1>6, <1>8 DEF Outcome
  <2>2. /\ Consistent(u, t) /\ (u.splits = NoSplits <=> s.splits = NoSplits)
        /\ u.cursor >= s.cursor
    <3>1. CASE Min(live) = s.cursor
      BY <1>1, <1>4, <3>1
    <3>2. CASE Min(live) # s.cursor
      <4> DEFINE v == ReadNowait(rest, n)
      <4>1. n \in Nat
        BY <1>3, <1>8
      <4> HIDE DEF n
      <4>2. /\ Consistent(v, t) /\ (v.splits = NoSplits <=> rest.splits = NoSplits)
            /\ v.cursor = IF n = -1 \/ rest.cursor + n > t THEN t ELSE rest.cursor + n
        BY <1>4, <4>1, ReadNowaitTakes
      <4>3. u = v
        BY <3>2
      <4> HIDE DEF v, u
      <4>4. v.cursor >= s.cursor
        BY <1>1, <1>4, <4>1, <4>2
      <4> QED
        BY <1>4, <4>2, <4>3, <4>4
    <3> QED
      BY <3>1, <3>2
  <2> HIDE DEF u
  <2> QED
    BY <2>1, <2>2 DEF Effect, Ways
<1>9. CASE ~exc /\ live = {} /\ ~Empty(s)
  <2> DEFINE u == ReadNowaitChunk(none, -1)
  <2>1. run.s = u /\ run.o = o /\ run.how = "ok"
    BY <1>6, <1>9 DEF Outcome
  <2>2. ~Empty(none)
    BY <1>5, <1>9 DEF Empty
  <2>3. /\ Consistent(u, t) /\ (u.splits = NoSplits <=> none.splits = NoSplits)
        /\ u.cursor = none.cursor + Left(none)
    BY <1>5, <2>2, ChunkTaken
  <2>4. Left(none) \in Nat
    BY <1>5, <2>2, FirstPiece
  <2> HIDE DEF u
  <2>5. u.cursor >= s.cursor
    BY <1>1, <1>5, <2>3, <2>4
  <2> QED
    BY <1>5, <2>1, <2>3, <2>5 DEF Effect, Ways
<1>10. CASE ~exc /\ live = {} /\ Empty(s)
  <2>1. run.s = none /\ run.o = o /\ run.how = IF eof THEN "ok" ELSE "wait"
    BY <1>6, <1>10 DEF Outcome
  <2>2. Empty(none)
    BY <1>5, <1>10 DEF Empty
  <2> QED
    BY <1>1, <1>5, <2>1, <2>2 DEF Effect, Ways
<1> QED
  BY <1>7, <1>8, <1>9, <1>10

\* Every read method keeps the bytes in order, and waits only for what is not there.
LEMMA RunEffect ==
  ASSUME NEW s, NEW t, Consistent(s, t), NEW o \in Operation, o.kind = "exactly" => o.n > 0,
         eof \in BOOLEAN, exc \in BOOLEAN
  PROVE  Effect(s, o, t, Run(s, o))
<1>0. o.kind \in {"some", "nowait", "all", "exactly", "until", "chunk"}
  BY DEF Operation
<1>1. CASE o.kind \in {"some", "nowait"}
  <2>1. Run(s, o) = ReadSome(s, o)
    BY <1>1 DEF Run
  <2> QED
    BY <1>1, <2>1, ReadSomeEffect
<1>2. CASE o.kind = "all"
  <2>1. Run(s, o) = ReadAll(s, o)
    BY <1>2 DEF Run
  <2> QED
    BY <1>2, <2>1, ReadAllEffect
<1>3. CASE o.kind = "exactly"
  <2>1. Run(s, o) = ReadExactly(s, o)
    BY <1>3 DEF Run
  <2> QED
    BY <1>3, <2>1, ReadExactlyEffect
<1>4. CASE o.kind = "until"
  <2>1. Run(s, o) = ReadLine(s, o)
    BY <1>4 DEF Run
  <2> QED
    BY <1>4, <2>1, ReadLineEffect
<1>5. CASE o.kind = "chunk"
  <2>1. Run(s, o) = ReadChunk(s, o)
    BY <1>5 DEF Run
  <2> QED
    BY <1>5, <2>1, ReadChunkEffect
<1> QED
  BY <1>0, <1>1, <1>2, <1>3, <1>4, <1>5

-----------------------------------------------------------------------------
(* The buffer as one sequence.                                             *)

\* No piece of a buffer starts before the first one.
LEMMA LinkedGrows ==
  ASSUME NEW b, NEW t \in Nat, Linked(b, t), NEW i \in 1 .. Len(b)
  PROVE  /\ Len(b) \in Nat
         /\ b[i] \in Seq(Nat) /\ Len(b[i]) \in Nat \ {0} /\ b[i][1] \in Nat /\ b[i][1] >= b[1][1]
         /\ b[1][1] \in Nat \ {0}
<1> DEFINE Piece(j) == /\ b[j] \in Seq(Nat) /\ Len(b[j]) \in Nat \ {0} /\ b[j][1] \in Nat \ {0}
                       /\ PastEnd(b[j]) = b[j][1] + Len(b[j])
           P == {n \in Nat : n + 1 <= Len(b) => b[n + 1][1] >= b[1][1]}
<1>1. Len(b) \in Nat
  BY LenProperties DEF Linked
<1>2. \A j \in 1 .. Len(b) : Piece(j)
  <2> SUFFICES ASSUME NEW j \in 1 .. Len(b) PROVE Piece(j)
    OBVIOUS
  <2>1. b[j] \in Seq(Nat) /\ b[j] # <<>> /\ b[j][1] >= 1
    BY DEF Linked, Whole
  <2>2. Len(b[j]) \in Nat \ {0}
    BY <2>1, NoLength
  <2>3. b[j][1] \in Nat
    <3>1. 1 \in 1 .. Len(b[j])
      BY <2>2
    <3> QED
      BY <2>1, <3>1, ElementOfSeq
  <2> QED
    BY <2>1, <2>2, <2>3 DEF PastEnd
<1> HIDE DEF Piece
<1>3. 0 \in P
  <2>1. 1 <= Len(b) => b[1][1] \in Nat
    BY <1>1, <1>2 DEF Piece
  <2> QED
    BY <2>1
<1>4. ASSUME NEW n \in P PROVE n + 1 \in P
  <2> SUFFICES ASSUME (n + 1) + 1 <= Len(b) PROVE b[(n + 1) + 1][1] >= b[1][1]
    OBVIOUS
  <2>1. n \in Nat /\ n + 1 \in 1 .. Len(b) - 1 /\ n + 1 \in 1 .. Len(b)
        /\ (n + 1) + 1 \in 1 .. Len(b) /\ 1 \in 1 .. Len(b) /\ n + 1 <= Len(b)
    BY <1>1
  <2>2. b[n + 1][1] >= b[1][1]
    BY <2>1
  <2>3. b[(n + 1) + 1][1] = PastEnd(b[n + 1])
    BY <2>1 DEF Linked
  <2>4. /\ PastEnd(b[n + 1]) = b[n + 1][1] + Len(b[n + 1])
        /\ b[n + 1][1] \in Nat /\ Len(b[n + 1]) \in Nat /\ b[1][1] \in Nat
    BY <1>2, <2>1 DEF Piece
  <2> HIDE DEF P
  <2> QED
    BY <2>2, <2>3, <2>4
<1>5. b[i][1] >= b[1][1]
  <2> HIDE DEF P
  <2>1. P = Nat
    BY <1>3, <1>4, InductionOnSets DEF P
  <2>2. i - 1 \in Nat /\ (i - 1) + 1 = i /\ i <= Len(b)
    BY <1>1
  <2>3. i - 1 \in P
    BY <2>1, <2>2
  <2> QED
    BY <2>2, <2>3 DEF P
<1>6. 1 \in 1 .. Len(b)
  BY <1>1
<1> QED
  BY <1>1, <1>2, <1>5, <1>6 DEF Piece

\* The buffer as one sequence: consecutive bytes up to the last one fed.
LEMMA FlattenLinked ==
  ASSUME NEW b, NEW t \in Nat, Linked(b, t), b # <<>>
  PROVE  /\ FlattenSeq(b) = [k \in 1 .. t + 1 - b[1][1] |-> b[1][1] - 1 + k]
         /\ b[1][1] \in Nat \ {0} /\ t + 1 - b[1][1] \in Nat
<1> DEFINE base == b[1][1] - 1
           upto(i) == b[i][1] + Len(b[i]) - 1 - base
           g(i) == [k \in 1 .. upto(i) |-> base + k]
           whole == [i \in 1 .. Len(b) |-> g(i)]
<1>1. Len(b) \in Nat \ {0} /\ 1 \in 1 .. Len(b) /\ Len(b) \in 1 .. Len(b)
  <2>1. Len(b) \in Nat \ {0}
    BY NoLength DEF Linked
  <2> QED
    BY <2>1
<1>2. \A i \in 1 .. Len(b) :
        /\ b[i] \in Seq(Nat) /\ Len(b[i]) \in Nat \ {0} /\ b[i][1] \in Nat /\ b[i][1] >= b[1][1]
        /\ \A j \in 1 .. Len(b[i]) : b[i][j] = b[i][1] + j - 1
  BY LinkedGrows DEF Linked, Whole
<1>3. base \in Nat /\ b[1][1] \in Nat \ {0}
  <2>1. b[1][1] \in Nat \ {0}
    BY <1>1, LinkedGrows
  <2> QED
    BY <2>1
<1>4. \A i \in 1 .. Len(b) : i # 1 => i - 1 \in 1 .. Len(b) /\ b[i][1] = b[i - 1][1] + Len(b[i - 1])
  <2> SUFFICES ASSUME NEW i \in 1 .. Len(b), i # 1
               PROVE  i - 1 \in 1 .. Len(b) /\ b[i][1] = b[i - 1][1] + Len(b[i - 1])
    OBVIOUS
  <2>1. i - 1 \in 1 .. Len(b) - 1 /\ (i - 1) + 1 = i /\ i - 1 \in 1 .. Len(b)
    BY <1>1
  <2>2. b[(i - 1) + 1][1] = PastEnd(b[i - 1])
    BY <2>1 DEF Linked
  <2> QED
    BY <2>1, <2>2 DEF PastEnd
<1>5. \A i \in 1 .. Len(b) : /\ upto(i) \in Nat
                             /\ g(i) \in Seq(Nat) /\ Len(g(i)) = upto(i)
                             /\ \A k \in 1 .. upto(i) : g(i)[k] = base + k
  <2> SUFFICES ASSUME NEW i \in 1 .. Len(b)
               PROVE  /\ upto(i) \in Nat
                      /\ g(i) \in Seq(Nat) /\ Len(g(i)) = upto(i)
                      /\ \A k \in 1 .. upto(i) : g(i)[k] = base + k
    OBVIOUS
  <2>1. upto(i) \in Nat
    <3>1. /\ b[i][1] \in Nat /\ Len(b[i]) \in Nat /\ b[i][1] >= b[1][1] /\ b[1][1] \in Nat
      BY <1>2, <1>3
    <3> QED
      BY <3>1
  <2> HIDE DEF upto, base
  <2>2. g(i) \in Seq(Nat) /\ Len(g(i)) = upto(i)
    BY <1>3, <2>1, UpToIsSeq
  <2> QED
    BY <2>1, <2>2
<1>6. g(1) = b[1]
  <2>1. upto(1) = Len(b[1])
    <3>1. b[1][1] \in Nat /\ Len(b[1]) \in Nat
      BY <1>1, <1>2
    <3> QED
      BY <3>1
  <2>2. \A k \in 1 .. Len(b[1]) : b[1][k] = base + k
    <3> SUFFICES ASSUME NEW k \in 1 .. Len(b[1]) PROVE b[1][k] = base + k
      OBVIOUS
    <3>1. b[1][k] = b[1][1] + k - 1 /\ b[1][1] \in Nat /\ k \in Nat
      BY <1>1, <1>2
    <3> QED
      BY <3>1
  <2> HIDE DEF g, upto, base
  <2> QED
    BY <1>1, <1>2, <1>5, <2>1, <2>2, SeqEqual
<1>7. ASSUME NEW i \in 1 .. Len(b), i # 1 PROVE g(i) = g(i - 1) \o b[i]
  <2>1. i - 1 \in 1 .. Len(b) /\ b[i][1] = b[i - 1][1] + Len(b[i - 1])
    BY <1>4, <1>7
  <2>2. /\ b[i - 1][1] \in Nat /\ Len(b[i - 1]) \in Nat /\ Len(b[i]) \in Nat /\ b[i][1] \in Nat
        /\ b[i] \in Seq(Nat) /\ \A j \in 1 .. Len(b[i]) : b[i][j] = b[i][1] + j - 1
    BY <1>2, <2>1
  <2>3. upto(i) = upto(i - 1) + Len(b[i]) /\ b[i][1] = base + upto(i - 1) + 1
    <3> HIDE DEF base
    <3> QED
      BY <1>3, <2>1, <2>2
  <2> DEFINE c == g(i - 1) \o b[i]
             m == upto(i - 1)
             h == g(i - 1)
  <2>4. m \in Nat /\ h \in Seq(Nat) /\ Len(h) = m /\ \A k \in 1 .. m : h[k] = base + k
    <3> HIDE DEF g, upto
    <3> QED
      BY <1>5, <2>1
  <2>5. upto(i) = m + Len(b[i]) /\ b[i][1] = base + m + 1
    BY <2>3
  <2> HIDE DEF h, m
  <2>6. /\ c \in Seq(Nat) /\ Len(c) = m + Len(b[i])
        /\ \A k \in 1 .. m + Len(b[i]) : c[k] = IF k <= m THEN h[k] ELSE b[i][k - m]
    <3>1. c = h \o b[i]
      BY DEF h
    <3> HIDE DEF c
    <3>2. /\ h \o b[i] \in Seq(Nat) /\ Len(h \o b[i]) = Len(h) + Len(b[i])
          /\ \A k \in 1 .. Len(h) + Len(b[i]) : (h \o b[i])[k] =
               IF k <= Len(h) THEN h[k] ELSE b[i][k - Len(h)]
      BY <2>2, <2>4, ConcatProperties
    <3> QED
      BY <2>4, <3>1, <3>2
  <2> HIDE DEF c
  <2>7. \A k \in 1 .. m + Len(b[i]) : c[k] = base + k
    <3> SUFFICES ASSUME NEW k \in 1 .. m + Len(b[i]) PROVE c[k] = base + k
      OBVIOUS
    <3>0. k \in Nat /\ m \in Nat /\ Len(b[i]) \in Nat
      BY <2>2, <2>4
    <3>1. CASE k <= m
      <4>1. k \in 1 .. m /\ c[k] = h[k]
        BY <2>6, <3>0, <3>1
      <4> QED
        BY <2>4, <4>1
    <3>2. CASE ~(k <= m)
      <4>1. k - m \in 1 .. Len(b[i])
        BY <3>0, <3>2
      <4>2. c[k] = b[i][k - m] /\ b[i][k - m] = b[i][1] + (k - m) - 1
        BY <2>2, <2>6, <3>2, <4>1
      <4> HIDE DEF base
      <4>3. (base + m + 1) + (k - m) - 1 = base + k
        BY <1>3, <3>0
      <4> QED
        BY <2>5, <4>2, <4>3
    <3> QED
      BY <3>1, <3>2
  <2>8. /\ g(i) \in Seq(Nat) /\ Len(g(i)) = upto(i)
        /\ \A k \in 1 .. upto(i) : g(i)[k] = base + k
    <3> HIDE DEF g, upto
    <3> QED
      BY <1>5
  <2> HIDE DEF g, upto, base
  <2>9. g(i) = c
    BY <2>5, <2>6, <2>7, <2>8, SeqEqual
  <2> QED
    BY <2>9 DEF c
<1> HIDE DEF g
<1>8. whole = [i \in 1 .. Len(b) |-> IF i = 1 THEN b[i] ELSE whole[i - 1] \o b[i]]
  <2>1. \A i \in 1 .. Len(b) : whole[i] = g(i)
    OBVIOUS
  <2>2. \A i \in 1 .. Len(b) : i # 1 => i - 1 \in 1 .. Len(b)
    BY <1>4
  <2>3. \A i \in 1 .. Len(b) : g(i) = IF i = 1 THEN b[i] ELSE whole[i - 1] \o b[i]
    <3> HIDE DEF whole
    <3> QED
      BY <1>6, <1>7, <2>1, <2>2
  <2> QED
    BY <2>3
<1> DEFINE Meets(f) == f = [i \in 1 .. Len(b) |-> IF i = 1 THEN b[i] ELSE f[i - 1] \o b[i]]
           flatten == CHOOSE f : Meets(f)
<1>9. Meets(flatten)
  <2> HIDE DEF whole
  <2>1. Meets(whole)
    BY <1>8, Zenon
  <2> HIDE DEF Meets
  <2> QED
    BY <2>1, Zenon
<1>10. FlattenSeq(b) = flatten[Len(b)]
  BY <1>1 DEF FlattenSeq
<1> HIDE DEF flatten
<1>11. \A i \in 1 .. Len(b) : flatten[i] = IF i = 1 THEN b[i] ELSE flatten[i - 1] \o b[i]
  <2> SUFFICES ASSUME NEW i \in 1 .. Len(b)
               PROVE  flatten[i] = IF i = 1 THEN b[i] ELSE flatten[i - 1] \o b[i]
    OBVIOUS
  <2> DEFINE h == [j \in 1 .. Len(b) |-> IF j = 1 THEN b[j] ELSE flatten[j - 1] \o b[j]]
  <2>1. h[i] = IF i = 1 THEN b[i] ELSE flatten[i - 1] \o b[i]
    OBVIOUS
  <2>2. flatten = h
    BY <1>9, Zenon
  <2> QED
    BY <2>1, <2>2, Zenon
<1> HIDE DEF Meets
<1>12. flatten[Len(b)] = g(Len(b))
  <2> DEFINE P == {n \in Nat : n + 1 <= Len(b) => flatten[n + 1] = g(n + 1)}
  <2>1. 0 \in P
    <3>1. 1 \in 1 .. Len(b) => flatten[1] = g(1)
      BY <1>6, <1>11
    <3> QED
      BY <1>1, <3>1
  <2>2. ASSUME NEW n \in P PROVE n + 1 \in P
    <3> SUFFICES ASSUME (n + 1) + 1 <= Len(b) PROVE flatten[(n + 1) + 1] = g((n + 1) + 1)
      OBVIOUS
    <3>1. /\ n \in Nat /\ (n + 1) + 1 \in 1 .. Len(b) /\ (n + 1) + 1 # 1
          /\ ((n + 1) + 1) - 1 = n + 1 /\ n + 1 <= Len(b)
      BY <1>1
    <3>2. flatten[n + 1] = g(n + 1)
      BY <3>1
    <3> HIDE DEF P
    <3>3. flatten[(n + 1) + 1] = flatten[n + 1] \o b[(n + 1) + 1]
      BY <1>11, <3>1
    <3>4. g((n + 1) + 1) = g(n + 1) \o b[(n + 1) + 1]
      BY <1>7, <3>1
    <3> QED
      BY <3>2, <3>3, <3>4
  <2> HIDE DEF P
  <2>3. P = Nat
    BY <2>1, <2>2, InductionOnSets DEF P
  <2>4. Len(b) - 1 \in Nat /\ (Len(b) - 1) + 1 = Len(b)
    BY <1>1
  <2>5. Len(b) - 1 \in P
    BY <2>3, <2>4
  <2> QED
    BY <1>1, <2>4, <2>5 DEF P
<1>13. upto(Len(b)) = t + 1 - b[1][1]
  <2>1. PastEnd(b[Len(b)]) = t + 1
    BY DEF Linked
  <2>2. b[Len(b)][1] + Len(b[Len(b)]) = t + 1
    BY <2>1 DEF PastEnd
  <2>3. b[Len(b)][1] \in Nat /\ Len(b[Len(b)]) \in Nat /\ b[1][1] \in Nat
    BY <1>1, <1>2
  <2>4. \A x, l, f \in Nat : x + l = t + 1 => x + l - 1 - (f - 1) = t + 1 - f
    OBVIOUS
  <2> QED
    BY <2>2, <2>3, <2>4
<1>14. upto(Len(b)) \in Nat
  <2> HIDE DEF upto
  <2> QED
    BY <1>1, <1>5
<1>15. g(Len(b)) = [k \in 1 .. t + 1 - b[1][1] |-> b[1][1] - 1 + k]
  <2> HIDE DEF upto
  <2> QED
    BY <1>13 DEF g
<1> HIDE DEF upto
<1> QED
  BY <1>3, <1>10, <1>12, <1>13, <1>14, <1>15

\* What was read and then what is in the buffer is what was fed.
LEMMA ConsistentInOrder ==
  ASSUME NEW s, NEW t, Consistent(s, t)
  PROVE  LET left == FlattenSeq(s.buffer)
         IN  /\ s.got \o SubSeq(left, s.offset + 1, Len(left)) = [i \in 1 .. t |-> i]
             /\ s.cursor = Len(s.got)
<1> DEFINE left == FlattenSeq(s.buffer)
           rest == SubSeq(left, s.offset + 1, Len(left))
           fed == [i \in 1 .. t |-> i]
<1>1. /\ s.cursor \in Nat /\ t \in Nat /\ s.cursor <= t /\ s.offset \in Nat
      /\ s.got = [i \in 1 .. s.cursor |-> i] /\ Linked(s.buffer, t)
  BY EmptyIsAll DEF Consistent, Streams
<1>2. /\ s.got \in Seq(Nat) /\ Len(s.got) = s.cursor
      /\ fed \in Seq(Nat) /\ Len(fed) = t
  BY <1>1, UpToIsSeq
<1>3. CASE Empty(s)
  <2>1. s.buffer = <<>> /\ s.cursor = t /\ s.offset = 0
    BY <1>3 DEF Consistent, Empty
  <2>2. left = <<>>
    BY <2>1 DEF FlattenSeq
  <2> HIDE DEF left
  <2>3. rest = <<>>
    <3>1. <<>> \in Seq(Nat) /\ Len(<<>>) = 0 /\ \A i \in 0 + 1 .. 0 : <<>>[i] \in Nat
      OBVIOUS
    <3>2. SubSeq(<<>>, 0 + 1, 0) \in Seq(Nat) /\ Len(SubSeq(<<>>, 0 + 1, 0)) = 0
      <4>1. \A m, n \in Int : (\A i \in m .. n : <<>>[i] \in Nat) =>
              /\ SubSeq(<<>>, m, n) \in Seq(Nat)
              /\ Len(SubSeq(<<>>, m, n)) = IF m <= n THEN n - m + 1 ELSE 0
        BY SubSeqProperties
      <4> QED
        BY <3>1, <4>1
    <3>3. SubSeq(<<>>, 0 + 1, 0) = <<>>
      BY <3>2, NoLength
    <3> QED
      BY <2>1, <2>2, <3>1, <3>3
  <2> HIDE DEF rest
  <2>4. s.got \o rest = s.got
    BY <1>2, <2>3, ConcatEmptySeq
  <2> QED
    BY <1>1, <1>2, <2>1, <2>4 DEF rest, left
<1>4. CASE ~Empty(s)
  <2> DEFINE first == s.buffer[1][1]
             n == t + 1 - first
  <2>1. /\ left = [k \in 1 .. n |-> first - 1 + k] /\ first \in Nat \ {0} /\ n \in Nat
    BY <1>1, <1>4, FlattenLinked DEF Empty
  <2>2. first + s.offset = s.cursor + 1
    BY <1>4 DEF Consistent
  <2>3. first - 1 \in Nat /\ s.offset = s.cursor - (first - 1) /\ n - s.offset = t - s.cursor
    <3>1. \A f, o, c, u \in Int : f + o = c + 1 => o = c - (f - 1) /\ (u + 1 - f) - o = u - c
      OBVIOUS
    <3>2. first \in Int /\ first - 1 \in Nat /\ s.offset \in Int /\ s.cursor \in Int /\ t \in Int
      BY <1>1, <2>1
    <3> HIDE DEF first
    <3> QED
      BY <2>2, <3>1, <3>2
  <2> HIDE DEF left, first, n
  <2>4. left \in Seq(Nat) /\ Len(left) = n /\ \A k \in 1 .. n : left[k] = first - 1 + k
    BY <2>1, <2>3, UpToIsSeq
  <2>5. /\ rest \in Seq(Nat) /\ Len(rest) = t - s.cursor
        /\ \A k \in 1 .. t - s.cursor : rest[k] = s.cursor + k
    <3> DEFINE o == s.offset
    <3>1. \A i \in o + 1 .. n : left[i] \in Nat
      <4>1. \A i \in o + 1 .. n : i \in 1 .. Len(left)
        BY <1>1, <2>1, <2>4
      <4> QED
        BY <2>4, <4>1, ElementOfSeq
    <3>2. /\ rest \in Seq(Nat)
          /\ Len(rest) = IF o + 1 <= n THEN n - (o + 1) + 1 ELSE 0
          /\ \A k \in 1 .. n - (o + 1) + 1 : rest[k] = left[o + 1 + k - 1]
      <4>1. o + 1 \in Int /\ n \in Int
        BY <1>1, <2>1
      <4> QED
        BY <2>4, <3>1, <4>1, SubSeqProperties
    <3>3. n - (o + 1) + 1 = t - s.cursor /\ (~(o + 1 <= n) => t - s.cursor = 0)
      BY <1>1, <2>1, <2>3
    <3>4. Len(rest) = t - s.cursor
      BY <3>2, <3>3
    <3>5. ASSUME NEW k \in 1 .. t - s.cursor PROVE rest[k] = s.cursor + k
      <4>1. rest[k] = left[o + 1 + k - 1]
        BY <3>2, <3>3
      <4>2. o + 1 + k - 1 \in 1 .. n
        <5>1. \A p, c, u, m \in Int : m - p = u - c =>
                \A j \in 1 .. u - c : p + 1 + j - 1 \in p + 1 .. m
          OBVIOUS
        <5>2. o \in Nat /\ s.cursor \in Int /\ t \in Int /\ n \in Int
          BY <1>1, <2>1
        <5>3. o + 1 + k - 1 \in o + 1 .. n
          BY <2>3, <5>1, <5>2
        <5> QED
          BY <5>2, <5>3
      <4>3. left[o + 1 + k - 1] = first - 1 + (o + 1 + k - 1)
        BY <2>4, <4>2
      <4>4. first - 1 + (o + 1 + k - 1) = s.cursor + k
        <5>1. \A f, p, c, j \in Int : f + p = c + 1 => f - 1 + (p + 1 + j - 1) = c + j
          OBVIOUS
        <5>2. first \in Int /\ o \in Int /\ s.cursor \in Int /\ k \in Int
          BY <1>1, <2>1
        <5> QED
          BY <2>2, <5>1, <5>2
      <4> QED
        BY <4>1, <4>3, <4>4
    <3> QED
      BY <3>2, <3>4, <3>5
  <2> HIDE DEF rest
  <2>6. /\ s.got \o rest \in Seq(Nat) /\ Len(s.got \o rest) = t
        /\ \A i \in 1 .. t : (s.got \o rest)[i] =
             IF i <= s.cursor THEN s.got[i] ELSE rest[i - s.cursor]
    <3>1. /\ s.got \o rest \in Seq(Nat) /\ Len(s.got \o rest) = Len(s.got) + Len(rest)
          /\ \A i \in 1 .. Len(s.got) + Len(rest) : (s.got \o rest)[i] =
               IF i <= Len(s.got) THEN s.got[i] ELSE rest[i - Len(s.got)]
      BY <1>2, <2>5, ConcatProperties
    <3>2. Len(s.got) + Len(rest) = t
      BY <1>1, <1>2, <2>5
    <3> QED
      BY <1>2, <3>1, <3>2
  <2>7. \A i \in 1 .. t : (s.got \o rest)[i] = i
    <3> SUFFICES ASSUME NEW i \in 1 .. t PROVE (s.got \o rest)[i] = i
      OBVIOUS
    <3>1. CASE i <= s.cursor
      <4>1. i \in 1 .. s.cursor /\ (s.got \o rest)[i] = s.got[i]
        BY <1>1, <2>6, <3>1
      <4> QED
        BY <1>1, <4>1
    <3>2. CASE ~(i <= s.cursor)
      <4>1. i - s.cursor \in 1 .. t - s.cursor
        BY <1>1, <3>2
      <4>2. (s.got \o rest)[i] = s.cursor + (i - s.cursor)
        BY <2>5, <2>6, <3>2, <4>1
      <4>3. \A j, c \in Int : c + (j - c) = j
        OBVIOUS
      <4>4. i \in Int /\ s.cursor \in Int
        BY <1>1
      <4> QED
        BY <4>2, <4>3, <4>4
    <3> QED
      BY <3>1, <3>2
  <2>8. s.got \o rest = fed
    <3>1. \A i \in 1 .. t : fed[i] = i
      OBVIOUS
    <3> HIDE DEF fed
    <3> QED
      BY <1>2, <2>6, <2>7, <3>1, SeqEqual
  <2> QED
    BY <1>2, <2>8 DEF rest, left
<1> QED
  BY <1>3, <1>4

-----------------------------------------------------------------------------
(* The inductive invariant.                                                *)

\* What a read returned.
Results == [kind : {"some", "nowait", "all", "exactly", "until", "chunk", "none"},
            n : Nat \cup {-1}, from : Nat, to : Nat, how : Ways \cup {"none"}]

\* The values of the variables.
Typing ==
  /\ transport \in BOOLEAN /\ paused \in BOOLEAN /\ parsing \in BOOLEAN
  /\ chunkOpen \in BOOLEAN /\ eof \in BOOLEAN /\ exc \in BOOLEAN
  /\ total \in 0 .. MaxTotal
  /\ waiter \in Reader \cup {Nobody}
  /\ op \in [Reader -> Operation \cup {Idle}]
  /\ fut \in [Reader -> {"none", "pending", "set", "raised", "cancelled"}]
  /\ result \in [Reader -> Results]
  /\ eofWaiter \in {"none", "pending", "set", "raised"}
  /\ message \in 1 .. Messages

\* The inductive invariant.
IInv ==
  /\ Typing
  /\ Consistent(stream, total)
  /\ chunkOpen => stream.splits # NoSplits /\ ~eof
  /\ \A r \in Reader : op[r].kind = "idle" <=> fut[r] = "none"
  /\ \A r \in Reader : op[r].kind = "exactly" => op[r].n > 0

\* A new stream.
LEMMA EmptyStreamConsistent == Consistent(EmptyStream, 0) /\ Empty(EmptyStream)
<1> DEFINE s == EmptyStream
<1>1. /\ s.buffer = <<>> /\ s.offset = 0 /\ s.size = 0 /\ s.cursor = 0 /\ s.splits = NoSplits
      /\ s.got = <<>>
  BY DEF EmptyStream
<1>2. <<>> \in Seq(Nat) /\ <<>> \in Seq(Seq(Nat)) /\ Len(<<>>) = 0
  OBVIOUS
<1>3. s \in Streams
  BY <1>2 DEF EmptyStream, Streams, NoSplits
<1>4. Linked(<<>>, 0)
  BY <1>2 DEF Linked
<1>5. <<>> = [i \in 1 .. 0 |-> i]
  <2> DEFINE e == [i \in 1 .. 0 |-> i]
  <2>1. e \in Seq(Nat) /\ Len(e) = 0
    BY UpToIsSeq
  <2> HIDE DEF e
  <2>2. e = <<>>
    BY <2>1, NoLength
  <2> QED
    BY <2>2 DEF e
<1> HIDE DEF s
<1>6. Consistent(s, 0) /\ Empty(s)
  BY <1>1, <1>3, <1>4, <1>5 DEF Consistent, Empty
<1> QED
  BY <1>6 DEF s

\* feed_data
Fed(s, t, k) == [s EXCEPT !.size = @ + k, !.buffer = Append(@, [i \in 1 .. k |-> t + i])]

\* A stream that is fed stays consistent.
LEMMA FedConsistent ==
  ASSUME NEW s, NEW t, Consistent(s, t), NEW k \in Nat \ {0}
  PROVE  LET u == Fed(s, t, k)
         IN  /\ Consistent(u, t + k) /\ u.splits = s.splits /\ u.cursor = s.cursor
             /\ u.size = s.size + k
<1> DEFINE p == [i \in 1 .. k |-> t + i]
           u == Fed(s, t, k)
<1>1. /\ s \in Streams /\ t \in Nat /\ s.cursor \in Nat /\ s.cursor <= t /\ s.size = t - s.cursor
      /\ Linked(s.buffer, t)
  BY EmptyIsAll DEF Consistent
<1>2. /\ Linked(Append(s.buffer, p), t + k) /\ Append(s.buffer, p) # <<>>
      /\ Append(s.buffer, p)[1] = IF s.buffer = <<>> THEN p ELSE s.buffer[1]
      /\ Len(p) = k /\ p[1] = t + 1
  BY <1>1, LinkedAppend
<1>0. u = [s EXCEPT !.size = @ + k, !.buffer = Append(@, p)]
  BY DEF Fed
<1> HIDE DEF p, u
<1>3. /\ u.buffer = Append(s.buffer, p) /\ u.offset = s.offset /\ u.size = s.size + k
      /\ u.cursor = s.cursor /\ u.got = s.got /\ u.splits = s.splits
  BY <1>0, <1>1 DEF Streams
<1>4. u \in Streams
  <2>1. Append(s.buffer, p) \in Seq(Seq(Nat))
    BY <1>2 DEF Linked
  <2>2. s.size + k \in Int
    BY <1>1
  <2> QED
    BY <1>0, <1>1, <2>1, <2>2 DEF Streams
<1>5. t + k \in Nat /\ u.cursor \in 0 .. t + k /\ u.size = (t + k) - u.cursor
  BY <1>1, <1>3
<1>6. u.buffer # <<>> /\ u.offset < Len(u.buffer[1]) /\ u.buffer[1][1] + u.offset = u.cursor + 1
  <2>1. CASE Empty(s)
    <3>1. s.cursor = t /\ s.offset = 0
      BY <2>1 DEF Consistent
    <3>2. u.buffer[1] = p
      BY <1>2, <1>3, <2>1 DEF Empty
    <3> QED
      BY <1>1, <1>2, <1>3, <3>1, <3>2
  <2>2. CASE ~Empty(s)
    <3>1. s.offset < Len(s.buffer[1]) /\ s.buffer[1][1] + s.offset = s.cursor + 1
      BY <2>2 DEF Consistent
    <3>2. u.buffer[1] = s.buffer[1]
      BY <1>2, <1>3, <2>2 DEF Empty
    <3> QED
      BY <1>2, <1>3, <3>1, <3>2
  <2> QED
    BY <2>1, <2>2
<1>7. u.splits # NoSplits => \A q \in u.splits : q \in 1 .. t + k /\ q >= u.cursor
  <2>1. \A q \in 1 .. t : q \in 1 .. t + k
    BY <1>1
  <2> QED
    BY <1>3, <2>1 DEF Consistent
<1>8. u.got = [i \in 1 .. u.cursor |-> i]
  BY <1>3 DEF Consistent
<1>9. Consistent(u, t + k)
  BY <1>2, <1>3, <1>4, <1>5, <1>6, <1>7, <1>8 DEF Consistent, Empty
<1> QED
  BY <1>3, <1>9 DEF u

\* unread_data puts bytes that were read back in front of those that are left.
LEMMA UnreadConsistent ==
  ASSUME NEW s, NEW t, Consistent(s, t), s.splits = NoSplits,
         NEW from \in Nat, from < s.cursor
  PROVE  LET back == SubSeq(s.got, from + 1, s.cursor)
             kept == IF s.offset = 0 THEN s.buffer
                     ELSE <<SubSeq(Head(s.buffer), s.offset + 1, Len(Head(s.buffer)))>>
                          \o Tail(s.buffer)
             u == [s EXCEPT !.buffer = <<back>> \o kept, !.offset = 0,
                            !.size = @ + Len(back), !.cursor = @ - Len(back),
                            !.got = SubSeq(@, 1, from)]
         IN  Consistent(u, t) /\ u.splits = NoSplits /\ u.size >= s.size /\ u.cursor = from
<1> DEFINE back == SubSeq(s.got, from + 1, s.cursor)
           kept == IF s.offset = 0 THEN s.buffer
                   ELSE <<SubSeq(Head(s.buffer), s.offset + 1, Len(Head(s.buffer)))>>
                        \o Tail(s.buffer)
           u == [s EXCEPT !.buffer = <<back>> \o kept, !.offset = 0,
                          !.size = @ + Len(back), !.cursor = @ - Len(back),
                          !.got = SubSeq(@, 1, from)]
<1>1. /\ s \in Streams /\ t \in Nat /\ s.cursor \in Nat /\ s.cursor <= t /\ s.size = t - s.cursor
      /\ Linked(s.buffer, t) /\ s.got = [i \in 1 .. s.cursor |-> i]
  BY EmptyIsAll DEF Consistent
<1>2. s.got \in Seq(Nat) /\ Len(s.got) = s.cursor /\ \A i \in 1 .. s.cursor : s.got[i] = i
  <2>1. \A i \in 1 .. s.cursor : s.got[i] = i
    BY <1>1
  <2> QED
    BY <1>1, <2>1, UpToIsSeq
<1>3. Whole(s.got)
  <2>1. 1 \in 1 .. s.cursor
    BY <1>1
  <2>2. s.got # <<>> /\ s.got[1] = 1
    BY <1>2, <2>1, NoLength
  <2> QED
    BY <1>2, <2>2 DEF Whole
<1>4. /\ Whole(back) /\ Len(back) = s.cursor - from /\ back[1] = from + 1
      /\ PastEnd(back) = s.cursor + 1
  <2>1. PastEnd(s.got) = s.cursor + 1
    <3>1. s.got[1] = 1
      BY <1>1, <1>2
    <3> QED
      BY <1>1, <1>2, <3>1 DEF PastEnd
  <2>2. s.got[1] = 1
    BY <1>1, <1>2
  <2> DEFINE q == SubSeq(s.got, from + 1, Len(s.got))
  <2>3. /\ Whole(q) /\ Len(q) = Len(s.got) - from /\ q[1] = s.got[1] + from
        /\ PastEnd(q) = PastEnd(s.got)
    BY <1>2, <1>3, WholePart
  <2>4. back = q
    BY <1>2
  <2> HIDE DEF back, q
  <2>5. Len(back) = s.cursor - from /\ back[1] = 1 + from
    BY <1>2, <2>2, <2>3, <2>4
  <2> QED
    BY <2>1, <2>3, <2>4, <2>5
<1> HIDE DEF back
<1>5. /\ Linked(kept, t)
      /\ kept # <<>> => kept[1][1] = s.cursor + 1
      /\ kept = <<>> => s.cursor = t
  <2>1. CASE s.offset = 0
    <3>1. kept = s.buffer
      BY <2>1
    <3>2. s.buffer # <<>> => s.buffer[1][1] = s.cursor + 1
      <4>1. s.buffer # <<>> => s.buffer[1][1] + 0 = s.cursor + 1 /\ s.buffer[1][1] \in Nat
        BY <1>1, <2>1, LinkedTail DEF Consistent, Empty
      <4> QED
        BY <4>1
    <3> QED
      BY <1>1, <3>1, <3>2 DEF Consistent, Empty
  <2>2. CASE s.offset # 0
    <3> DEFINE left == SubSeq(Head(s.buffer), s.offset + 1, Len(Head(s.buffer)))
    <3>1. ~Empty(s)
      BY <2>2 DEF Consistent
    <3>2. /\ Whole(left) /\ Left(s) \in Nat \ {0} /\ s.cursor + Left(s) <= t
          /\ \A j \in 1 .. Left(s) : left[j] = s.cursor + j
          /\ PastEnd(left) = s.cursor + Left(s) + 1
          /\ PastEnd(Head(s.buffer)) = s.cursor + Left(s) + 1
          /\ Head(s.buffer) = s.buffer[1]
      BY <3>1, FirstPiece
    <3> HIDE DEF left
    <3>3. left[1] = s.cursor + 1
      BY <3>2
    <3>4. /\ Linked(Tail(s.buffer), t)
          /\ Tail(s.buffer) # <<>> => Tail(s.buffer)[1][1] = PastEnd(s.buffer[1])
          /\ Tail(s.buffer) = <<>> => PastEnd(s.buffer[1]) = t + 1
          /\ PastEnd(s.buffer[1]) <= t + 1
      BY <1>1, <3>1, LinkedTail DEF Empty
    <3>5. PastEnd(left) = PastEnd(s.buffer[1])
      BY <3>2
    <3>6. /\ Linked(<<left>> \o Tail(s.buffer), t)
          /\ <<left>> \o Tail(s.buffer) # <<>> /\ (<<left>> \o Tail(s.buffer))[1] = left
      <4>1. PastEnd(left) <= t + 1
        BY <3>4, <3>5
      <4>2. Tail(s.buffer) # <<>> => Tail(s.buffer)[1][1] = PastEnd(left)
        BY <3>4, <3>5
      <4>3. Tail(s.buffer) = <<>> => PastEnd(left) = t + 1
        BY <3>4, <3>5
      <4> QED
        BY <1>1, <3>2, <3>4, <4>1, <4>2, <4>3, LinkedPrepend
    <3>7. kept = <<left>> \o Tail(s.buffer)
      BY <2>2 DEF left
    <3> HIDE DEF kept
    <3> QED
      BY <3>3, <3>6, <3>7
  <2> QED
    BY <2>1, <2>2
<1> HIDE DEF kept
<1>6. /\ Linked(<<back>> \o kept, t)
      /\ <<back>> \o kept # <<>> /\ (<<back>> \o kept)[1] = back
  <2>1. PastEnd(back) <= t + 1
    BY <1>1, <1>4
  <2>2. kept # <<>> => kept[1][1] = PastEnd(back)
    BY <1>4, <1>5
  <2>3. kept = <<>> => PastEnd(back) = t + 1
    BY <1>4, <1>5
  <2> QED
    BY <1>1, <1>4, <1>5, <2>1, <2>2, <2>3, LinkedPrepend
<1>7. /\ u.buffer = <<back>> \o kept /\ u.offset = 0 /\ u.size = s.size + Len(back)
      /\ u.cursor = s.cursor - Len(back) /\ u.got = SubSeq(s.got, 1, from)
      /\ u.splits = s.splits
      /\ u = [buffer |-> u.buffer, offset |-> u.offset, size |-> u.size, cursor |-> u.cursor,
              splits |-> u.splits, got |-> u.got]
  <2> DEFINE buffer == <<back>> \o kept
             got == SubSeq(s.got, 1, from)
             d == Len(back)
  <2>1. u = [s EXCEPT !.buffer = buffer, !.offset = 0, !.size = @ + d, !.cursor = @ - d,
                      !.got = got]
    OBVIOUS
  <2> HIDE DEF u, buffer, got, d
  <2>2. /\ u.buffer = buffer /\ u.offset = 0 /\ u.size = s.size + d
        /\ u.cursor = s.cursor - d /\ u.got = got /\ u.splits = s.splits
    BY <1>1, <2>1 DEF Streams
  <2>3. u = [buffer |-> u.buffer, offset |-> u.offset, size |-> u.size, cursor |-> u.cursor,
             splits |-> u.splits, got |-> u.got]
    BY <1>1, <2>1 DEF Streams
  <2> QED
    BY <2>2, <2>3 DEF buffer, got, d
<1> HIDE DEF u
<1>8. u.cursor = from /\ u.size = t - from /\ u.size >= s.size /\ from <= t
  <2>1. Len(back) = s.cursor - from /\ from < s.cursor
    BY <1>4
  <2> QED
    BY <1>1, <1>7, <2>1
<1>9. u.got = [i \in 1 .. from |-> i] /\ u.got \in Seq(Nat)
  <2> DEFINE e == [i \in 1 .. from |-> i]
             g == SubSeq(s.got, 1, from)
  <2>1. e \in Seq(Nat) /\ Len(e) = from /\ \A i \in 1 .. from : e[i] = i
    BY UpToIsSeq
  <2>2. \A i \in 1 .. from : s.got[i] \in Nat /\ s.got[i] = i
    BY <1>1, <1>2
  <2>3. /\ g \in Seq(Nat) /\ Len(g) = IF 1 <= from THEN from - 1 + 1 ELSE 0
        /\ \A i \in 1 .. from - 1 + 1 : g[i] = s.got[1 + i - 1]
    BY <2>2, SubSeqProperties
  <2> HIDE DEF g
  <2>4. Len(g) = from /\ \A i \in 1 .. from : g[i] = i
    <3>1. \A i \in 1 .. from : 1 + i - 1 = i
      OBVIOUS
    <3> QED
      BY <2>2, <2>3, <3>1
  <2> HIDE DEF e
  <2>5. g = e
    BY <2>1, <2>3, <2>4, SeqEqual
  <2> QED
    BY <1>7, <2>1, <2>5 DEF g, e
<1>10. u \in Streams
  <2>1. u.buffer \in Seq(Seq(Nat))
    BY <1>6, <1>7 DEF Linked
  <2>2. u.size \in Int /\ u.cursor \in Nat /\ u.offset \in Nat /\ u.splits \in SUBSET Nat
    <3>1. u.cursor \in Nat /\ u.offset \in Nat
      BY <1>7, <1>8
    <3>2. u.size \in Int
      BY <1>1, <1>8
    <3>3. u.splits \in SUBSET Nat
      BY <1>1, <1>7 DEF Streams
    <3> QED
      BY <3>1, <3>2, <3>3
  <2> QED
    BY <1>7, <1>9, <2>1, <2>2 DEF Streams
<1>11. u.offset < Len(u.buffer[1]) /\ u.buffer[1][1] + u.offset = u.cursor + 1
  <2>1. u.buffer[1] = back /\ u.offset = 0
    BY <1>6, <1>7
  <2>2. Len(back) > 0
    BY <1>1, <1>4
  <2>3. back[1] + 0 = from + 1
    BY <1>4
  <2> QED
    BY <1>8, <2>1, <2>2, <2>3
<1>12. Consistent(u, t)
  <2>1. u.splits = NoSplits /\ u.buffer # <<>> /\ Linked(u.buffer, t) /\ u.cursor \in 0 .. t
    BY <1>1, <1>6, <1>7, <1>8
  <2> QED
    BY <1>1, <1>8, <1>9, <1>10, <1>11, <2>1 DEF Consistent, Empty
<1> QED
  BY <1>7, <1>8, <1>12 DEF u, back, kept

-----------------------------------------------------------------------------
(* Its steps.                                                              *)

\* What a reader that goes on does to the state.
Went(r, o, w, run, how) ==
  /\ Effect(stream, o, total, run)
  /\ how \in Ways
  /\ run.how # "wait" => how = run.how
  /\ run.how = "wait" /\ o.kind # "nowait" => how \in {"closed", "busy", "wait"}
  /\ how = "wait" => run.how = "wait"
  /\ stream' = run.s
  /\ paused' = (paused /\ ~Resumed(stream, run.s))
  /\ IF how = "wait"
       THEN /\ waiter' = r
            /\ op' = [op EXCEPT ![r] = run.o]
            /\ fut' = [fut EXCEPT ![r] = "pending"]
            /\ result' = [result EXCEPT ![r] = NoResult]
       ELSE /\ waiter' = w
            /\ op' = [op EXCEPT ![r] = Idle]
            /\ fut' = [fut EXCEPT ![r] = "none"]
            /\ result' = [result EXCEPT ![r] = [kind |-> o.kind, n |-> run.o.n,
                 from |-> o.from, to |-> run.s.cursor, how |-> how]]
  /\ UNCHANGED <<transport, parsing, total, chunkOpen, eof, exc, eofWaiter, message>>

\* A reader that goes on has the effect of its method, and ends or waits.
LEMMA GoOnGoes ==
  ASSUME IInv, NEW r \in Reader, NEW o \in Operation, o.kind = "exactly" => o.n > 0,
         NEW w, GoOn(r, o, w)
  PROVE  \E run, how : Went(r, o, w, run, how)
<1> DEFINE run == Run(stream, o)
           how == IF run.how = "wait" THEN Wait(o, w) ELSE run.how
<1>1. Effect(stream, o, total, run)
  BY RunEffect DEF IInv, Typing
<1>2. /\ stream' = run.s
      /\ paused' = (paused /\ ~Resumed(stream, run.s))
      /\ IF how = "wait"
           THEN /\ waiter' = r
                /\ op' = [op EXCEPT ![r] = run.o]
                /\ fut' = [fut EXCEPT ![r] = "pending"]
                /\ result' = [result EXCEPT ![r] = NoResult]
           ELSE /\ waiter' = w
                /\ op' = [op EXCEPT ![r] = Idle]
                /\ fut' = [fut EXCEPT ![r] = "none"]
                /\ result' = [result EXCEPT ![r] = [kind |-> o.kind, n |-> run.o.n,
                     from |-> o.from, to |-> run.s.cursor, how |-> how]]
      /\ UNCHANGED <<transport, parsing, total, chunkOpen, eof, exc, eofWaiter, message>>
  BY DEF GoOn
<1> HIDE DEF run
<1>3. /\ Wait(o, w) \in {"ok", "closed", "busy", "wait"}
      /\ o.kind # "nowait" => Wait(o, w) \in {"closed", "busy", "wait"}
  BY DEF Wait
<1>4. /\ how \in Ways
      /\ run.how # "wait" => how = run.how
      /\ run.how = "wait" /\ o.kind # "nowait" => how \in {"closed", "busy", "wait"}
      /\ how = "wait" => run.how = "wait"
  BY <1>1, <1>3 DEF Effect, Ways
<1> HIDE DEF how
<1>5. Went(r, o, w, run, how)
  BY <1>1, <1>2, <1>4 DEF Went
<1> QED
  BY <1>5

\* The method that a call of m starts.
Started(m) == [kind |-> m.kind, n |-> m.n, count |-> 0, from |-> stream.cursor]

\* So has one that calls a read method,
LEMMA ReadGoes ==
  ASSUME IInv, NEW r \in Reader, NEW m \in Methods, Read(r, m)
  PROVE  /\ Started(m) \in Operation /\ (Started(m).kind = "exactly" => Started(m).n > 0)
         /\ Started(m).from = stream.cursor /\ op[r] = Idle
         /\ \E run, how : Went(r, Started(m), waiter, run, how)
<1> DEFINE o == Started(m)
<1>1. stream.cursor \in Nat
  BY EmptyIsAll DEF IInv
<1>2. /\ m \in [kind : {"some", "nowait", "all", "exactly", "until", "chunk"}, n : Nat \cup {-1}]
      /\ m.kind = "exactly" => m.n > 0
  BY MethodAssumption
<1>3. o \in Operation /\ (o.kind = "exactly" => o.n > 0) /\ o.from = stream.cursor
  BY <1>1, <1>2 DEF Started, Operation
<1>4. GoOn(r, o, waiter) /\ op[r] = Idle
  BY DEF Read, Started
<1> HIDE DEF o
<1>5. \E run, how : Went(r, o, waiter, run, how)
  BY <1>3, <1>4, GoOnGoes
<1> QED
  BY <1>3, <1>4, <1>5 DEF o

\* and one that resumes.
LEMMA ResumeGoes ==
  ASSUME IInv, NEW r \in Reader, Resume(r)
  PROVE  /\ op[r] \in Operation /\ (op[r].kind = "exactly" => op[r].n > 0)
         /\ \E run, how : Went(r, op[r], Nobody, run, how)
<1>1. fut[r] = "set" /\ GoOn(r, op[r], Nobody)
  BY DEF Resume
<1>2. op[r] # Idle
  <2>1. op[r].kind # "idle"
    BY <1>1 DEF IInv
  <2> QED
    BY <2>1 DEF Idle
<1>3. op[r] \in Operation /\ (op[r].kind = "exactly" => op[r].n > 0)
  BY <1>2 DEF IInv, Typing
<1> QED
  BY <1>1, <1>3, GoOnGoes

\* Whoever goes on keeps the invariant.
LEMMA WentKeepsInvariant ==
  ASSUME IInv, NEW r \in Reader, NEW o \in Operation, NEW w \in Reader \cup {Nobody},
         NEW run, NEW how, Went(r, o, w, run, how)
  PROVE  IInv'
<1>1. /\ Consistent(run.s, total)
      /\ run.s.splits = NoSplits <=> stream.splits = NoSplits
      /\ run.o \in Operation /\ run.o.kind = o.kind
      /\ how = "wait" /\ o.kind = "exactly" => run.o.n > 0
      /\ how \in Ways
  BY DEF Went, Effect
<1>2. run.s.cursor \in Nat
  BY <1>1, EmptyIsAll
<1>3. /\ run.o.n \in Nat \cup {-1} /\ o.from \in Nat /\ run.o.kind # "idle"
      /\ o.kind \in {"some", "nowait", "all", "exactly", "until", "chunk"}
  BY <1>1 DEF Operation
<1>4. /\ stream' = run.s /\ paused' \in BOOLEAN
      /\ UNCHANGED <<transport, parsing, total, chunkOpen, eof, exc, eofWaiter, message>>
  BY DEF Went, IInv, Typing
<1>5. CASE how = "wait"
  <2>1. /\ waiter' = r
        /\ op' = [op EXCEPT ![r] = run.o]
        /\ fut' = [fut EXCEPT ![r] = "pending"]
        /\ result' = [result EXCEPT ![r] = NoResult]
    BY <1>5 DEF Went
  <2>2. NoResult \in Results
    BY DEF NoResult, Results
  <2>3. Typing'
    BY <1>1, <1>4, <2>1, <2>2 DEF IInv, Typing
  <2>4. \A q \in Reader : /\ op'[q].kind = "idle" <=> fut'[q] = "none"
                          /\ op'[q].kind = "exactly" => op'[q].n > 0
    BY <1>1, <1>3, <1>5, <2>1 DEF IInv, Typing
  <2> QED
    BY <1>1, <1>4, <2>3, <2>4 DEF IInv
<1>6. CASE how # "wait"
  <2> DEFINE res == [kind |-> o.kind, n |-> run.o.n, from |-> o.from, to |-> run.s.cursor,
                     how |-> how]
  <2>1. /\ waiter' = w
        /\ op' = [op EXCEPT ![r] = Idle]
        /\ fut' = [fut EXCEPT ![r] = "none"]
        /\ result' = [result EXCEPT ![r] = res]
    BY <1>6 DEF Went
  <2>2. res \in Results
    BY <1>1, <1>2, <1>3 DEF Results
  <2> HIDE DEF res
  <2>3. Typing'
    BY <1>4, <2>1, <2>2 DEF IInv, Typing
  <2>4. \A q \in Reader : /\ op'[q].kind = "idle" <=> fut'[q] = "none"
                          /\ op'[q].kind = "exactly" => op'[q].n > 0
    BY <2>1 DEF IInv, Typing, Idle
  <2> QED
    BY <1>1, <1>4, <2>3, <2>4 DEF IInv
<1> QED
  BY <1>5, <1>6

\* It holds at first.
LEMMA InvariantInit == Init => IInv
<1> SUFFICES ASSUME Init PROVE IInv
  OBVIOUS
<1>1. Consistent(stream, total)
  BY EmptyStreamConsistent DEF Init
<1>2. 0 \in 0 .. MaxTotal /\ 1 \in 1 .. Messages
  BY StreamAssumption
<1>3. Typing
  <2>1. NoResult \in Results
    BY DEF NoResult, Results
  <2> QED
    BY <1>2, <2>1 DEF Init, Typing
<1>4. \A r \in Reader : op[r].kind = "idle" /\ fut[r] = "none"
  BY DEF Init, Idle
<1> QED
  BY <1>1, <1>3, <1>4 DEF IInv, Init

\* The future of _waiter is set.
LEMMA WakenedTyped ==
  ASSUME IInv, NEW f \in {"set", "raised"}
  PROVE  /\ Wakened(f) \in [Reader -> {"none", "pending", "set", "raised", "cancelled"}]
         /\ \A r \in Reader : /\ Wakened(f)[r] = "none" <=> fut[r] = "none"
                              /\ Wakened(f)[r] = "pending" <=> fut[r] = "pending" /\ r # waiter
         /\ EofWakened(f) \in {"none", "pending", "set", "raised"}
  BY DEF Wakened, EofWakened, IInv, Typing

\* What unread_data changes.
LEMMA UnreadEffect ==
  ASSUME IInv, NEW r \in Reader, UnreadData(r)
  PROVE  /\ Consistent(stream', total) /\ stream.splits = NoSplits /\ stream'.splits = NoSplits
         /\ stream'.size >= stream.size /\ stream'.cursor = result[r].from
         /\ op[r] = Idle /\ result' = [result EXCEPT ![r] = NoResult]
         /\ UNCHANGED <<transport, paused, parsing, total, chunkOpen, eof, exc,
                        waiter, op, fut, eofWaiter, message>>
<1> DEFINE from == result[r].from
           back == SubSeq(stream.got, from + 1, stream.cursor)
           kept == IF stream.offset = 0 THEN stream.buffer
                   ELSE <<SubSeq(Head(stream.buffer), stream.offset + 1,
                                 Len(Head(stream.buffer)))>> \o Tail(stream.buffer)
           u == [stream EXCEPT !.buffer = <<back>> \o kept, !.offset = 0,
                               !.size = @ + Len(back), !.cursor = @ - Len(back),
                               !.got = SubSeq(@, 1, from)]
<1>1. stream' = u /\ stream.splits = NoSplits
  <2>1. result[r].to = stream.cursor /\ stream.splits = NoSplits
    BY DEF UnreadData
  <2> QED
    BY <2>1 DEF UnreadData
<1>2. from \in Nat /\ from < stream.cursor
  BY DEF UnreadData, IInv, Typing, Results
<1>3. Consistent(u, total) /\ u.splits = NoSplits /\ u.size >= stream.size /\ u.cursor = from
  <2>1. Consistent(stream, total)
    BY DEF IInv
  <2> HIDE DEF from
  <2> QED
    BY <1>1, <1>2, <2>1, UnreadConsistent
<1> HIDE DEF u
<1>4. /\ op[r] = Idle /\ result' = [result EXCEPT ![r] = NoResult]
      /\ UNCHANGED <<transport, paused, parsing, total, chunkOpen, eof, exc,
                     waiter, op, fut, eofWaiter, message>>
  BY DEF UnreadData
<1> QED
  BY <1>1, <1>3, <1>4

\* Every step keeps the invariant.
LEMMA InvariantStep == IInv /\ [Next]_vars => IInv'
<1> SUFFICES ASSUME IInv, [Next]_vars PROVE IInv'
  OBVIOUS
<1>0. /\ Typing /\ Consistent(stream, total)
      /\ stream.cursor \in Nat /\ total \in Nat /\ stream.cursor <= total
      /\ stream \in Streams
  BY EmptyIsAll DEF IInv, Consistent
<1>1. ASSUME NEW r \in Reader, NEW m \in Methods, Read(r, m) PROVE IInv'
  <2>1. Started(m) \in Operation /\ \E run, how : Went(r, Started(m), waiter, run, how)
    BY <1>1, ReadGoes
  <2>2. waiter \in Reader \cup {Nobody}
    BY <1>0 DEF Typing
  <2> QED
    BY <2>1, <2>2, WentKeepsInvariant
<1>2. ASSUME NEW r \in Reader, Resume(r) PROVE IInv'
  <2>1. op[r] \in Operation /\ \E run, how : Went(r, op[r], Nobody, run, how)
    BY <1>2, ResumeGoes
  <2> QED
    BY <2>1, WentKeepsInvariant
<1>3. ASSUME NEW r \in Reader, Raise(r) PROVE IInv'
  <2>1. NoResult \in Results
    BY DEF NoResult, Results
  <2>2. Typing'
    BY <1>0, <1>3, <2>1 DEF Raise, Typing
  <2>3. \A q \in Reader : /\ op'[q].kind = "idle" <=> fut'[q] = "none"
                          /\ op'[q].kind = "exactly" => op'[q].n > 0
    BY <1>0, <1>3 DEF Raise, IInv, Typing, Idle
  <2> QED
    BY <1>3, <2>2, <2>3 DEF IInv, Raise
<1>4. ASSUME NEW r \in Reader, Cancel(r) PROVE IInv'
  <2>1. Typing'
    BY <1>0, <1>4 DEF Cancel, Typing
  <2>2. \A q \in Reader : /\ op'[q].kind = "idle" <=> fut'[q] = "none"
                          /\ op'[q].kind = "exactly" => op'[q].n > 0
    BY <1>0, <1>4 DEF Cancel, IInv, Typing
  <2> QED
    BY <1>4, <2>1, <2>2 DEF IInv, Cancel
<1>5. ASSUME NEW r \in Reader, UnreadData(r) PROVE IInv'
  <2>1. /\ Consistent(stream', total) /\ stream'.splits = NoSplits /\ stream.splits = NoSplits
        /\ result' = [result EXCEPT ![r] = NoResult]
        /\ UNCHANGED <<transport, paused, parsing, total, chunkOpen, eof, exc,
                       waiter, op, fut, eofWaiter, message>>
    BY <1>5, UnreadEffect
  <2>2. NoResult \in Results
    BY DEF NoResult, Results
  <2>3. Typing'
    BY <1>0, <2>1, <2>2 DEF Typing
  <2>4. ~chunkOpen
    BY <2>1 DEF IInv
  <2> QED
    BY <2>1, <2>3, <2>4 DEF IInv
<1>6. ASSUME WaitEof PROVE IInv'
  BY <1>6 DEF WaitEof, IInv, Typing
<1>7. ASSUME EofWaited PROVE IInv'
  BY <1>7 DEF EofWaited, IInv, Typing
<1>8. ASSUME NEW k \in 1 .. MaxPiece, FeedData(k) PROVE IInv'
  <2> DEFINE u == Fed(stream, total, k)
  <2>1. k \in Nat \ {0}
    BY StreamAssumption
  <2>2. Consistent(u, total + k) /\ u.splits = stream.splits
    BY <1>0, <2>1, FedConsistent
  <2>3. /\ stream' = u /\ total' = total + k /\ fut' = Wakened("set")
        /\ UNCHANGED <<op, chunkOpen, eof>>
    BY <1>8 DEF FeedData, Fed
  <2> HIDE DEF u
  <2>4. Typing'
    <3>1. total' \in 0 .. MaxTotal
      BY <1>0, <1>8, <2>1, StreamAssumption DEF FeedData
    <3>2. paused' \in BOOLEAN
      BY <1>8 DEF FeedData
    <3>3. /\ waiter' = Nobody /\ parsing' = TRUE
          /\ UNCHANGED <<transport, chunkOpen, eof, exc, op, result, eofWaiter, message>>
      BY <1>8 DEF FeedData
    <3> QED
      BY <1>0, <2>3, <3>1, <3>2, <3>3, WakenedTyped DEF Typing
  <2> QED
    BY <2>2, <2>3, <2>4, WakenedTyped DEF IInv
<1>9. ASSUME BeginChunk PROVE IInv'
  <2> DEFINE u == [stream EXCEPT !.splits = IF @ = NoSplits THEN {} ELSE @]
  <2>1. stream' = u /\ ~eof /\ UNCHANGED <<total, eof, op, fut>>
    BY <1>9 DEF BeginChunk, Delivering
  <2>2. /\ u \in Streams
        /\ u.buffer = stream.buffer /\ u.offset = stream.offset /\ u.size = stream.size
        /\ u.cursor = stream.cursor /\ u.got = stream.got
        /\ u.splits = IF stream.splits = NoSplits THEN {} ELSE stream.splits
    BY <1>0 DEF Streams
  <2> HIDE DEF u
  <2>3. u.splits # NoSplits
    BY <2>2 DEF NoSplits
  <2>4. Consistent(u, total)
    BY <1>0, <2>2, <2>3 DEF Consistent, Empty
  <2>5. Typing'
    BY <1>0, <1>9 DEF BeginChunk, Typing
  <2> QED
    BY <2>1, <2>3, <2>4, <2>5 DEF IInv
<1>10. ASSUME EndChunk PROVE IInv'
  <2>1. /\ stream.splits # NoSplits /\ chunkOpen' = FALSE /\ UNCHANGED <<total, op>>
        /\ \A p \in stream.splits : p \in 1 .. total /\ p >= stream.cursor
    BY <1>0, <1>10 DEF EndChunk, IInv, Consistent
  <2>2. CASE total = (IF stream.splits = {} THEN 0 ELSE Max(stream.splits))
    <3>1. UNCHANGED <<stream, waiter, fut>>
      BY <1>10, <2>2 DEF EndChunk
    <3>2. Typing'
      BY <1>0, <1>10, <3>1 DEF EndChunk, Typing
    <3> QED
      BY <2>1, <3>1, <3>2 DEF IInv
  <2>3. CASE ~(total = (IF stream.splits = {} THEN 0 ELSE Max(stream.splits)))
    <3> DEFINE u == [stream EXCEPT !.splits = @ \cup {total}]
    <3>1. stream' = u /\ waiter' = Nobody /\ fut' = Wakened("set")
      BY <1>10, <2>3 DEF EndChunk
    <3>2. total # 0
      <4>1. CASE stream.splits = {}
        BY <2>3, <4>1
      <4>2. CASE stream.splits # {}
        <5>1. PICK p \in stream.splits : p \in 1 .. total
          BY <2>1, <4>2
        <5> QED
          BY <1>0, <5>1
      <4> QED
        BY <4>1, <4>2
    <3>3. /\ u \in Streams
          /\ u.buffer = stream.buffer /\ u.offset = stream.offset /\ u.size = stream.size
          /\ u.cursor = stream.cursor /\ u.got = stream.got
          /\ u.splits = stream.splits \cup {total}
      BY <1>0 DEF Streams
    <3> HIDE DEF u
    <3>4. u.splits # NoSplits /\ \A p \in u.splits : p \in 1 .. total /\ p >= u.cursor
      <4>1. total \in 1 .. total /\ total >= stream.cursor
        BY <1>0, <3>2
      <4> QED
        BY <2>1, <3>2, <3>3, <4>1 DEF NoSplits
    <3>5. Consistent(u, total)
      BY <1>0, <3>3, <3>4 DEF Consistent, Empty
    <3>6. Typing'
      <4>1. UNCHANGED <<transport, paused, total, eof, exc, op, result, eofWaiter, message>>
            /\ parsing' = TRUE
        BY <1>10 DEF EndChunk
      <4> QED
        BY <1>0, <2>1, <3>1, <4>1, WakenedTyped DEF Typing
    <3> QED
      BY <2>1, <3>1, <3>5, <3>6, WakenedTyped DEF IInv
  <2> QED
    BY <2>2, <2>3
<1>11. ASSUME FeedEof PROVE IInv'
  <2>1. Typing'
    BY <1>0, <1>11, WakenedTyped DEF FeedEof, Typing
  <2> QED
    BY <1>11, <2>1, WakenedTyped DEF FeedEof, IInv
<1>12. ASSUME Return PROVE IInv'
  BY <1>12 DEF Return, IInv, Typing
<1>13. ASSUME SetException PROVE IInv'
  <2>1. Typing'
    BY <1>0, <1>13, WakenedTyped DEF SetException, Typing
  <2> QED
    BY <1>13, <2>1, WakenedTyped DEF SetException, IInv
<1>14. ASSUME ConnectionLost PROVE IInv'
  <2>1. /\ transport' = FALSE /\ paused' \in BOOLEAN /\ eof' \in BOOLEAN /\ exc' \in BOOLEAN
        /\ waiter' \in Reader \cup {Nobody}
        /\ UNCHANGED <<parsing, stream, total, chunkOpen, op, result, message>>
    BY <1>0, <1>14 DEF ConnectionLost, Typing
  <2>2. /\ fut' \in {fut, Wakened("set"), Wakened("raised")}
        /\ eofWaiter' \in {eofWaiter, EofWakened("set"), EofWakened("raised")}
    BY <1>14 DEF ConnectionLost
  <2>3. Typing'
    BY <1>0, <2>1, <2>2, WakenedTyped DEF Typing
  <2>4. \A r \in Reader : fut'[r] = "none" <=> fut[r] = "none"
    BY <2>2, WakenedTyped
  <2> QED
    BY <1>14, <2>1, <2>3, <2>4 DEF IInv, ConnectionLost
<1>15. ASSUME NextMessage PROVE IInv'
  <2>1. NoResult \in Results
    BY DEF NoResult, Results
  <2>2. /\ stream' = EmptyStream /\ total' = 0 /\ ~chunkOpen
        /\ UNCHANGED <<op, fut, chunkOpen>>
    BY <1>15 DEF NextMessage, IInv
  <2>3. Typing'
    <3>1. total' \in 0 .. MaxTotal /\ message' \in 1 .. Messages
      BY <1>0, <1>15, StreamAssumption DEF NextMessage, Typing
    <3>2. /\ result' \in [Reader -> Results] /\ eof' = FALSE /\ waiter' = Nobody
          /\ UNCHANGED <<transport, paused, parsing, chunkOpen, exc, op, fut, eofWaiter>>
      BY <1>15, <2>1 DEF NextMessage
    <3> QED
      BY <1>0, <3>1, <3>2 DEF Typing
  <2> QED
    BY <2>2, <2>3, EmptyStreamConsistent DEF IInv
<1>16. CASE UNCHANGED vars
  BY <1>16 DEF vars, IInv, Typing
<1> QED
  BY <1>1, <1>2, <1>3, <1>4, <1>5, <1>6, <1>7, <1>8, <1>9, <1>10, <1>11, <1>12, <1>13, <1>14,
     <1>15, <1>16 DEF Next

-----------------------------------------------------------------------------
(* The theorems.                                                           *)

\* The fields of the stream are consistent in every state, for any number of
\* readers.
THEOREM Invariant == Spec => []IInv
<1>1. Init => IInv
  BY InvariantInit
<1>2. IInv /\ [Next]_vars => IInv'
  BY InvariantStep
<1> QED
  BY <1>1, <1>2, PTL DEF Spec

\* Type correctness: the counters of the stream stay within the body.
THEOREM TypeCorrect == Spec => []TypeOK
<1>1. IInv => TypeOK
  <2> SUFFICES ASSUME IInv PROVE TypeOK
    OBVIOUS
  <2>1. Typing /\ Consistent(stream, total)
    BY DEF IInv
  <2>2. /\ stream.cursor \in Nat /\ total \in Nat /\ stream.cursor <= total
        /\ stream.size = total - stream.cursor /\ stream.offset \in Nat
    BY <2>1, EmptyIsAll DEF Consistent, Streams
  <2>3. total <= MaxTotal /\ MaxTotal \in Nat
    BY <2>1, StreamAssumption DEF Typing
  <2>4. stream.offset <= stream.cursor
    <3>1. CASE Empty(stream)
      BY <2>1, <2>2, <3>1 DEF Consistent
    <3>2. CASE ~Empty(stream)
      <4>1. stream.buffer[1][1] + stream.offset = stream.cursor + 1
        BY <2>1, <3>2 DEF Consistent
      <4>2. stream.buffer[1][1] \in Nat \ {0}
        BY <2>1, <2>2, <3>2, FlattenLinked DEF Consistent, Empty
      <4> QED
        BY <2>2, <4>1, <4>2
    <3> QED
      BY <3>1, <3>2
  <2>5. /\ stream.size \in 0 .. MaxTotal /\ stream.cursor \in 0 .. MaxTotal
        /\ stream.offset \in 0 .. MaxTotal
    BY <2>2, <2>3, <2>4
  <2> QED
    BY <2>1, <2>5 DEF TypeOK, Typing, IInv
<1> QED
  BY <1>1, Invariant, PTL

\* The bytes that were read and then those in the buffer are the bytes that
\* were fed, each once and in order, whatever the readers do (streams.py
\* updates _size, _cursor, _buffer_offset and _buffer apart).
THEOREM BytesInOrder == Spec => []InOrder
<1>1. IInv => InOrder
  <2> SUFFICES ASSUME IInv PROVE InOrder
    OBVIOUS
  <2>1. Consistent(stream, total) /\ stream.size = total - stream.cursor
    BY DEF IInv, Consistent
  <2> QED
    BY <2>1, ConsistentInOrder DEF InOrder
<1> QED
  BY <1>1, Invariant, PTL

\* How much is left, before and after a read.
LEMMA SizeIsLeft ==
  ASSUME IInv
  PROVE  /\ stream.size \in Nat /\ Limit \in Nat \ {0} /\ High = 2 * Limit
         /\ Empty(stream) => stream.size = 0
         /\ stream.size = total - stream.cursor /\ stream.cursor \in Nat /\ total \in Nat
BY EmptyIsAll, StreamAssumption DEF IInv, Consistent, High

\* A reader that leaves less than the low water mark resumes the transport.
LEMMA WentPaused ==
  ASSUME IInv, PausedOnlyWhileFull, NEW r, NEW o, NEW w, NEW run, NEW how,
         Went(r, o, w, run, how)
  PROVE  PausedOnlyWhileFull'
<1>1. /\ stream' = run.s /\ paused' = (paused /\ ~Resumed(stream, run.s))
      /\ transport' = transport
  BY DEF Went
<1>2. Consistent(run.s, total) /\ run.s.cursor >= stream.cursor
  BY DEF Went, Effect
<1>3. run.s.cursor \in Nat /\ run.s.size = total - run.s.cursor /\ run.s.size \in Nat
  BY <1>2, EmptyIsAll DEF Consistent
<1>4. /\ stream.size = total - stream.cursor /\ stream.cursor \in Nat /\ total \in Nat
      /\ Limit \in Nat
  BY SizeIsLeft
<1> SUFFICES ASSUME paused, transport, ~Resumed(stream, run.s) PROVE run.s.size >= Limit
  BY <1>1 DEF PausedOnlyWhileFull
<1>5. CASE run.s.cursor > stream.cursor
  BY <1>3, <1>4, <1>5 DEF Resumed
<1>6. CASE ~(run.s.cursor > stream.cursor)
  <2>1. run.s.cursor = stream.cursor
    BY <1>2, <1>3, <1>4, <1>6
  <2>2. stream.size >= Limit
    BY DEF PausedOnlyWhileFull
  <2> QED
    BY <1>3, <1>4, <2>1, <2>2
<1> QED
  BY <1>5, <1>6

\* No step leaves the transport paused with less than the low water mark.
LEMMA PausedStep ==
  ASSUME ~Discards, IInv, PausedOnlyWhileFull, [Next]_vars
  PROVE  PausedOnlyWhileFull'
<1>0. /\ Typing /\ Consistent(stream, total) /\ stream.size \in Nat
      /\ Limit \in Nat \ {0} /\ High = 2 * Limit
  BY SizeIsLeft DEF IInv
<1>1. ASSUME NEW r \in Reader, NEW m \in Methods, Read(r, m) PROVE PausedOnlyWhileFull'
  BY <1>1, ReadGoes, WentPaused
<1>2. ASSUME NEW r \in Reader, Resume(r) PROVE PausedOnlyWhileFull'
  BY <1>2, ResumeGoes, WentPaused
<1>3. ASSUME NEW r \in Reader, Raise(r) \/ Cancel(r) PROVE PausedOnlyWhileFull'
  BY <1>3 DEF Raise, Cancel, PausedOnlyWhileFull
<1>4. ASSUME NEW r \in Reader, UnreadData(r) PROVE PausedOnlyWhileFull'
  <2>1. stream'.size >= stream.size /\ stream'.size \in Nat /\ UNCHANGED <<paused, transport>>
    <3>1. /\ Consistent(stream', total) /\ stream'.size >= stream.size
          /\ UNCHANGED <<paused, transport>>
      BY <1>4, UnreadEffect
    <3>2. stream'.size \in Nat
      BY <3>1, EmptyIsAll DEF Consistent
    <3> QED
      BY <3>1, <3>2
  <2> QED
    BY <1>0, <2>1 DEF PausedOnlyWhileFull
<1>5. CASE WaitEof \/ EofWaited
  BY <1>5 DEF WaitEof, EofWaited, PausedOnlyWhileFull
<1>6. ASSUME NEW k \in 1 .. MaxPiece, FeedData(k) PROVE PausedOnlyWhileFull'
  <2>1. k \in Nat \ {0}
    BY StreamAssumption
  <2>2. stream'.size = stream.size + k
    <3>1. stream' = Fed(stream, total, k)
      BY <1>6 DEF FeedData, Fed
    <3> QED
      BY <1>0, <2>1, <3>1, FedConsistent
  <2>3. paused' = (paused \/ stream.size + k > High) /\ transport' = transport
    BY <1>6 DEF FeedData
  <2> SUFFICES ASSUME paused \/ stream.size + k > High, transport PROVE stream'.size >= Limit
    BY <2>3 DEF PausedOnlyWhileFull
  <2>4. CASE paused
    <3>1. stream.size >= Limit
      BY <2>4 DEF PausedOnlyWhileFull
    <3> QED
      BY <1>0, <2>1, <2>2, <3>1
  <2>5. CASE stream.size + k > High
    BY <1>0, <2>1, <2>2, <2>5
  <2> QED
    BY <2>4, <2>5
<1>7. CASE BeginChunk \/ EndChunk
  <2>1. stream'.size = stream.size /\ UNCHANGED <<paused, transport>>
    BY <1>0, <1>7 DEF BeginChunk, EndChunk, Consistent, Streams
  <2> QED
    BY <2>1 DEF PausedOnlyWhileFull
<1>8. CASE FeedEof \/ Return \/ SetException
  BY <1>8 DEF FeedEof, Return, SetException, PausedOnlyWhileFull
<1>9. CASE ConnectionLost
  BY <1>9 DEF ConnectionLost, PausedOnlyWhileFull
<1>10. CASE NextMessage
  <2>1. Empty(stream) /\ UNCHANGED <<paused, transport>>
    BY <1>10 DEF NextMessage
  <2>2. stream.size = 0
    BY <2>1, SizeIsLeft
  <2> QED
    BY <1>0, <2>1, <2>2 DEF PausedOnlyWhileFull
<1>11. CASE UNCHANGED vars
  BY <1>11 DEF vars, PausedOnlyWhileFull
<1> QED
  BY <1>1, <1>2, <1>3, <1>4, <1>5, <1>6, <1>7, <1>8, <1>9, <1>10, <1>11 DEF Next

\* The transport is paused only while the low water mark is left to read, if
\* no body is left unread in the buffer (run StreamReuse shows one that is).
THEOREM PausedWhileFull ==
  ASSUME ~Discards
  PROVE  Spec => []PausedOnlyWhileFull
<1>1. Init => PausedOnlyWhileFull
  BY DEF Init, PausedOnlyWhileFull
<1>2. IInv /\ PausedOnlyWhileFull /\ [Next]_vars => PausedOnlyWhileFull'
  BY PausedStep
<1> QED
  BY <1>1, <1>2, Invariant, PTL DEF Spec

\* Readers take turns: with two at the same time it "would not possible to know
\* which coroutine would get the next data" (streams.py:333).  None reads or
\* puts bytes back while another one is in a read.
Alone(r) == \A q \in Reader : q = r \/ op[q] = Idle
TakesTurns ==
  \A r \in Reader : (\E m \in Methods : Read(r, m)) \/ UnreadData(r) => Alone(r)

\* Then one at most is in a read.
OneAtATime == \A r \in Reader : op[r] = Idle \/ Alone(r)

\* Who has a future is in a read.
LEMMA BusyAlone ==
  ASSUME IInv, OneAtATime, NEW r \in Reader, fut[r] # "none"
  PROVE  Alone(r)
<1>1. op[r] # Idle
  BY DEF IInv, Idle
<1> QED
  BY <1>1 DEF OneAtATime

\* Who is alone leaves the others idle.
LEMMA AloneStays ==
  ASSUME Typing, NEW r \in Reader, Alone(r), NEW v, op' = [op EXCEPT ![r] = v]
  PROVE  OneAtATime'
<1>1. ASSUME NEW q \in Reader PROVE op'[q] = IF q = r THEN v ELSE Idle
  BY DEF Typing, Alone
<1> QED
  BY <1>1 DEF OneAtATime, Alone

\* Turns are kept by every step.
LEMMA TurnsStep ==
  ASSUME IInv, OneAtATime, TakesTurns, Next
  PROVE  OneAtATime'
<1>0. Typing
  BY DEF IInv
<1>1. ASSUME NEW r \in Reader, NEW m \in Methods, Read(r, m) PROVE OneAtATime'
  <2>1. Alone(r)
    BY <1>1 DEF TakesTurns
  <2>2. \E v : op' = [op EXCEPT ![r] = v]
    BY <1>1, ReadGoes DEF Went
  <2> QED
    BY <1>0, <2>1, <2>2, AloneStays
<1>2. ASSUME NEW r \in Reader, Resume(r) PROVE OneAtATime'
  <2>1. fut[r] # "none"
    BY <1>2 DEF Resume
  <2>2. Alone(r)
    BY <2>1, BusyAlone
  <2>3. \E v : op' = [op EXCEPT ![r] = v]
    BY <1>2, ResumeGoes DEF Went
  <2> QED
    BY <1>0, <2>2, <2>3, AloneStays
<1>3. ASSUME NEW r \in Reader, Raise(r) PROVE OneAtATime'
  <2>1. fut[r] # "none" /\ op' = [op EXCEPT ![r] = Idle]
    BY <1>3 DEF Raise
  <2>2. Alone(r)
    BY <2>1, BusyAlone
  <2> QED
    BY <1>0, <2>1, <2>2, AloneStays
<1>4. ASSUME op' = op PROVE OneAtATime'
  BY <1>4 DEF OneAtATime, Alone
<1>5. ASSUME NEW r \in Reader, Cancel(r) \/ UnreadData(r) PROVE OneAtATime'
  BY <1>4, <1>5 DEF Cancel, UnreadData
<1>6. CASE WaitEof \/ EofWaited \/ Return
  BY <1>4, <1>6 DEF WaitEof, EofWaited, Return
<1>7. ASSUME NEW k \in 1 .. MaxPiece, FeedData(k) PROVE OneAtATime'
  BY <1>4, <1>7 DEF FeedData
<1>8. CASE BeginChunk \/ EndChunk \/ FeedEof
  BY <1>4, <1>8 DEF BeginChunk, EndChunk, FeedEof
<1>9. CASE SetException \/ ConnectionLost \/ NextMessage
  BY <1>4, <1>9 DEF SetException, ConnectionLost, NextMessage
<1> QED
  BY <1>1, <1>2, <1>3, <1>5, <1>6, <1>7, <1>8, <1>9 DEF Next

\* In a behaviour whose readers take turns, one at most is in a read.
LEMMA TurnsAreKept == Spec /\ [][TakesTurns]_vars => []OneAtATime
<1>1. Init => OneAtATime
  BY DEF Init, OneAtATime
<1>2. IInv /\ OneAtATime /\ [Next]_vars /\ [TakesTurns]_vars => OneAtATime'
  <2>1. UNCHANGED vars /\ OneAtATime => OneAtATime'
    BY DEF vars, OneAtATime, Alone
  <2> QED
    BY <2>1, TurnsStep
<1> QED
  BY <1>1, <1>2, Invariant, PTL DEF Spec

\* A reader that sleeps is the one that _waiter wakes, and finds nothing.
Sleeping ==
  \A r \in Reader : fut[r] = "pending" =>
    /\ waiter = r /\ Empty(stream) /\ ~eof
    /\ op[r].kind = "chunk" => stream.splits \in {{}, NoSplits}

\* A reader that goes to sleep found nothing.
LEMMA WentSleeping ==
  ASSUME IInv, NEW r \in Reader, Alone(r), NEW o, NEW w, NEW run, NEW how,
         Went(r, o, w, run, how)
  PROVE  Sleeping'
<1> SUFFICES ASSUME NEW q \in Reader, fut'[q] = "pending"
             PROVE  /\ waiter' = q /\ Empty(stream') /\ ~eof'
                    /\ op'[q].kind = "chunk" => stream'.splits \in {{}, NoSplits}
  BY DEF Sleeping, Empty
<1>1. /\ fut \in [Reader -> {"none", "pending", "set", "raised", "cancelled"}]
      /\ op \in [Reader -> Operation \cup {Idle}]
  BY DEF IInv, Typing
<1>2. q = r
  <2> SUFFICES ASSUME q # r PROVE FALSE
    OBVIOUS
  <2>1. op[q] = Idle
    BY DEF Alone
  <2>2. fut[q] = "none"
    BY <2>1 DEF IInv, Idle
  <2>3. fut' = [fut EXCEPT ![r] = "pending"] \/ fut' = [fut EXCEPT ![r] = "none"]
    BY DEF Went
  <2> QED
    BY <1>1, <2>2, <2>3
<1>3. how = "wait"
  <2>1. how # "wait" => fut' = [fut EXCEPT ![r] = "none"]
    BY DEF Went
  <2> QED
    BY <1>1, <1>2, <2>1
<1>4. /\ waiter' = r /\ op' = [op EXCEPT ![r] = run.o] /\ stream' = run.s /\ eof' = eof
      /\ run.how = "wait"
  BY <1>3 DEF Went
<1>5. /\ Empty(run.s) /\ ~eof /\ run.o.kind = o.kind
      /\ o.kind = "chunk" => run.s.splits \in {{}, NoSplits}
  BY <1>4 DEF Went, Effect
<1>6. op'[q] = run.o
  BY <1>1, <1>2, <1>4
<1> QED
  BY <1>2, <1>4, <1>5, <1>6 DEF Empty

\* Every step that brings something wakes the reader.
LEMMA SleepingStep ==
  ASSUME IInv, OneAtATime, Sleeping, TakesTurns, Next
  PROVE  Sleeping'
<1>0. Typing /\ stream \in Streams
  BY DEF IInv, Consistent
<1>1. ASSUME NEW r \in Reader, NEW m \in Methods, Read(r, m) PROVE Sleeping'
  <2>1. Alone(r)
    BY <1>1 DEF TakesTurns
  <2> QED
    BY <1>1, <2>1, ReadGoes, WentSleeping
<1>2. ASSUME NEW r \in Reader, Resume(r) PROVE Sleeping'
  <2>1. fut[r] # "none"
    BY <1>2 DEF Resume
  <2>2. Alone(r)
    BY <2>1, BusyAlone
  <2> QED
    BY <1>2, <2>2, ResumeGoes, WentSleeping
<1>3. ASSUME NEW r \in Reader, Raise(r) \/ Cancel(r) PROVE Sleeping'
  <2> SUFFICES ASSUME NEW q \in Reader, fut'[q] = "pending" PROVE FALSE
    BY DEF Sleeping
  <2>1. /\ fut' = [fut EXCEPT ![r] = "none"] \/ fut' = [fut EXCEPT ![r] = "cancelled"]
        /\ fut[r] # "none"
    BY <1>3 DEF Raise, Cancel
  <2>2. q # r /\ fut[q] = "pending"
    BY <1>0, <2>1 DEF Typing
  <2>3. op[q] = Idle
    BY <2>1, <2>2, BusyAlone DEF Alone
  <2> QED
    BY <2>2, <2>3 DEF IInv, Idle
<1>4. ASSUME NEW r \in Reader, UnreadData(r) PROVE Sleeping'
  <2> SUFFICES ASSUME NEW q \in Reader, fut'[q] = "pending" PROVE FALSE
    BY DEF Sleeping
  <2>1. Alone(r) /\ op[r] = Idle /\ fut' = fut
    BY <1>4, UnreadEffect DEF TakesTurns
  <2>2. op[q] = Idle
    BY <2>1 DEF Alone
  <2> QED
    BY <2>1, <2>2 DEF IInv, Idle
<1>5. CASE WaitEof \/ EofWaited \/ Return
  BY <1>5 DEF WaitEof, EofWaited, Return, Sleeping, Empty
<1>6. ASSUME NEW f \in {"set", "raised"}, fut' = Wakened(f) PROVE Sleeping'
  <2> SUFFICES ASSUME NEW q \in Reader, fut'[q] = "pending" PROVE FALSE
    BY DEF Sleeping
  <2>1. fut[q] = "pending" /\ q # waiter
    BY <1>6, WakenedTyped
  <2> QED
    BY <2>1 DEF Sleeping
<1>7. ASSUME NEW k \in 1 .. MaxPiece, FeedData(k) PROVE Sleeping'
  BY <1>6, <1>7 DEF FeedData
<1>8. CASE BeginChunk
  <2>1. /\ UNCHANGED <<waiter, fut, op, eof>>
        /\ stream' = [stream EXCEPT !.splits = IF @ = NoSplits THEN {} ELSE @]
    BY <1>8 DEF BeginChunk
  <2>2. /\ stream'.buffer = stream.buffer
        /\ stream'.splits = IF stream.splits = NoSplits THEN {} ELSE stream.splits
    BY <1>0, <2>1 DEF Streams
  <2> QED
    BY <2>1, <2>2 DEF Sleeping, Empty
<1>9. CASE EndChunk
  <2>1. \/ UNCHANGED <<stream, waiter, fut, op, eof>>
        \/ fut' = Wakened("set")
    BY <1>9 DEF EndChunk
  <2> QED
    BY <1>6, <2>1 DEF Sleeping, Empty
<1>10. CASE FeedEof \/ SetException
  BY <1>6, <1>10 DEF FeedEof, SetException
<1>11. CASE ConnectionLost
  <2>1. \/ UNCHANGED <<stream, waiter, fut, op, eof>>
        \/ fut' = Wakened("set") \/ fut' = Wakened("raised")
    BY <1>11 DEF ConnectionLost
  <2> QED
    BY <1>6, <2>1 DEF Sleeping, Empty
<1>12. CASE NextMessage
  <2> SUFFICES ASSUME NEW q \in Reader, fut'[q] = "pending" PROVE FALSE
    BY DEF Sleeping
  <2>1. op[q] = Idle /\ fut' = fut
    BY <1>12 DEF NextMessage
  <2> QED
    BY <2>1 DEF IInv, Idle
<1> QED
  BY <1>1, <1>2, <1>3, <1>4, <1>5, <1>7, <1>8, <1>9, <1>10, <1>11, <1>12 DEF Next

\* No coroutine sleeps while what it waits for is there or while the transport
\* is paused, when coroutines take turns and no body is left unread.
THEOREM NobodySleepsOnData ==
  ASSUME ~Discards
  PROVE  Spec /\ [][TakesTurns]_vars => []NoSleepOnData
<1>1. Init => Sleeping
  BY DEF Init, Sleeping
<1>2. IInv /\ OneAtATime /\ Sleeping /\ [Next]_vars /\ [TakesTurns]_vars => Sleeping'
  <2>1. UNCHANGED vars /\ Sleeping => Sleeping'
    BY DEF vars, Sleeping, Empty
  <2> QED
    BY <2>1, SleepingStep
<1>3. IInv /\ Sleeping /\ PausedOnlyWhileFull => NoSleepOnData
  <2> SUFFICES ASSUME IInv, Sleeping, PausedOnlyWhileFull, NEW r \in Reader, fut[r] = "pending"
               PROVE  /\ Empty(stream) /\ ~eof
                      /\ op[r].kind = "chunk" => stream.splits \in {{}, NoSplits}
                      /\ ~(paused /\ transport)
    BY DEF NoSleepOnData
  <2>1. /\ Empty(stream) /\ ~eof
        /\ op[r].kind = "chunk" => stream.splits \in {{}, NoSplits}
    BY DEF Sleeping
  <2>2. stream.size = 0 /\ Limit \in Nat \ {0}
    BY <2>1, SizeIsLeft
  <2>3. ~(paused /\ transport)
    BY <2>2 DEF PausedOnlyWhileFull
  <2> QED
    BY <2>1, <2>3
<1>4. Spec => []PausedOnlyWhileFull
  BY PausedWhileFull
<1> QED
  BY <1>1, <1>2, <1>3, <1>4, Invariant, TurnsAreKept, PTL DEF Spec

\* readexactly returns what was asked for, and falls short only at the end of
\* the body, however many coroutines read.
ExactlyIsExact ==
  \A r \in Reader : result[r].kind = "exactly" =>
    /\ result[r].how = "ok" => result[r].n = 0
    /\ result[r].how = "incomplete" => eof /\ result[r].to = total

\* readexactly ends with all it asked for or at the end of the body.
LEMMA WentExact ==
  ASSUME IInv, ExactlyIsExact, NEW r \in Reader, NEW o, NEW w, NEW run, NEW how,
         Went(r, o, w, run, how)
  PROVE  ExactlyIsExact'
<1>1. /\ result \in [Reader -> Results] /\ UNCHANGED <<eof, total>>
  BY DEF IInv, Typing, Went
<1>2. CASE how = "wait"
  <2>1. result' = [result EXCEPT ![r] = NoResult]
    BY <1>2 DEF Went
  <2> QED
    BY <1>1, <2>1 DEF ExactlyIsExact, NoResult
<1>3. CASE how # "wait"
  <2> DEFINE res == [kind |-> o.kind, n |-> run.o.n, from |-> o.from, to |-> run.s.cursor,
                     how |-> how]
  <2>1. result' = [result EXCEPT ![r] = res]
    BY <1>3 DEF Went
  <2>2. o.kind = "exactly" /\ how \in {"ok", "incomplete"} => run.how = how
    BY DEF Went
  <2>3. o.kind = "exactly" => /\ run.how = "ok" => run.o.n = 0
                              /\ run.how = "incomplete" => eof /\ run.s.cursor = total
    BY DEF Went, Effect
  <2>4. res.kind = "exactly" => /\ res.how = "ok" => res.n = 0
                                /\ res.how = "incomplete" => eof /\ res.to = total
    BY <2>2, <2>3
  <2> HIDE DEF res
  <2> QED
    BY <1>1, <2>1, <2>4 DEF ExactlyIsExact
<1> QED
  BY <1>2, <1>3

\* What readexactly returned stays true.
LEMMA ExactStep ==
  ASSUME IInv, ExactlyIsExact, [Next]_vars
  PROVE  ExactlyIsExact'
<1>0. result \in [Reader -> Results]
  BY DEF IInv, Typing
<1>1. ASSUME NEW r \in Reader, NEW m \in Methods, Read(r, m) PROVE ExactlyIsExact'
  BY <1>1, ReadGoes, WentExact
<1>2. ASSUME NEW r \in Reader, Resume(r) PROVE ExactlyIsExact'
  BY <1>2, ResumeGoes, WentExact
<1>3. ASSUME NEW r \in Reader, Raise(r) \/ UnreadData(r) PROVE ExactlyIsExact'
  <2>1. UNCHANGED <<eof, total>> /\ result' = [result EXCEPT ![r] = NoResult]
    BY <1>3, UnreadEffect DEF Raise
  <2> QED
    BY <1>0, <2>1 DEF ExactlyIsExact, NoResult
<1>4. ASSUME NEW r \in Reader, Cancel(r) PROVE ExactlyIsExact'
  BY <1>4 DEF Cancel, ExactlyIsExact
<1>5. CASE WaitEof \/ EofWaited \/ BeginChunk \/ EndChunk \/ Return \/ SetException
  BY <1>5 DEF WaitEof, EofWaited, BeginChunk, EndChunk, Return, SetException, ExactlyIsExact
<1>6. ASSUME NEW k \in 1 .. MaxPiece, FeedData(k) PROVE ExactlyIsExact'
  BY <1>6 DEF FeedData, Delivering, ExactlyIsExact
<1>7. CASE FeedEof
  BY <1>7 DEF FeedEof, ExactlyIsExact
<1>8. CASE ConnectionLost
  <2>1. UNCHANGED <<result, total>> /\ (eof => eof')
    BY <1>8 DEF ConnectionLost
  <2> QED
    BY <2>1 DEF ExactlyIsExact
<1>9. CASE NextMessage
  BY <1>9 DEF NextMessage, ExactlyIsExact, NoResult
<1>10. CASE UNCHANGED vars
  BY <1>10 DEF vars, ExactlyIsExact
<1> QED
  BY <1>1, <1>2, <1>3, <1>4, <1>5, <1>6, <1>7, <1>8, <1>9, <1>10 DEF Next

\* readexactly returns what was asked for or falls short at the end of the body.
THEOREM ExactReadsAreExact == Spec => []ExactlyIsExact
<1>1. Init => ExactlyIsExact
  BY DEF Init, ExactlyIsExact, NoResult
<1>2. IInv /\ ExactlyIsExact /\ [Next]_vars => ExactlyIsExact'
  BY ExactStep
<1> QED
  BY <1>1, <1>2, Invariant, PTL DEF Spec

\* No separator starts in the bytes after from up to the byte to.
NoneWithin(from, to) == \A i \in Separator : ~(from < i /\ i <= to)

\* readuntil took nothing past a separator.
LinesEndInTime ==
  \A r \in Reader :
    /\ op[r].kind = "until" => /\ op[r].from <= stream.cursor
                               /\ NoneWithin(op[r].from, stream.cursor)
    /\ result[r].kind = "until" => \A i \in Separator : ~(result[r].from < i /\ i < result[r].to)

\* readuntil goes on only if it has not passed a separator.
LEMMA WentLines ==
  ASSUME SepLen = 1, IInv, LinesEndInTime, NEW r \in Reader, Alone(r), NEW o \in Operation,
         NEW w, NEW run, NEW how, Went(r, o, w, run, how),
         o.kind = "until" => o.from <= stream.cursor /\ NoneWithin(o.from, stream.cursor)
  PROVE  LinesEndInTime'
<1>1. /\ result \in [Reader -> Results] /\ op \in [Reader -> Operation \cup {Idle}]
  BY DEF IInv, Typing
<1>2. /\ stream' = run.s /\ run.s.cursor >= stream.cursor /\ Consistent(run.s, total)
      /\ run.o.kind = o.kind /\ run.o.from = o.from
      /\ o.kind = "until" => \A p \in stream.cursor + 1 .. run.s.cursor :
            p \in Separator => run.how # "wait" /\ p = run.s.cursor
  BY DEF Went, Effect
<1>3. /\ run.s.cursor \in Nat /\ stream.cursor \in Nat /\ o.from \in Nat
      /\ Separator \subseteq Nat
  BY <1>2, EmptyIsAll, StreamAssumption DEF IInv, Operation
<1>4. ASSUME o.kind = "until", NEW i \in Separator, o.from < i, i <= run.s.cursor
      PROVE  run.how # "wait" /\ i = run.s.cursor
  <2>1. i \in Nat /\ ~(i <= stream.cursor)
    BY <1>3, <1>4 DEF NoneWithin
  <2>2. i \in stream.cursor + 1 .. run.s.cursor
    BY <1>3, <1>4, <2>1
  <2> QED
    BY <1>2, <1>4, <2>2
<1>5. ASSUME NEW q \in Reader, q # r
      PROVE  /\ op'[q].kind # "until"
             /\ result'[q].kind = "until" =>
                  \A i \in Separator : ~(result'[q].from < i /\ i < result'[q].to)
  <2>1. op'[q] = op[q] /\ result'[q] = result[q]
    BY <1>1, <1>5 DEF Went
  <2>2. op[q] = Idle
    BY <1>5 DEF Alone
  <2> QED
    BY <2>1, <2>2 DEF LinesEndInTime, Idle
<1>6. CASE how = "wait"
  <2>1. /\ op' = [op EXCEPT ![r] = run.o] /\ result' = [result EXCEPT ![r] = NoResult]
        /\ run.how = "wait"
    BY <1>6 DEF Went
  <2>2. op'[r] = run.o /\ result'[r] = NoResult
    BY <1>1, <2>1
  <2>3. o.kind = "until" => o.from <= run.s.cursor /\ NoneWithin(o.from, run.s.cursor)
    <3>1. o.kind = "until" => o.from <= run.s.cursor
      BY <1>2, <1>3
    <3> QED
      BY <1>4, <2>1, <3>1 DEF NoneWithin
  <2>4. result'[r].kind # "until"
    BY <2>2 DEF NoResult
  <2>5. op'[r].kind = o.kind /\ op'[r].from = o.from /\ stream'.cursor = run.s.cursor
    BY <1>2, <2>2
  <2> QED
    BY <1>5, <2>3, <2>4, <2>5 DEF LinesEndInTime, NoneWithin
<1>7. CASE how # "wait"
  <2> DEFINE res == [kind |-> o.kind, n |-> run.o.n, from |-> o.from, to |-> run.s.cursor,
                     how |-> how]
  <2>1. op' = [op EXCEPT ![r] = Idle] /\ result' = [result EXCEPT ![r] = res]
    BY <1>7 DEF Went
  <2>2. op'[r] = Idle /\ result'[r] = res
    <3> HIDE DEF res
    <3> QED
      BY <1>1, <2>1
  <2>3. op'[r].kind # "until"
    BY <2>2 DEF Idle
  <2>4. result'[r].kind = o.kind /\ result'[r].from = o.from /\ result'[r].to = run.s.cursor
    BY <2>2
  <2>5. o.kind = "until" => \A i \in Separator : ~(o.from < i /\ i < run.s.cursor)
    <3> SUFFICES ASSUME o.kind = "until", NEW i \in Separator, o.from < i, i < run.s.cursor
                 PROVE  FALSE
      OBVIOUS
    <3>1. i \in Nat /\ i <= run.s.cursor /\ i # run.s.cursor
      BY <1>3
    <3> QED
      BY <1>4, <3>1
  <2> HIDE DEF res
  <2> QED
    BY <1>5, <2>3, <2>4, <2>5 DEF LinesEndInTime
<1> QED
  BY <1>6, <1>7

\* No step passes a separator.
LEMMA LinesStep ==
  ASSUME SepLen = 1, IInv, OneAtATime, LinesEndInTime, TakesTurns, Next
  PROVE  LinesEndInTime'
<1>0. /\ Typing /\ stream \in Streams /\ stream.cursor \in Nat /\ Separator \subseteq Nat
      /\ total \in Nat /\ Consistent(stream, total)
  BY EmptyIsAll, StreamAssumption DEF IInv, Consistent
<1>1. ASSUME NEW r \in Reader, NEW m \in Methods, Read(r, m) PROVE LinesEndInTime'
  <2>1. /\ Started(m) \in Operation /\ Started(m).from = stream.cursor
        /\ \E run, how : Went(r, Started(m), waiter, run, how)
    BY <1>1, ReadGoes
  <2>2. \A c \in Nat, i \in Nat : ~(c < i /\ i <= c)
    OBVIOUS
  <2>3. /\ Started(m).from <= stream.cursor
        /\ NoneWithin(Started(m).from, stream.cursor)
    BY <1>0, <2>1, <2>2 DEF NoneWithin
  <2>4. Alone(r)
    BY <1>1 DEF TakesTurns
  <2> QED
    BY <2>1, <2>3, <2>4, WentLines
<1>2. ASSUME NEW r \in Reader, Resume(r) PROVE LinesEndInTime'
  <2>1. op[r] \in Operation /\ \E run, how : Went(r, op[r], Nobody, run, how)
    BY <1>2, ResumeGoes
  <2>2. op[r].kind = "until" => /\ op[r].from <= stream.cursor
                                /\ NoneWithin(op[r].from, stream.cursor)
    BY DEF LinesEndInTime
  <2>3. fut[r] # "none"
    BY <1>2 DEF Resume
  <2>4. Alone(r)
    BY <2>3, BusyAlone
  <2> QED
    BY <2>1, <2>2, <2>4, WentLines
<1>3. ASSUME NEW r \in Reader, Raise(r) PROVE LinesEndInTime'
  <2>1. /\ op' = [op EXCEPT ![r] = Idle] /\ result' = [result EXCEPT ![r] = NoResult]
        /\ stream' = stream
    BY <1>3 DEF Raise
  <2> QED
    BY <1>0, <2>1 DEF LinesEndInTime, NoneWithin, Typing, Idle, NoResult
<1>4. ASSUME NEW r \in Reader, Cancel(r) PROVE LinesEndInTime'
  BY <1>4 DEF Cancel, LinesEndInTime, NoneWithin
<1>5. ASSUME NEW r \in Reader, UnreadData(r) PROVE LinesEndInTime'
  <2>1. /\ op[r] = Idle /\ op' = op /\ result' = [result EXCEPT ![r] = NoResult]
        /\ Alone(r)
    BY <1>5, UnreadEffect DEF TakesTurns
  <2>2. ASSUME NEW q \in Reader
        PROVE  op'[q] = Idle /\ (result'[q] = NoResult \/ result'[q] = result[q])
    BY <1>0, <2>1 DEF Typing, Alone
  <2>3. Idle.kind # "until" /\ NoResult.kind # "until"
    BY DEF Idle, NoResult
  <2> QED
    BY <2>2, <2>3 DEF LinesEndInTime
<1>6. ASSUME UNCHANGED <<op, result>>, stream'.cursor = stream.cursor PROVE LinesEndInTime'
  BY <1>6 DEF LinesEndInTime, NoneWithin
<1>7. CASE WaitEof \/ EofWaited \/ FeedEof \/ Return \/ SetException \/ ConnectionLost
  BY <1>6, <1>7 DEF WaitEof, EofWaited, FeedEof, Return, SetException, ConnectionLost
<1>8. ASSUME NEW k \in 1 .. MaxPiece, FeedData(k) PROVE LinesEndInTime'
  <2>1. k \in Nat \ {0}
    BY StreamAssumption
  <2>2. stream' = Fed(stream, total, k) /\ UNCHANGED <<op, result>>
    BY <1>8 DEF FeedData, Fed
  <2> QED
    BY <1>0, <1>6, <2>1, <2>2, FedConsistent
<1>9. CASE BeginChunk \/ EndChunk
  <2>1. stream'.cursor = stream.cursor /\ UNCHANGED <<op, result>>
    BY <1>0, <1>9 DEF BeginChunk, EndChunk, Streams
  <2> QED
    BY <1>6, <2>1
<1>10. CASE NextMessage
  <2>1. /\ \A r \in Reader : op[r] = Idle
        /\ op' = op /\ result' = [r \in Reader |-> NoResult]
    BY <1>10 DEF NextMessage
  <2> QED
    BY <2>1 DEF LinesEndInTime, Idle, NoResult
<1> QED
  BY <1>1, <1>2, <1>3, <1>4, <1>5, <1>7, <1>8, <1>9, <1>10 DEF Next

\* readuntil stops at the first separator and readexactly is exact, when
\* coroutines take turns and the separator is one byte long (a longer one that
\* is split over two pieces is not found).
THEOREM LinesAndExactReads ==
  ASSUME SepLen = 1
  PROVE  Spec /\ [][TakesTurns]_vars => []ReadsAreExact
<1>1. Init => LinesEndInTime
  BY DEF Init, LinesEndInTime, Idle, NoResult
<1>2. IInv /\ OneAtATime /\ LinesEndInTime /\ [Next]_vars /\ [TakesTurns]_vars
        => LinesEndInTime'
  <2>1. UNCHANGED vars /\ LinesEndInTime => LinesEndInTime'
    BY DEF vars, LinesEndInTime, NoneWithin
  <2> QED
    BY <2>1, LinesStep
<1>3. IInv /\ LinesEndInTime /\ ExactlyIsExact => ReadsAreExact
  <2> SUFFICES ASSUME IInv, LinesEndInTime, ExactlyIsExact PROVE ReadsAreExact
    OBVIOUS
  <2>1. \A i \in Separator : i + SepLen - 1 = i
    BY StreamAssumption
  <2> QED
    BY <2>1 DEF ReadsAreExact, LinesEndInTime, NoneWithin, ExactlyIsExact
<1>4. Spec => []ExactlyIsExact
  BY ExactReadsAreExact
<1> QED
  BY <1>1, <1>2, <1>3, <1>4, Invariant, TurnsAreKept, PTL DEF Spec
=============================================================================
