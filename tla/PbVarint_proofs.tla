-------------------------- MODULE PbVarint_proofs --------------------------
(***************************************************************************)
(* What the varint readers of PbVarint return, whatever the bytes are:     *)
(* numbers of the right width, read from no more bytes than there are.     *)
(***************************************************************************)
EXTENDS PbVarint, SequencesExt, SequenceTheorems, WellFoundedInduction, TLAPS

----------------------------------------------------------------------------
(* Induction, stated of a set of numbers instead of a predicate, so that   *)
(* it can be cited: it follows from the least number of what is missing.   *)
LEMMA LeastOf ==
    ASSUME NEW T \in SUBSET Nat, T # {}
    PROVE  \E x \in T : \A y \in T : x <= y
<1> DEFINE less == OpToRel(<, Nat)
<1>1. IsWellFoundedOn(less, Nat)
  BY NatLessThanWellFounded
<1>2. \A x, y \in Nat : x < y <=> <<x, y>> \in less
  BY DEF OpToRel
<1> HIDE DEF less
<1>3. PICK x \in T : \A y \in T : ~(<<y, x>> \in less)
  BY <1>1, WFMin
<1>4. \A y \in T : ~(y < x)
  BY <1>2, <1>3
<1>5. \A y \in T : x <= y
  BY <1>4
<1>6. QED
  BY <1>5

LEMMA SetInduction ==
    ASSUME NEW P, 0 \in P, \A n \in Nat : n \in P => n + 1 \in P
    PROVE  \A n \in Nat : n \in P
<1> SUFFICES ASSUME Nat \ P # {} PROVE FALSE
  OBVIOUS
<1>1. PICK m \in Nat \ P : \A k \in Nat \ P : m <= k
  <2>1. Nat \ P \in SUBSET Nat
    OBVIOUS
  <2>2. QED
    BY <2>1, LeastOf
<1>2. m \in Nat /\ m # 0 /\ m \notin P
  BY <1>1
<1>3. m - 1 \in Nat /\ (m - 1) + 1 = m
  BY <1>2
<1>4. m - 1 \in P
  BY <1>1, <1>3
<1>5. QED
  BY <1>2, <1>3, <1>4

----------------------------------------------------------------------------
(* FlattenSeq, one sequence at a time.                                     *)
LEMMA FlattenSteps ==
    ASSUME NEW S, NEW s \in Seq(Seq(S)), s # <<>>
    PROVE  \E f : /\ f \in [1..Len(s) -> Seq(S)]
                  /\ f[1] = s[1]
                  /\ \A i \in 2..Len(s) : f[i] = f[i - 1] \o s[i]
                  /\ FlattenSeq(s) = f[Len(s)]
<1> DEFINE D(f, i) == IF i = 1 THEN s[i] ELSE f[i - 1] \o s[i]
           P == {n \in Nat : \E f : f = [i \in 1..n |-> D(f, i)]}
<1>1. Len(s) \in Nat \ {0} /\ \A i \in 1..Len(s) : s[i] \in Seq(S)
  BY EmptySeq, ElementOfSeq
<1>2. 0 \in P
  <2> DEFINE g == [i \in 1..0 |-> D(<<>>, i)]
  <2>1. g = [i \in 1..0 |-> D(g, i)]
    OBVIOUS
  <2> HIDE DEF g, D
  <2>2. QED
    BY <2>1
<1>3. ASSUME NEW n \in Nat, n \in P PROVE n + 1 \in P
  <2>1. PICK f : f = [i \in 1..n |-> D(f, i)]
    BY <1>3
  <2> DEFINE g == [i \in 1..(n + 1) |-> IF i = n + 1 THEN D(f, i) ELSE f[i]]
  <2>2. \A i \in 1..(n + 1) : g[i] = D(g, i)
    <3> TAKE i \in 1..(n + 1)
    <3>1. i # 1 => i - 1 \in 1..n /\ i - 1 \in 1..(n + 1) /\ i - 1 # n + 1
      OBVIOUS
    <3>2. D(g, i) = D(f, i)
      BY <3>1
    <3> HIDE DEF D
    <3>3. i # n + 1 => f[i] = D(f, i)
      <4>1. i # n + 1 => i \in 1..n
        OBVIOUS
      <4>2. QED
        BY <2>1, <4>1
    <3>4. QED
      BY <3>2, <3>3
  <2>3. g = [i \in 1..(n + 1) |-> D(g, i)]
    <3> HIDE DEF D
    <3>1. QED
      BY <2>2
  <2> HIDE DEF g, D
  <2>4. QED
    BY <2>3
<1>4. \E f : f = [i \in 1..Len(s) |-> D(f, i)]
  <2>1. \A n \in Nat : n \in P
    <3> HIDE DEF P
    <3>1. QED
      BY <1>2, <1>3, SetInduction
  <2>2. QED
    BY <1>1, <2>1
<1> DEFINE flat == CHOOSE f : f = [i \in 1..Len(s) |-> D(f, i)]
<1>5. flat = [i \in 1..Len(s) |-> D(flat, i)]
  <2> HIDE DEF D
  <2>1. QED
    BY <1>4
<1>6. FlattenSeq(s) = flat[Len(s)]
  BY <1>1 DEF FlattenSeq
<1> HIDE DEF flat
<1>7. flat[1] = s[1] /\ \A i \in 2..Len(s) : flat[i] = flat[i - 1] \o s[i]
  <2>1. \A i \in 1..Len(s) : flat[i] = D(flat, i)
    <3> HIDE DEF D
    <3>1. QED
      BY <1>5
  <2>2. 1 \in 1..Len(s) /\ \A i \in 2..Len(s) : i \in 1..Len(s) /\ i # 1
    BY <1>1
  <2>3. QED
    BY <2>1, <2>2
<1> DEFINE Q == {n \in Nat : n + 1 \in 1..Len(s) => flat[n + 1] \in Seq(S)}
<1>8. 0 \in Q
  BY <1>1, <1>7
<1>9. ASSUME NEW n \in Nat, n \in Q PROVE n + 1 \in Q
  <2> SUFFICES ASSUME (n + 1) + 1 \in 1..Len(s) PROVE flat[(n + 1) + 1] \in Seq(S)
    OBVIOUS
  <2>1. /\ n + 1 \in 1..Len(s) /\ (n + 1) + 1 \in 2..Len(s) /\ ((n + 1) + 1) - 1 = n + 1
    BY <1>1
  <2>2. flat[n + 1] \in Seq(S) /\ s[(n + 1) + 1] \in Seq(S)
    BY <1>1, <1>9, <2>1
  <2>3. flat[(n + 1) + 1] = flat[n + 1] \o s[(n + 1) + 1]
    BY <1>7, <2>1
  <2>4. QED
    BY <2>2, <2>3, ConcatProperties
<1>10. \A n \in Nat : n \in Q
  <2> HIDE DEF Q
  <2>1. QED
    BY <1>8, <1>9, SetInduction
<1>11. \A i \in 1..Len(s) : flat[i] \in Seq(S)
  <2> TAKE i \in 1..Len(s)
  <2>1. i - 1 \in Nat /\ (i - 1) + 1 = i
    OBVIOUS
  <2>2. QED
    BY <1>10, <2>1
<1>12. flat \in [1..Len(s) -> Seq(S)]
  <2>1. flat = [i \in 1..Len(s) |-> flat[i]]
    <3> HIDE DEF D
    <3>1. QED
      BY <1>5
  <2>2. QED
    BY <1>11, <2>1
<1>13. QED
  BY <1>6, <1>7, <1>12

LEMMA FlattenAppend ==
    ASSUME NEW S, NEW s \in Seq(Seq(S)), NEW x \in Seq(S)
    PROVE  /\ FlattenSeq(Append(s, x)) = FlattenSeq(s) \o x
           /\ FlattenSeq(s) \in Seq(S)
<1> DEFINE t == Append(s, x)
           n == Len(s)
<1>1. /\ n \in Nat /\ t \in Seq(Seq(S)) /\ t # <<>> /\ Len(t) = n + 1 /\ t[n + 1] = x
      /\ \A i \in 1..n : t[i] = s[i]
  BY AppendProperties, LenProperties
<1> HIDE DEF t
<1>2. PICK g : /\ g \in [1..Len(t) -> Seq(S)] /\ g[1] = t[1]
               /\ \A i \in 2..Len(t) : g[i] = g[i - 1] \o t[i]
               /\ FlattenSeq(t) = g[Len(t)]
  BY <1>1, FlattenSteps
<1>3. CASE s = <<>>
  <2>1. FlattenSeq(s) = <<>>
    BY <1>3, EmptySeq DEF FlattenSeq
  <2>2. Len(t) = 1 /\ t[1] = x
    BY <1>1, <1>3, EmptySeq
  <2>3. QED
    BY <1>2, <2>1, <2>2, EmptySeq, ConcatEmptySeq DEF t
<1>4. CASE s # <<>>
  <2>1. PICK f : /\ f \in [1..n -> Seq(S)] /\ f[1] = s[1]
                 /\ \A i \in 2..n : f[i] = f[i - 1] \o s[i]
                 /\ FlattenSeq(s) = f[n]
    BY <1>4, FlattenSteps
  <2>2. n \in Nat \ {0}
    BY <1>4, EmptySeq
  <2> DEFINE P == {k \in Nat : k + 1 \in 1..n => g[k + 1] = f[k + 1]}
  <2> HIDE DEF n
  <2>3. 0 \in P
    BY <1>1, <1>2, <2>1
  <2>4. ASSUME NEW k \in Nat, k \in P PROVE k + 1 \in P
    <3> SUFFICES ASSUME (k + 1) + 1 \in 1..n PROVE g[(k + 1) + 1] = f[(k + 1) + 1]
      OBVIOUS
    <3>1. /\ k + 1 \in 1..n /\ (k + 1) + 1 \in 2..n /\ (k + 1) + 1 \in 2..Len(t)
          /\ ((k + 1) + 1) - 1 = k + 1
      BY <1>1, <2>2
    <3>2. /\ g[(k + 1) + 1] = g[k + 1] \o t[(k + 1) + 1]
          /\ f[(k + 1) + 1] = f[k + 1] \o s[(k + 1) + 1]
      BY <1>2, <2>1, <3>1
    <3>3. QED
      BY <1>1, <2>4, <3>1, <3>2
  <2>5. \A k \in Nat : k \in P
    <3> HIDE DEF P
    <3>1. QED
      BY <2>3, <2>4, SetInduction
  <2>6. g[n] = f[n]
    <3>1. n - 1 \in Nat /\ (n - 1) + 1 = n /\ n \in 1..n
      BY <2>2
    <3>2. QED
      BY <2>5, <3>1
  <2>7. g[n + 1] = g[n] \o x
    <3>1. n + 1 \in 2..Len(t) /\ (n + 1) - 1 = n
      BY <1>1, <2>2
    <3>2. QED
      BY <1>1, <1>2, <3>1
  <2>8. f[n] \in Seq(S)
    BY <2>1, <2>2
  <2>9. QED
    BY <1>1, <1>2, <2>1, <2>6, <2>7, <2>8 DEF t
<1>5. QED
  BY <1>3, <1>4

(* The same from the front.                                                *)
LEMMA FlattenTail ==
    ASSUME NEW S, NEW s \in Seq(Seq(S)), s # <<>>
    PROVE  /\ FlattenSeq(s) = s[1] \o FlattenSeq(Tail(s))
           /\ FlattenSeq(Tail(s)) \in Seq(S)
<1> DEFINE t == Tail(s)
           n == Len(s)
           h == s[1]
<1>1. /\ n \in Nat \ {0} /\ t \in Seq(Seq(S)) /\ Len(t) = n - 1
      /\ \A i \in 1..(n - 1) : t[i] = s[i + 1]
      /\ \A i \in 1..n : s[i] \in Seq(S)
  BY HeadTailProperties, EmptySeq, ElementOfSeq
<1>2. h \in Seq(S)
  BY <1>1
<1>3. PICK f : /\ f \in [1..n -> Seq(S)] /\ f[1] = s[1]
               /\ \A i \in 2..n : f[i] = f[i - 1] \o s[i]
               /\ FlattenSeq(s) = f[n]
  BY FlattenSteps
<1> HIDE DEF t, n, h
<1>4. CASE n = 1
  <2>1. t = <<>>
    BY <1>1, <1>4, EmptySeq
  <2>2. FlattenSeq(t) = <<>>
    BY <2>1, EmptySeq DEF FlattenSeq
  <2>3. QED
    BY <1>2, <1>3, <1>4, <2>2, EmptySeq, ConcatEmptySeq DEF t, h
<1>5. CASE n # 1
  <2>1. n - 1 \in Nat \ {0} /\ t # <<>>
    BY <1>1, <1>5, EmptySeq
  <2>0. PICK g : /\ g \in [1..Len(t) -> Seq(S)] /\ g[1] = t[1]
                 /\ \A i \in 2..Len(t) : g[i] = g[i - 1] \o t[i]
                 /\ FlattenSeq(t) = g[Len(t)]
    <3>1. t \in Seq(Seq(S)) /\ t # <<>>
      BY <1>1, <2>1
    <3>2. QED
      BY <3>1, FlattenSteps
  <2>2. /\ g \in [1..(n - 1) -> Seq(S)] /\ g[1] = t[1]
        /\ \A i \in 2..(n - 1) : g[i] = g[i - 1] \o t[i]
        /\ FlattenSeq(t) = g[n - 1]
    BY <1>1, <2>0
  <2> DEFINE P == {k \in Nat : k + 1 \in 1..(n - 1) => f[(k + 1) + 1] = h \o g[k + 1]}
  <2>3. 0 \in P
    <3>1. f[2] = f[1] \o s[2] /\ t[1] = s[2]
      <4>1. 2 \in 2..n /\ 2 - 1 = 1 /\ 1 \in 1..(n - 1) /\ 1 + 1 = 2
        BY <1>1, <2>1
      <4>2. QED
        BY <1>1, <1>3, <4>1
    <3>2. f[2] = h \o g[1]
      BY <1>3, <2>2, <3>1 DEF h
    <3>3. (0 + 1) + 1 = 2 /\ 0 + 1 = 1
      OBVIOUS
    <3>4. QED
      BY <3>2, <3>3
  <2>4. ASSUME NEW k \in Nat, k \in P PROVE k + 1 \in P
    <3> DEFINE i == k + 1
               j == k + 2
    <3> SUFFICES ASSUME j \in 1..(n - 1) PROVE f[j + 1] = h \o g[j]
      OBVIOUS
    <3>1. /\ i \in 1..(n - 1) /\ j \in 2..(n - 1) /\ j - 1 = i /\ i + 1 = j
          /\ j + 1 \in 2..n /\ (j + 1) - 1 = j
      BY <1>1
    <3>2. f[j] = h \o g[i]
      BY <2>4, <3>1
    <3> HIDE DEF i, j
    <3>3. f[j + 1] = f[j] \o s[j + 1] /\ g[j] = g[i] \o t[j] /\ t[j] = s[j + 1]
      BY <1>1, <1>3, <2>2, <3>1
    <3>4. g[i] \in Seq(S) /\ t[j] \in Seq(S)
      BY <1>1, <2>2, <3>1, <3>3
    <3>5. \A a, b \in Seq(S) : (h \o a) \o b = h \o (a \o b)
      BY <1>2, ConcatAssociative, SMTT(30)
    <3>6. (h \o g[i]) \o t[j] = h \o (g[i] \o t[j])
      BY <3>4, <3>5
    <3>7. QED
      BY <3>2, <3>3, <3>6
  <2>5. \A k \in Nat : k \in P
    <3> HIDE DEF P
    <3>1. QED
      BY <2>3, <2>4, SetInduction
  <2>6. f[n] = h \o g[n - 1]
    <3>1. n - 2 \in Nat /\ (n - 2) + 1 = n - 1 /\ ((n - 2) + 1) + 1 = n /\ n - 1 \in 1..(n - 1)
      BY <1>1, <2>1
    <3>2. QED
      BY <2>5, <3>1
  <2>7. g[n - 1] \in Seq(S)
    <3>1. n - 1 \in 1..(n - 1)
      BY <1>1, <2>1
    <3>2. QED
      BY <2>2, <3>1
  <2>8. QED
    BY <1>3, <2>2, <2>6, <2>7 DEF t, h
<1>6. QED
  BY <1>4, <1>5

----------------------------------------------------------------------------

(* The readers of PbVarint never need more bytes than there are.           *)
LEMMA VarintLenBound ==
    ASSUME NEW s \in Seq(Byte)
    PROVE  VarintLen(s) \in 0..Len(s)
BY DEF VarintLen

LEMMA GroupType ==
    ASSUME NEW b \in Byte
    PROVE  Group(b) \in 0..127
BY DEF Byte, Group

LEMMA DigitType ==
    ASSUME NEW s \in Seq(Byte), NEW i \in Nat \ {0}
    PROVE  Digit(s, VarintLen(s), i) \in 0..127
<1>1. CASE i <= VarintLen(s)
  <2>1. i \in 1..Len(s)
    BY <1>1, VarintLenBound
  <2>2. s[i] \in Byte
    BY <2>1, ElementOfSeq
  <2>3. Group(s[i]) \in 0..127
    BY <2>2, GroupType
  <2>4. QED
    BY <1>1, <2>3 DEF Digit
<1>2. CASE ~(i <= VarintLen(s))
  BY <1>2 DEF Digit
<1>3. QED
  BY <1>1, <1>2

LEMMA Low64Type ==
    ASSUME NEW s \in Seq(Byte)
    PROVE  Low64(s, VarintLen(s)) \in Uint64
<1> DEFINE d(i) == Digit(s, VarintLen(s), i)
<1>1. ASSUME NEW i \in 1..10
      PROVE  d(i) % (Ones(i) + 1) \in 0..Ones(i)
  <2>1. d(i) \in 0..127
    <3>1. i \in Nat \ {0}
      OBVIOUS
    <3>2. QED
      BY <3>1, DigitType
  <2>2. \A n \in 0..127 : n % 128 \in 0..127 /\ n % 2 \in 0..1
    OBVIOUS
  <2> HIDE DEF d
  <2>3. CASE i = 10
    <3>1. Ones(i) = 1 /\ Ones(i) + 1 = 2
      BY <2>3 DEF Ones
    <3>2. QED
      BY <2>1, <2>2, <3>1
  <2>4. CASE i # 10
    <3>1. Ones(i) = 127 /\ Ones(i) + 1 = 128
      BY <2>4 DEF Ones
    <3>2. QED
      BY <2>1, <2>2, <3>1
  <2>5. QED
    BY <2>3, <2>4
<1>2. Low64(s, VarintLen(s)) = [i \in 1..10 |-> d(i) % (Ones(i) + 1)]
  BY DEF Low64
<1>3. \A i \in 1..10 : Low64(s, VarintLen(s))[i] \in 0..Ones(i)
  <2> HIDE DEF d
  <2> QED BY <1>1, <1>2
<1>4. \A i \in 1..10 : 0..Ones(i) \subseteq 0..127
  BY DEF Ones
<1>5. Low64(s, VarintLen(s)) \in [1..10 -> 0..127]
  <2> HIDE DEF d
  <2>1. Low64(s, VarintLen(s)) = [i \in 1..10 |-> Low64(s, VarintLen(s))[i]]
    BY <1>2
  <2>2. \A i \in 1..10 : Low64(s, VarintLen(s))[i] \in 0..127
    BY <1>3, <1>4
  <2>3. QED
    BY <2>1, <2>2
<1>6. Low64(s, VarintLen(s))[10] \in 0..1
  <2>1. 10 \in 1..10 /\ Ones(10) = 1
    BY DEF Ones
  <2>2. QED
    BY <1>3, <2>1
<1>7. QED
  BY <1>5, <1>6 DEF Uint64

(* A cast to uint32_t leaves five digits, the fifth of four bits.          *)
LEMMA Cast32Type ==
    ASSUME NEW v \in Uint64
    PROVE  LET c == Cast(v, 4, FALSE)
           IN  /\ c[1] \in 0..127 /\ c[2] \in 0..127 /\ c[3] \in 0..127
               /\ c[4] \in 0..127 /\ c[5] \in 0..15
<1>0. CutDigit(4) = 5 /\ CutRange(4) = 16
  BY DEF CutDigit, CutRange
<1>1. Cast(v, 4, FALSE) = [i \in 1..10 |-> IF i < 5 THEN v[i]
                                            ELSE IF i = 5 THEN (v[5] % 16) + 0 ELSE 0]
  BY <1>0 DEF Cast
<1>2. /\ v[1] \in 0..127 /\ v[2] \in 0..127 /\ v[3] \in 0..127
      /\ v[4] \in 0..127 /\ v[5] \in 0..127
  <2>1. v \in [1..10 -> 0..127]
    BY DEF Uint64
  <2>2. 1 \in 1..10 /\ 2 \in 1..10 /\ 3 \in 1..10 /\ 4 \in 1..10 /\ 5 \in 1..10
    OBVIOUS
  <2>3. QED
    BY <2>1, <2>2
<1>3. \A n \in 0..127 : n % 16 \in 0..15
  OBVIOUS
<1>4. (v[5] % 16) + 0 \in 0..15
  BY <1>2, <1>3
<1> DEFINE c == Cast(v, 4, FALSE)
<1>5. /\ c[1] = v[1] /\ c[2] = v[2] /\ c[3] = v[3]
      /\ c[4] = v[4] /\ c[5] = (v[5] % 16) + 0
  <2>1. \A i \in 1..10 : c[i] = IF i < 5 THEN v[i] ELSE IF i = 5 THEN (v[5] % 16) + 0 ELSE 0
    BY <1>1
  <2>2. 1 \in 1..10 /\ 2 \in 1..10 /\ 3 \in 1..10 /\ 4 \in 1..10 /\ 5 \in 1..10
    OBVIOUS
  <2> HIDE DEF c
  <2>3. QED
    BY <2>1, <2>2
<1>6. QED
  BY <1>2, <1>4, <1>5

LEMMA HugeType == Huge \in Nat
BY DEF Huge

LEMMA NumType ==
    ASSUME NEW v,
           v[1] \in 0..127, v[2] \in 0..127, v[3] \in 0..127, v[4] \in 0..127, v[5] \in 0..15
    PROVE  Num(v) \in Nat
<1>1. v[1] + 128 * v[2] + 128 * 128 * v[3] + 128 * 128 * 128 * v[4] \in Nat
  <2> DEFINE a == v[1]
             b == v[2]
             c == v[3]
             d == v[4]
  <2>1. a \in 0..127 /\ b \in 0..127 /\ c \in 0..127 /\ d \in 0..127
    OBVIOUS
  <2> HIDE DEF a, b, c, d
  <2>2. a + 128 * b + 128 * 128 * c + 128 * 128 * 128 * d \in Nat
    BY <2>1
  <2>3. QED
    BY <2>2 DEF a, b, c, d
<1>2. QED
  BY <1>1, HugeType DEF Num

LEMMA Varint32Type ==
    ASSUME NEW s \in Seq(Byte)
    PROVE  /\ Varint32(s).len \in 0..Len(s)
           /\ Varint32(s).ok => Varint32(s).len > 0
           /\ Num(Varint32(s).value) \in Nat
           /\ Varint32(s).value[1] \in 0..127
<1>1. /\ Varint32(s).len = VarintLen(s)
      /\ Varint32(s).value = Cast(Low64(s, VarintLen(s)), 4, FALSE)
  BY DEF Varint32
<1>2. Varint32(s).ok => VarintLen(s) > 0
  BY DEF Varint32
<1>3. Num(Varint32(s).value) \in Nat /\ Varint32(s).value[1] \in 0..127
  BY <1>1, Low64Type, Cast32Type, NumType
<1>4. QED
  BY <1>1, <1>2, <1>3, VarintLenBound

LEMMA Varint64Type ==
    ASSUME NEW s \in Seq(Byte)
    PROVE  Varint64(s).len \in 0..Len(s) /\ Varint64(s).value \in Uint64
<1>1. Varint64(s).len = VarintLen(s) /\ Varint64(s).value = Low64(s, VarintLen(s))
  BY DEF Varint64
<1>2. QED
  BY <1>1, VarintLenBound, Low64Type

----------------------------------------------------------------------------
(* The encoder writes between one and ten bytes; the digits behind them    *)
(* are zero.                                                               *)
LEMMA EncodedLenFacts ==
    ASSUME NEW v
    PROVE  /\ EncodedLen(v) \in 1..10
           /\ \A j \in 1..10 : j > EncodedLen(v) => v[j] = 0
<1>1. CASE \E i \in 1..10 : v[i] # 0
  <2> DEFINE P(i) == v[i] # 0 /\ \A j \in (i + 1)..10 : v[j] = 0
  <2>1. \E i \in 1..10 : P(i)
    <3> SUFFICES ASSUME ~\E i \in 1..10 : P(i) PROVE FALSE
      OBVIOUS
    <3>0. \A i \in 1..10 : v[i] = 0 \/ \E j \in (i + 1)..10 : v[j] # 0
      OBVIOUS
    <3>1. v[10] = 0
      BY <3>0
    <3>2. v[9] = 0
      BY <3>0, <3>1
    <3>3. v[8] = 0
      BY <3>0, <3>1, <3>2
    <3>4. v[7] = 0
      BY <3>0, <3>1, <3>2, <3>3
    <3>5. v[6] = 0
      BY <3>0, <3>1, <3>2, <3>3, <3>4
    <3>6. v[5] = 0
      BY <3>0, <3>1, <3>2, <3>3, <3>4, <3>5
    <3>7. v[4] = 0
      BY <3>0, <3>1, <3>2, <3>3, <3>4, <3>5, <3>6
    <3>8. v[3] = 0
      BY <3>0, <3>1, <3>2, <3>3, <3>4, <3>5, <3>6, <3>7
    <3>9. v[2] = 0
      BY <3>0, <3>1, <3>2, <3>3, <3>4, <3>5, <3>6, <3>7, <3>8
    <3>10. v[1] = 0
      BY <3>0, <3>1, <3>2, <3>3, <3>4, <3>5, <3>6, <3>7, <3>8, <3>9
    <3>11. QED
      BY <1>1, <3>1, <3>2, <3>3, <3>4, <3>5, <3>6, <3>7, <3>8, <3>9, <3>10
  <2>2. EncodedLen(v) = CHOOSE i \in 1..10 : P(i)
    BY <1>1 DEF EncodedLen
  <2>3. EncodedLen(v) \in 1..10 /\ P(EncodedLen(v))
    <3> HIDE DEF P
    <3> QED BY <2>1, <2>2
  <2>4. QED
    BY <2>3
<1>2. CASE ~\E i \in 1..10 : v[i] # 0
  BY <1>2 DEF EncodedLen
<1>3. QED
  BY <1>1, <1>2

(* What pb_encode_varint writes, pb_decode_varint reads back, whatever the *)
(* 64-bit number: every byte of it, and the number itself.                 *)
THEOREM VarintRoundTrip ==
    ASSUME NEW v \in Uint64
    PROVE  /\ EncodeVarint(v) \in Seq(Byte)
           /\ Varint64(EncodeVarint(v)).ok
           /\ Varint64(EncodeVarint(v)).len = Len(EncodeVarint(v))
           /\ Varint64(EncodeVarint(v)).value = v
<1> DEFINE n == EncodedLen(v)
           e == EncodeVarint(v)
<1>1. n \in 1..10 /\ \A j \in 1..10 : j > n => v[j] = 0
  BY EncodedLenFacts
<1>2. v \in [1..10 -> 0..127] /\ v[10] \in 0..1
  BY DEF Uint64
<1>3. e = [i \in 1..n |-> IF i < n THEN v[i] + 128 ELSE v[i]]
  BY DEF EncodeVarint
<1> HIDE DEF n, e
<1>4. \A i \in 1..n : v[i] \in 0..127 /\ v[i] + 128 \in 128..255
  BY <1>1, <1>2
<1>5. e \in Seq(Byte) /\ Len(e) = n
  <2>1. \A i \in 1..n : (IF i < n THEN v[i] + 128 ELSE v[i]) \in Byte
    BY <1>1, <1>4 DEF Byte
  <2>2. n \in Nat
    BY <1>1
  <2>3. e \in [1..n -> Byte]
    BY <1>3, <2>1
  <2>4. QED
    BY <2>2, <2>3
<1>6. \A i \in 1..n : More(e[i]) <=> i < n
  <2> TAKE i \in 1..n
  <2>1. CASE i < n
    <3>1. e[i] = v[i] + 128
      BY <1>3, <2>1
    <3>2. QED
      BY <1>4, <2>1, <3>1 DEF More
  <2>2. CASE ~(i < n)
    <3>1. e[i] = v[i]
      BY <1>3, <2>2
    <3>2. QED
      BY <1>4, <2>2, <3>1 DEF More
  <2>3. QED
    BY <2>1, <2>2
<1>7. VarintLen(e) = n
  <2> DEFINE EndsAt(k) == ~More(e[k]) /\ \A j \in 1..(k - 1) : More(e[j])
  <2>1. n \in 1..Len(e) /\ EndsAt(n)
    <3>1. \A j \in 1..(n - 1) : j \in 1..n /\ j < n
      BY <1>1
    <3>2. n \in 1..n /\ ~(n < n)
      BY <1>1
    <3>3. QED
      BY <1>5, <1>6, <3>1, <3>2
  <2>2. \A k \in 1..Len(e) : EndsAt(k) => k = n
    <3> SUFFICES ASSUME NEW k \in 1..n, ~More(e[k]) PROVE k = n
      BY <1>5
    <3>1. ~(k < n)
      BY <1>6
    <3>2. QED
      BY <1>1, <3>1
  <2>3. VarintLen(e) = CHOOSE k \in 1..Len(e) : EndsAt(k)
    BY <2>1 DEF VarintLen
  <2> HIDE DEF EndsAt
  <2>4. QED
    BY <2>1, <2>2, <2>3
<1>8. \A i \in 1..10 : Digit(e, n, i) = v[i]
  <2> TAKE i \in 1..10
  <2>1. CASE i <= n
    <3>1. i \in 1..n /\ Digit(e, n, i) = e[i] % 128
      BY <1>1, <2>1 DEF Digit, Group
    <3>2. e[i] = v[i] \/ e[i] = v[i] + 128
      BY <1>3, <3>1
    <3>3. v[i] \in 0..127
      BY <1>2
    <3>4. \A k \in 0..127 : k % 128 = k /\ (k + 128) % 128 = k
      OBVIOUS
    <3>5. QED
      BY <3>1, <3>2, <3>3, <3>4
  <2>2. CASE ~(i <= n)
    <3>1. Digit(e, n, i) = 0
      BY <2>2 DEF Digit
    <3>2. i > n
      BY <1>1, <2>2
    <3>3. QED
      BY <1>1, <3>1, <3>2
  <2>3. QED
    BY <2>1, <2>2
<1>9. Low64(e, n) = v
  <2>1. \A i \in 1..10 : Digit(e, n, i) % (Ones(i) + 1) = v[i]
    <3> TAKE i \in 1..10
    <3>1. \A k \in 0..127 : k % 128 = k
      OBVIOUS
    <3>2. \A k \in 0..1 : k % 2 = k
      OBVIOUS
    <3>3. CASE i = 10
      <4>1. Ones(i) + 1 = 2
        BY <3>3 DEF Ones
      <4>2. QED
        BY <1>2, <1>8, <3>2, <3>3, <4>1
    <3>4. CASE i # 10
      <4>1. Ones(i) + 1 = 128
        BY <3>4 DEF Ones
      <4>2. QED
        BY <1>2, <1>8, <3>1, <4>1
    <3>5. QED
      BY <3>3, <3>4
  <2>2. Low64(e, n) = [i \in 1..10 |-> Digit(e, n, i) % (Ones(i) + 1)]
    BY DEF Low64
  <2>3. QED
    BY <1>2, <2>1, <2>2
<1>10. /\ Varint64(e).ok = (n \in 1..10)
       /\ Varint64(e).len = n
       /\ Varint64(e).value = Low64(e, n)
  BY <1>7 DEF Varint64
<1>11. QED
  BY <1>1, <1>5, <1>9, <1>10 DEF e

----------------------------------------------------------------------------
(* Shifting left and back right loses nothing but the sign.                *)
LEMMA ShiftFacts ==
    ASSUME NEW v \in Uint64
    PROVE  /\ Shl(v) \in Uint64
           /\ Shl(v)[1] % 2 = 0
           /\ \A i \in 1..9 : Shl(v)[i] \div 2 + 64 * (Shl(v)[i + 1] % 2) = v[i]
           /\ Shl(v)[10] \div 2 = 0
<1> DEFINE y == Shl(v)
           w(i) == IF i > 1 THEN v[i - 1] \div 64 ELSE 0
<1>1. v \in [1..10 -> 0..127] /\ v[10] \in 0..1
  BY DEF Uint64
<1>2. \A i \in 1..10 : v[i] \in 0..127 /\ w(i) \in 0..1
  <2> TAKE i \in 1..10
  <2>1. \A k \in 0..127 : k \div 64 \in 0..1
    OBVIOUS
  <2>2. i > 1 => i - 1 \in 1..10
    OBVIOUS
  <2>3. QED
    BY <1>1, <2>1, <2>2
<1>3. \A i \in 1..10 : y[i] = (2 * v[i] + w(i)) % (Ones(i) + 1)
  BY DEF Shl
<1>4. \A i \in 1..9 : y[i] = (2 * v[i] + w(i)) % 128
  <2>1. \A i \in 1..9 : i \in 1..10 /\ Ones(i) + 1 = 128
    BY DEF Ones
  <2> HIDE DEF y, w
  <2>2. QED
    BY <1>3, <2>1
<1>5. y[10] = (2 * v[10] + w(10)) % 2
  <2>1. 10 \in 1..10 /\ Ones(10) + 1 = 2
    BY DEF Ones
  <2> HIDE DEF y, w
  <2>2. QED
    BY <1>3, <2>1
<1>6. w(1) = 0 /\ \A i \in 1..9 : w(i + 1) = v[i] \div 64
  <2>1. \A i \in 1..9 : i + 1 > 1 /\ i + 1 - 1 = i
    OBVIOUS
  <2>2. QED
    BY <2>1
<1>7. y = [i \in 1..10 |-> y[i]]
  BY DEF Shl
<1> HIDE DEF y, w
<1>8. \A a \in 0..127, b \in 0..1 :
        /\ (2 * a + b) % 128 \in 0..127
        /\ ((2 * a + b) % 128) \div 2 = a % 64
        /\ ((2 * a + b) % 128) % 2 = b
  OBVIOUS
<1>9. \A a \in 0..1, b \in 0..1 : (2 * a + b) % 2 = b
  OBVIOUS
<1>10. \A a \in 0..127 : (a % 64) + 64 * (a \div 64) = a
  OBVIOUS
<1>11. \A i \in 1..9 : y[i] \in 0..127 /\ y[i] \div 2 = v[i] % 64 /\ y[i] % 2 = w(i)
  <2> TAKE i \in 1..9
  <2>1. v[i] \in 0..127 /\ w(i) \in 0..1
    BY <1>2
  <2>2. QED
    BY <1>4, <1>8, <2>1
<1>12. y[10] = w(10) /\ y[10] \in 0..1
  BY <1>1, <1>2, <1>5, <1>9
<1>13. \A i \in 1..9 : y[i + 1] % 2 = v[i] \div 64
  <2> TAKE i \in 1..9
  <2>1. CASE i = 9
    <3>1. i + 1 = 10 /\ w(10) = v[i] \div 64
      BY <1>6, <2>1
    <3>2. \A k \in 0..1 : k % 2 = k
      OBVIOUS
    <3>3. QED
      BY <1>12, <3>1, <3>2
  <2>2. CASE i # 9
    <3>1. i + 1 \in 1..9
      BY <2>2
    <3>2. QED
      BY <1>6, <1>11, <3>1
  <2>3. QED
    BY <2>1, <2>2
<1>14. \A i \in 1..9 : y[i] \div 2 + 64 * (y[i + 1] % 2) = v[i]
  <2> TAKE i \in 1..9
  <2>1. v[i] \in 0..127
    BY <1>2
  <2>2. QED
    BY <1>10, <1>11, <1>13, <2>1
<1>15. y[1] % 2 = 0
  BY <1>6, <1>11
<1>16. y[10] \div 2 = 0
  BY <1>12
<1>17. y \in Uint64
  <2>1. \A i \in 1..10 : y[i] \in 0..127
    <3> TAKE i \in 1..10
    <3>1. i = 10 \/ i \in 1..9
      OBVIOUS
    <3>2. QED
      BY <1>11, <1>12, <3>1
  <2>2. QED
    BY <1>7, <1>12, <2>1 DEF Uint64
<1>18. QED
  BY <1>14, <1>15, <1>16, <1>17 DEF y

(* pb_decode_svarint undoes what pb_encode_svarint does to the sign, for   *)
(* every 64-bit number.                                                    *)
THEOREM ZigzagLossless ==
    ASSUME NEW v \in Uint64
    PROVE  Unzigzag(Zigzag(v)) = v
<1> DEFINE y == Shl(v)
<1>1. v \in [1..10 -> 0..127] /\ v[10] \in 0..1
  BY DEF Uint64
<1>2. /\ y \in [1..10 -> 0..127] /\ y[10] \in 0..1
      /\ y[1] % 2 = 0
      /\ \A i \in 1..9 : y[i] \div 2 + 64 * (y[i + 1] % 2) = v[i]
      /\ y[10] \div 2 = 0
  BY ShiftFacts DEF Uint64
<1> HIDE DEF y
<1>3. CASE v[10] = 0
  <2>1. Zigzag(v) = y
    BY <1>3 DEF Zigzag, y
  <2>2. Unzigzag(y) = Shr(y)
    BY <1>2 DEF Unzigzag
  <2>3. \A i \in 1..10 : Shr(y)[i] = v[i]
    <3> TAKE i \in 1..10
    <3>1. CASE i = 10
      <4>1. Shr(y)[i] = y[10] \div 2 + 0
        BY <3>1 DEF Shr
      <4>2. QED
        BY <1>2, <1>3, <3>1, <4>1
    <3>2. CASE i # 10
      <4>1. i \in 1..9 /\ i < 10
        BY <3>2
      <4>2. Shr(y)[i] = y[i] \div 2 + 64 * (y[i + 1] % 2)
        BY <4>1 DEF Shr
      <4>3. QED
        BY <1>2, <4>1, <4>2
    <3>3. QED
      BY <3>1, <3>2
  <2>4. Shr(y) = [i \in 1..10 |-> Shr(y)[i]]
    BY DEF Shr
  <2>5. QED
    BY <1>1, <2>1, <2>2, <2>3, <2>4
<1>4. CASE v[10] = 1
  <2> DEFINE z == Not(y)
  <2>1. Zigzag(v) = z
    BY <1>4 DEF Zigzag, y
  <2>2. \A i \in 1..9 : z[i] = 127 - y[i]
    BY DEF Not, Ones
  <2>3. z[10] = 1 - y[10]
    BY DEF Not, Ones
  <2> HIDE DEF z
  <2>4. \A i \in 1..10 : y[i] \in 0..127
    BY <1>2
  <2>5. \A a \in 0..127 : (127 - a) % 2 = 1 - (a % 2) /\ (127 - a) \div 2 = 63 - a \div 2
    OBVIOUS
  <2>6. \A a \in 0..1 : (1 - a) % 2 = 1 - (a % 2) /\ (1 - a) \div 2 = 0
    OBVIOUS
  <2>7. \A i \in 1..9 : z[i] \div 2 = 63 - y[i] \div 2
    BY <2>2, <2>4, <2>5
  <2>8. \A i \in 1..10 : z[i] % 2 = 1 - (y[i] % 2)
    <3> TAKE i \in 1..10
    <3>1. CASE i = 10
      BY <1>2, <2>3, <2>6, <3>1
    <3>2. CASE i # 10
      <4>1. i \in 1..9
        BY <3>2
      <4>2. QED
        BY <2>2, <2>4, <2>5, <4>1
    <3>3. QED
      BY <3>1, <3>2
  <2>9. z[1] % 2 = 1
    <3>1. 1 \in 1..10
      OBVIOUS
    <3>2. QED
      BY <1>2, <2>8, <3>1
  <2>10. Unzigzag(z) = Not(Shr(z))
    BY <2>9 DEF Unzigzag
  <2>11. \A i \in 1..10 : Not(Shr(z))[i] = v[i]
    <3> TAKE i \in 1..10
    <3>1. CASE i = 10
      <4>1. Not(Shr(z))[i] = 1 - (z[10] \div 2 + 0)
        BY <3>1 DEF Not, Ones, Shr
      <4>2. z[10] \div 2 = 0
        BY <1>2, <2>3, <2>6
      <4>3. QED
        BY <1>4, <3>1, <4>1, <4>2
    <3>2. CASE i # 10
      <4>1. i \in 1..9 /\ i < 10 /\ i + 1 \in 1..10
        BY <3>2
      <4>2. Not(Shr(z))[i] = 127 - (z[i] \div 2 + 64 * (z[i + 1] % 2))
        BY <4>1 DEF Not, Ones, Shr
      <4>3. z[i] \div 2 = 63 - y[i] \div 2 /\ z[i + 1] % 2 = 1 - (y[i + 1] % 2)
        BY <2>7, <2>8, <4>1
      <4>4. y[i] \div 2 + 64 * (y[i + 1] % 2) = v[i]
        BY <1>2, <4>1
      <4>5. y[i] \div 2 \in Int /\ y[i + 1] % 2 \in Int
        BY <2>4, <4>1
      <4>6. QED
        BY <4>2, <4>3, <4>4, <4>5
    <3>3. QED
      BY <3>1, <3>2
  <2>12. Not(Shr(z)) = [i \in 1..10 |-> Not(Shr(z))[i]]
    BY DEF Not
  <2>13. QED
    BY <1>1, <2>1, <2>10, <2>11, <2>12
<1>5. QED
  BY <1>1, <1>3, <1>4
=============================================================================
