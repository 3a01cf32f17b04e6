------------------------ MODULE PbVarintLoop_proofs ------------------------
(***************************************************************************)
(* Proofs about PbVarintLoop, for every stream of bytes of any length: the *)
(* loops of the two varint readers compute the closed forms of PbVarint.   *)
(***************************************************************************)
EXTENDS PbVarintLoop, PbVarint_proofs

----------------------------------------------------------------------------
(* The length of a varint, from its bytes.                                 *)
LEMMA VarintLenIs ==
    ASSUME NEW s \in Seq(Byte), NEW k \in 1..Len(s),
           ~More(s[k]), \A j \in 1..(k - 1) : More(s[j])
    PROVE  VarintLen(s) = k
<1> DEFINE EndsAt(i) == ~More(s[i]) /\ \A j \in 1..(i - 1) : More(s[j])
<1>1. EndsAt(k)
  OBVIOUS
<1>2. \A i \in 1..Len(s) : EndsAt(i) => i = k
  <2> SUFFICES ASSUME NEW i \in 1..Len(s), EndsAt(i), i # k PROVE FALSE
    OBVIOUS
  <2>1. i \in 1..(k - 1) \/ k \in 1..(i - 1)
    OBVIOUS
  <2>2. QED
    BY <2>1
<1>3. VarintLen(s) = CHOOSE i \in 1..Len(s) : EndsAt(i)
  BY <1>1 DEF VarintLen
<1> HIDE DEF EndsAt
<1>4. QED
  BY <1>1, <1>2, <1>3

LEMMA VarintLenEnds ==
    ASSUME NEW s \in Seq(Byte), VarintLen(s) # 0
    PROVE  /\ VarintLen(s) \in 1..Len(s)
           /\ ~More(s[VarintLen(s)])
           /\ \A j \in 1..(VarintLen(s) - 1) : More(s[j])
<1> DEFINE EndsAt(i) == ~More(s[i]) /\ \A j \in 1..(i - 1) : More(s[j])
<1>1. /\ \E i \in 1..Len(s) : EndsAt(i)
      /\ VarintLen(s) = CHOOSE i \in 1..Len(s) : EndsAt(i)
  BY DEF VarintLen
<1> HIDE DEF EndsAt
<1>2. VarintLen(s) \in 1..Len(s) /\ EndsAt(VarintLen(s))
  BY <1>1
<1>3. QED
  BY <1>2 DEF EndsAt

----------------------------------------------------------------------------
(* A byte more, and what it changes.                                       *)
LEMMA OneMore ==
    ASSUME NEW s \in Seq(Byte), NEW b \in Byte
    PROVE  /\ Append(s, b) \in Seq(Byte)
           /\ Len(Append(s, b)) = Len(s) + 1
           /\ Append(s, b)[Len(s) + 1] = b
           /\ \A i \in 1..Len(s) : Append(s, b)[i] = s[i]
BY AppendProperties

LEMMA NextDigits ==
    ASSUME NEW s \in Seq(Byte), NEW b \in Byte, NEW i \in 1..10
    PROVE  Digit(Append(s, b), Len(s) + 1, i) =
              IF i = Len(s) + 1 THEN Group(b) ELSE Digit(s, Len(s), i)
<1>1. Len(s) \in Nat
  BY LenProperties
<1>2. CASE i <= Len(s)
  BY <1>1, <1>2, OneMore DEF Digit
<1>3. CASE i = Len(s) + 1
  BY <1>1, <1>3, OneMore DEF Digit
<1>4. CASE i > Len(s) + 1
  BY <1>1, <1>4, OneMore DEF Digit
<1>5. QED
  BY <1>1, <1>2, <1>3, <1>4

(* One round of each loop adds the digit of its byte.                      *)
LEMMA RoundDigit ==
    ASSUME NEW g \in 0..127, NEW n \in Nat, NEW i \in 1..10, i = n + 1
    PROVE  /\ g % (IF i = 5 THEN 16 ELSE 128) = IF n = 4 THEN g % 16 ELSE g
           /\ g % (Ones(i) + 1) = IF n = 9 THEN g % 2 ELSE g
<1>1. g % 128 = g
  OBVIOUS
<1>2. (i = 5 <=> n = 4) /\ (i = 10 <=> n = 9)
  OBVIOUS
<1>3. Ones(i) + 1 = IF n = 9 THEN 2 ELSE 128
  BY <1>2 DEF Ones
<1>4. QED
  BY <1>1, <1>2, <1>3

LEMMA NextLow32 ==
    ASSUME NEW s \in Seq(Byte), NEW b \in Byte
    PROVE  Low32(Append(s, b), Len(s) + 1) =
              IF Len(s) >= 5 THEN Low32(s, Len(s))
              ELSE [Low32(s, Len(s)) EXCEPT ![Len(s) + 1] =
                      IF Len(s) = 4 THEN Group(b) % 16 ELSE Group(b)]
<1> DEFINE n == Len(s)
           new == Low32(Append(s, b), n + 1)
           old == Low32(s, n)
<1>1. n \in Nat
  BY LenProperties
<1>2. Group(b) \in 0..127
  BY GroupType
<1>3. /\ new = [i \in 1..5 |-> Digit(Append(s, b), n + 1, i) % (IF i = 5 THEN 16 ELSE 128)]
      /\ old = [i \in 1..5 |-> Digit(s, n, i) % (IF i = 5 THEN 16 ELSE 128)]
  BY DEF Low32
<1>4. \A i \in 1..5 : new[i] = IF i # n + 1 THEN old[i]
                              ELSE IF n = 4 THEN Group(b) % 16 ELSE Group(b)
  <2> TAKE i \in 1..5
  <2>1. Digit(Append(s, b), n + 1, i) = IF i = n + 1 THEN Group(b) ELSE Digit(s, n, i)
    BY NextDigits
  <2>2. CASE i # n + 1
    BY <1>3, <2>1, <2>2
  <2>3. CASE i = n + 1
    <3>1. new[i] = Group(b) % (IF i = 5 THEN 16 ELSE 128)
      BY <1>3, <2>1, <2>3
    <3>2. n \in Nat /\ i \in 1..10 /\ Group(b) \in 0..127
      BY <1>1, <1>2
    <3> HIDE DEF n, new, old
    <3>3. Group(b) % (IF i = 5 THEN 16 ELSE 128) = IF n = 4 THEN Group(b) % 16 ELSE Group(b)
      BY <2>3, <3>2, RoundDigit, ZenonT(30)
    <3>4. QED
      BY <2>3, <3>1, <3>3
  <2>4. QED
    BY <2>2, <2>3
<1> HIDE DEF n, new, old
<1>5. QED
  BY <1>1, <1>3, <1>4 DEF n, new, old

LEMMA NextLow64 ==
    ASSUME NEW s \in Seq(Byte), NEW b \in Byte, Len(s) < 10
    PROVE  Low64(Append(s, b), Len(s) + 1) =
              [Low64(s, Len(s)) EXCEPT ![Len(s) + 1] =
                  IF Len(s) = 9 THEN Group(b) % 2 ELSE Group(b)]
<1> DEFINE n == Len(s)
           new == Low64(Append(s, b), n + 1)
           old == Low64(s, n)
<1>1. n \in Nat
  BY LenProperties
<1>2. Group(b) \in 0..127
  BY GroupType
<1>3. /\ new = [i \in 1..10 |-> Digit(Append(s, b), n + 1, i) % (Ones(i) + 1)]
      /\ old = [i \in 1..10 |-> Digit(s, n, i) % (Ones(i) + 1)]
  BY DEF Low64
<1>4. \A i \in 1..10 : new[i] = IF i # n + 1 THEN old[i]
                               ELSE IF n = 9 THEN Group(b) % 2 ELSE Group(b)
  <2> TAKE i \in 1..10
  <2>1. Digit(Append(s, b), n + 1, i) = IF i = n + 1 THEN Group(b) ELSE Digit(s, n, i)
    BY NextDigits
  <2>2. CASE i # n + 1
    BY <1>3, <2>1, <2>2
  <2>3. CASE i = n + 1
    <3>1. new[i] = Group(b) % (Ones(i) + 1)
      BY <1>3, <2>1, <2>3
    <3>2. n \in Nat /\ i \in 1..10 /\ Group(b) \in 0..127
      BY <1>1, <1>2
    <3> HIDE DEF n, new, old
    <3>3. Group(b) % (Ones(i) + 1) = IF n = 9 THEN Group(b) % 2 ELSE Group(b)
      BY <2>3, <3>2, RoundDigit, ZenonT(30)
    <3>4. QED
      BY <2>3, <3>1, <3>3
  <2>4. QED
    BY <2>2, <2>3
<1> HIDE DEF n, new, old
<1>5. QED
  BY <1>1, <1>3, <1>4 DEF n, new, old

----------------------------------------------------------------------------
(* What is known of the bytes read so far stays true when one is added.    *)
LEMMA BytesGrow ==
    ASSUME bytes \in Seq(Byte), NEW b \in Byte, bytes' = Append(bytes, b)
    PROVE  /\ bytes' \in Seq(Byte) /\ Len(bytes) \in Nat /\ Len(bytes') = Len(bytes) + 1
           /\ bytes'[Len(bytes) + 1] = b
           /\ \A i \in 1..Len(bytes) : bytes'[i] = bytes[i] /\ bytes[i] \in Byte
           /\ \A k \in 0..Len(bytes) : Unended(k) <=> Unended(k)'
           /\ \A i \in 6..Len(bytes) : Padding(i) <=> Padding(i)'
<1>1. /\ bytes' \in Seq(Byte) /\ Len(bytes) \in Nat /\ Len(bytes') = Len(bytes) + 1
      /\ bytes'[Len(bytes) + 1] = b
      /\ \A i \in 1..Len(bytes) : bytes'[i] = bytes[i]
  BY OneMore, LenProperties
<1>2. \A i \in 1..Len(bytes) : bytes[i] \in Byte
  BY ElementOfSeq
<1>3. ASSUME NEW k \in 0..Len(bytes) PROVE Unended(k) <=> Unended(k)'
  <2>1. \A j \in 1..k : bytes'[j] = bytes[j]
    BY <1>1
  <2>2. QED
    BY <2>1 DEF Unended
<1>4. ASSUME NEW i \in 6..Len(bytes) PROVE Padding(i) <=> Padding(i)'
  <2>1. bytes'[i] = bytes[i] /\ bytes'[5] = bytes[5]
    BY <1>1
  <2>2. QED
    BY <2>1 DEF Padding
<1>5. QED
  BY <1>1, <1>2, <1>3, <1>4

LEMMA UnendedNext ==
    ASSUME NEW n, bytes \in Seq(Byte), n = Len(bytes), NEW b \in Byte, bytes' = Append(bytes, b),
           Unended(n)
    PROVE  Unended(n)' /\ (Unended(n + 1)' <=> More(b))
<1>1. n \in Nat /\ bytes'[n + 1] = b /\ Unended(n)'
  <2>1. n \in Nat /\ n \in 0..n
    BY LenProperties
  <2>2. QED
    BY <2>1, BytesGrow
<1>2. Unended(n)' <=> \A j \in 1..n : More(bytes'[j])
  BY DEF Unended
<1>3. Unended(n + 1)' <=> \A j \in 1..(n + 1) : More(bytes'[j])
  BY DEF Unended
<1>4. QED
  BY <1>1, <1>2, <1>3

LEMMA DigitMod ==
    ASSUME NEW g \in 0..127
    PROVE  g % 16 \in 0..127 /\ g % 2 \in 0..127
OBVIOUS

(* A round of the loop for 32 bits.                                        *)
LEMMA Read32Keeps ==
    ASSUME LoopInv, Reading(r32), NEW b \in Byte,
           bytes' = Append(bytes, b), r32' = Read32(r32, b), ended' = ended
    PROVE  /\ r32' \in [state : {"reading", "ok", "failed"}, read : Nat, digits : [1..5 -> 0..127]]
           /\ InStep(r32)' /\ Loop32Inv'
<1>0. PICK n : n = Len(bytes)
  OBVIOUS
<1>1. /\ bytes \in Seq(Byte) /\ ended \in BOOLEAN
      /\ r32 \in [state : {"reading", "ok", "failed"}, read : Nat, digits : [1..5 -> 0..127]]
  BY DEF LoopInv, LoopTypeOK
<1>2. /\ r32.state = "reading" /\ r32.read = n /\ Unended(n) /\ ended = FALSE
      /\ r32.digits = Low32(bytes, n) /\ \A i \in 6..n : Padding(i)
  BY <1>0, <1>1 DEF LoopInv, Reading, InStep, Loop32Inv
<1>3. /\ bytes' \in Seq(Byte) /\ n \in Nat /\ Len(bytes') = n + 1
      /\ bytes'[n + 1] = b
      /\ \A i \in 1..n : bytes'[i] = bytes[i] /\ bytes[i] \in Byte
      /\ \A k \in 0..n : Unended(k) <=> Unended(k)'
      /\ \A i \in 6..n : Padding(i) <=> Padding(i)'
  BY <1>0, <1>1, BytesGrow
<1>4. Unended(n)' /\ (Unended(n + 1)' <=> More(b))
  BY <1>0, <1>1, <1>2, UnendedNext
<1>5. Group(b) \in 0..127
  BY GroupType
<1>6. Beyond(r32) <=> n >= 5
  BY <1>2, <1>3 DEF Beyond, bitpos
<1>7. n >= 5 => (Negative(r32) <=> Group(bytes[5]) % 16 >= 8)
  <2>1. n >= 5 => Low32(bytes, n)[5] = Group(bytes[5]) % 16
    BY <1>3 DEF Low32, Digit
  <2>2. QED
    BY <1>2, <2>1 DEF Negative
<1>8. r32'.digits = Low32(bytes', n + 1) /\ r32'.read = n + 1
  <2>1. r32'.read = n + 1
    BY <1>2 DEF Read32
  <2>2. r32'.digits = IF Beyond(r32) THEN r32.digits
                      ELSE [r32.digits EXCEPT ![n + 1] = IF bitpos(r32) = 28 THEN Group(b) % 16 ELSE Group(b)]
    BY <1>2 DEF Read32
  <2>3. bitpos(r32) = 28 <=> n = 4
    BY <1>2, <1>3 DEF bitpos
  <2>4. QED
    <3>1. Low32(bytes', n + 1) =
            IF n >= 5 THEN Low32(bytes, n)
            ELSE [Low32(bytes, n) EXCEPT ![n + 1] = IF n = 4 THEN Group(b) % 16 ELSE Group(b)]
      BY <1>0, <1>1, NextLow32
    <3>2. QED
      BY <1>2, <1>6, <2>1, <2>2, <2>3, <3>1
<1>9. r32'.digits \in [1..5 -> 0..127]
  <2>1. Group(b) % 16 \in 0..127
    BY <1>5, DigitMod
  <2>2. r32'.digits = IF Beyond(r32) THEN r32.digits
                      ELSE [r32.digits EXCEPT ![n + 1] = IF bitpos(r32) = 28 THEN Group(b) % 16 ELSE Group(b)]
    BY <1>2 DEF Read32
  <2>3. n + 1 \in 1..5 => (IF bitpos(r32) = 28 THEN Group(b) % 16 ELSE Group(b)) \in 0..127
    BY <1>5, <2>1
  <2>4. r32.digits \in [1..5 -> 0..127]
    BY <1>1
  <2>5. QED
    BY <1>3, <1>6, <2>2, <2>3, <2>4, ZenonT(30)
<1>10. Overflow(r32, b) <=> (n >= 5 /\ ~Padding(n + 1)') \/ (n = 4 /\ b \in 16..127)
  <2>1. bitpos(r32) + 7 = 35 <=> n = 4
    BY <1>2, <1>3 DEF bitpos
  <2>2. bitpos(r32) < 63 <=> n + 1 <= 9
    BY <1>2, <1>3 DEF bitpos
  <2>3. n >= 5 => bytes'[5] = bytes[5]
    BY <1>3
  <2>4. Padding(n + 1)' <=> \/ Group(b) = 0
                            \/ Group(bytes'[5]) % 16 >= 8 /\ b = IF n + 1 <= 9 THEN 255 ELSE 1
    BY <1>3 DEF Padding
  <2>5. Overflow(r32, b) <=>
          \/ Beyond(r32) /\ Group(b) # 0 /\ (~Negative(r32) \/ b # IF bitpos(r32) < 63 THEN 255 ELSE 1)
          \/ bitpos(r32) + 7 = 35 /\ b \in 16..127
    BY DEF Overflow
  <2>6. CASE n >= 5
    <3>1. Beyond(r32) /\ ~(bitpos(r32) + 7 = 35) /\ n # 4
      BY <1>3, <1>6, <2>1, <2>6
    <3>2. Negative(r32) <=> Group(bytes'[5]) % 16 >= 8
      BY <1>7, <2>3, <2>6
    <3>3. (b # IF bitpos(r32) < 63 THEN 255 ELSE 1) <=> ~(b = IF n + 1 <= 9 THEN 255 ELSE 1)
      BY <2>2
    <3>4. QED
      BY <2>4, <2>5, <2>6, <3>1, <3>2, <3>3
  <2>7. CASE ~(n >= 5)
    BY <1>6, <2>1, <2>5, <2>7
  <2>8. QED
    BY <2>6, <2>7
<1>11. r32'.state = IF Overflow(r32, b) THEN "failed" ELSE IF More(b) THEN "reading" ELSE "ok"
  BY DEF Read32
<1>12. r32' \in [state : {"reading", "ok", "failed"}, read : Nat, digits : [1..5 -> 0..127]]
  <2>1. r32' = [state |-> r32'.state, read |-> r32'.read, digits |-> r32'.digits]
    BY DEF Read32
  <2>2. r32'.state \in {"reading", "ok", "failed"} /\ r32'.read \in Nat
    BY <1>3, <1>8, <1>11
  <2>3. QED
    BY <1>9, <2>1, <2>2
<1>13. CASE Overflow(r32, b)
  <2>1. r32'.state = "failed"
    BY <1>11, <1>13
  <2>2. \E i \in 5..(n + 1) : /\ Unended(i - 1)'
                              /\ i = 5 => bytes'[5] \in 16..127
                              /\ i > 5 => ~Padding(i)'
    <3>1. n + 1 \in 5..(n + 1) /\ (n + 1) - 1 = n
      BY <1>3, <1>10, <1>13
    <3>2. n + 1 = 5 => bytes'[5] \in 16..127
      BY <1>3, <1>10, <1>13
    <3>3. n + 1 > 5 => ~Padding(n + 1)'
      BY <1>3, <1>10, <1>13
    <3>4. QED
      BY <1>4, <3>1, <3>2, <3>3
  <2>3. Loop32Inv'
    BY <1>3, <2>1, <2>2 DEF Loop32Inv
  <2>4. InStep(r32)'
    BY <2>1 DEF InStep
  <2>5. QED
    BY <1>12, <2>3, <2>4
<1>14. CASE ~Overflow(r32, b)
  <2>1. r32'.state = IF More(b) THEN "reading" ELSE "ok"
    BY <1>11, <1>14
  <2>2. \A i \in 6..(n + 1) : Padding(i)'
    BY <1>2, <1>3, <1>10, <1>14
  <2>3. (r32'.state = "ok" /\ n + 1 = 5) => bytes'[5] < 16
    BY <1>3, <1>10, <1>14, <2>1 DEF Byte, More
  <2>4. Loop32Inv'
    BY <1>3, <1>8, <2>1, <2>2, <2>3 DEF Loop32Inv
  <2>5. (n + 1) - 1 = n
    BY <1>3
  <2>6. InStep(r32)'
    BY <1>2, <1>3, <1>4, <1>8, <2>1, <2>5 DEF InStep
  <2>7. QED
    BY <1>12, <2>4, <2>6
<1>15. QED
  BY <1>13, <1>14

(* A round of the loop for 64 bits.                                        *)
LEMMA Read64Keeps ==
    ASSUME LoopInv, Reading(r64), NEW b \in Byte,
           bytes' = Append(bytes, b), r64' = Read64(r64, b), ended' = ended
    PROVE  /\ r64' \in [state : {"reading", "ok", "failed"}, read : Nat, digits : [1..10 -> 0..127]]
           /\ InStep(r64)' /\ Loop64Inv'
<1>0. PICK n : n = Len(bytes)
  OBVIOUS
<1>1. /\ bytes \in Seq(Byte) /\ ended \in BOOLEAN
      /\ r64 \in [state : {"reading", "ok", "failed"}, read : Nat, digits : [1..10 -> 0..127]]
  BY DEF LoopInv, LoopTypeOK
<1>2. /\ r64.state = "reading" /\ r64.read = n /\ Unended(n) /\ ended = FALSE
      /\ r64.digits = Low64(bytes, n) /\ n <= 10
  BY <1>0, <1>1 DEF LoopInv, Reading, InStep, Loop64Inv
<1>3. /\ bytes' \in Seq(Byte) /\ n \in Nat /\ Len(bytes') = n + 1
      /\ bytes'[n + 1] = b
  BY <1>0, <1>1, BytesGrow
<1>4. Unended(n)' /\ (Unended(n + 1)' <=> More(b))
  BY <1>0, <1>1, <1>2, UnendedNext
<1>5. Group(b) \in 0..127
  BY GroupType
<1>6. bitpos(r64) >= 64 <=> n = 10
  BY <1>2, <1>3 DEF bitpos
<1>7. CASE n = 10
  <2>1. r64' = [r64 EXCEPT !.state = "failed"]
    BY <1>6, <1>7 DEF Read64
  <2>2. /\ r64' \in [state : {"reading", "ok", "failed"}, read : Nat, digits : [1..10 -> 0..127]]
        /\ r64'.state = "failed"
    BY <1>1, <2>1
  <2>3. Unended(10)' /\ Len(bytes') > 10
    BY <1>3, <1>4, <1>7
  <2>4. QED
    BY <2>2, <2>3 DEF InStep, Loop64Inv
<1>8. CASE n # 10
  <2> DEFINE d == IF bitpos(r64) = 63 THEN Group(b) % 2 ELSE Group(b)
  <2>1. r64' = [state |-> IF More(b) THEN "reading" ELSE "ok", read |-> n + 1,
                digits |-> [r64.digits EXCEPT ![n + 1] = d]]
    BY <1>2, <1>6, <1>8 DEF Read64
  <2>2. n + 1 \in 1..10 /\ n < 10
    BY <1>2, <1>3, <1>8
  <2>3. d \in 0..127 /\ (d = IF n = 9 THEN Group(b) % 2 ELSE Group(b))
    <3>1. bitpos(r64) = 63 <=> n = 9
      BY <1>2, <1>3 DEF bitpos
    <3>2. Group(b) % 2 \in 0..127
      BY <1>5, DigitMod
    <3>3. QED
      BY <1>5, <3>1, <3>2
  <2> HIDE DEF d
  <2>4. r64' \in [state : {"reading", "ok", "failed"}, read : Nat, digits : [1..10 -> 0..127]]
    <3>1. [r64.digits EXCEPT ![n + 1] = d] \in [1..10 -> 0..127]
      BY <1>1, <2>2, <2>3
    <3>2. n + 1 \in Nat
      BY <1>3
    <3>3. QED
      BY <2>1, <3>1, <3>2
  <2>5. r64'.digits = Low64(bytes', n + 1)
    <3>1. Low64(bytes', n + 1) =
            [Low64(bytes, n) EXCEPT ![n + 1] = IF n = 9 THEN Group(b) % 2 ELSE Group(b)]
      BY <1>0, <1>1, <2>2, NextLow64
    <3>2. QED
      BY <1>2, <2>1, <2>3, <3>1
  <2>6. r64'.read = n + 1 /\ (r64'.state = IF More(b) THEN "reading" ELSE "ok")
    BY <2>1
  <2>7. Loop64Inv'
    BY <1>3, <2>2, <2>5, <2>6 DEF Loop64Inv
  <2>8. (n + 1) - 1 = n
    BY <1>3
  <2>9. InStep(r64)'
    BY <1>2, <1>3, <1>4, <2>6, <2>8 DEF InStep
  <2>10. QED
    BY <2>4, <2>7, <2>9
<1>9. QED
  BY <1>7, <1>8

----------------------------------------------------------------------------
(* A reader that has stopped while the other goes on has given up: had it  *)
(* seen the end of the varint, so had the other.                           *)
LEMMA OthersFailed ==
    ASSUME LoopInv, ~ended, Reading(r32) \/ Reading(r64)
    PROVE  /\ Unended(Len(bytes))
           /\ ~Reading(r32) => r32.state = "failed"
           /\ ~Reading(r64) => r64.state = "failed"
<1>1. /\ bytes \in Seq(Byte)
      /\ r32.state \in {"reading", "ok", "failed"} /\ r64.state \in {"reading", "ok", "failed"}
  BY DEF LoopInv, LoopTypeOK
<1>2. Len(bytes) \in Nat
  BY <1>1, LenProperties
<1>3. Unended(Len(bytes))
  BY DEF LoopInv, InStep, Reading
<1>4. Len(bytes) > 0 => More(bytes[Len(bytes)])
  BY <1>2, <1>3 DEF Unended
<1>5. r32.state # "ok" /\ r64.state # "ok"
  BY <1>4 DEF LoopInv, InStep
<1>6. QED
  BY <1>1, <1>3, <1>5 DEF Reading

LEMMA FailedStays ==
    ASSUME LoopInv, ~ended, NEW b \in Byte, bytes' = Append(bytes, b), ended' = ended
    PROVE  /\ (r32.state = "failed" /\ r32' = r32) => InStep(r32)' /\ Loop32Inv'
           /\ (r64.state = "failed" /\ r64' = r64) => InStep(r64)' /\ Loop64Inv'
<1>0. PICK n : n = Len(bytes)
  OBVIOUS
<1>1. bytes \in Seq(Byte)
  BY DEF LoopInv, LoopTypeOK
<1>2. /\ n \in Nat /\ Len(bytes') = n + 1
      /\ \A i \in 1..n : bytes'[i] = bytes[i]
      /\ \A k \in 0..n : Unended(k) <=> Unended(k)'
      /\ \A i \in 6..n : Padding(i) <=> Padding(i)'
  BY <1>0, <1>1, BytesGrow
<1>3. ASSUME r32.state = "failed", r32' = r32 PROVE InStep(r32)' /\ Loop32Inv'
  <2>1. PICK i \in 5..n : /\ Unended(i - 1)
                          /\ i = 5 => bytes[5] \in 16..127
                          /\ i > 5 => ~Padding(i)
    BY <1>0, <1>3 DEF LoopInv, Loop32Inv
  <2>2. i \in 5..(n + 1) /\ i - 1 \in 0..n /\ i \in 1..n /\ (i > 5 => i \in 6..n)
    BY <1>2
  <2>3. /\ Unended(i - 1)'
        /\ i = 5 => bytes'[5] \in 16..127
        /\ i > 5 => ~Padding(i)'
    BY <1>2, <2>1, <2>2
  <2>4. QED
    BY <1>2, <1>3, <2>2, <2>3 DEF InStep, Loop32Inv
<1>4. ASSUME r64.state = "failed", r64' = r64 PROVE InStep(r64)' /\ Loop64Inv'
  <2>1. n > 10 /\ Unended(10)
    BY <1>0, <1>4 DEF LoopInv, Loop64Inv
  <2>2. n + 1 > 10 /\ Unended(10)'
    BY <1>2, <2>1
  <2>3. QED
    BY <1>2, <1>4, <2>2 DEF InStep, Loop64Inv
<1>5. QED
  BY <1>3, <1>4

----------------------------------------------------------------------------
LEMMA LoopInit == Init => LoopInv
<1> SUFFICES ASSUME Init PROVE LoopInv
  OBVIOUS
<1>1. /\ bytes = <<>> /\ Len(bytes) = 0 /\ bytes \in Seq(Byte) /\ ended = FALSE
      /\ r32 = Idle(5) /\ r64 = Idle(10)
  BY DEF Init
<1>2. \A n \in {5, 10} : Idle(n) \in [state : {"reading", "ok", "failed"}, read : Nat, digits : [1..n -> 0..127]]
  BY DEF Idle
<1>3. LoopTypeOK
  BY <1>1, <1>2 DEF LoopTypeOK
<1>4. \A i \in 1..10 : Digit(bytes, 0, i) = 0
  BY DEF Digit
<1>5. Low32(bytes, 0) = [i \in 1..5 |-> 0] /\ Low64(bytes, 0) = [i \in 1..10 |-> 0]
  BY <1>4 DEF Low32, Low64, Ones
<1>6. Unended(Len(bytes)) /\ Unended(Len(bytes) - 1)
  BY <1>1 DEF Unended
<1>7. InStep(r32) /\ InStep(r64) /\ Loop32Inv /\ Loop64Inv
  BY <1>1, <1>5, <1>6 DEF Idle, InStep, Loop32Inv, Loop64Inv
<1>8. QED
  BY <1>3, <1>7 DEF LoopInv

LEMMA LoopNext == LoopInv /\ [Next]_vars => LoopInv'
<1> SUFFICES ASSUME LoopInv, [Next]_vars PROVE LoopInv'
  OBVIOUS
<1> DEFINE Reader(n) == [state : {"reading", "ok", "failed"}, read : Nat, digits : [1..n -> 0..127]]
<1>1. bytes \in Seq(Byte) /\ ended \in BOOLEAN /\ r32 \in Reader(5) /\ r64 \in Reader(10)
  BY DEF LoopInv, LoopTypeOK
<1>2. CASE NextByte
  <2>1. PICK b \in Bytes[Len(bytes) + 1] :
          /\ bytes' = Append(bytes, b)
          /\ r32' = IF Reading(r32) THEN Read32(r32, b) ELSE r32
          /\ r64' = IF Reading(r64) THEN Read64(r64, b) ELSE r64
    BY <1>2 DEF NextByte
  <2>2. b \in Byte
    <3>1. Len(bytes) \in Nat /\ Len(bytes) < MaxBytes
      BY <1>1, <1>2, LenProperties DEF NextByte
    <3>2. Bytes \in Seq(SUBSET Byte) /\ Len(Bytes) \in Nat
      BY BytesAssumption, LenProperties
    <3>3. Len(bytes) + 1 \in 1..Len(Bytes)
      BY <3>1, <3>2 DEF MaxBytes
    <3>4. Bytes[Len(bytes) + 1] \in SUBSET Byte
      BY <3>2, <3>3, ElementOfSeq
    <3>5. QED
      BY <2>1, <3>4
  <2>3. ~ended /\ ended' = ended /\ (Reading(r32) \/ Reading(r64))
    BY <1>2 DEF NextByte
  <2>4. /\ ~Reading(r32) => r32.state = "failed"
        /\ ~Reading(r64) => r64.state = "failed"
    BY <2>3, OthersFailed
  <2>5. r32' \in Reader(5) /\ InStep(r32)' /\ Loop32Inv'
    <3>1. CASE Reading(r32)
      BY <2>1, <2>2, <2>3, <3>1, Read32Keeps
    <3>2. CASE ~Reading(r32)
      BY <1>1, <2>1, <2>2, <2>3, <2>4, <3>2, FailedStays
    <3>3. QED
      BY <3>1, <3>2
  <2>6. r64' \in Reader(10) /\ InStep(r64)' /\ Loop64Inv'
    <3>1. CASE Reading(r64)
      BY <2>1, <2>2, <2>3, <3>1, Read64Keeps
    <3>2. CASE ~Reading(r64)
      BY <1>1, <2>1, <2>2, <2>3, <2>4, <3>2, FailedStays
    <3>3. QED
      BY <3>1, <3>2
  <2>7. bytes' \in Seq(Byte) /\ ended' \in BOOLEAN
    BY <1>1, <2>1, <2>2, <2>3, OneMore
  <2>8. QED
    BY <2>5, <2>6, <2>7 DEF LoopInv, LoopTypeOK
<1>3. CASE EndOfStream
  <2>1. /\ ~ended /\ ended' = TRUE /\ bytes' = bytes
        /\ r32' = IF Reading(r32) THEN [r32 EXCEPT !.state = "failed"] ELSE r32
        /\ r64' = IF Reading(r64) THEN [r64 EXCEPT !.state = "failed"] ELSE r64
    BY <1>3 DEF EndOfStream
  <2>2. /\ Unended(Len(bytes))
        /\ ~Reading(r32) => r32.state = "failed"
        /\ ~Reading(r64) => r64.state = "failed"
    BY <1>3, <2>1, OthersFailed DEF EndOfStream
  <2>3. /\ r32' \in Reader(5) /\ r32'.state = "failed"
        /\ r64' \in Reader(10) /\ r64'.state = "failed"
    BY <1>1, <2>1, <2>2
  <2>4. Unended(Len(bytes))'
    BY <2>1, <2>2 DEF Unended
  <2>5. InStep(r32)' /\ InStep(r64)' /\ Loop32Inv' /\ Loop64Inv'
    BY <2>1, <2>3, <2>4 DEF InStep, Loop32Inv, Loop64Inv
  <2>6. QED
    BY <1>1, <2>1, <2>3, <2>5 DEF LoopInv, LoopTypeOK
<1>4. CASE UNCHANGED vars
  <2>1. r32' = r32 /\ r64' = r64 /\ bytes' = bytes /\ ended' = ended
    BY <1>4 DEF vars
  <2>2. LoopTypeOK' /\ InStep(r32)' /\ InStep(r64)'
    BY <2>1 DEF LoopInv, LoopTypeOK, InStep, Unended
  <2>3. Loop32Inv'
    BY <2>1 DEF LoopInv, Loop32Inv, Unended, Padding
  <2>4. Loop64Inv'
    BY <2>1 DEF LoopInv, Loop64Inv, Unended
  <2>5. QED
    BY <2>2, <2>3, <2>4 DEF LoopInv
<1>5. QED
  BY <1>2, <1>3, <1>4 DEF Next

(* What both loops know between two rounds (LoopInv), whatever the bytes.  *)
THEOREM LoopInvariant == Spec => []LoopInv
<1>1. Init => LoopInv
  BY LoopInit
<1>2. LoopInv /\ [Next]_vars => LoopInv'
  BY LoopNext
<1>3. QED
  BY <1>1, <1>2, PTL DEF Spec

----------------------------------------------------------------------------
(* What the closed forms say of a varint, digit by digit.                  *)
LEMMA Varint32Digits ==
    ASSUME NEW s \in Seq(Byte)
    PROVE  SubSeq(Cast(Low64(s, VarintLen(s)), 4, FALSE), 1, 5) = Low32(s, VarintLen(s))
<1>1. PICK n : n = VarintLen(s)
  OBVIOUS
<1>2. PICK v : v = Low64(s, n)
  OBVIOUS
<1>3. PICK c : c = Cast(v, 4, FALSE)
  OBVIOUS
<1>4. c = [i \in 1..10 |-> IF i < 5 THEN v[i] ELSE IF i = 5 THEN (v[5] % 16) + 0 ELSE 0]
  BY <1>3 DEF Cast, CutDigit, CutRange
<1>5. ASSUME NEW i \in 1..5 PROVE c[i] = Low32(s, n)[i]
  <2>1. PICK g \in 0..127 : g = Digit(s, n, i)
    <3>1. i \in Nat \ {0}
      OBVIOUS
    <3>2. QED
      BY <1>1, <3>1, DigitType
  <2>2. v[i] = g % (Ones(i) + 1)
    BY <1>2, <2>1 DEF Low64
  <2>3. Ones(i) + 1 = 128
    BY DEF Ones
  <2>4. g % 128 = g /\ (g % 16) + 0 = g % 16
    OBVIOUS
  <2>5. v[i] = g
    BY <2>2, <2>3, <2>4
  <2>6. Low32(s, n)[i] = g % (IF i = 5 THEN 16 ELSE 128)
    BY <2>1 DEF Low32
  <2>7. CASE i = 5
    BY <1>4, <2>4, <2>5, <2>6, <2>7
  <2>8. CASE i # 5
    BY <1>4, <2>4, <2>5, <2>6, <2>8
  <2>9. QED
    BY <2>7, <2>8
<1>6. SubSeq(c, 1, 5) = [i \in 1..5 |-> c[i]]
  <2>1. Len(c) = 10 /\ c \in Seq({c[i] : i \in 1..10})
    BY <1>4
  <2>2. QED
    BY <2>1
<1>7. Low32(s, n) = [i \in 1..5 |-> Low32(s, n)[i]]
  BY DEF Low32
<1>8. QED
  BY <1>1, <1>2, <1>3, <1>5, <1>6, <1>7

(* What is known when both readers have stopped.                           *)
LEMMA StoppedFacts ==
    ASSUME LoopInv, Stopped
    PROVE  /\ bytes \in Seq(Byte) /\ Len(bytes) \in Nat
           /\ \A i \in 1..Len(bytes) : bytes[i] \in Byte
           /\ r32.state \in {"ok", "failed"} /\ r64.state \in {"ok", "failed"}
           /\ (r32.state = "ok" \/ r64.state = "ok") =>
                 /\ Len(bytes) > 0 /\ VarintLen(bytes) = Len(bytes)
                 /\ ~More(bytes[Len(bytes)]) /\ Unended(Len(bytes) - 1)
           /\ r32.state = "ok" => r32.read = Len(bytes)
           /\ r64.state = "ok" => r64.read = Len(bytes)
<1>1. /\ bytes \in Seq(Byte)
      /\ r32.state \in {"reading", "ok", "failed"} /\ r64.state \in {"reading", "ok", "failed"}
  BY DEF LoopInv, LoopTypeOK
<1>2. Len(bytes) \in Nat /\ \A i \in 1..Len(bytes) : bytes[i] \in Byte
  BY <1>1, LenProperties, ElementOfSeq
<1>3. r32.state \in {"ok", "failed"} /\ r64.state \in {"ok", "failed"}
  BY <1>1 DEF Stopped, Reading
<1>4. ASSUME r32.state = "ok" \/ r64.state = "ok"
      PROVE  /\ Len(bytes) > 0 /\ VarintLen(bytes) = Len(bytes)
             /\ ~More(bytes[Len(bytes)]) /\ Unended(Len(bytes) - 1)
  <2>1. Len(bytes) > 0 /\ ~More(bytes[Len(bytes)]) /\ Unended(Len(bytes) - 1)
    BY <1>4 DEF LoopInv, InStep
  <2>2. Len(bytes) \in 1..Len(bytes) /\ \A j \in 1..(Len(bytes) - 1) : More(bytes[j])
    BY <1>2, <2>1 DEF Unended
  <2>3. QED
    BY <1>1, <2>1, <2>2, VarintLenIs
<1>5. /\ r32.state = "ok" => r32.read = Len(bytes)
      /\ r64.state = "ok" => r64.read = Len(bytes)
  BY DEF LoopInv, InStep
<1>6. QED
  BY <1>1, <1>2, <1>3, <1>4, <1>5

LEMMA Unfinished ==
    ASSUME bytes \in Seq(Byte), NEW n \in 0..Len(bytes), Unended(n), VarintLen(bytes) # 0
    PROVE  VarintLen(bytes) \in (n + 1)..Len(bytes)
<1>1. /\ VarintLen(bytes) \in 1..Len(bytes)
      /\ ~More(bytes[VarintLen(bytes)])
  BY VarintLenEnds
<1>2. VarintLen(bytes) \notin 1..n
  BY <1>1 DEF Unended
<1>3. Len(bytes) \in Nat
  BY LenProperties
<1>4. QED
  BY <1>1, <1>2, <1>3

(* The loop for 32 bits is Varint32.                                       *)
LEMMA Loop32Match ==
    ASSUME LoopInv, Stopped
    PROVE  /\ (r32.state = "ok") = Varint32(bytes).ok
           /\ r32.state = "ok" => /\ r32.digits = SubSeq(Varint32(bytes).value, 1, 5)
                                  /\ r32.read = Varint32(bytes).len
<1>1. PICK n : n = Len(bytes)
  OBVIOUS
<1>2. /\ bytes \in Seq(Byte) /\ n \in Nat
      /\ \A i \in 1..n : bytes[i] \in Byte
      /\ r32.state \in {"ok", "failed"}
  BY <1>1, StoppedFacts
<1>3. PICK k : k = VarintLen(bytes)
  OBVIOUS
<1>4. /\ Varint32(bytes).len = k
      /\ Varint32(bytes).value = Cast(Low64(bytes, k), 4, FALSE)
      /\ Varint32(bytes).ok \in BOOLEAN
      /\ Varint32(bytes).ok <=>
            /\ k > 0
            /\ k = 5 => bytes[5] < 16
            /\ \A i \in 6..k : \/ Group(bytes[i]) = 0
                               \/ /\ Digit(bytes, k, 5) % 16 >= 8
                                  /\ bytes[i] = IF i <= 9 THEN 255 ELSE 1
  BY <1>3 DEF Varint32
<1>5. k >= 6 => Digit(bytes, k, 5) = Group(bytes[5])
  <2>1. k \in Nat
    BY <1>1, <1>2, <1>3, VarintLenBound
  <2>2. QED
    BY <2>1 DEF Digit
<1>6. CASE r32.state = "ok"
  <2>1. k = n /\ n > 0 /\ r32.read = n
    BY <1>1, <1>3, <1>6, StoppedFacts
  <2>2. /\ r32.digits = Low32(bytes, n)
        /\ \A i \in 6..n : Padding(i)
        /\ n = 5 => bytes[5] < 16
    BY <1>1, <1>6 DEF LoopInv, Loop32Inv
  <2>3. ASSUME NEW i \in 6..k
        PROVE  \/ Group(bytes[i]) = 0
               \/ Digit(bytes, k, 5) % 16 >= 8 /\ bytes[i] = IF i <= 9 THEN 255 ELSE 1
    <3>1. Padding(i) /\ k >= 6
      BY <1>2, <2>1, <2>2
    <3>2. QED
      BY <1>5, <3>1 DEF Padding
  <2>4. Varint32(bytes).ok
    BY <1>4, <2>1, <2>2, <2>3
  <2>5. SubSeq(Varint32(bytes).value, 1, 5) = Low32(bytes, n)
    BY <1>2, <1>3, <1>4, <2>1, Varint32Digits
  <2>6. QED
    BY <1>4, <1>6, <2>1, <2>2, <2>4, <2>5
<1>7. CASE r32.state = "failed"
  <2>1. SUFFICES ASSUME Varint32(bytes).ok PROVE FALSE
    BY <1>4, <1>7
  <2>2. k > 0
    BY <1>4, <2>1
  <2>3. CASE Unended(n)
    <3>1. n \in 0..n
      BY <1>2
    <3>2. k \in (n + 1)..n
      BY <1>1, <1>2, <1>3, <2>2, <2>3, <3>1, Unfinished
    <3>3. QED
      BY <1>2, <3>2
  <2>4. CASE ~Unended(n)
    <3>1. PICK i \in 5..n : /\ Unended(i - 1)
                            /\ i = 5 => bytes[5] \in 16..127
                            /\ i > 5 => ~Padding(i)
      BY <1>1, <1>7, <2>4 DEF LoopInv, Loop32Inv
    <3>2. i - 1 \in 0..n /\ (i - 1) + 1 = i
      BY <1>2
    <3>3. k \in i..n
      BY <1>1, <1>2, <1>3, <2>2, <3>1, <3>2, Unfinished
    <3>4. CASE i = 5
      <4>1. ~More(bytes[5])
        BY <3>1, <3>4 DEF More
      <4>2. k = 5
        <5>1. 5 \notin 1..(k - 1)
          BY <1>2, <1>3, <2>2, <4>1, VarintLenEnds
        <5>2. QED
          BY <3>3, <3>4, <5>1
      <4>3. QED
        BY <1>4, <2>1, <3>1, <3>4, <4>2
    <3>5. CASE i > 5
      <4>1. i \in 6..k /\ k >= 6
        BY <3>3, <3>5
      <4>2. ~Padding(i)
        BY <3>1, <3>5
      <4>3. QED
        BY <1>4, <1>5, <2>1, <4>1, <4>2 DEF Padding
    <3>6. QED
      BY <3>4, <3>5
  <2>5. QED
    BY <2>3, <2>4
<1>8. QED
  BY <1>2, <1>6, <1>7

(* The loop for 64 bits is Varint64.                                       *)
LEMMA Loop64Match ==
    ASSUME LoopInv, Stopped
    PROVE  /\ (r64.state = "ok") = Varint64(bytes).ok
           /\ r64.state = "ok" => /\ r64.digits = Varint64(bytes).value
                                  /\ r64.read = Varint64(bytes).len
<1>1. PICK n : n = Len(bytes)
  OBVIOUS
<1>2. bytes \in Seq(Byte) /\ n \in Nat /\ r64.state \in {"ok", "failed"}
  BY <1>1, StoppedFacts
<1>3. PICK k : k = VarintLen(bytes)
  OBVIOUS
<1>4. /\ Varint64(bytes).len = k
      /\ Varint64(bytes).value = Low64(bytes, k)
      /\ Varint64(bytes).ok = (k \in 1..10)
  BY <1>3 DEF Varint64
<1>5. CASE r64.state = "ok"
  <2>1. k = n /\ n > 0 /\ r64.read = n
    BY <1>1, <1>3, <1>5, StoppedFacts
  <2>2. r64.digits = Low64(bytes, n) /\ n <= 10
    BY <1>1, <1>5 DEF LoopInv, Loop64Inv
  <2>3. k \in 1..10
    BY <1>2, <2>1, <2>2
  <2>4. QED
    BY <1>4, <1>5, <2>1, <2>2, <2>3
<1>6. CASE r64.state = "failed"
  <2>1. SUFFICES ASSUME k \in 1..10 PROVE FALSE
    BY <1>4, <1>6
  <2>2. (Unended(n) /\ n \in 0..n) \/ (Unended(10) /\ 10 \in 0..n)
    BY <1>1, <1>2, <1>6 DEF LoopInv, Loop64Inv
  <2>3. k \in (n + 1)..n \/ k \in (10 + 1)..n
    BY <1>1, <1>2, <1>3, <2>1, <2>2, Unfinished
  <2>4. QED
    BY <1>2, <2>1, <2>3
<1>7. QED
  BY <1>2, <1>5, <1>6

(* The loops of pb_decode.c:178-270 compute Varint32 and Varint64, which   *)
(* every other module takes for them (LoopsMatch): for every stream, of    *)
(* any length, that may end anywhere.                                      *)
THEOREM LoopsAlwaysMatch == Spec => []LoopsMatch
<1>1. LoopInv => LoopsMatch
  BY Loop32Match, Loop64Match DEF LoopsMatch
<1>2. QED
  BY <1>1, LoopInvariant, PTL

----------------------------------------------------------------------------
(* The greatest of some of the ten digits.                                 *)
LEMMA GreatestOf ==
    ASSUME NEW T \in SUBSET (1..10), T # {}
    PROVE  \E x \in T : \A y \in T : y <= x
<1> DEFINE U == {10 - x : x \in T}
<1>1. U \in SUBSET Nat /\ U # {}
  <2>1. \A x \in 1..10 : 10 - x \in Nat
    OBVIOUS
  <2>2. QED
    BY <2>1
<1>2. PICK u \in U : \A w \in U : u <= w
  <2> HIDE DEF U
  <2> QED BY <1>1, LeastOf
<1>3. PICK x \in T : u = 10 - x
  BY <1>2
<1>4. \A y \in T : 10 - x <= 10 - y
  BY <1>2, <1>3
<1>5. \A y \in T : y <= x
  BY <1>4
<1>6. QED
  BY <1>5

----------------------------------------------------------------------------
(* The digits the readers have put together, byte by byte.                 *)
LEMMA ReadDigits ==
    ASSUME LoopInv, Stopped, NEW n, n = Len(bytes)
    PROVE  /\ r64.state = "ok" =>
                 /\ n \in 1..10 /\ r64.digits \in Uint64 /\ Unended(n - 1)
                 /\ \A i \in 1..9 : r64.digits[i] = IF i <= n THEN Group(bytes[i]) ELSE 0
                 /\ n < 10 => r64.digits[10] = 0
           /\ r32.state = "ok" =>
                 /\ \A i \in 1..4 : r32.digits[i] = IF i <= n THEN Group(bytes[i]) ELSE 0
                 /\ r32.digits[5] = IF 5 <= n THEN Group(bytes[5]) % 16 ELSE 0
<1>1. bytes \in Seq(Byte) /\ n \in Nat /\ \A i \in 1..n : bytes[i] \in Byte
  BY StoppedFacts
<1>2. \A i \in 1..10 : Digit(bytes, n, i) = IF i <= n THEN Group(bytes[i]) ELSE 0
  BY DEF Digit
<1>3. \A i \in 1..n : Group(bytes[i]) \in 0..127
  BY <1>1, GroupType
<1>4. \A g \in 0..127 : g % 128 = g
  OBVIOUS
<1>5. 0 % 16 = 0 /\ 0 % 2 = 0 /\ 0 \in 0..127
  OBVIOUS
<1>6. ASSUME r64.state = "ok"
      PROVE  /\ n \in 1..10 /\ r64.digits \in Uint64 /\ Unended(n - 1)
             /\ \A i \in 1..9 : r64.digits[i] = IF i <= n THEN Group(bytes[i]) ELSE 0
             /\ n < 10 => r64.digits[10] = 0
  <2>1. /\ r64.digits = Low64(bytes, n) /\ n <= 10
        /\ n > 0 /\ VarintLen(bytes) = n /\ Unended(n - 1)
    BY <1>6, StoppedFacts DEF LoopInv, Loop64Inv
  <2>2. r64.digits \in Uint64
    BY <1>1, <2>1, Low64Type
  <2>3. ASSUME NEW i \in 1..9 PROVE r64.digits[i] = IF i <= n THEN Group(bytes[i]) ELSE 0
    <3>1. PICK g \in 0..127 : g = IF i <= n THEN Group(bytes[i]) ELSE 0
      <4>1. CASE i <= n
        <5>1. i \in 1..n
          BY <1>1, <4>1
        <5>2. QED
          BY <1>3, <4>1, <5>1
      <4>2. CASE ~(i <= n)
        BY <1>5, <4>2
      <4>3. QED
        BY <4>1, <4>2
    <3>2. Digit(bytes, n, i) = g
      BY <1>2, <3>1
    <3>3. r64.digits[i] = g % 128
      <4>1. i \in 1..10 /\ Ones(i) + 1 = 128
        BY DEF Ones
      <4>2. QED
        BY <2>1, <3>2, <4>1 DEF Low64
    <3>4. g % 128 = g
      BY <1>4, <3>1
    <3>5. QED
      BY <3>1, <3>3, <3>4
  <2>4. n < 10 => r64.digits[10] = 0
    <3>1. n < 10 => Digit(bytes, n, 10) = 0
      BY <1>1, <1>2
    <3>2. r64.digits[10] = Digit(bytes, n, 10) % 2
      BY <2>1 DEF Low64, Ones
    <3>3. QED
      BY <1>5, <3>1, <3>2
  <2>5. n \in 1..10
    <3>1. n \in Nat /\ n > 0 /\ n <= 10
      BY <1>1, <2>1
    <3>2. \A k \in Nat : k > 0 /\ k <= 10 => k \in 1..10
      OBVIOUS
    <3>3. QED
      BY <3>1, <3>2
  <2>6. QED
    BY <2>1, <2>2, <2>3, <2>4, <2>5
<1>7. ASSUME r32.state = "ok"
      PROVE  /\ \A i \in 1..4 : r32.digits[i] = IF i <= n THEN Group(bytes[i]) ELSE 0
             /\ r32.digits[5] = IF 5 <= n THEN Group(bytes[5]) % 16 ELSE 0
  <2>1. r32.digits = Low32(bytes, n)
    BY <1>7 DEF LoopInv, Loop32Inv
  <2>2. ASSUME NEW i \in 1..4 PROVE r32.digits[i] = IF i <= n THEN Group(bytes[i]) ELSE 0
    <3>1. PICK g \in 0..127 : g = IF i <= n THEN Group(bytes[i]) ELSE 0
      <4>1. CASE i <= n
        <5>1. i \in 1..n
          BY <1>1, <4>1
        <5>2. QED
          BY <1>3, <4>1, <5>1
      <4>2. CASE ~(i <= n)
        BY <1>5, <4>2
      <4>3. QED
        BY <4>1, <4>2
    <3>2. Digit(bytes, n, i) = g
      BY <1>2, <3>1
    <3>3. r32.digits[i] = g % 128
      BY <2>1, <3>2 DEF Low32
    <3>4. g % 128 = g
      BY <1>4, <3>1
    <3>5. QED
      BY <3>1, <3>3, <3>4
  <2>3. r32.digits[5] = IF 5 <= n THEN Group(bytes[5]) % 16 ELSE 0
    <3>1. r32.digits[5] = Digit(bytes, n, 5) % 16
      BY <2>1 DEF Low32
    <3>2. QED
      BY <1>2, <1>5, <3>1
  <2>4. QED
    BY <2>2, <2>3
<1>8. QED
  BY <1>6, <1>7

(* Of a varint of at most five bytes (pb_decode.c:182-248 and 250-270 read *)
(* tags and lengths with the one, values with the other) both readers make *)
(* the same number, and the one for 32 bits refuses it exactly when it has *)
(* more than 32 bits (ShortVarintsAgree).                                  *)
THEOREM ShortVarintsAlwaysAgree == Spec => []ShortVarintsAgree
<1>1. LoopInv => ShortVarintsAgree
  <2> SUFFICES ASSUME LoopInv, Stopped, r64.state = "ok", r64.read <= 5
               PROVE  /\ (r32.state = "ok") = (r64.digits[5] < 16)
                      /\ r32.state = "ok" => \A i \in 1..5 : r32.digits[i] = r64.digits[i]
    BY DEF ShortVarintsAgree
  <2>1. PICK n : n = Len(bytes)
    OBVIOUS
  <2>2. /\ bytes \in Seq(Byte) /\ n \in 1..5
        /\ \A i \in 1..n : bytes[i] \in Byte
        /\ ~More(bytes[n])
        /\ r32.state \in {"ok", "failed"}
    <3>1. n \in Nat /\ n > 0 /\ n <= 5
      BY <2>1, StoppedFacts
    <3>2. QED
      BY <2>1, <3>1, StoppedFacts, SMTT(30)
  <2>3. /\ \A i \in 1..9 : r64.digits[i] = IF i <= n THEN Group(bytes[i]) ELSE 0
        /\ r32.state = "ok" =>
              /\ \A i \in 1..4 : r32.digits[i] = IF i <= n THEN Group(bytes[i]) ELSE 0
              /\ r32.digits[5] = IF 5 <= n THEN Group(bytes[5]) % 16 ELSE 0
    BY <2>1, ReadDigits
  <2>4. n = 5 => Group(bytes[5]) = bytes[5] /\ bytes[5] \in 0..127
    <3>1. \A b \in Byte : ~More(b) => Group(b) = b /\ b \in 0..127
      BY DEF Byte, More, Group
    <3>2. QED
      BY <2>2, <3>1
  <2>5. CASE r32.state = "ok"
    <3>1. n = 5 => bytes[5] < 16
      BY <2>1, <2>5 DEF LoopInv, Loop32Inv
    <3>2. n = 5 => bytes[5] % 16 = bytes[5]
      <4>1. \A b \in 0..127 : b < 16 => b % 16 = b
        OBVIOUS
      <4>2. QED
        BY <2>4, <3>1, <4>1
    <3>3. r64.digits[5] < 16 /\ r32.digits[5] = r64.digits[5]
      <4>1. CASE n = 5
        BY <2>3, <2>4, <2>5, <3>1, <3>2, <4>1
      <4>2. CASE n # 5
        <5>1. ~(5 <= n)
          BY <2>2, <4>2
        <5>2. r64.digits[5] = 0 /\ r32.digits[5] = 0
          BY <2>3, <2>5, <5>1
        <5>3. QED
          BY <5>2
      <4>3. QED
        BY <4>1, <4>2
    <3>4. \A i \in 1..4 : r32.digits[i] = r64.digits[i]
      BY <2>3, <2>5
    <3>5. QED
      BY <2>5, <3>3, <3>4
  <2>6. CASE r32.state = "failed"
    <3>1. ~Unended(n)
      BY <2>2 DEF Unended
    <3>2. n = 5 /\ bytes[5] \in 16..127
      <4>1. PICK i \in 5..n : i = 5 => bytes[5] \in 16..127
        BY <2>1, <2>6, <3>1 DEF LoopInv, Loop32Inv
      <4>2. i = 5 /\ n = 5
        BY <2>2
      <4>3. QED
        BY <4>1, <4>2
    <3>3. ~(r64.digits[5] < 16)
      BY <2>3, <2>4, <3>2
    <3>4. QED
      BY <2>6, <3>3
  <2>7. QED
    BY <2>2, <2>5, <2>6
<1>2. QED
  BY <1>1, LoopInvariant, PTL

(* What the digits of a number of 32 bits are, behind the fourth.          *)
LEMMA Is32Digits ==
    ASSUME NEW v \in Uint64, Is32(v)
    PROVE  \/ v[5] < 16 /\ \A i \in 6..10 : v[i] = 0
           \/ v[5] % 16 >= 8 /\ v[10] = 1 /\ \A i \in 6..9 : v[i] = 127
<1>1. v[5] \in 0..127 /\ v[5] % 16 \in 0..15
  <2>1. v[5] \in 0..127
    BY DEF Uint64
  <2>2. \A d \in 0..127 : d % 16 \in 0..15
    OBVIOUS
  <2>3. QED
    BY <2>1, <2>2
<1>2. CutDigit(4) = 5 /\ CutRange(4) = 16 /\ Ones(5) = 127 /\ Ones(10) = 1 /\ \A i \in 6..9 : Ones(i) = 127
  BY DEF CutDigit, CutRange, Ones
<1>3. PICK c : c = v[5] % 16
  OBVIOUS
<1>4. PICK signed \in BOOLEAN : v = Cast(v, 4, signed)
  BY DEF Is32
<1>5. Cast(v, 4, signed) =
        [i \in 1..10 |->
           IF i < 5 THEN v[i]
           ELSE IF i = 5
             THEN (v[5] % 16) + (IF signed /\ 2 * (v[5] % 16) >= 16 THEN 127 + 1 - 16 ELSE 0)
             ELSE IF signed /\ 2 * (v[5] % 16) >= 16 THEN Ones(i) ELSE 0]
  BY <1>2 DEF Cast
<1>6. CASE signed /\ 2 * (v[5] % 16) >= 16
  <2>1. \A i \in 6..10 : v[i] = Ones(i)
    <3>1. \A i \in 6..10 : i \in 1..10 /\ ~(i < 5) /\ i # 5
      OBVIOUS
    <3>2. QED
      BY <1>4, <1>5, <1>6, <3>1
  <2>2. c >= 8
    <3>1. c \in 0..15 /\ 2 * c >= 16
      BY <1>1, <1>3, <1>6
    <3>2. QED
      BY <3>1
  <2>3. QED
    BY <1>2, <1>3, <2>1, <2>2
<1>7. CASE ~(signed /\ 2 * (v[5] % 16) >= 16)
  <2>1. \A i \in 6..10 : v[i] = 0
    <3>1. \A i \in 6..10 : i \in 1..10 /\ ~(i < 5) /\ i # 5
      OBVIOUS
    <3>2. QED
      BY <1>4, <1>5, <1>7, <3>1
  <2>2. v[5] = c
    <3>1. v[5] = (v[5] % 16) + 0
      <4>1. 5 \in 1..10 /\ ~(5 < 5)
        OBVIOUS
      <4>2. QED
        BY <1>4, <1>5, <1>7, <4>1
    <3>2. QED
      BY <1>1, <1>3, <3>1
  <2>3. v[5] < 16
    <3>1. c \in 0..15
      BY <1>1, <1>3
    <3>2. QED
      BY <2>2, <3>1
  <2>4. QED
    BY <2>1, <2>3
<1>8. QED
  BY <1>6, <1>7

(* What has been read when there are bytes behind the fifth.               *)
LEMMA LongVarint ==
    ASSUME LoopInv, Stopped, r64.state = "ok", r64.read = 10 => bytes[10] <= 1,
           NEW i \in 6..Len(bytes), NEW n, n = Len(bytes), NEW v, v = r64.digits
    PROVE  /\ n \in 6..10 /\ v \in Uint64 /\ Unended(n - 1) /\ r64.read = n
           /\ \A j \in 1..9 : v[j] = IF j <= n THEN Group(bytes[j]) ELSE 0
           /\ n < 10 => v[10] = 0
           /\ i \in 6..n
           /\ \A j \in 1..n : bytes[j] \in Byte
           /\ n = 10 => v[10] = bytes[10] /\ Group(bytes[10]) = bytes[10] /\ bytes[10] \in 0..1
<1>1. n = Len(bytes)
  OBVIOUS
<1>2. v = r64.digits
  OBVIOUS
<1>3. /\ n \in 6..10 /\ v \in Uint64 /\ Unended(n - 1) /\ r64.read = n
      /\ \A j \in 1..9 : v[j] = IF j <= n THEN Group(bytes[j]) ELSE 0
      /\ n < 10 => v[10] = 0
      /\ i \in 6..n
      /\ \A j \in 1..n : bytes[j] \in Byte
  <2>1. /\ n \in 1..10 /\ v \in Uint64 /\ Unended(n - 1)
        /\ \A j \in 1..9 : v[j] = IF j <= n THEN Group(bytes[j]) ELSE 0
        /\ n < 10 => v[10] = 0
    BY <1>1, <1>2, ReadDigits
  <2>2. r64.read = n /\ \A j \in 1..n : bytes[j] \in Byte
    BY <1>1, StoppedFacts
  <2>3. i \in 6..n
    BY <1>1
  <2>4. n \in 6..10
    <3>1. \A m \in 1..10 : \A k \in 6..m : m \in 6..10
      OBVIOUS
    <3>2. n \in 1..10 /\ i \in 6..n
      BY <2>1, <2>3
    <3>3. QED
      BY <3>1, <3>2
  <2>5. QED
    BY <2>1, <2>2, <2>3, <2>4
<1>4. n = 10 => v[10] = bytes[10] /\ Group(bytes[10]) = bytes[10] /\ bytes[10] \in 0..1
  <2> SUFFICES ASSUME n = 10
               PROVE  v[10] = bytes[10] /\ Group(bytes[10]) = bytes[10] /\ bytes[10] \in 0..1
    OBVIOUS
  <2>1. bytes[10] \in 0..1
    <3>1. r64.read = 10 /\ 10 \in 1..n
      BY <1>3
    <3>2. bytes[10] \in Byte /\ bytes[10] <= 1
      BY <1>3, <3>1
    <3>3. \A b \in Byte : b <= 1 => b \in 0..1
      BY DEF Byte
    <3>4. QED
      BY <3>2, <3>3
  <2>2. \A b \in 0..1 : b % 128 = b /\ b % 2 = b
    OBVIOUS
  <2>3. Group(bytes[10]) = bytes[10]
    BY <2>1, <2>2 DEF Group
  <2>4. v = Low64(bytes, 10)
    BY <1>1, <1>2 DEF LoopInv, Loop64Inv
  <2>5. v[10] = Group(bytes[10]) % 2
    BY <2>4 DEF Low64, Digit, Ones
  <2>6. QED
    BY <2>1, <2>2, <2>3, <2>5
<1>5. QED
  BY <1>3, <1>4

(* Behind the fifth byte of a number of 35 bits is nothing but padding.    *)
LEMMA Is35Padded ==
    ASSUME LoopInv, Stopped, r64.state = "ok", Is35(r64.digits),
           r64.read = 10 => bytes[10] <= 1,
           NEW i \in 6..Len(bytes)
    PROVE  Padding(i)
<1>1. PICK n : n = Len(bytes)
  OBVIOUS
<1>2. PICK v : v = r64.digits
  OBVIOUS
<1>3. /\ \A j \in 1..9 : v[j] = IF j <= n THEN Group(bytes[j]) ELSE 0
      /\ n = 10 => v[10] = bytes[10] /\ Group(bytes[10]) = bytes[10]
      /\ n \in 6..10 /\ i \in 6..n
  BY <1>1, <1>2, LongVarint
<1>4. \A j \in 6..10 : v[j] = 0
  BY <1>2 DEF Is35
<1>5. Group(bytes[i]) = 0
  <2>1. CASE i = 10
    BY <1>3, <1>4, <2>1
  <2>2. CASE i # 10
    BY <1>3, <1>4, <2>2
  <2>3. QED
    BY <2>1, <2>2
<1>6. QED
  BY <1>5 DEF Padding

(* A byte behind the fifth that is not padding is not one of a number of   *)
(* 32 bits.                                                                *)
LEMMA Is32Padded ==
    ASSUME LoopInv, Stopped, r64.state = "ok", Is32(r64.digits),
           r64.read = 10 => bytes[10] <= 1,
           NEW i \in 6..Len(bytes)
    PROVE  Padding(i)
<1>1. PICK n : n = Len(bytes)
  OBVIOUS
<1>2. PICK v : v = r64.digits
  OBVIOUS
<1>3. /\ n \in 6..10 /\ v \in Uint64 /\ Unended(n - 1) /\ r64.read = n
      /\ \A j \in 1..9 : v[j] = IF j <= n THEN Group(bytes[j]) ELSE 0
      /\ n < 10 => v[10] = 0
      /\ i \in 6..n
      /\ \A j \in 1..n : bytes[j] \in Byte
  BY <1>1, <1>2, LongVarint
<1>4. n = 10 => v[10] = bytes[10] /\ Group(bytes[10]) = bytes[10] /\ bytes[10] \in 0..1
  BY <1>1, <1>2, LongVarint
<1>5. PICK w : w = Group(bytes[5]) % 16
  OBVIOUS
<1>6. v[5] = Group(bytes[5]) /\ v[5] % 16 = w
  BY <1>3, <1>5
<1>7. \/ v[5] < 16 /\ \A j \in 6..10 : v[j] = 0
      \/ w >= 8 /\ v[10] = 1 /\ \A j \in 6..9 : v[j] = 127
  BY <1>2, <1>3, <1>6, Is32Digits
<1>8. CASE \A j \in 6..10 : v[j] = 0
  BY <1>2, <1>8, Is35Padded DEF Is35
<1>9. CASE w >= 8 /\ v[10] = 1 /\ \A j \in 6..9 : v[j] = 127
  <2>1. n = 10
    BY <1>3, <1>9
  <2>2. CASE i = 10
    <3>1. bytes[10] = 1
      BY <1>4, <1>9, <2>1
    <3>2. ~(10 <= 9)
      OBVIOUS
    <3>3. QED
      BY <1>5, <1>9, <2>2, <3>1, <3>2 DEF Padding
  <2>3. CASE i # 10
    <3>1. i \in 6..9 /\ i \in 1..9 /\ i <= n /\ i \in 1..(n - 1) /\ i \in 1..n
      BY <1>3, <2>1, <2>3
    <3>2. Group(bytes[i]) = 127 /\ More(bytes[i]) /\ bytes[i] \in Byte
      BY <1>3, <1>9, <3>1 DEF Unended
    <3>3. \A b \in Byte : More(b) /\ Group(b) = 127 => b = 255
      BY DEF Byte, More, Group
    <3>4. bytes[i] = 255 /\ i <= 9
      BY <3>1, <3>2, <3>3
    <3>5. QED
      BY <1>5, <1>9, <3>4 DEF Padding
  <2>4. QED
    BY <2>2, <2>3
<1>10. QED
  BY <1>7, <1>8, <1>9

(* The reader for 32 bits accepts every number of 32 bits, and in more     *)
(* than five bytes every one of 35 bits.                                   *)
LEMMA NarrowAccepted ==
    ASSUME LoopInv, Stopped, r64.state = "ok",
           Is32(r64.digits) \/ (Is35(r64.digits) /\ r64.read > 5),
           r64.read = 10 => bytes[10] <= 1
    PROVE  r32.state = "ok"
<1> SUFFICES ASSUME r32.state = "failed" PROVE FALSE
  BY StoppedFacts
<1>1. PICK n : n = Len(bytes)
  OBVIOUS
<1>2. /\ bytes \in Seq(Byte) /\ n \in 1..10 /\ ~More(bytes[n])
      /\ \A i \in 1..n : bytes[i] \in Byte
  <2>1. n \in 1..10
    BY <1>1, ReadDigits
  <2>2. QED
    BY <1>1, <2>1, StoppedFacts
<1>3. ~Unended(n)
  BY <1>2 DEF Unended
<1>4. PICK i \in 5..n : /\ Unended(i - 1)
                        /\ i = 5 => bytes[5] \in 16..127
                        /\ i > 5 => ~Padding(i)
  BY <1>1, <1>3 DEF LoopInv, Loop32Inv
<1>5. i = 5
  <2>1. i \in 6..n => Padding(i)
    BY <1>1, Is32Padded, Is35Padded
  <2>2. i \in 5..n /\ (i > 5 => i \notin 6..n)
    BY <1>4, <2>1
  <2>3. QED
    BY <1>2, <2>2
<1>6. ~More(bytes[5]) /\ Group(bytes[5]) = bytes[5] /\ bytes[5] >= 16
  <2>1. \A b \in 16..127 : ~More(b) /\ Group(b) = b /\ b >= 16
    BY DEF More, Group
  <2>2. QED
    BY <1>4, <1>5, <2>1
<1>7. n = 5
  <2>1. Unended(n - 1)
    BY <1>1, ReadDigits
  <2>2. 5 \notin 1..(n - 1)
    BY <1>6, <2>1 DEF Unended
  <2>3. n >= 5
    BY <1>2, <1>5
  <2>4. QED
    BY <1>2, <2>2, <2>3
<1>8. r64.digits \in Uint64 /\ r64.digits[5] >= 16 /\ r64.digits[10] = 0
  <2>1. /\ \A j \in 1..9 : r64.digits[j] = IF j <= n THEN Group(bytes[j]) ELSE 0
        /\ n < 10 => r64.digits[10] = 0
        /\ r64.digits \in Uint64
    BY <1>1, ReadDigits
  <2>2. r64.digits[5] = Group(bytes[5])
    BY <1>7, <2>1
  <2>3. QED
    BY <1>6, <1>7, <2>1, <2>2
<1>9. \/ r64.digits[5] < 16
      \/ r64.digits[10] = 1
  <2>1. r64.read = 5
    BY <1>1, <1>7, StoppedFacts
  <2>2. Is32(r64.digits)
    BY <2>1
  <2>3. QED
    BY <1>8, <2>2, Is32Digits
<1>10. r64.digits[5] \in 0..127
  BY <1>8 DEF Uint64
<1>11. QED
  BY <1>8, <1>9, <1>10

(* What pb_decode_varint32_eof (pb_decode.c:182-242) makes of a number of  *)
(* 64 bits: it accepts every one of 32 bits, and in more than five bytes   *)
(* every one of 35, returns the low 32 bits of what it accepts, and unless *)
(* bit 31 is set loses bits 32 to 34 at most (Reads32Bits).                *)
THEOREM AlwaysReads32Bits == Spec => []Reads32Bits
<1>1. ASSUME LoopInv, Stopped, r64.state = "ok", r32.state = "ok"
      PROVE  /\ \A i \in 1..4 : r32.digits[i] = r64.digits[i]
             /\ r32.digits[5] = r64.digits[5] % 16
             /\ r32.digits[5] < 8 => \A i \in 6..10 : r64.digits[i] = 0
  <2>1. PICK n : n = Len(bytes)
    OBVIOUS
  <2>2. /\ n \in 1..10
        /\ \A i \in 1..9 : r64.digits[i] = IF i <= n THEN Group(bytes[i]) ELSE 0
        /\ n < 10 => r64.digits[10] = 0
        /\ \A i \in 1..4 : r32.digits[i] = IF i <= n THEN Group(bytes[i]) ELSE 0
        /\ r32.digits[5] = IF 5 <= n THEN Group(bytes[5]) % 16 ELSE 0
    BY <1>1, <2>1, ReadDigits
  <2>3. \A j \in 6..n : Padding(j)
    BY <1>1, <2>1 DEF LoopInv, Loop32Inv
  <2>4. r32.digits[5] = r64.digits[5] % 16
    <3>1. 0 % 16 = 0
      OBVIOUS
    <3>2. r64.digits[5] = IF 5 <= n THEN Group(bytes[5]) ELSE 0
      BY <2>2
    <3>3. QED
      BY <2>2, <3>1, <3>2
  <2>5. ASSUME r32.digits[5] < 8, NEW i \in 6..10 PROVE r64.digits[i] = 0
    <3>1. CASE i <= n
      <4>1. i \in 6..n /\ 5 <= n
        BY <2>2, <3>1
      <4>2. Group(bytes[5]) % 16 < 8
        BY <2>2, <2>5, <4>1
      <4>3. Group(bytes[i]) = 0
        <5>1. PICK w : w = Group(bytes[5]) % 16
          OBVIOUS
        <5>2. w \in 0..15
          <6>1. bytes[5] \in Byte
            BY <1>1, <2>1, <2>2, <4>1, StoppedFacts
          <6>2. \A b \in Byte : (b % 128) % 16 \in 0..15
            BY DEF Byte
          <6>3. QED
            BY <5>1, <6>1, <6>2 DEF Group
        <5>3. ~(w >= 8)
          BY <4>2, <5>1, <5>2
        <5>4. QED
          BY <2>3, <4>1, <5>1, <5>3 DEF Padding
      <4>4. CASE i = 10
        <5>1. n = 10 /\ r64.digits = Low64(bytes, n)
          BY <1>1, <2>1, <2>2, <3>1, <4>4 DEF LoopInv, Loop64Inv
        <5>2. r64.digits[10] = Group(bytes[10]) % 2
          BY <5>1 DEF Low64, Digit, Ones
        <5>3. 0 % 2 = 0
          OBVIOUS
        <5>4. QED
          BY <4>3, <4>4, <5>2, <5>3
      <4>5. CASE i # 10
        <5>1. i \in 1..9
          BY <4>5
        <5>2. QED
          BY <2>2, <3>1, <4>3, <5>1
      <4>6. QED
        BY <4>4, <4>5
    <3>2. CASE ~(i <= n)
      <4>1. CASE i = 10
        <5>1. n < 10
          BY <2>2, <3>2, <4>1
        <5>2. QED
          BY <2>2, <4>1, <5>1
      <4>2. CASE i # 10
        <5>1. i \in 1..9
          BY <4>2
        <5>2. QED
          BY <2>2, <3>2, <5>1
      <4>3. QED
        BY <4>1, <4>2
    <3>3. QED
      BY <3>1, <3>2
  <2>6. \A i \in 1..4 : r32.digits[i] = r64.digits[i]
    BY <2>2
  <2>7. QED
    BY <2>4, <2>5, <2>6
<1>2. LoopInv => Reads32Bits
  BY <1>1, NarrowAccepted DEF Reads32Bits, Is35
<1>3. QED
  BY <1>2, LoopInvariant, PTL

(* pb_encode_varint (pb_encode.c:574) writes back what pb_decode_varint    *)
(* has read: the same bytes, or fewer if these were padded or had bits     *)
(* behind bit 63; and zigzag loses nothing (EncodesBack).                  *)
THEOREM AlwaysEncodesBack == Spec => []EncodesBack
<1>1. LoopInv => EncodesBack
  <2> SUFFICES ASSUME LoopInv, Stopped, r64.state = "ok" PROVE EncodesBack
    BY DEF EncodesBack
  <2>1. PICK n : n = Len(bytes)
    OBVIOUS
  <2>2. PICK v : v = r64.digits
    OBVIOUS
  <2>3. PICK e : e = EncodeVarint(v)
    OBVIOUS
  <2>4. /\ n \in 1..10 /\ v \in Uint64 /\ Unended(n - 1)
        /\ \A i \in 1..9 : v[i] = IF i <= n THEN Group(bytes[i]) ELSE 0
        /\ n < 10 => v[10] = 0
    BY <2>1, <2>2, ReadDigits
  <2>5. /\ bytes \in Seq(Byte) /\ r64.read = n /\ ~More(bytes[n])
        /\ \A i \in 1..n : bytes[i] \in Byte
    BY <2>1, StoppedFacts
  <2>6. Varint64(e).ok /\ Varint64(e).value = v /\ Varint64(e).len = Len(e) /\ Unzigzag(Zigzag(v)) = v
    BY <2>3, <2>4, VarintRoundTrip, ZigzagLossless
  <2>7. PICK m : m = EncodedLen(v)
    OBVIOUS
  <2>8. m \in 1..10 /\ \A j \in 1..10 : j > m => v[j] = 0
    BY <2>7, EncodedLenFacts
  <2>9. e = [i \in 1..m |-> IF i < m THEN v[i] + 128 ELSE v[i]]
    BY <2>3, <2>7 DEF EncodeVarint
  <2>10. Len(e) = m
    <3>1. \A i \in 1..m : e[i] = IF i < m THEN v[i] + 128 ELSE v[i]
      BY <2>9
    <3>2. e \in [1..m -> {e[i] : i \in 1..m}]
      BY <2>9
    <3>3. QED
      BY <2>8, <3>2
  <2>11. \A j \in 1..10 : j > n => v[j] = 0
    <3> TAKE j \in 1..10
    <3>1. CASE j = 10
      BY <2>4, <3>1
    <3>2. CASE j # 10
      <4>1. j \in 1..9
        BY <3>2
      <4>2. QED
        BY <2>4, <4>1
    <3>3. QED
      BY <3>1, <3>2
  <2>12. m = 1 \/ v[m] # 0
    <3>1. CASE \E i \in 1..10 : v[i] # 0
      <4> DEFINE P(i) == v[i] # 0 /\ \A j \in (i + 1)..10 : v[j] = 0
      <4>1. m = CHOOSE i \in 1..10 : P(i)
        BY <2>7, <3>1 DEF EncodedLen
      <4>2. \E i \in 1..10 : P(i)
        <5>1. {i \in 1..10 : v[i] # 0} # {} /\ {i \in 1..10 : v[i] # 0} \in SUBSET (1..10)
          BY <3>1
        <5>2. PICK i \in 1..10 : v[i] # 0 /\ \A j \in 1..10 : v[j] # 0 => j <= i
          BY <5>1, GreatestOf
        <5>3. \A j \in (i + 1)..10 : v[j] = 0
          BY <5>2
        <5>4. QED
          BY <5>2, <5>3
      <4> HIDE DEF P
      <4>3. P(m)
        BY <4>1, <4>2
      <4>4. QED
        BY <4>3 DEF P
    <3>2. CASE ~\E i \in 1..10 : v[i] # 0
      BY <2>7, <3>2 DEF EncodedLen
    <3>3. QED
      BY <3>1, <3>2
  <2>13. m <= n
    BY <2>4, <2>8, <2>11, <2>12
  <2>14. ASSUME n < 10, bytes[n] # 0 \/ n = 1
         PROVE  e = SubSeq(bytes, 1, n)
    <3>1. n \in 1..9
      BY <2>4, <2>14
    <3>2. v[n] = bytes[n]
      <4>1. \A b \in Byte : ~More(b) => Group(b) = b
        BY DEF Byte, More, Group
      <4>2. n \in 1..n
        BY <2>4
      <4>3. QED
        BY <2>4, <2>5, <3>1, <4>1, <4>2
    <3>3. m = n
      <4>1. CASE n = 1
        BY <2>8, <2>13, <4>1
      <4>2. CASE n # 1
        BY <2>4, <2>8, <2>13, <2>14, <3>2, <4>2
      <4>3. QED
        BY <4>1, <4>2
    <3>4. \A i \in 1..(n - 1) : v[i] + 128 = bytes[i]
      <4> TAKE i \in 1..(n - 1)
      <4>1. \A b \in Byte : More(b) => Group(b) + 128 = b
        BY DEF Byte, More, Group
      <4>2. More(bytes[i]) /\ i \in 1..n /\ i \in 1..9
        BY <2>4, <3>1 DEF Unended
      <4>3. v[i] = Group(bytes[i]) /\ bytes[i] \in Byte
        BY <2>4, <2>5, <4>2, SMTT(30)
      <4>4. QED
        BY <4>1, <4>2, <4>3
    <3>5. \A i \in 1..n : e[i] = bytes[i]
      <4> TAKE i \in 1..n
      <4>1. e[i] = IF i < n THEN v[i] + 128 ELSE v[i]
        BY <2>9, <3>3
      <4>2. i \in 1..(n - 1) \/ i = n
        BY <2>4
      <4>3. QED
        BY <3>1, <3>2, <3>4, <4>1, <4>2
    <3>6. SubSeq(bytes, 1, n) = bytes
      BY <2>1, <2>4, <2>5
    <3>7. e = [i \in 1..n |-> e[i]] /\ bytes = [i \in 1..n |-> bytes[i]]
      BY <2>1, <2>5, <2>9, <3>3
    <3>8. QED
      BY <3>5, <3>6, <3>7
  <2>15. QED
    BY <2>2, <2>3, <2>5, <2>6, <2>10, <2>13, <2>14 DEF EncodesBack
<1>2. QED
  BY <1>1, LoopInvariant, PTL

=============================================================================
