------------------------------ MODULE PbVarint ------------------------------
(***************************************************************************)
(* The integers of nanopb: the varint readers of components/nanopb/        *)
(* pb_decode.c and the writer of pb_encode.c as functions of the bytes     *)
(* they read and write.  PbVarintLoop has the readers' loops.              *)
(*                                                                         *)
(* A number is the sequence of the ten base-128 digits of a uint64_t,      *)
(* least significant first; the tenth has one bit.  A negative number is   *)
(* its two's complement.  That keeps 64 bits exact where TLC has 32.       *)
(***************************************************************************)
EXTENDS Naturals, Sequences

Byte == 0..255

Group(b) == b % 128     \* byte & 0x7F
More(b)  == b >= 128    \* byte & 0x80

Ones(i) == IF i = 10 THEN 1 ELSE 127
Uint64  == {v \in [1..10 -> 0..127] : v[10] \in 0..1}
Zero    == [i \in 1..10 |-> 0]

(* The bytes of s up to and with the first one that ends a varint; 0 when  *)
(* the bytes run out first.                                                *)
VarintLen(s) ==
    LET EndsAt(k) == ~More(s[k]) /\ \A j \in 1..(k - 1) : More(s[j])
    IN  IF \E k \in 1..Len(s) : EndsAt(k) THEN CHOOSE k \in 1..Len(s) : EndsAt(k) ELSE 0

Digit(s, n, i) == IF i <= n THEN Group(s[i]) ELSE 0

(* The varint of n bytes at the start of s; what does not fit into 64 bits *)
(* is shifted out.                                                         *)
Low64(s, n) == [i \in 1..10 |-> Digit(s, n, i) % (Ones(i) + 1)]

(* v, cast to an integer of w bytes and back to 64 bits: the digit the cut *)
(* goes through, and what it keeps of that digit.                          *)
CutDigit(w) == CASE w = 1 -> 2 [] w = 2 -> 3 [] w = 4 -> 5 [] w = 8 -> 10
CutRange(w) == CASE w = 1 -> 2 [] w = 2 -> 4 [] w = 4 -> 16 [] w = 8 -> 2

Cast(v, w, signed) ==
    LET t == CutDigit(w)
        r == CutRange(w)
        negative == signed /\ 2 * (v[t] % r) >= r
        cut == (v[t] % r) + (IF negative THEN Ones(t) + 1 - r ELSE 0)
        fill(i) == IF negative THEN Ones(i) ELSE 0
    IN  [i \in 1..10 |-> IF i < t THEN v[i] ELSE IF i = t THEN cut ELSE fill(i)]

(* pb_decode_varint32_eof.  A sixth or later byte must be padding: 0x80 or *)
(* the sign extension of a value whose bit 31 is set.  The fifth byte is   *)
(* only checked when it is the last one.  bitpos does not wrap around: the *)
(* uint_fast8_t of the ESP32 is an unsigned int.                           *)
Varint32(s) ==
    LET n == VarintLen(s)
        negative == Digit(s, n, 5) % 16 >= 8
        signByte(i) == IF i <= 9 THEN 255 ELSE 1
    IN  [ok |-> /\ n > 0
                /\ n = 5 => s[5] < 16
                /\ \A i \in 6..n : Group(s[i]) = 0 \/ (negative /\ s[i] = signByte(i)),
         len |-> n,
         value |-> Cast(Low64(s, n), 4, FALSE)]

(* pb_decode_varint: at most ten bytes.                                    *)
Varint64(s) ==
    LET n == VarintLen(s)
    IN  [ok |-> n \in 1..10, len |-> n, value |-> Low64(s, n)]

(* A uint32_t as a number, where it is small enough to be one for TLC; the *)
(* others are larger than every buffer and every field number.             *)
Huge == 128 * 128 * 128 * 128
Num(v) == IF v[5] > 0 THEN Huge
          ELSE v[1] + 128 * v[2] + 128 * 128 * v[3] + 128 * 128 * 128 * v[4]

(* The number n of TLC.                                                    *)
Digits(n) == [i \in 1..10 |-> CASE i = 1 -> n % 128
                                [] i = 2 -> (n \div 128) % 128
                                [] i = 3 -> (n \div (128 * 128)) % 128
                                [] i = 4 -> n \div (128 * 128 * 128)
                                [] OTHER -> 0]

----------------------------------------------------------------------------
\* Mutant: no continuation bits.
EncodeDigits(v) == SelectSeq(v, LAMBDA d : d # 0)

(* pb_encode_varint: as few bytes as the value needs, but one at least.    *)
EncodedLen(v) ==
    IF \E i \in 1..10 : v[i] # 0
    THEN CHOOSE i \in 1..10 : v[i] # 0 /\ \A j \in (i + 1)..10 : v[j] = 0
    ELSE 1

EncodeVarint(v) ==
    LET n == EncodedLen(v) IN [i \in 1..n |-> IF i < n THEN v[i] + 128 ELSE v[i]]

(* value << 1, value >> 1 and ~value of a uint64_t.                        *)
Shl(v) == [i \in 1..10 |-> (2 * v[i] + (IF i > 1 THEN v[i - 1] \div 64 ELSE 0)) % (Ones(i) + 1)]
Shr(v) == [i \in 1..10 |-> v[i] \div 2 + (IF i < 10 THEN 64 * (v[i + 1] % 2) ELSE 0)]
Not(v) == [i \in 1..10 |-> Ones(i) - v[i]]

(* pb_encode_svarint and pb_decode_svarint.                                *)
Zigzag(v)   == IF v[10] = 1 THEN Not(Shl(v)) ELSE Shl(v)
Unzigzag(v) == IF v[1] % 2 = 1 THEN Not(Shr(v)) ELSE Shr(v)
=============================================================================
