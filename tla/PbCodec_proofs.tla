-------------------------- MODULE PbCodec_proofs ----------------------------
(***************************************************************************)
(* Proofs about the encoder, for every schema, every structure and every   *)
(* size of the buffer.  Whatever callbacks write, it never writes more     *)
(* than there is room for, and its streams lie within each other: the      *)
(* first part, about PbEncode.  As long as they write the same each time,  *)
(* counting and writing agree, and the outcome is that of the encoding in  *)
(* one pass, Wire of PbCodec: the second part.                             *)
(***************************************************************************)
EXTENDS PbCodec, PbDecode_proofs, FiniteSetTheorems

(* What is written are sequences; of what, is of no concern here.          *)
IsSequence(x) == \E S : x \in Seq(S)

LEMMA Concatenated ==
    ASSUME NEW a, NEW b, IsSequence(a), IsSequence(b)
    PROVE  IsSequence(a \o b) /\ Len(a) \in Nat /\ Len(a \o b) = Len(a) + Len(b)
<1>1. PICK S : a \in Seq(S)
  BY DEF IsSequence
<1>2. PICK T : b \in Seq(T)
  BY DEF IsSequence
<1>3. a \in Seq(S \cup T) /\ b \in Seq(S \cup T)
  BY <1>1, <1>2, SeqMonotonic
<1>4. QED
  BY <1>3 DEF IsSequence

LEMMA NothingWritten == IsSequence(<<>>) /\ Len(<<>>) = 0
<1>1. <<>> \in Seq({})
  OBVIOUS
<1>2. QED
  BY <1>1 DEF IsSequence

LEMMA VarintWritten ==
    ASSUME NEW v
    PROVE  IsSequence(EncodeVarint(v))
<1> DEFINE n == EncodedLen(v)
           e(i) == IF i < n THEN v[i] + 128 ELSE v[i]
           S == {e(i) : i \in 1..n}
<1>1. n \in Nat
  BY EncodedLenFacts
<1>2. EncodeVarint(v) = [i \in 1..n |-> e(i)]
  BY DEF EncodeVarint
<1> HIDE DEF n, e
<1>3. [i \in 1..n |-> e(i)] \in [1..n -> S]
  OBVIOUS
<1> HIDE DEF S
<1>4. [i \in 1..n |-> e(i)] \in Seq(S)
  BY <1>1, <1>3
<1>5. QED
  BY <1>2, <1>4 DEF IsSequence

LEMMA ZerosWritten ==
    ASSUME NEW n \in Nat
    PROVE  IsSequence(Zeros(n))
<1>1. Zeros(n) \in Seq({0})
  BY DEF Zeros
<1>2. QED
  BY <1>1 DEF IsSequence

LEMMA TagWritten == ASSUME NEW t, NEW wire PROVE IsSequence(TagBytes(t, wire))
  BY VarintWritten DEF TagBytes

LEMMA LengthWritten == ASSUME NEW n PROVE IsSequence(LengthBytes(n))
  BY VarintWritten DEF LengthBytes

LEMMA StringWritten ==
    ASSUME NEW v \in Seq(Byte), NEW max
    PROVE  IsSequence(Terminated(v, max))
<1> DEFINE N == {n \in 1..Len(v) : n <= max /\ \A j \in 1..n : v[j] # 0}
           k == Cardinality(N)
<1>1. Terminated(v, max) = SubSeq(v, 1, k)
  BY DEF Terminated
<1>2. k \in 0..Len(v)
  <2>1. N \in SUBSET (1..Len(v))
    OBVIOUS
  <2> HIDE DEF N
  <2>2. IsFiniteSet(1..Len(v)) /\ Cardinality(1..Len(v)) = Len(v)
    <3>1. Len(v) \in Nat
      OBVIOUS
    <3>2. IsFiniteSet(1..Len(v)) /\ Cardinality(1..Len(v)) = IF 1 > Len(v) THEN 0 ELSE Len(v) - 1 + 1
      BY <3>1, FS_Interval
    <3>3. QED
      BY <3>1, <3>2
  <2>3. IsFiniteSet(N) /\ Cardinality(N) <= Len(v)
    BY <2>1, <2>2, FS_Subset
  <2>4. QED
    BY <2>3, FS_CardinalityType
<1> HIDE DEF k
<1>3. SubSeq(v, 1, k) \in Seq(Byte)
  BY <1>2
<1>4. QED
  BY <1>1, <1>3 DEF IsSequence

----------------------------------------------------------------------------
(* What is encoded.                                                        *)

(* A path to a value has no zero in it.                                    *)
LEMMA Extended ==
    ASSUME NEW p \in Seq(Nat \ {0}), NEW t \in Nat \ {0}
    PROVE  Append(p, t) \in Seq(Nat \ {0}) /\ Append(p, t) # <<>>
  BY AppendProperties

LEMMA ValueWritten ==
    ASSUME NEW d \in Sources, NEW q \in Seq(Nat \ {0}), q \in DOMAIN d
    PROVE  d[q] \in Seq(Byte)
<1>1. \A i \in 1..Len(q) : q[i] # 0
  OBVIOUS
<1>2. QED
  BY <1>1, SourcesAssumption

(* The field descriptions, by SchemaAssumption.                            *)
LEMMA DescShape ==
    ASSUME NEW m \in DOMAIN Schema, NEW t \in DOMAIN Schema[m], NEW f, f = Schema[m][t]
    PROVE  /\ t \in Nat \ {0}
           /\ f.ltype \in LType
           /\ f.size \in Nat /\ f.max \in Nat
           /\ f.ltype = "submessage" => f.sub \in DOMAIN Schema
<1>1. t \in 1..(Huge \div 8 - 1)
  BY SchemaAssumption
<1>2. Huge \div 8 \in Nat
  BY HugeType
<1>3. t \in Nat \ {0}
  BY <1>1, <1>2
<1>4. QED
  BY <1>3, SchemaAssumption, ZenonT(30)

LEMMA CountsTypedHere ==
    ASSUME NEW d \in Sources, NEW q \in Seq(Nat), NEW f, f.max \in Nat
    PROVE  Items(d, f, q) \in Nat
<1> DEFINE c == Append(q, 0)
<1>1. c \in Seq(Nat) /\ c[Len(c)] = 0
  BY AppendProperties
<1>2. c \in DOMAIN d => d[c] \in Nat
  BY <1>1, SourcesAssumption DEF CountsTyped
<1>3. Count(d, q) \in Nat
  BY <1>2 DEF Count, At
<1>4. QED
  BY <1>3 DEF Items

LEMMA ZeroWritten ==
    ASSUME NEW f, f.ltype \in LType \ {"submessage", "varint", "uvarint", "svarint"}, f.size \in Nat
    PROVE  ZeroOf(f) \in Seq(Byte)
<1>1. ASSUME NEW n \in Nat PROVE Zeros(n) \in Seq(Byte)
  BY DEF Zeros, Byte
<1>2. CASE f.ltype = "fixed32"
  <2>1. ZeroOf(f) = Zeros(4)
    BY <1>2 DEF ZeroOf
  <2>2. QED
    BY <1>1, <2>1
<1>3. CASE f.ltype = "fixed64"
  <2>1. ZeroOf(f) = Zeros(8)
    BY <1>3 DEF ZeroOf
  <2>2. QED
    BY <1>1, <2>1
<1>4. CASE f.ltype = "fixed_length_bytes"
  <2>1. ZeroOf(f) = Zeros(f.size)
    BY <1>4 DEF ZeroOf
  <2>2. QED
    BY <1>1, <2>1
<1>5. CASE f.ltype = "bytes" \/ f.ltype = "string"
  <2>1. ZeroOf(f) = <<>>
    BY <1>5 DEF ZeroOf
  <2>2. QED
    BY <2>1
<1>6. QED
  BY <1>2, <1>3, <1>4, <1>5 DEF LType, Packable

LEMMA BytesWritten ==
    ASSUME NEW v \in Seq(Byte), NEW f, f.ltype \notin {"varint", "uvarint", "svarint"}
    PROVE  IsSequence(Data(f, v))
<1>1. CASE f.ltype = "string"
  <2>1. Data(f, v) = Terminated(v, f.size)
    BY <1>1 DEF Data
  <2>2. QED
    BY <2>1, StringWritten
<1>2. CASE f.ltype # "string"
  <2>1. Data(f, v) = v
    <3>1. f.ltype # "varint" /\ f.ltype # "uvarint" /\ f.ltype # "svarint"
      OBVIOUS
    <3>2. QED
      BY <1>2, <3>1 DEF Data
  <2>2. QED
    BY <2>1 DEF IsSequence
<1>3. QED
  BY <1>1, <1>2

LEMMA DataWritten ==
    ASSUME src \in Sources, NEW q \in Seq(Nat \ {0}),
           NEW f, f.ltype \in LType \ {"submessage"}, f.size \in Nat
    PROVE  IsSequence(Data(f, Datum(src, f, q)))
<1>1. CASE f.ltype \in {"varint", "uvarint", "svarint"}
  BY <1>1, VarintWritten DEF Data
<1>2. CASE f.ltype \notin {"varint", "uvarint", "svarint"}
  <2>1. Datum(src, f, q) \in Seq(Byte)
    <3>1. CASE q \in DOMAIN src
      BY <3>1, ValueWritten DEF Datum, At
    <3>2. CASE q \notin DOMAIN src
      <4>1. ZeroOf(f) \in Seq(Byte)
        BY <1>2, ZeroWritten
      <4>2. QED
        BY <3>2, <4>1 DEF Datum, At
    <3>3. QED
      BY <3>1, <3>2
  <2>2. QED
    BY <1>2, <2>1, BytesWritten
<1>3. QED
  BY <1>1, <1>2

----------------------------------------------------------------------------
(* The stack of calls.                                                     *)

(* Everything above the first k calls gives way to x and what it opened.   *)
Rebuilt(fs, k, x, opened) == SubSeq(fs, 1, k) \o <<x>> \o opened

(* What is where in it when x is the k-th.                                 *)
Rebuilding(r, fs, k, x, opened) ==
    /\ r \in Seq(CallType) /\ Len(r) = k + Len(opened)
    /\ \A i \in 1..(k - 1) : r[i] = fs[i]
    /\ r[k] = x
    /\ Len(opened) = 1 => r[k + 1] = opened[1]

LEMMA RebuiltHere ==
    ASSUME NEW fs \in Seq(CallType), NEW k \in 1..Len(fs), NEW x \in CallType,
           NEW opened \in Seq(CallType)
    PROVE  Rebuilding(Rebuilt(fs, k - 1, x, opened), fs, k, x, opened)
<1> DEFINE r == Rebuilt(fs, k - 1, x, opened)
<1> DEFINE a == SubSeq(fs, 1, k - 1)
           b == a \o <<x>>
<1>1. a \in Seq(CallType) /\ Len(a) = k - 1 /\ \A i \in 1..(k - 1) : a[i] = fs[i]
  OBVIOUS
<1> HIDE DEF a
<1>2. b \in Seq(CallType) /\ Len(b) = k /\ b[k] = x /\ \A i \in 1..(k - 1) : b[i] = a[i]
  <2>1. b = Append(a, x)
    BY <1>1
  <2>2. (k - 1) + 1 = k
    OBVIOUS
  <2>3. QED
    BY <1>1, <2>1, <2>2, AppendProperties
<1> HIDE DEF b
<1>3. r = b \o opened
  BY DEF Rebuilt, a, b
<1> HIDE DEF r
<1>4. /\ b \o opened \in Seq(CallType)
      /\ Len(b \o opened) = k + Len(opened)
      /\ \A i \in 1..k : (b \o opened)[i] = b[i]
      /\ \A j \in 1..Len(opened) : (b \o opened)[k + j] = opened[j]
  BY <1>2
<1>5. r[k] = b[k] /\ \A i \in 1..(k - 1) : r[i] = b[i]
  <2>1. k \in 1..k /\ \A i \in 1..(k - 1) : i \in 1..k
    OBVIOUS
  <2>2. QED
    BY <1>3, <1>4, <2>1
<1>6. Len(opened) = 1 => r[k + 1] = opened[1]
  <2>1. Len(opened) = 1 => 1 \in 1..Len(opened)
    OBVIOUS
  <2>2. QED
    BY <1>3, <1>4, <2>1
<1>7. QED
  <2>1. Rebuilding(r, fs, k, x, opened)
    BY <1>1, <1>2, <1>3, <1>4, <1>5, <1>6 DEF Rebuilding
  <2>2. QED
    BY <2>1 DEF r

LEMMA BottomKept ==
    ASSUME NEW fs \in Seq(CallType), NEW k \in 1..Len(fs), NEW x \in CallType,
           NEW opened \in Seq(CallType), x.sizing = fs[k].sizing
    PROVE  /\ Rebuilt(fs, k - 1, x, opened) \in Seq(CallType)
           /\ Rebuilt(fs, k - 1, x, opened) # <<>>
           /\ Rebuilt(fs, k - 1, x, opened)[1].sizing = fs[1].sizing
<1> DEFINE r == Rebuilt(fs, k - 1, x, opened)
<1>1. /\ r \in Seq(CallType) /\ Len(r) = k + Len(opened)
      /\ \A i \in 1..(k - 1) : r[i] = fs[i]
      /\ r[k] = x
      /\ Len(opened) = 1 => r[k + 1] = opened[1]
  <2>1. Rebuilding(r, fs, k, x, opened)
    BY RebuiltHere
  <2> HIDE DEF r
  <2>2. QED
    BY <2>1 DEF Rebuilding
<1> HIDE DEF r
<1>2. k \in Nat /\ k >= 1 /\ Len(opened) \in Nat
  OBVIOUS
<1>3. r # <<>>
  <2>1. Len(r) # 0
    BY <1>1, <1>2
  <2>2. QED
    BY <2>1, EmptySeq
<1>4. ASSUME k = 1 PROVE r[1].sizing = fs[1].sizing
  <2>1. r[1] = x
    BY <1>1, <1>4
  <2>2. x.sizing = fs[1].sizing
    BY <1>4
  <2>3. QED
    BY <2>1, <2>2
<1>5. ASSUME k # 1 PROVE r[1].sizing = fs[1].sizing
  <2>1. 1 \in 1..(k - 1)
    BY <1>2, <1>5
  <2>2. r[1] = fs[1]
    BY <1>1, <2>1
  <2>3. QED
    BY <2>2
<1>6. QED
  BY <1>1, <1>3, <1>4, <1>5 DEF r

(* The places below the top k of n calls, that becomes l calls.            *)
LEMMA BelowTop ==
    ASSUME NEW k \in Nat, NEW n \in Nat, NEW m \in Nat, NEW l, k <= n, l = k + m, NEW i \in 1..(k - 1)
    PROVE  /\ i \in 1..n /\ i + 1 \in 1..n /\ i < n /\ i < l /\ i # n /\ i # l
           /\ i > 1 => i - 1 \in 1..(k - 1)
  OBVIOUS

(* A call may write on in its stream and open one more call in what is     *)
(* left of that.                                                           *)
LEMMA StreamsRebuilt ==
    ASSUME room \in Nat, NEW fs \in Seq(CallType), NEW n \in Nat, Streams(fs, n),
           NEW k \in 1..Len(fs), NEW x \in CallType, NEW opened \in Seq(CallType), NEW m \in Nat,
           x.sizing = fs[k].sizing, x.from = fs[k].from, x.max = fs[k].max,
           x.sizing => m = n,
           ~x.sizing => x.written <= x.max /\ m = x.from + x.written,
           Len(opened) <= 1,
           Len(opened) = 1 => \/ opened[1].sizing
                              \/ /\ ~x.sizing
                                 /\ opened[1].from = m
                                 /\ opened[1].written = 0
                                 /\ opened[1].max <= x.max - x.written
    PROVE  Streams(Rebuilt(fs, k - 1, x, opened), m)
<1> DEFINE r == Rebuilt(fs, k - 1, x, opened)
<1>1. /\ r \in Seq(CallType) /\ Len(r) = k + Len(opened)
      /\ \A i \in 1..(k - 1) : r[i] = fs[i]
      /\ r[k] = x
      /\ Len(opened) = 1 => r[k + 1] = opened[1]
  <2>1. Rebuilding(r, fs, k, x, opened)
    BY RebuiltHere
  <2> HIDE DEF r
  <2>2. QED
    BY <2>1 DEF Rebuilding
<1> HIDE DEF r
<1> SUFFICES ASSUME NEW i \in 1..Len(r), ~r[i].sizing
             PROVE  /\ r[i].written <= r[i].max
                    /\ r[i].from + r[i].max <= room
                    /\ \A j \in 1..(i - 1) : ~r[j].sizing
                    /\ IF i < Len(r) /\ ~r[i + 1].sizing
                       THEN /\ r[i + 1].from = r[i].from + r[i].written
                            /\ r[i + 1].max <= r[i].max - r[i].written
                       ELSE m = r[i].from + r[i].written
  BY DEF Streams, r
<1>2. Len(fs) \in Nat /\ Len(opened) \in Nat /\ k \in Nat
  OBVIOUS
<1>9. /\ i \in Nat /\ i >= 1 /\ i <= k + Len(opened)
      /\ i > k => i = k + 1 /\ Len(opened) = 1 /\ ~(i < k + Len(opened))
      /\ i = k /\ i < k + Len(opened) => Len(opened) = 1
  <2> DEFINE lo == Len(opened)
  <2>1. i \in 1..(k + lo)
    BY <1>1
  <2>2. lo \in Nat /\ lo <= 1 /\ k \in Nat
    BY <1>2
  <2> HIDE DEF lo
  <2>3. /\ i \in Nat /\ i >= 1 /\ i <= k + lo
        /\ i > k => i = k + 1 /\ lo = 1 /\ ~(i < k + lo)
        /\ i = k /\ i < k + lo => lo = 1
    BY <2>1, <2>2
  <2>4. QED
    BY <2>3 DEF lo
<1>3. \A j \in 1..(k - 1) : ~fs[k].sizing => ~fs[j].sizing
  BY <1>2 DEF Streams
<1>4. ~x.sizing => x.from + x.max <= room
  BY DEF Streams
<1>5. CASE i < k
  <2>1. i \in 1..Len(fs) /\ r[i] = fs[i] /\ i + 1 \in 1..Len(fs) /\ i < Len(fs) /\ i < Len(r)
    <3>1. i \in 1..(k - 1)
      BY <1>2, <1>5, <1>9
    <3>2. k <= Len(fs)
      BY <1>2
    <3>3. i \in 1..Len(fs) /\ i + 1 \in 1..Len(fs) /\ i < Len(fs) /\ i < Len(r)
      BY <1>1, <1>2, <3>1, <3>2, BelowTop
    <3>4. QED
      BY <1>1, <3>1, <3>3
  <2>2. ~fs[i].sizing
    BY <2>1
  <2>3. /\ fs[i].written <= fs[i].max
        /\ fs[i].from + fs[i].max <= room
        /\ \A j \in 1..(i - 1) : ~fs[j].sizing
        /\ IF i < Len(fs) /\ ~fs[i + 1].sizing
           THEN /\ fs[i + 1].from = fs[i].from + fs[i].written
                /\ fs[i + 1].max <= fs[i].max - fs[i].written
           ELSE n = fs[i].from + fs[i].written
    BY <2>1, <2>2 DEF Streams
  <2>4. \A j \in 1..(i - 1) : r[j] = fs[j]
    BY <1>1, <1>2, <1>5
  <2>5. r[i + 1].sizing = fs[i + 1].sizing /\ r[i + 1].from = fs[i + 1].from /\ r[i + 1].max = fs[i + 1].max
    <3>1. CASE i + 1 = k
      BY <1>1, <3>1
    <3>2. CASE i + 1 < k
      BY <1>1, <1>2, <2>1, <3>2
    <3>3. QED
      BY <1>2, <1>5, <3>1, <3>2
  <2>6. r[i + 1].sizing => m = n
    <3>1. ASSUME r[i + 1].sizing, ~x.sizing PROVE FALSE
      <4>1. ~fs[k].sizing /\ \A j \in 1..(k - 1) : ~fs[j].sizing
        BY <1>3, <3>1
      <4>2. i + 1 \in 1..(k - 1) \/ i + 1 = k
        BY <1>2, <1>5
      <4>3. QED
        BY <2>5, <3>1, <4>1, <4>2
    <3>2. QED
      BY <3>1
  <2>7. QED
    BY <2>1, <2>3, <2>4, <2>5, <2>6
<1>6. CASE i = k
  <2>1. r[i] = x /\ ~x.sizing
    BY <1>1, <1>6
  <2>2. \A j \in 1..(i - 1) : ~r[j].sizing
    BY <1>1, <1>3, <1>6, <2>1
  <2>3. i < Len(r) => Len(opened) = 1 /\ r[i + 1] = opened[1]
    <3>1. i < Len(r) => Len(opened) = 1
      <4>1. Len(r) = k + Len(opened)
        BY <1>1
      <4>2. QED
        BY <4>1, <1>9, <1>6
    <3>2. QED
      BY <1>1, <1>6, <3>1
  <2>4. CASE i < Len(r) /\ ~r[i + 1].sizing
    <3>1. opened[1].from = m /\ opened[1].max <= x.max - x.written /\ r[i + 1] = opened[1]
      BY <2>3, <2>4
    <3>2. QED
      BY <1>4, <2>1, <2>2, <2>4, <3>1
  <2>5. CASE ~(i < Len(r) /\ ~r[i + 1].sizing)
    BY <1>4, <2>1, <2>2, <2>5
  <2>6. QED
    BY <2>4, <2>5
<1>7. CASE i > k
  <2>1. i = k + 1 /\ Len(opened) = 1 /\ r[i] = opened[1] /\ ~(i < Len(r))
    <3>1. Len(r) = k + Len(opened)
      BY <1>1
    <3>2. i = k + 1 /\ Len(opened) = 1 /\ ~(i < Len(r))
      BY <3>1, <1>9, <1>7
    <3>3. QED
      BY <1>1, <3>2
  <2>2. /\ ~x.sizing /\ opened[1].from = m /\ opened[1].written = 0
        /\ opened[1].max <= x.max - x.written
    BY <2>1
  <2>3. opened[1] \in CallType
    BY <2>1, 1 \in 1..Len(opened), ElementOfSeq
  <2>4. /\ opened[1].max \in Nat /\ x.max \in Nat /\ x.from \in Nat /\ x.written \in Nat
    BY <2>3 DEF CallType
  <2>5. 0 <= opened[1].max /\ m + opened[1].max <= room /\ m = m + 0
    <3>1. x.from + x.max <= room /\ m = x.from + x.written /\ opened[1].max <= x.max - x.written
      BY <1>4, <2>2
    <3> DEFINE om == opened[1].max
               xm == x.max
               xf == x.from
               xw == x.written
    <3>2. om \in Nat /\ xm \in Nat /\ xf \in Nat /\ xw \in Nat
      BY <2>4
    <3>3. xf + xm <= room /\ m = xf + xw /\ om <= xm - xw
      BY <3>1
    <3> HIDE DEF om, xm, xf, xw
    <3>4. 0 <= om /\ m + om <= room /\ m = m + 0
      BY <3>2, <3>3
    <3>5. QED
      BY <3>4 DEF om
  <2>6. \A j \in 1..(i - 1) : ~r[j].sizing
    BY <1>1, <1>2, <1>3, <2>1, <2>2
  <2>7. QED
    BY <2>1, <2>2, <2>5, <2>6
<1>8. QED
  BY <1>2, <1>5, <1>6, <1>7

----------------------------------------------------------------------------
(* The current call.                                                       *)

(* The invariant, with the buffer holding a sequence.                      *)
EncIInv == EncInv /\ IsSequence(out)

LEMMA CallFacts ==
    ASSUME NEW f \in CallType
    PROVE  /\ f.msg \in DOMAIN Schema /\ f.path \in Seq(Nat \ {0}) /\ f.at \in Nat
           /\ f.item \in Nat \ {0} /\ f.sizing \in BOOLEAN /\ f.from \in Nat
           /\ f.written \in Nat /\ f.max \in Nat /\ f.packed \in Nat
           /\ f.packed # 0 => f.packed \in DOMAIN Schema[f.msg] /\ IsPacked(Schema[f.msg][f.packed])
  BY DEF CallType

LEMMA CurFacts ==
    ASSUME EncIInv, Encoding
    PROVE  /\ Len(frames) \in Nat \ {0} /\ Len(frames) \in 1..Len(frames)
           /\ Cur \in CallType
           /\ Len(out) \in Nat
           /\ ~Cur.sizing => /\ Cur.written <= Cur.max
                             /\ Cur.from + Cur.max <= room
                             /\ Len(out) = Cur.from + Cur.written
<1>1. frames \in Seq(CallType) /\ frames # <<>>
  BY DEF EncIInv, EncInv
<1>2. Len(frames) \in Nat \ {0} /\ Len(frames) \in 1..Len(frames)
  BY <1>1, EmptySeq
<1>3. Cur \in CallType
  BY <1>1, <1>2, ElementOfSeq DEF Cur
<1>4. Len(out) \in Nat
  BY LenProperties DEF EncIInv, IsSequence
<1>5. Streams(frames, Len(out))
  BY DEF EncIInv, EncInv
<1>6. ~(Len(frames) < Len(frames))
  BY <1>2
<1>7. ASSUME ~Cur.sizing
      PROVE  /\ Cur.written <= Cur.max
             /\ Cur.from + Cur.max <= room
             /\ Len(out) = Cur.from + Cur.written
  BY <1>2, <1>5, <1>6, <1>7 DEF Streams, Cur
<1>8. QED
  BY <1>2, <1>3, <1>4, <1>7

(* What a stream takes fits into the buffer.                               *)
LEMMA OutputFits ==
    ASSUME EncIInv, Encoding, NEW bytes, IsSequence(bytes), Fits(Cur, Len(bytes))
    PROVE  /\ IsSequence(Output(Cur, bytes))
           /\ Len(Output(Cur, bytes)) \in Nat
           /\ Len(Output(Cur, bytes)) <= room
           /\ Cur.sizing => Len(Output(Cur, bytes)) = Len(out)
           /\ ~Cur.sizing => Len(Output(Cur, bytes)) = Len(out) + Len(bytes)
<1>1. CASE Cur.sizing
  BY <1>1, CurFacts DEF Output, EncIInv, EncInv
<1>2. CASE ~Cur.sizing
  <2>1. /\ IsSequence(out \o bytes) /\ Len(out) \in Nat
        /\ Len(out \o bytes) = Len(out) + Len(bytes)
    BY Concatenated DEF EncIInv
  <2>2. Len(bytes) \in Nat
    BY Concatenated
  <2>3. Output(Cur, bytes) = out \o bytes
    BY <1>2 DEF Output
  <2>4. Cur.written + Len(bytes) <= Cur.max
    BY <1>2 DEF Fits
  <2>5. Cur.from + Cur.max <= room /\ Len(out) = Cur.from + Cur.written /\ room \in Nat
    BY <1>2, CurFacts DEF EncIInv, EncInv
  <2>6. Cur.from \in Nat /\ Cur.written \in Nat /\ Cur.max \in Nat
    BY CurFacts, CallFacts
  <2>7. Len(out) + Len(bytes) \in Nat /\ Len(out) + Len(bytes) <= room
    BY <2>1, <2>2, <2>4, <2>5, <2>6
  <2>8. QED
    BY <1>2, <2>1, <2>3, <2>7
<1>3. QED
  BY <1>1, <1>2

(* Encoding ends with an error.                                            *)
LEMMA StopKeeps ==
    ASSUME EncIInv, Encoding, NEW bytes, IsSequence(bytes), Fits(Cur, Len(bytes)),
           NEW why, why # "running", Stop(bytes, why)
    PROVE  EncIInv'
<1>1. /\ outcome' = why /\ out' = Output(Cur, bytes)
      /\ src' = src /\ room' = room /\ mode' = mode /\ frames' = frames
  BY DEF Stop
<1>2. IsSequence(out') /\ Len(out') <= room
  BY <1>1, OutputFits
<1>3. ~Encoding'
  BY <1>1 DEF Encoding
<1>4. QED
  BY <1>1, <1>2, <1>3 DEF EncIInv, EncInv

(* The calls above the k-th give way to it and one it opens.               *)
LEMMA RebuiltKeeps ==
    ASSUME EncIInv, Encoding, UNCHANGED <<src, room, mode, outcome>>,
           NEW k \in 1..Len(frames), NEW x \in CallType, NEW opened \in Seq(CallType),
           frames' = Rebuilt(frames, k - 1, x, opened),
           x.sizing = frames[k].sizing, x.from = frames[k].from, x.max = frames[k].max,
           IsSequence(out'), Len(out') \in Nat, Len(out') <= room,
           x.sizing => Len(out') = Len(out),
           ~x.sizing => x.written <= x.max /\ Len(out') = x.from + x.written,
           Len(opened) <= 1,
           Len(opened) = 1 => \/ opened[1].sizing
                              \/ /\ ~x.sizing
                                 /\ opened[1].from = Len(out')
                                 /\ opened[1].written = 0
                                 /\ opened[1].max <= x.max - x.written
    PROVE  EncIInv'
<1>1. /\ src \in Sources /\ room \in Nat /\ frames \in Seq(CallType) /\ Len(out) \in Nat
      /\ mode # "size" => ~frames[1].sizing
      /\ Streams(frames, Len(out))
  BY CurFacts DEF EncIInv, EncInv
<1>2. Streams(frames', Len(out'))
  <2>1. Streams(Rebuilt(frames, k - 1, x, opened), Len(out'))
    BY <1>1, StreamsRebuilt
  <2>2. QED
    BY <2>1
<1>3. (Streams(frames, Len(out)))'
  BY <1>2 DEF Streams
<1>4. frames' \in Seq(CallType) /\ frames' # <<>> /\ frames'[1].sizing = frames[1].sizing
  <2> DEFINE r == Rebuilt(frames, k - 1, x, opened)
  <2>1. r \in Seq(CallType) /\ r # <<>> /\ r[1].sizing = frames[1].sizing
    BY <1>1, BottomKept
  <2> HIDE DEF r
  <2>2. frames' = r
    BY DEF r
  <2>3. QED
    BY <2>1, <2>2
<1>5. QED
  BY <1>1, <1>3, <1>4 DEF EncIInv, EncInv

(* The call x goes on with the stream of the call f.                       *)
SameStream(x, f) ==
    x.sizing = f.sizing /\ x.from = f.from /\ x.max = f.max /\ x.written = f.written

(* The call that is opened, if any, counts, or takes its bytes, of which   *)
(* there are max at most, at from for a stream that has a callback.        *)
MayOpen(opened, sizing, from, max) ==
    /\ opened \in Seq(CallType) /\ Len(opened) <= 1
    /\ Len(opened) = 1 => \/ opened[1].sizing
                          \/ /\ ~sizing
                             /\ opened[1].from = from
                             /\ opened[1].written = 0
                             /\ opened[1].max <= max

(* The current call writes, all or up to where the stream is full.         *)
LEMMA EmitKeeps ==
    ASSUME EncIInv, Encoding,
           NEW a, IsSequence(a), NEW b, IsSequence(b), NEW c, IsSequence(c),
           NEW next \in CallType, SameStream(next, Cur), NEW opened,
           MayOpen(opened, Cur.sizing, Len(out) + (Len(a) + Len(b) + Len(c)),
                   Cur.max - Cur.written - (Len(a) + Len(b) + Len(c))),
           Emit(a, b, c, next, opened)
    PROVE  EncIInv'
<1> DEFINE n == Len(a) + Len(b) + Len(c)
           all == a \o b \o c
           x == [next EXCEPT !.written = @ + n]
<1>7. /\ next.sizing = Cur.sizing /\ next.from = Cur.from
      /\ next.max = Cur.max /\ next.written = Cur.written
  BY DEF SameStream
<1>8. /\ opened \in Seq(CallType) /\ Len(opened) <= 1
      /\ Len(opened) = 1 => \/ opened[1].sizing
                            \/ /\ ~Cur.sizing
                               /\ opened[1].from = Len(out) + n
                               /\ opened[1].written = 0
                               /\ opened[1].max <= Cur.max - Cur.written - n
  BY DEF MayOpen
<1>1. /\ IsSequence(a \o b) /\ Len(a \o b) = Len(a) + Len(b)
      /\ Len(a) \in Nat /\ Len(b) \in Nat /\ Len(c) \in Nat
  BY Concatenated
<1>2. IsSequence(all) /\ Len(all) = n /\ n \in Nat
  BY <1>1, Concatenated
<1>3. IsSequence(<<>>) /\ Len(<<>>) = 0
  BY NothingWritten
<1>4. CASE Fits(Cur, n)
  <2>1. /\ out' = Output(Cur, all)
        /\ frames' = Callers \o <<x>> \o opened
        /\ UNCHANGED <<src, room, mode, outcome>>
    BY <1>4 DEF Emit
  <2>2. /\ IsSequence(out') /\ Len(out') \in Nat /\ Len(out') <= room
        /\ Cur.sizing => Len(out') = Len(out)
        /\ ~Cur.sizing => Len(out') = Len(out) + n
    <3>1. Fits(Cur, Len(all))
      BY <1>2, <1>4
    <3> HIDE DEF all, n
    <3>2. QED
      BY <1>2, <2>1, <3>1, OutputFits
  <2>3. /\ Cur.from \in Nat /\ Cur.written \in Nat /\ Cur.max \in Nat /\ Cur.sizing \in BOOLEAN
        /\ ~Cur.sizing => Cur.written + n <= Cur.max
    BY <1>4, CurFacts, CallFacts DEF Fits
  <2>4. /\ x \in CallType
        /\ x.sizing = Cur.sizing /\ x.from = Cur.from /\ x.max = Cur.max
        /\ x.written = Cur.written + n
    <3> HIDE DEF n
    <3>1. next.written + n \in Nat
      BY <1>2, <1>7, <2>3
    <3>2. QED
      BY <1>7, <3>1 DEF CallType
  <2>5. frames' = Rebuilt(frames, Len(frames) - 1, x, opened)
    BY <2>1 DEF Rebuilt, Callers
  <2>6. Len(frames) \in 1..Len(frames) /\ Cur = frames[Len(frames)]
    BY CurFacts DEF Cur
  <2>7. ~x.sizing => x.written <= x.max /\ Len(out') = x.from + x.written
    <3>1. ~Cur.sizing => Len(out) = Cur.from + Cur.written
      BY CurFacts
    <3> HIDE DEF n, x
    <3>2. (Cur.from + Cur.written) + n = Cur.from + (Cur.written + n)
      BY <1>2, <2>3
    <3>3. ASSUME ~x.sizing PROVE ~Cur.sizing
      BY <2>4, <3>3
    <3>4. QED
      BY <2>2, <2>3, <2>4, <3>1, <3>2, <3>3
  <2>8. Len(opened) = 1 => \/ opened[1].sizing
                           \/ /\ ~x.sizing
                              /\ opened[1].from = Len(out')
                              /\ opened[1].written = 0
                              /\ opened[1].max <= x.max - x.written
    <3>1. Cur.max - (Cur.written + n) = Cur.max - Cur.written - n
      BY <1>2, <2>3
    <3> HIDE DEF n, x
    <3>3. CASE opened[1].sizing
      BY <3>3
    <3>4. CASE ~opened[1].sizing /\ Len(opened) = 1
      <4>1. /\ ~Cur.sizing
            /\ opened[1].from = Len(out) + n
            /\ opened[1].written = 0
            /\ opened[1].max <= Cur.max - Cur.written - n
        BY <1>8, <3>4
      <4>2. Len(out') = Len(out) + n /\ x.max - x.written = Cur.max - Cur.written - n
        BY <2>2, <2>4, <3>1, <4>1
      <4>3. QED
        BY <2>4, <4>1, <4>2
    <3>5. QED
      BY <3>3, <3>4
  <2> HIDE DEF n, x, all
  <2>9. QED
    BY <1>8, <2>1, <2>2, <2>4, <2>5, <2>6, <2>7, <2>8, RebuiltKeeps
<1>5. CASE ~Fits(Cur, n)
  <2> DEFINE some == IF ~Fits(Cur, Len(a)) THEN <<>>
                     ELSE IF ~Fits(Cur, Len(a) + Len(b)) THEN a ELSE a \o b
  <2>1. Stop(some, "stream full")
    BY <1>5 DEF Emit
  <2>2. IsSequence(some)
    BY <1>1, <1>3
  <2>3. Fits(Cur, Len(some))
    <3>1. CASE ~Fits(Cur, Len(a))
      <4>1. Cur.written <= Cur.max /\ Cur.written \in Nat /\ ~Cur.sizing
        BY <3>1, CurFacts, CallFacts DEF Fits
      <4>2. some = <<>>
        BY <3>1
      <4>3. QED
        BY <1>3, <4>1, <4>2 DEF Fits
    <3>2. CASE Fits(Cur, Len(a)) /\ ~Fits(Cur, Len(a) + Len(b))
      <4>1. some = a
        BY <3>2
      <4>2. QED
        BY <3>2, <4>1
    <3>3. CASE Fits(Cur, Len(a)) /\ Fits(Cur, Len(a) + Len(b))
      <4>1. some = a \o b
        BY <3>3
      <4>2. QED
        BY <1>1, <3>3, <4>1
    <3>4. QED
      BY <3>1, <3>2, <3>3
  <2> HIDE DEF some
  <2>4. QED
    BY <2>1, <2>2, <2>3, StopKeeps
<1>6. QED
  BY <1>4, <1>5

----------------------------------------------------------------------------
(* The steps.                                                              *)

LEMMA NextField ==
    ASSUME NEW f \in CallType, NEW t \in Nat
    PROVE  [f EXCEPT !.at = t] \in CallType /\ SameStream([f EXCEPT !.at = t], f)
  BY DEF CallType, SameStream

LEMMA NextItem ==
    ASSUME NEW f \in CallType, NEW i \in Nat \ {0}
    PROVE  [f EXCEPT !.item = i] \in CallType /\ SameStream([f EXCEPT !.item = i], f)
  BY DEF CallType, SameStream

LEMMA WritingCall ==
    ASSUME NEW m \in DOMAIN Schema, NEW p \in Seq(Nat \ {0}),
           NEW from \in Nat, NEW max \in Nat, NEW packed \in Nat,
           packed # 0 => packed \in DOMAIN Schema[m] /\ IsPacked(Schema[m][packed]),
           NEW most, max <= most
    PROVE  MayOpen(<<Call(m, p, FALSE, from, max, packed)>>, FALSE, from, most)
<1> DEFINE c == Call(m, p, FALSE, from, max, packed)
<1>1. c \in CallType /\ c.from = from /\ c.written = 0 /\ c.max = max
  BY DEF Call, CallType
<1> HIDE DEF c
<1>2. <<c>> \in Seq(CallType) /\ Len(<<c>>) = 1 /\ <<c>>[1] = c
  BY <1>1
<1>3. MayOpen(<<c>>, FALSE, from, most)
  BY <1>1, <1>2 DEF MayOpen
<1>4. QED
  BY <1>3 DEF c

LEMMA CountingCall ==
    ASSUME NEW m \in DOMAIN Schema, NEW p \in Seq(Nat \ {0}), NEW packed \in Nat,
           packed # 0 => packed \in DOMAIN Schema[m] /\ IsPacked(Schema[m][packed]),
           NEW parent, NEW start, NEW most
    PROVE  MayOpen(<<Call(m, p, TRUE, 0, 0, packed)>>, parent, start, most)
<1> DEFINE c == Call(m, p, TRUE, 0, 0, packed)
<1>1. c \in CallType /\ c.sizing
  BY DEF Call, CallType
<1> HIDE DEF c
<1>2. <<c>> \in Seq(CallType) /\ Len(<<c>>) = 1 /\ <<c>>[1] = c
  BY <1>1
<1>3. MayOpen(<<c>>, parent, start, most)
  BY <1>1, <1>2 DEF MayOpen
<1>4. QED
  BY <1>3 DEF c

LEMMA NoneOpened == ASSUME NEW parent, NEW start, NEW most PROVE MayOpen(<<>>, parent, start, most)
  BY DEF MayOpen

LEMMA DueFacts ==
    ASSUME EncIInv, NEW t \in Due
    PROVE  /\ Encoding /\ Cur.packed = 0
           /\ Cur \in CallType /\ Cur.msg \in DOMAIN Schema /\ Cur.path \in Seq(Nat \ {0})
           /\ t \in DOMAIN Schema[Cur.msg] /\ t \in Nat \ {0}
           /\ Desc(t) = Schema[Cur.msg][t]
           /\ Present(src, Cur.msg, Cur.path, t)
           /\ Desc(t).ltype \in LType /\ Desc(t).size \in Nat /\ Desc(t).max \in Nat
           /\ Desc(t).ltype = "submessage" => Desc(t).sub \in DOMAIN Schema
           /\ Place(t) \in Seq(Nat \ {0}) /\ Here(t) \in Seq(Nat \ {0})
           /\ CountOf(t) \in Nat
<1>1. Encoding /\ Cur.packed = 0 /\ t \in Todo
  BY DEF Due
<1>2. Cur \in CallType
  BY <1>1, CurFacts
<1>3. Cur.msg \in DOMAIN Schema /\ Cur.path \in Seq(Nat \ {0}) /\ Cur.item \in Nat \ {0}
  BY <1>2, CallFacts
<1>4. t \in DOMAIN Schema[Cur.msg] /\ Present(src, Cur.msg, Cur.path, t)
  BY <1>1 DEF Todo
<1>5. Desc(t) = Schema[Cur.msg][t]
  BY DEF Desc
<1>6. /\ t \in Nat \ {0} /\ Desc(t).ltype \in LType /\ Desc(t).size \in Nat /\ Desc(t).max \in Nat
      /\ Desc(t).ltype = "submessage" => Desc(t).sub \in DOMAIN Schema
  BY <1>3, <1>4, <1>5, DescShape
<1>7. Place(t) \in Seq(Nat \ {0})
  BY <1>3, <1>6, Extended DEF Place
<1>8. Here(t) \in Seq(Nat \ {0})
  <2>1. Append(Place(t), Cur.item) \in Seq(Nat \ {0})
    BY <1>3, <1>7, Extended
  <2>2. QED
    BY <1>7, <2>1 DEF Here
<1>9. CountOf(t) \in Nat
  <2>1. Place(t) \in Seq(Nat) /\ src \in Sources
    BY <1>7 DEF EncIInv, EncInv
  <2>2. Items(src, Desc(t), Place(t)) \in Nat
    BY <1>6, <2>1, CountsTypedHere
  <2>3. QED
    BY <2>2 DEF CountOf
<1>10. QED
  BY <1>1, <1>2, <1>3, <1>4, <1>5, <1>6, <1>7, <1>8, <1>9

LEMMA FollowingFacts ==
    ASSUME EncIInv, NEW t \in Due
    PROVE  Following(t) \in CallType /\ SameStream(Following(t), Cur)
<1>1. Cur \in CallType /\ t \in Nat
  BY DueFacts
<1>2. Cur.item + 1 \in Nat \ {0} /\ 1 \in Nat \ {0}
  BY <1>1, CallFacts
<1>3. CASE Following(t) = [Cur EXCEPT !.item = Cur.item + 1]
  BY <1>1, <1>2, <1>3, NextItem
<1>4. CASE Following(t) = [Cur EXCEPT !.at = t, !.item = 1]
  BY <1>1, <1>2, <1>4 DEF CallType, SameStream
<1>5. QED
  BY <1>3, <1>4 DEF Following

LEMMA ErrorKeeps ==
    ASSUME EncIInv, NEW t \in Due,
           ArrayTooLong(t) \/ BytesExceeded(t) \/ CallbackRefuses(t)
    PROVE  EncIInv'
<1>1. Encoding
  BY DueFacts
<1>2. IsSequence(<<>>) /\ Fits(Cur, Len(<<>>))
  <2>1. Cur \in CallType /\ (~Cur.sizing => Cur.written <= Cur.max)
    BY <1>1, CurFacts
  <2>2. Cur.written \in Nat
    BY <2>1, CallFacts
  <2>3. QED
    BY <2>1, <2>2, NothingWritten DEF Fits
<1>3. CASE ArrayTooLong(t)
  <2>1. Stop(<<>>, "array max size exceeded")
    BY <1>3 DEF ArrayTooLong
  <2>2. QED
    BY <1>1, <1>2, <2>1, StopKeeps
<1>4. CASE CallbackRefuses(t)
  <2>1. Stop(<<>>, "callback error")
    BY <1>4 DEF CallbackRefuses
  <2>2. QED
    BY <1>1, <1>2, <2>1, StopKeeps
<1>5. CASE BytesExceeded(t)
  <2>1. CASE Fits(Cur, Len(TagBytes(t, 2)))
    <3>1. Stop(TagBytes(t, 2), "bytes size exceeded")
      BY <1>5, <2>1 DEF BytesExceeded
    <3>2. IsSequence(TagBytes(t, 2))
      BY TagWritten
    <3>3. QED
      BY <1>1, <2>1, <3>1, <3>2, StopKeeps
  <2>2. CASE ~Fits(Cur, Len(TagBytes(t, 2)))
    <3>1. Stop(<<>>, "stream full")
      BY <1>5, <2>2 DEF BytesExceeded
    <3>2. QED
      BY <1>1, <1>2, <3>1, StopKeeps
  <2>3. QED
    BY <2>1, <2>2
<1>6. QED
  BY <1>3, <1>4, <1>5

LEMMA ScalarKeeps ==
    ASSUME EncIInv, NEW t \in Due, EncodeScalar(t)
    PROVE  EncIInv'
<1>1. Encoding /\ src \in Sources
  BY DueFacts DEF EncIInv, EncInv
<1>2. PICK data \in {Data(Desc(t), Datum(src, Desc(t), Here(t)))} :
          Emit(TagBytes(t, WireOf(Desc(t))),
               IF HasLength(Desc(t)) THEN LengthBytes(Len(data)) ELSE <<>>,
               data, Following(t), <<>>)
  BY DEF EncodeScalar
<1> DEFINE a == TagBytes(t, WireOf(Desc(t)))
           b == IF HasLength(Desc(t)) THEN LengthBytes(Len(data)) ELSE <<>>
<1>3. IsSequence(a) /\ IsSequence(b)
  BY TagWritten, LengthWritten, NothingWritten
<1>4. IsSequence(data)
  <2>1. Desc(t).ltype \in LType \ {"submessage"} /\ Desc(t).size \in Nat
    BY DueFacts DEF EncodeScalar
  <2>2. Here(t) \in Seq(Nat \ {0})
    BY DueFacts
  <2>3. IsSequence(Data(Desc(t), Datum(src, Desc(t), Here(t))))
    BY <1>1, <2>1, <2>2, DataWritten
  <2>4. QED
    BY <2>3
<1>5. Emit(a, b, data, Following(t), <<>>)
  BY <1>2
<1> HIDE DEF a, b
<1>6. QED
  BY <1>1, <1>3, <1>4, <1>5, FollowingFacts, NoneOpened, EmitKeeps

LEMMA SubmessageKeeps ==
    ASSUME EncIInv, NEW t \in Due, EncodeSubmessage(t)
    PROVE  EncIInv'
<1> DEFINE opened == <<Call(Desc(t).sub, Here(t), TRUE, 0, 0, 0)>>
<1>1. Encoding
  BY DueFacts
<1>2. Emit(TagBytes(t, 2), <<>>, <<>>, Following(t), opened)
  BY DEF EncodeSubmessage
<1>3. \A sizing, from, max : MayOpen(opened, sizing, from, max)
  <2>1. Desc(t).sub \in DOMAIN Schema /\ Here(t) \in Seq(Nat \ {0})
    BY DueFacts DEF EncodeSubmessage
  <2>2. QED
    BY <2>1, CountingCall
<1> HIDE DEF opened
<1>4. QED
  BY <1>1, <1>2, <1>3, FollowingFacts, TagWritten, NothingWritten, EmitKeeps

LEMMA PackedKeeps ==
    ASSUME EncIInv, NEW t \in Due, EncodePacked(t)
    PROVE  EncIInv'
<1> DEFINE opened == <<Call(Cur.msg, Cur.path, TRUE, 0, 0, t)>>
           next == [Cur EXCEPT !.at = t]
<1>1. Encoding /\ Cur \in CallType /\ t \in Nat
  BY DueFacts
<1>2. Emit(TagBytes(t, 2), <<>>, <<>>, next, opened)
  BY DEF EncodePacked
<1>3. \A sizing, from, max : MayOpen(opened, sizing, from, max)
  <2>1. /\ Cur.msg \in DOMAIN Schema /\ Cur.path \in Seq(Nat \ {0})
        /\ t \in DOMAIN Schema[Cur.msg] /\ IsPacked(Schema[Cur.msg][t])
    BY DueFacts DEF EncodePacked
  <2>2. QED
    BY <1>1, <2>1, CountingCall
<1>4. next \in CallType /\ SameStream(next, Cur)
  BY <1>1, NextField
<1> HIDE DEF opened, next
<1>5. QED
  BY <1>1, <1>2, <1>3, <1>4, TagWritten, NothingWritten, EmitKeeps

LEMMA PackedFixedKeeps ==
    ASSUME EncIInv, NEW t \in Due, EncodePackedFixed(t)
    PROVE  EncIInv'
<1> DEFINE next == [Cur EXCEPT !.at = t]
           a == TagBytes(t, 2)
<1>1. /\ Encoding /\ Cur \in CallType /\ t \in Nat
      /\ Cur.msg \in DOMAIN Schema /\ Cur.path \in Seq(Nat \ {0})
      /\ t \in DOMAIN Schema[Cur.msg] /\ IsPacked(Schema[Cur.msg][t])
  BY DueFacts DEF EncodePackedFixed
<1>2. PICK size \in {(IF Desc(t).ltype = "fixed32" THEN 4 ELSE 8) * CountOf(t)} :
          IF Cur.sizing
          THEN Emit(a, LengthBytes(size), Zeros(size), next, <<>>)
          ELSE LET n == Len(a) + Len(LengthBytes(size))
               IN  Emit(a, LengthBytes(size), <<>>, next,
                        <<Call(Cur.msg, Cur.path, FALSE, Len(out) + n, Cur.max - Cur.written - n, t)>>)
  BY DEF EncodePackedFixed
<1>3. size \in Nat
  BY DueFacts
<1> DEFINE b == LengthBytes(size)
<1>4. IsSequence(a) /\ IsSequence(b) /\ IsSequence(<<>>) /\ Len(<<>>) = 0
  BY TagWritten, LengthWritten, NothingWritten
<1>5. next \in CallType /\ SameStream(next, Cur)
  BY <1>1, NextField
<1>6. CASE Cur.sizing
  <2>1. Emit(a, b, Zeros(size), next, <<>>)
    BY <1>2, <1>6
  <2>2. IsSequence(Zeros(size))
    BY <1>3, ZerosWritten
  <2> HIDE DEF a, b, next
  <2>3. QED
    BY <1>1, <1>4, <1>5, <2>1, <2>2, NoneOpened, EmitKeeps
<1>7. CASE ~Cur.sizing
  <2> DEFINE n == Len(a) + Len(b)
             opened == <<Call(Cur.msg, Cur.path, FALSE, Len(out) + n, Cur.max - Cur.written - n, t)>>
  <2>1. Emit(a, b, <<>>, next, opened)
    BY <1>2, <1>7
  <2>2. Len(a) \in Nat /\ Len(b) \in Nat /\ Len(out) \in Nat
    BY <1>1, <1>4, Concatenated, CurFacts
  <2>3. Cur.max \in Nat /\ Cur.written \in Nat /\ Cur.sizing \in BOOLEAN
    BY <1>1, CallFacts
  <2> HIDE DEF a, b, next
  <2>4. n \in Nat /\ n = Len(a) + Len(b) + Len(<<>>)
    BY <1>4, <2>2
  <2> HIDE DEF n
  <2>5. CASE Fits(Cur, n)
    <3>1. Cur.max - Cur.written - n \in Nat /\ Len(out) + n \in Nat
      BY <1>7, <2>2, <2>3, <2>4, <2>5 DEF Fits
    <3>2. MayOpen(opened, Cur.sizing, Len(out) + n, Cur.max - Cur.written - n)
      <4> DEFINE from == Len(out) + n
                 max == Cur.max - Cur.written - n
      <4>1. from \in Nat /\ max \in Nat /\ from = from /\ max <= max
        BY <3>1
      <4> HIDE DEF from, max
      <4>2. MayOpen(<<Call(Cur.msg, Cur.path, FALSE, from, max, t)>>, FALSE, from, max)
        BY <1>1, <4>1, WritingCall
      <4>3. Cur.sizing = FALSE
        BY <1>7, <2>3
      <4>4. QED
        BY <4>2, <4>3 DEF from, max
    <3> HIDE DEF opened
    <3>3. MayOpen(opened, Cur.sizing, Len(out) + (Len(a) + Len(b) + Len(<<>>)),
                  Cur.max - Cur.written - (Len(a) + Len(b) + Len(<<>>)))
      BY <2>4, <3>2
    <3>4. QED
      BY <1>1, <1>4, <1>5, <2>1, <3>3, EmitKeeps
  <2>6. CASE ~Fits(Cur, n)
    <3> HIDE DEF opened
    <3>1. Emit(a, b, <<>>, next, <<>>)
      BY <2>1, <2>4, <2>6 DEF Emit
    <3>2. QED
      BY <1>1, <1>4, <1>5, <3>1, NoneOpened, EmitKeeps
  <2>7. QED
    BY <2>5, <2>6
<1>8. QED
  BY <1>6, <1>7

LEMMA ItemKeeps ==
    ASSUME EncIInv, EncodeItem
    PROVE  EncIInv'
<1> DEFINE q == Append(PackedPlace, Cur.item)
           data == Data(PackedDesc, Datum(src, PackedDesc, q))
           next == [Cur EXCEPT !.item = @ + 1]
<1>1. Encoding /\ Cur.packed # 0 /\ Emit(data, <<>>, <<>>, next, <<>>)
  BY DEF EncodeItem
<1>2. Cur \in CallType
  BY <1>1, CurFacts
<1>3. /\ Cur.msg \in DOMAIN Schema /\ Cur.path \in Seq(Nat \ {0}) /\ Cur.item \in Nat \ {0}
      /\ Cur.packed \in DOMAIN Schema[Cur.msg] /\ IsPacked(PackedDesc)
  BY <1>1, <1>2, CallFacts DEF PackedDesc
<1>4. Cur.packed \in Nat \ {0} /\ PackedDesc.ltype \in LType \ {"submessage"} /\ PackedDesc.size \in Nat
  <2>1. Cur.packed \in Nat \ {0} /\ PackedDesc.ltype \in LType /\ PackedDesc.size \in Nat
    BY <1>3, DescShape DEF PackedDesc
  <2>2. PackedDesc.ltype # "submessage"
    BY <1>3 DEF IsPacked, Packable
  <2>3. QED
    BY <2>1, <2>2
<1>5. q \in Seq(Nat \ {0})
  <2>1. PackedPlace \in Seq(Nat \ {0})
    BY <1>3, <1>4, Extended DEF PackedPlace
  <2>2. QED
    BY <1>3, <2>1, Extended
<1> HIDE DEF q
<1>6. IsSequence(data)
  BY <1>4, <1>5, DataWritten DEF EncIInv, EncInv
<1>7. next \in CallType /\ SameStream(next, Cur)
  <2>1. Cur.item + 1 \in Nat \ {0}
    BY <1>3
  <2>2. QED
    BY <1>2, <2>1, NextItem
<1> HIDE DEF data, next
<1>8. QED
  BY <1>1, <1>6, <1>7, NothingWritten, NoneOpened, EmitKeeps

LEMMA CallbackKeeps ==
    ASSUME EncIInv, NEW t \in Due, CallbackWrites(t)
    PROVE  EncIInv'
<1> DEFINE next == [Cur EXCEPT !.at = t]
<1>1. PICK more \in {<<>>, <<0>>} :
          LET data == src[Place(t)] \o more
          IN  Emit(TagBytes(t, 2), LengthBytes(Len(data)), data, next, <<>>)
  BY DEF CallbackWrites
<1> DEFINE data == src[Place(t)] \o more
<1>2. Emit(TagBytes(t, 2), LengthBytes(Len(data)), data, next, <<>>)
  BY <1>1
<1>3. IsSequence(data)
  <2>1. Place(t) \in DOMAIN src
    BY DueFacts DEF CallbackWrites, Present, Place
  <2>2. src[Place(t)] \in Seq(Byte)
    BY <2>1, DueFacts, ValueWritten DEF EncIInv, EncInv
  <2>3. more \in Seq({0})
    <3>1. <<>> \in Seq({0}) /\ <<0>> \in Seq({0})
      OBVIOUS
    <3>2. more = <<>> \/ more = <<0>>
      BY <1>1
    <3>3. QED
      BY <3>1, <3>2
  <2>4. IsSequence(src[Place(t)]) /\ IsSequence(more)
    BY <2>2, <2>3 DEF IsSequence
  <2>5. QED
    BY <2>4, Concatenated
<1>4. Encoding /\ next \in CallType /\ SameStream(next, Cur)
  BY DueFacts, NextField
<1> HIDE DEF data, next
<1>5. QED
  BY <1>2, <1>3, <1>4, TagWritten, LengthWritten, NoneOpened, EmitKeeps

----------------------------------------------------------------------------
(* The end of a call.                                                      *)

LEMMA ParentFacts ==
    ASSUME EncIInv, Encoding, Len(frames) > 1
    PROVE  /\ Len(frames) - 1 \in 1..Len(frames) /\ Parent = frames[Len(frames) - 1]
           /\ Parent \in CallType
           /\ ~Parent.sizing =>
                 /\ Parent.written <= Parent.max
                 /\ Parent.from + Parent.max <= room
                 /\ Cur.sizing => Len(out) = Parent.from + Parent.written
                 /\ ~Cur.sizing => /\ Cur.from = Parent.from + Parent.written
                                   /\ Cur.max <= Parent.max - Parent.written
           /\ Parent.sizing => Cur.sizing
<1> DEFINE k == Len(frames) - 1
<1>1. /\ frames \in Seq(CallType) /\ Len(frames) \in Nat /\ Streams(frames, Len(out))
      /\ Len(frames) \in 1..Len(frames)
  BY CurFacts DEF EncIInv, EncInv
<1>2. k \in 1..Len(frames) /\ k < Len(frames) /\ k + 1 = Len(frames) /\ k \in 1..(Len(frames) - 1)
  BY <1>1
<1>3. Parent = frames[k] /\ Cur = frames[k + 1]
  BY <1>2 DEF Parent, Cur
<1> HIDE DEF k
<1>4. Parent \in CallType
  BY <1>1, <1>2, <1>3, ElementOfSeq
<1>5. ASSUME ~Parent.sizing
      PROVE  /\ Parent.written <= Parent.max
             /\ Parent.from + Parent.max <= room
             /\ IF ~Cur.sizing
                THEN /\ Cur.from = Parent.from + Parent.written
                     /\ Cur.max <= Parent.max - Parent.written
                ELSE Len(out) = Parent.from + Parent.written
  BY <1>1, <1>2, <1>3, <1>5 DEF Streams
<1>6. ASSUME ~Cur.sizing PROVE ~Parent.sizing
  BY <1>1, <1>2, <1>3, <1>6 DEF Streams, Cur
<1>7. Parent.sizing \in BOOLEAN
  BY <1>4, CallFacts
<1>8. QED
  BY <1>2, <1>3, <1>4, <1>5, <1>6, <1>7 DEF k

LEMMA WrittenCall ==
    ASSUME NEW f \in CallType, NEW w \in Nat
    PROVE  /\ [f EXCEPT !.written = w] \in CallType
           /\ [f EXCEPT !.written = w].sizing = f.sizing
           /\ [f EXCEPT !.written = w].from = f.from
           /\ [f EXCEPT !.written = w].max = f.max
           /\ [f EXCEPT !.written = w].written = w
  BY DEF CallType

(* A call ends; the one that made it goes on with w bytes written.         *)
LEMMA ReturnKeeps ==
    ASSUME EncIInv, Encoding, Len(frames) > 1, UNCHANGED <<src, room, mode, outcome>>,
           NEW w \in Nat, NEW opened, Return([Parent EXCEPT !.written = w], opened),
           IsSequence(out'), Len(out') \in Nat, Len(out') <= room,
           Parent.sizing => Len(out') = Len(out),
           ~Parent.sizing => w <= Parent.max /\ Len(out') = Parent.from + w,
           MayOpen(opened, Parent.sizing, Len(out'), Parent.max - w)
    PROVE  EncIInv'
<1> DEFINE x == [Parent EXCEPT !.written = w]
           k == Len(frames) - 1
<1>1. k \in 1..Len(frames) /\ Parent = frames[k] /\ Parent \in CallType
  BY ParentFacts
<1>2. /\ x \in CallType
      /\ x.sizing = Parent.sizing /\ x.from = Parent.from /\ x.max = Parent.max /\ x.written = w
  BY <1>1, WrittenCall
<1>3. Len(frames) - 2 = k - 1
  BY <1>1, CurFacts
<1>4. frames' = Rebuilt(frames, k - 1, x, opened)
  BY <1>3 DEF Return, Rebuilt
<1>5. /\ opened \in Seq(CallType) /\ Len(opened) <= 1
      /\ Len(opened) = 1 => \/ opened[1].sizing
                            \/ /\ ~Parent.sizing
                               /\ opened[1].from = Len(out')
                               /\ opened[1].written = 0
                               /\ opened[1].max <= Parent.max - w
  BY DEF MayOpen
<1> HIDE DEF x, k
<1>6. /\ x.sizing => Len(out') = Len(out)
      /\ ~x.sizing => x.written <= x.max /\ Len(out') = x.from + x.written
      /\ x.sizing = frames[k].sizing /\ x.from = frames[k].from /\ x.max = frames[k].max
  BY <1>1, <1>2
<1>7. Len(opened) = 1 => \/ opened[1].sizing
                         \/ /\ ~x.sizing
                            /\ opened[1].from = Len(out')
                            /\ opened[1].written = 0
                            /\ opened[1].max <= x.max - x.written
  BY <1>2, <1>5
<1>8. QED
  BY <1>1, <1>2, <1>4, <1>5, <1>6, <1>7, RebuiltKeeps

(* An end that is an error, or success: frames may be anything.            *)
LEMMA EndKeeps ==
    ASSUME EncIInv, outcome' # "running", UNCHANGED <<src, room, mode>>,
           frames' \in Seq(CallType), frames' # <<>>, frames'[1].sizing = frames[1].sizing,
           IsSequence(out'), Len(out') <= room
    PROVE  EncIInv'
  BY DEF EncIInv, EncInv, Encoding

LEMMA SecondPassKeeps ==
    ASSUME EncIInv, SecondPassDone
    PROVE  EncIInv'
<1>1. /\ Encoding /\ Len(frames) > 1 /\ ~Cur.sizing
      /\ UNCHANGED <<src, room, mode, out>>
      /\ \/ outcome' = "submsg size changed" /\ UNCHANGED frames
         \/ Return([Parent EXCEPT !.written = @ + Cur.written], <<>>) /\ UNCHANGED outcome
  BY DEF SecondPassDone, CallDone
<1>2. IsSequence(out) /\ Len(out) \in Nat /\ Len(out) <= room
  BY <1>1, CurFacts DEF EncIInv, EncInv
<1>3. CASE outcome' = "submsg size changed" /\ UNCHANGED frames
  <2>1. frames' \in Seq(CallType) /\ frames' # <<>> /\ frames'[1].sizing = frames[1].sizing
    BY <1>3 DEF EncIInv, EncInv
  <2>2. QED
    BY <1>1, <1>2, <1>3, <2>1, EndKeeps
<1>4. CASE Return([Parent EXCEPT !.written = @ + Cur.written], <<>>) /\ UNCHANGED outcome
  <2> DEFINE w == Parent.written + Cur.written
  <2>1. Return([Parent EXCEPT !.written = w], <<>>)
    BY <1>4
  <2>2. /\ ~Parent.sizing
        /\ Cur.from = Parent.from + Parent.written /\ Cur.max <= Parent.max - Parent.written
        /\ Cur.written <= Cur.max /\ Len(out) = Cur.from + Cur.written
    BY <1>1, ParentFacts, CurFacts
  <2>3. /\ Parent.from \in Nat /\ Parent.written \in Nat /\ Parent.max \in Nat
        /\ Cur.from \in Nat /\ Cur.written \in Nat /\ Cur.max \in Nat
    BY <1>1, ParentFacts, CurFacts, CallFacts
  <2>4. w \in Nat /\ w <= Parent.max /\ Len(out) = Parent.from + w
    BY <2>2, <2>3
  <2> HIDE DEF w
  <2>5. QED
    BY <1>1, <1>2, <1>4, <2>1, <2>2, <2>4, NoneOpened, ReturnKeeps
<1>5. QED
  BY <1>1, <1>3, <1>4

LEMMA DoneKeeps ==
    ASSUME EncIInv, EncodeDone
    PROVE  EncIInv'
<1>1. Encoding /\ Len(frames) = 1 /\ UNCHANGED <<src, room, mode>> /\ outcome' # "running"
  BY DEF EncodeDone, CallDone
<1>2. /\ IsSequence(out) /\ Len(out) \in Nat /\ Len(out) <= room
      /\ Cur \in CallType /\ Cur = frames[1] /\ frames \in Seq(CallType) /\ frames # <<>>
  BY <1>1, CurFacts DEF EncIInv, EncInv, Cur
<1>3. CASE UNCHANGED <<out, frames>>
  <2>1. frames' \in Seq(CallType) /\ frames' # <<>> /\ frames'[1].sizing = frames[1].sizing
    BY <1>2, <1>3
  <2>2. IsSequence(out') /\ Len(out') <= room
    BY <1>2, <1>3
  <2>3. QED
    BY <1>1, <2>1, <2>2, EndKeeps
<1>4. CASE /\ mode = "nullterminated" /\ Fits(Cur, 1)
           /\ out' = out \o <<0>> /\ frames' = <<[Cur EXCEPT !.written = @ + 1]>>
  <2> DEFINE x == [Cur EXCEPT !.written = Cur.written + 1]
  <2>1. IsSequence(<<0>>) /\ Len(<<0>>) = 1
    <3>1. <<0>> \in Seq({0})
      OBVIOUS
    <3>2. QED
      BY <3>1 DEF IsSequence
  <2>2. ~Cur.sizing
    BY <1>2, <1>4 DEF EncIInv, EncInv
  <2>3. out' = Output(Cur, <<0>>) /\ Fits(Cur, Len(<<0>>))
    BY <1>4, <2>1, <2>2 DEF Output
  <2>4. IsSequence(out') /\ Len(out') <= room
    BY <1>1, <2>1, <2>3, OutputFits
  <2>5. x \in CallType /\ x.sizing = Cur.sizing
    <3>1. Cur.written + 1 \in Nat
      BY <1>2, CallFacts
    <3>2. QED
      BY <1>2, <3>1, WrittenCall
  <2>6. frames' = <<x>>
    BY <1>4
  <2> HIDE DEF x
  <2>7. frames' \in Seq(CallType) /\ frames' # <<>> /\ frames'[1].sizing = frames[1].sizing
    BY <1>2, <2>5, <2>6
  <2>8. QED
    BY <1>1, <2>4, <2>7, EndKeeps
<1>5. QED
  BY <1>3, <1>4 DEF EncodeDone

LEMMA WrittenTwice ==
    ASSUME NEW f \in CallType, NEW v, NEW w
    PROVE  [[f EXCEPT !.written = v] EXCEPT !.written = w] = [f EXCEPT !.written = w]
  BY DEF CallType

LEMMA SizeKnownKeeps ==
    ASSUME EncIInv, SizeKnown
    PROVE  EncIInv'
<1> DEFINE len  == LengthBytes(Cur.written)
           v    == Parent.written + Len(len)
           next == [Parent EXCEPT !.written = v]
           max  == IF Cur.packed # 0 THEN next.max - next.written ELSE Cur.written
           again == <<Call(Cur.msg, Cur.path, FALSE, Len(out) + Len(len), max, Cur.packed)>>
<1>1. Encoding /\ Len(frames) > 1 /\ Cur.sizing /\ UNCHANGED <<src, room, mode>>
  BY DEF SizeKnown, CallDone
<1>2. /\ IsSequence(out) /\ Len(out) \in Nat /\ Len(out) <= room /\ room \in Nat
      /\ Cur \in CallType /\ Parent \in CallType
      /\ frames \in Seq(CallType) /\ frames # <<>>
  BY <1>1, CurFacts, ParentFacts DEF EncIInv, EncInv
<1>3. IsSequence(len) /\ Len(len) \in Nat
  BY LengthWritten, Concatenated
<1>4. /\ Cur.written \in Nat /\ Parent.written \in Nat /\ Parent.from \in Nat /\ Parent.max \in Nat
      /\ Parent.sizing \in BOOLEAN
  BY <1>2, CallFacts
<1>5. /\ next \in CallType /\ next.written = v /\ next.max = Parent.max
      /\ next.sizing = Parent.sizing /\ v \in Nat
  <2>1. v \in Nat
    BY <1>3, <1>4
  <2> HIDE DEF v
  <2>2. QED
    BY <1>2, <2>1, WrittenCall
<1>6. CASE Parent.sizing
  <2> DEFINE w == v + Cur.written
  <2>1. Return([next EXCEPT !.written = next.written + Cur.written], <<>>) /\ UNCHANGED <<out, outcome>>
    BY <1>6 DEF SizeKnown
  <2>2. w \in Nat
    BY <1>4, <1>5
  <2>3. [next EXCEPT !.written = next.written + Cur.written] = [Parent EXCEPT !.written = w]
    <3> HIDE DEF v
    <3>1. next.written + Cur.written = w
      BY <1>5
    <3> HIDE DEF w
    <3>2. [next EXCEPT !.written = w] = [Parent EXCEPT !.written = w]
      BY <1>2, WrittenTwice
    <3>3. QED
      BY <3>1, <3>2
  <2> HIDE DEF w, next
  <2>4. Return([Parent EXCEPT !.written = w], <<>>)
    BY <2>1, <2>3
  <2>5. QED
    BY <1>1, <1>2, <1>6, <2>1, <2>2, <2>4, NoneOpened, ReturnKeeps
<1>7. CASE ~Parent.sizing
  <2>1. /\ Len(out) = Parent.from + Parent.written
        /\ Parent.from + Parent.max <= room
    BY <1>1, <1>7, ParentFacts
  <2>2. IsSequence(out \o len) /\ Len(out \o len) = Len(out) + Len(len)
    BY <1>2, <1>3, Concatenated
  <2>3. \/ outcome' = "stream full" /\ UNCHANGED <<out, frames>>
        \/ /\ outcome' = "stream full" /\ UNCHANGED frames
           /\ Fits(Parent, Len(len)) /\ out' = out \o len
        \/ /\ Fits(Parent, Len(len)) /\ (Cur.packed = 0 => Fits(next, Cur.written))
           /\ out' = out \o len /\ Return(next, again) /\ UNCHANGED outcome
    BY <1>7 DEF SizeKnown
  <2>4. ASSUME Fits(Parent, Len(len))
        PROVE  v <= Parent.max /\ Len(out) + Len(len) = Parent.from + v /\ Len(out) + Len(len) <= room
    <3>1. v <= Parent.max
      BY <1>7, <2>4 DEF Fits
    <3>2. QED
      BY <1>2, <1>3, <1>4, <2>1, <3>1
  <2>5. frames[1].sizing = frames[1].sizing
    OBVIOUS
  <2>6. CASE outcome' = "stream full" /\ UNCHANGED <<out, frames>>
    BY <1>1, <1>2, <2>6, EndKeeps
  <2>7. CASE /\ outcome' = "stream full" /\ UNCHANGED frames
             /\ Fits(Parent, Len(len)) /\ out' = out \o len
    <3>1. IsSequence(out') /\ Len(out') <= room
      BY <2>2, <2>4, <2>7
    <3>2. QED
      BY <1>1, <1>2, <2>7, <3>1, EndKeeps
  <2>8. CASE /\ Fits(Parent, Len(len)) /\ (Cur.packed = 0 => Fits(next, Cur.written))
             /\ out' = out \o len /\ Return(next, again) /\ UNCHANGED outcome
    <3>1. /\ IsSequence(out') /\ Len(out') = Len(out) + Len(len)
          /\ Len(out') \in Nat /\ Len(out') <= room
          /\ v <= Parent.max /\ Len(out') = Parent.from + v
      BY <1>2, <1>3, <2>2, <2>4, <2>8
    <3>2. max \in Nat /\ max <= Parent.max - v
      <4>1. CASE Cur.packed # 0
        <5>1. max = Parent.max - v
          BY <1>5, <4>1
        <5> HIDE DEF max, v
        <5>2. QED
          BY <1>4, <1>5, <3>1, <5>1
      <4>2. CASE Cur.packed = 0
        <5>1. max = Cur.written /\ v + Cur.written <= Parent.max
          BY <1>5, <1>7, <2>8, <4>2 DEF Fits
        <5> HIDE DEF max, v
        <5>2. QED
          BY <1>4, <1>5, <5>1
      <4>3. QED
        BY <4>1, <4>2
    <3>3. MayOpen(again, Parent.sizing, Len(out'), Parent.max - v)
      <4> HIDE DEF max, v
      <4>1. /\ Cur.msg \in DOMAIN Schema /\ Cur.path \in Seq(Nat \ {0}) /\ Cur.packed \in Nat
            /\ Cur.packed # 0 => /\ Cur.packed \in DOMAIN Schema[Cur.msg]
                                 /\ IsPacked(Schema[Cur.msg][Cur.packed])
        BY <1>2, CallFacts
      <4>2. Len(out) + Len(len) \in Nat /\ Len(out) + Len(len) = Len(out')
        BY <3>1
      <4> DEFINE from  == Len(out) + Len(len)
                 start == Len(out')
                 most  == Parent.max - v
      <4>3. from \in Nat /\ from = start /\ max \in Nat /\ max <= most
        BY <3>2, <4>2
      <4> HIDE DEF from, start, most
      <4>4. MayOpen(<<Call(Cur.msg, Cur.path, FALSE, from, max, Cur.packed)>>, FALSE, from, most)
        BY <4>1, <4>3, WritingCall
      <4>5. Parent.sizing = FALSE
        BY <1>4, <1>7
      <4>6. QED
        BY <4>3, <4>4, <4>5 DEF from, start, most
    <3> HIDE DEF again, v
    <3>4. QED
      BY <1>1, <1>2, <1>5, <1>7, <2>8, <3>1, <3>3, ReturnKeeps
  <2>9. QED
    BY <2>3, <2>6, <2>7, <2>8
<1>8. QED
  BY <1>4, <1>6, <1>7

----------------------------------------------------------------------------
(* Every step.                                                             *)

LEMMA EncInitHolds == EncInit => EncIInv
<1> SUFFICES ASSUME EncInit PROVE EncIInv
  OBVIOUS
<1>1. /\ src \in Sources /\ room \in Nat /\ mode \in Modes
      /\ out = <<>> /\ outcome = "running"
  BY EncodeAssumption DEF EncInit
<1>2. IsSequence(out) /\ Len(out) = 0
  BY <1>1, NothingWritten
<1>3. Root \in DOMAIN Schema /\ <<>> \in Seq(Nat \ {0}) /\ Huge \in Nat
  BY SchemaAssumption, HugeType
<1>4. CASE mode = "delimited"
  <2> DEFINE bottom == [Call(Root, <<>>, FALSE, 0, room, 0) EXCEPT !.at = Huge]
             top    == Call(Root, <<>>, TRUE, 0, 0, 0)
  <2>1. frames = <<bottom, top>>
    BY <1>4 DEF EncInit
  <2>2. /\ bottom \in CallType /\ ~bottom.sizing
        /\ bottom.from = 0 /\ bottom.written = 0 /\ bottom.max = room
        /\ top \in CallType /\ top.sizing
    <3> DEFINE c == Call(Root, <<>>, FALSE, 0, room, 0)
    <3>1. /\ c \in CallType /\ ~c.sizing /\ c.from = 0 /\ c.written = 0 /\ c.max = room
          /\ top \in CallType /\ top.sizing
      BY <1>1, <1>3 DEF Call, CallType
    <3> HIDE DEF c
    <3>2. [c EXCEPT !.at = Huge] \in CallType /\ SameStream([c EXCEPT !.at = Huge], c)
      BY <1>3, <3>1, NextField
    <3>3. bottom = [c EXCEPT !.at = Huge]
      BY DEF c
    <3> HIDE DEF bottom, top
    <3>4. QED
      BY <3>1, <3>2, <3>3 DEF SameStream
  <2> HIDE DEF bottom, top
  <2>3. /\ frames \in Seq(CallType) /\ frames # <<>> /\ Len(frames) = 2
        /\ frames[1] = bottom /\ frames[2] = top
    BY <2>1, <2>2
  <2>4. Streams(frames, 0)
    <3> SUFFICES ASSUME NEW i \in 1..Len(frames), ~frames[i].sizing
                 PROVE  /\ frames[i].written <= frames[i].max
                        /\ frames[i].from + frames[i].max <= room
                        /\ \A j \in 1..(i - 1) : ~frames[j].sizing
                        /\ IF i < Len(frames) /\ ~frames[i + 1].sizing
                           THEN /\ frames[i + 1].from = frames[i].from + frames[i].written
                                /\ frames[i + 1].max <= frames[i].max - frames[i].written
                           ELSE 0 = frames[i].from + frames[i].written
      BY DEF Streams
    <3>1. i = 1
      BY <2>2, <2>3
    <3>2. frames[i + 1].sizing
      BY <2>2, <2>3, <3>1
    <3>3. 1..(i - 1) = {}
      BY <3>1
    <3>4. 0 <= room /\ 0 + room <= room /\ 0 = 0 + 0
      BY <1>1
    <3>5. QED
      BY <2>2, <2>3, <3>1, <3>2, <3>3, <3>4
  <2>5. QED
    BY <1>1, <1>2, <2>2, <2>3, <2>4 DEF EncIInv, EncInv
<1>5. CASE mode # "delimited"
  <2> DEFINE top == Call(Root, <<>>, mode = "size", 0, room, 0)
  <2>1. frames = <<top>>
    BY <1>5 DEF EncInit
  <2>2. /\ top \in CallType /\ top.sizing = (mode = "size")
        /\ top.from = 0 /\ top.written = 0 /\ top.max = room
    BY <1>1, <1>3 DEF Call, CallType
  <2> HIDE DEF top
  <2>3. /\ frames \in Seq(CallType) /\ frames # <<>> /\ Len(frames) = 1 /\ frames[1] = top
    BY <2>1, <2>2
  <2>4. Streams(frames, 0)
    <3> SUFFICES ASSUME NEW i \in 1..Len(frames), ~frames[i].sizing
                 PROVE  /\ frames[i].written <= frames[i].max
                        /\ frames[i].from + frames[i].max <= room
                        /\ \A j \in 1..(i - 1) : ~frames[j].sizing
                        /\ IF i < Len(frames) /\ ~frames[i + 1].sizing
                           THEN /\ frames[i + 1].from = frames[i].from + frames[i].written
                                /\ frames[i + 1].max <= frames[i].max - frames[i].written
                           ELSE 0 = frames[i].from + frames[i].written
      BY DEF Streams
    <3>1. i = 1 /\ ~(i < Len(frames)) /\ 1..(i - 1) = {}
      BY <2>3
    <3>2. 0 <= room /\ 0 + room <= room /\ 0 = 0 + 0
      BY <1>1
    <3>3. QED
      BY <2>2, <2>3, <3>1, <3>2
  <2>5. mode # "size" => ~frames[1].sizing
    BY <2>2, <2>3
  <2>6. QED
    BY <1>1, <1>2, <2>3, <2>4, <2>5 DEF EncIInv, EncInv
<1>6. QED
  BY <1>4, <1>5

LEMMA EncNextKeeps == EncIInv /\ [EncNext]_encVars => EncIInv'
<1> SUFFICES ASSUME EncIInv, [EncNext]_encVars PROVE EncIInv'
  OBVIOUS
<1>1. ASSUME NEW t \in Due,
             \/ ArrayTooLong(t) \/ EncodeScalar(t) \/ BytesExceeded(t) \/ EncodeSubmessage(t)
             \/ EncodePacked(t) \/ EncodePackedFixed(t)
             \/ CallbackWrites(t) \/ CallbackRefuses(t)
      PROVE  EncIInv'
  BY <1>1, ErrorKeeps, ScalarKeeps, SubmessageKeeps, PackedKeeps, PackedFixedKeeps, CallbackKeeps
<1>2. CASE EncodeItem
  BY <1>2, ItemKeeps
<1>3. CASE SizeKnown
  BY <1>3, SizeKnownKeeps
<1>4. CASE SecondPassDone
  BY <1>4, SecondPassKeeps
<1>5. CASE EncodeDone
  BY <1>5, DoneKeeps
<1>6. CASE UNCHANGED encVars
  BY <1>6 DEF EncIInv, EncInv, Streams, Encoding, encVars
<1>7. QED
  BY <1>1, <1>2, <1>3, <1>4, <1>5, <1>6 DEF EncNext

LEMMA InvContains == EncIInv => OutContained
<1> SUFFICES ASSUME EncIInv PROVE OutContained
  OBVIOUS
<1>1. Len(out) <= room /\ (Encoding => Streams(frames, Len(out)))
  BY DEF EncIInv, EncInv
<1>2. QED
  BY <1>1 DEF OutContained, Streams

(* docs/security.rst:53: pb_encode never writes more than the size of the  *)
(* buffer, and no byte is lost or counted twice between the streams of a   *)
(* message, its submessages and its packed arrays, in either pass, for any *)
(* structure and whatever callbacks write.                                 *)
THEOREM OutAlwaysContained == EncSpec => []OutContained
<1>1. EncInit => EncIInv
  BY EncInitHolds
<1>2. EncIInv /\ [EncNext]_encVars => EncIInv'
  BY EncNextKeeps
<1>3. EncIInv => OutContained
  BY InvContains
<1>4. QED
  BY <1>1, <1>2, <1>3, PTL DEF EncSpec

----------------------------------------------------------------------------
(***************************************************************************)
(* The two passes over what has a length in front: together they write     *)
(* what Wire is, which is put together in one.                             *)
(***************************************************************************)

(* The first sequences of s, one after the other.                          *)
LEMMA FirstSteps ==
    ASSUME NEW S, NEW s \in Seq(Seq(S))
    PROVE  /\ First(s, 0) = <<>>
           /\ \A k \in 0..Len(s) : First(s, k) \in Seq(S)
           /\ \A k \in 1..Len(s) : First(s, k) = First(s, k - 1) \o s[k]
           /\ First(s, Len(s)) = FlattenSeq(s)
<1>1. Len(s) \in Nat /\ \A i \in 1..Len(s) : s[i] \in Seq(S)
  BY LenProperties, ElementOfSeq
<1>2. First(s, 0) = <<>>
  <2>1. SubSeq(s, 1, 0) = <<>>
    BY SubSeqEmpty
  <2>2. QED
    BY <2>1, EmptySeq DEF First, FlattenSeq
<1>3. ASSUME NEW k \in 0..Len(s) PROVE SubSeq(s, 1, k) \in Seq(Seq(S))
  <2>1. \A i \in 1..k : s[i] \in Seq(S)
    BY <1>1
  <2>2. QED
    BY <2>1, SubSeqProperties
<1>4. ASSUME NEW k \in 0..Len(s) PROVE First(s, k) \in Seq(S)
  <2>1. <<>> \in Seq(S)
    BY EmptySeq
  <2>2. QED
    BY <1>3, <2>1, FlattenAppend DEF First
<1>5. ASSUME NEW k \in 1..Len(s) PROVE First(s, k) = First(s, k - 1) \o s[k]
  <2> DEFINE r == SubSeq(s, 1, k - 1)
  <2>1. k - 1 \in 0..Len(s) /\ 1 \in 1..Len(s) /\ k \in 1..Len(s) /\ s[k] \in Seq(S)
    BY <1>1
  <2>2. r \in Seq(Seq(S))
    BY <1>3, <2>1
  <2>3. SubSeq(s, 1, k) = r \o <<s[k]>>
    BY <2>1, SubSeqRecursiveSecond
  <2> HIDE DEF r
  <2>4. r \o <<s[k]>> = Append(r, s[k])
    BY <2>1, <2>2, AppendIsConcat
  <2>5. FlattenSeq(Append(r, s[k])) = FlattenSeq(r) \o s[k]
    BY <2>1, <2>2, FlattenAppend
  <2>6. QED
    BY <2>3, <2>4, <2>5 DEF First, r
<1>6. First(s, Len(s)) = FlattenSeq(s)
  BY SubSeqFull DEF First
<1>7. QED
  BY <1>2, <1>4, <1>5, <1>6

LEMMA FirstSame ==
    ASSUME NEW S, NEW s \in Seq(Seq(S)), NEW j \in 0..Len(s), NEW k \in j..Len(s),
           \A i \in (j + 1)..k : s[i] = <<>>
    PROVE  First(s, k) = First(s, j)
<1> DEFINE P == {n \in Nat : j + n <= k => First(s, j + n) = First(s, j)}
<1>1. j \in Nat /\ k \in Nat /\ Len(s) \in Nat
  BY LenProperties
<1>2. 0 \in P
  <2>1. j + 0 = j
    BY <1>1
  <2>2. QED
    BY <2>1
<1>3. ASSUME NEW n \in Nat, n \in P PROVE n + 1 \in P
  <2> SUFFICES ASSUME j + (n + 1) <= k PROVE First(s, j + (n + 1)) = First(s, j)
    OBVIOUS
  <2> DEFINE i == j + (n + 1)
  <2>1. i \in (j + 1)..k /\ i \in 1..Len(s) /\ i - 1 = j + n /\ i - 1 \in 0..Len(s) /\ j + n <= k
    BY <1>1
  <2>2. First(s, j + n) = First(s, j)
    BY <1>3, <2>1
  <2> HIDE DEF i
  <2>3. s[i] = <<>>
    BY <2>1
  <2>4. First(s, i) = First(s, i - 1) \o s[i] /\ First(s, i - 1) \in Seq(S)
    BY <2>1, FirstSteps
  <2>5. First(s, i - 1) \o <<>> = First(s, i - 1)
    BY <2>4, ConcatEmptySeq
  <2>6. QED
    BY <2>1, <2>2, <2>3, <2>4, <2>5 DEF i
<1>4. \A n \in Nat : n \in P
  <2> HIDE DEF P
  <2>1. QED
    BY <1>2, <1>3, SetInduction
<1>5. PICK n \in Nat : j + n = k
  <2>1. k - j \in Nat /\ j + (k - j) = k
    BY <1>1
  <2>2. QED
    BY <2>1
<1>6. n \in P /\ j + n <= k
  <2> HIDE DEF P
  <2>1. QED
    BY <1>1, <1>4, <1>5
<1>7. QED
  BY <1>5, <1>6

LEMMA FirstShorter ==
    ASSUME NEW S, NEW s \in Seq(Seq(S)), NEW j \in 0..Len(s), NEW k \in j..Len(s)
    PROVE  Len(First(s, j)) <= Len(First(s, k))
<1> DEFINE P == {n \in Nat : j + n <= k => Len(First(s, j)) <= Len(First(s, j + n))}
<1>1. j \in Nat /\ k \in Nat /\ Len(s) \in Nat
  BY LenProperties
<1>a. \A i \in 0..Len(s) : First(s, i) \in Seq(S) /\ Len(First(s, i)) \in Nat
  BY FirstSteps, LenProperties
<1>2. 0 \in P
  <2>1. j + 0 = j /\ Len(First(s, j)) \in Nat
    BY <1>1, <1>a
  <2>2. QED
    BY <2>1
<1>3. ASSUME NEW n \in Nat, n \in P PROVE n + 1 \in P
  <2> SUFFICES ASSUME j + (n + 1) <= k PROVE Len(First(s, j)) <= Len(First(s, j + (n + 1)))
    OBVIOUS
  <2> DEFINE i == j + (n + 1)
  <2>1. i \in 1..Len(s) /\ i - 1 = j + n /\ i - 1 \in 0..Len(s) /\ j + n <= k /\ i \in 0..Len(s)
    BY <1>1
  <2>2. Len(First(s, j)) <= Len(First(s, j + n))
    BY <1>3, <2>1
  <2> HIDE DEF i
  <2>3. s[i] \in Seq(S)
    BY <2>1, ElementOfSeq
  <2>4. First(s, i) = First(s, i - 1) \o s[i] /\ First(s, i - 1) \in Seq(S)
    BY <2>1, FirstSteps
  <2>5. Len(First(s, i)) = Len(First(s, i - 1)) + Len(s[i]) /\ Len(s[i]) \in Nat
    BY <2>3, <2>4, ConcatProperties, LenProperties
  <2>6. Len(First(s, j)) \in Nat /\ Len(First(s, i - 1)) \in Nat
    BY <1>a, <2>1
  <2>7. Len(First(s, j)) <= Len(First(s, i))
    <3>1. Len(First(s, j)) <= Len(First(s, i - 1))
      BY <2>1, <2>2
    <3>2. \A a, b, c \in Nat : a <= b => a <= b + c
      OBVIOUS
    <3>3. QED
      BY <2>5, <2>6, <3>1, <3>2
  <2>8. QED
    BY <2>7 DEF i
<1>4. \A n \in Nat : n \in P
  <2> HIDE DEF P
  <2>1. QED
    BY <1>2, <1>3, SetInduction
<1>5. PICK n \in Nat : j + n = k
  <2>1. k - j \in Nat /\ j + (k - j) = k
    BY <1>1
  <2>2. QED
    BY <2>1
<1>6. n \in P /\ j + n <= k
  <2> HIDE DEF P
  <2>1. QED
    BY <1>1, <1>4, <1>5
<1>7. QED
  BY <1>5, <1>6

(* The largest field number.                                               *)
LEMMA LastTag ==
    ASSUME NEW m \in DOMAIN Schema
    PROVE  /\ Max(DOMAIN Schema[m] \cup {0}) \in Nat
           /\ \A t \in DOMAIN Schema[m] : t \in 1..Max(DOMAIN Schema[m] \cup {0})
<1> DEFINE S == DOMAIN Schema[m] \cup {0}
           B == {n \in Nat : \A t \in S : t <= n}
<1>1. \A t \in DOMAIN Schema[m] : t \in Nat \ {0} /\ t <= Huge
  <2>1. \A t \in DOMAIN Schema[m] : t \in 1..(Huge \div 8 - 1)
    BY SchemaAssumption
  <2>2. \A h \in Nat : h \div 8 <= h /\ h \div 8 \in Nat
    OBVIOUS
  <2>3. Huge \in Nat /\ Huge \div 8 <= Huge /\ Huge \div 8 \in Nat
    BY <2>2, HugeType
  <2>4. QED
    BY <2>1, <2>3
<1>2. PICK n \in B : \A k \in B : n <= k
  <2>1. Huge \in B
    BY <1>1, HugeType
  <2>2. QED
    BY <2>1, LeastOf
<1>3. n \in S
  <2>1. CASE n = 0
    BY <2>1
  <2>2. CASE n # 0
    <3>1. n - 1 \in Nat /\ ~(n <= n - 1)
      BY <1>2, <2>2
    <3>2. PICK t \in S : ~(t <= n - 1)
      BY <1>2, <3>1
    <3>3. t \in Nat /\ t <= n /\ n \in Nat
      BY <1>1, <1>2, <3>2
    <3>4. t = n
      BY <3>1, <3>2, <3>3
    <3>5. QED
      BY <3>2, <3>4
  <2>3. QED
    BY <2>1, <2>2
<1>4. \E x \in S : \A y \in S : x >= y
  <2>1. \A y \in S : n >= y
    BY <1>1, <1>2
  <2>2. QED
    BY <1>3, <2>1
<1>5. Max(S) \in S /\ \A y \in S : Max(S) >= y
  BY <1>4 DEF Max
<1> HIDE DEF B
<1>6. QED
  BY <1>1, <1>5

----------------------------------------------------------------------------
(* The bytes of a message depend on those of the messages in it only.      *)
LEMMA BytesSame ==
    ASSUME NEW f, NEW g, NEW d, NEW m \in DOMAIN Schema, NEW p, \A s \in Nested(m) : f[s] = g[s]
    PROVE  MessageBytes(f, d, m, p) = MessageBytes(g, d, m, p)
<1>1. ASSUME NEW t \in DOMAIN Schema[m], NEW q
      PROVE  FieldBytes(f, d, t, Schema[m][t], q) = FieldBytes(g, d, t, Schema[m][t], q)
  <2> DEFINE F == Schema[m][t]
  <2>1. CASE F.atype = "callback"
    BY <2>1 DEF FieldBytes
  <2>2. CASE F.atype # "callback"
    <3>1. F.ltype = "submessage" => f[F.sub] = g[F.sub]
      <4>1. F.atype = "static"
        BY <2>2, SchemaAssumption
      <4>2. F.ltype = "submessage" => F.sub \in Nested(m)
        BY <4>1 DEF Nested, StaticMessage
      <4>3. QED
        BY <4>2
    <3> HIDE DEF F
    <3>2. \A x : ValueBytes(f, d, F, x) = ValueBytes(g, d, F, x)
      BY <3>1 DEF ValueBytes
    <3>3. \A x : TaggedBytes(f, d, t, F, x) = TaggedBytes(g, d, t, F, x)
      BY <3>2 DEF TaggedBytes
    <3>4. ItemBytes(f, d, t, F, q) = ItemBytes(g, d, t, F, q)
      BY <3>2, <3>3 DEF ItemBytes
    <3>5. FieldBytes(f, d, t, F, q) = FieldBytes(g, d, t, F, q)
      BY <3>3, <3>4 DEF FieldBytes
    <3>6. QED
      BY <3>5 DEF F
  <2>3. QED
    BY <2>1, <2>2
<1>2. QED
  BY <1>1 DEF MessageBytes

(* Submessages lie inside each other, so there is one encoding of each.    *)
LEMMA EncodingsIs ==
    ASSUME NEW d, NEW m \in DOMAIN Schema
    PROVE  Encodings(d)[m] = [p \in Seq(Nat) |-> FlattenSeq(MessageBytes(Encodings(d), d, m, p))]
<1> DEFINE E(f, k) == [p \in Seq(Nat) |-> FlattenSeq(MessageBytes(f, d, k, p))]
           C == Cardinality(DOMAIN Schema)
<1>1. PICK depth \in [DOMAIN Schema -> 1..C] :
          \A k \in DOMAIN Schema : \A s \in Nested(k) : depth[s] < depth[k]
  BY NestingAssumption
<1>2. C \in Nat /\ \A k \in DOMAIN Schema : depth[k] \in Nat /\ depth[k] <= C
  BY <1>1, NestingAssumption, FS_CardinalityType
<1>3. ASSUME NEW k \in DOMAIN Schema PROVE \A s \in Nested(k) : s \in DOMAIN Schema
  BY SchemaAssumption DEF Nested, StaticMessage
<1>4. ASSUME NEW f, NEW g, NEW k \in DOMAIN Schema, \A s \in Nested(k) : f[s] = g[s]
      PROVE  E(f, k) = E(g, k)
  <2>1. \A p \in Seq(Nat) : MessageBytes(f, d, k, p) = MessageBytes(g, d, k, p)
    BY <1>4, BytesSame
  <2>2. QED
    BY <2>1
<1> HIDE DEF E
<1> DEFINE P == {n \in Nat : \E f : \A k \in DOMAIN Schema : depth[k] <= n => f[k] = E(f, k)}
<1>5. 0 \in P
  <2>1. \A k \in DOMAIN Schema : ~(depth[k] <= 0)
    BY <1>1
  <2>2. QED
    BY <2>1
<1>6. ASSUME NEW n \in Nat, n \in P PROVE n + 1 \in P
  <2>1. PICK f : \A k \in DOMAIN Schema : depth[k] <= n => f[k] = E(f, k)
    BY <1>6
  <2> DEFINE g == [k \in DOMAIN Schema |-> IF depth[k] <= n THEN f[k] ELSE E(f, k)]
  <2>2. ASSUME NEW k \in DOMAIN Schema, depth[k] <= n + 1 PROVE g[k] = E(g, k)
    <3>1. \A s \in Nested(k) : g[s] = f[s]
      <4> TAKE s \in Nested(k)
      <4>1. s \in DOMAIN Schema /\ depth[s] < depth[k]
        BY <1>1, <1>3
      <4>2. depth[s] <= n
        BY <1>2, <2>2, <4>1
      <4>3. QED
        BY <4>1, <4>2
    <3>2. E(g, k) = E(f, k)
      <4> HIDE DEF g
      <4>1. QED
        BY <1>4, <3>1
    <3>3. g[k] = E(f, k)
      BY <2>1
    <3>4. QED
      BY <3>2, <3>3
  <2> HIDE DEF g
  <2>3. QED
    BY <2>2
<1>7. C \in P
  <2>1. \A n \in Nat : n \in P
    <3> HIDE DEF P
    <3>1. QED
      BY <1>5, <1>6, SetInduction
  <2>2. QED
    BY <1>2, <2>1
<1>8. PICK f : \A k \in DOMAIN Schema : f[k] = E(f, k)
  BY <1>2, <1>7
<1> DEFINE g == [k \in DOMAIN Schema |-> f[k]]
<1>9. g = [k \in DOMAIN Schema |-> E(g, k)]
  <2>1. ASSUME NEW k \in DOMAIN Schema PROVE f[k] = E(g, k)
    <3>1. \A s \in Nested(k) : g[s] = f[s]
      BY <1>3
    <3>2. E(g, k) = E(f, k)
      <4> HIDE DEF g
      <4>1. QED
        BY <1>4, <3>1
    <3>3. QED
      BY <1>8, <3>2
  <2>2. QED
    BY <2>1
<1> HIDE DEF g
<1> DEFINE w == CHOOSE w : w = [k \in DOMAIN Schema |-> E(w, k)]
<1>10. w = [k \in DOMAIN Schema |-> E(w, k)]
  BY <1>9
<1>11. Encodings(d) = w
  BY DEF Encodings, E
<1> HIDE DEF w
<1>12. w[m] = E(w, m)
  BY <1>10
<1>13. QED
  BY <1>11, <1>12 DEF E

----------------------------------------------------------------------------
(* What the encoding is made of are numbers, where the values are those of *)
(* a structure: types.                                                     *)
MessageAt(m, p) == m \in DOMAIN Schema /\ p \in Seq(Nat \ {0}) /\ Location(p) = Spot("message", m, 0)

LEMMA JoinedNumbers ==
    ASSUME NEW a \in Seq(Nat), NEW b \in Seq(Nat)
    PROVE  a \o b \in Seq(Nat) /\ Len(a \o b) = Len(a) + Len(b) /\ Len(a) \in Nat /\ Len(b) \in Nat
  BY ConcatProperties, LenProperties

LEMMA VarintNumbers ==
    ASSUME NEW v \in [1..10 -> Nat]
    PROVE  EncodeVarint(v) \in Seq(Nat)
<1> DEFINE n == EncodedLen(v)
           e == [i \in 1..n |-> IF i < n THEN v[i] + 128 ELSE v[i]]
<1>1. n \in 1..10
  BY EncodedLenFacts
<1> HIDE DEF n
<1>2. \A i \in 1..n : v[i] \in Nat /\ v[i] + 128 \in Nat
  BY <1>1
<1>3. e \in [1..n -> Nat]
  BY <1>2
<1>4. e \in Seq(Nat)
  BY <1>1, <1>3
<1>5. QED
  BY <1>4 DEF EncodeVarint, n

LEMMA DigitsNumbers ==
    ASSUME NEW n \in Nat
    PROVE  EncodeVarint(Digits(n)) \in Seq(Nat)
<1>1. n % 128 \in Nat /\ (n \div 128) % 128 \in Nat
      /\ (n \div (128 * 128)) % 128 \in Nat /\ n \div (128 * 128 * 128) \in Nat
  BY SMTT(30)
<1>2. Digits(n) \in [1..10 -> Nat]
  BY <1>1 DEF Digits
<1>3. QED
  BY <1>2, VarintNumbers

LEMMA TagNumbers ==
    ASSUME NEW t \in Nat, NEW f
    PROVE  TagBytes(t, WireOf(f)) \in Seq(Nat) /\ TagBytes(t, 2) \in Seq(Nat)
<1>1. WireOf(f) \in {0, 1, 2, 5}
  BY DEF WireOf
<1>2. 8 * t + WireOf(f) \in Nat /\ 8 * t + 2 \in Nat
  BY <1>1
<1>3. QED
  BY <1>2, DigitsNumbers DEF TagBytes

LEMMA LengthNumbers ==
    ASSUME NEW b \in Seq(Nat)
    PROVE  /\ LengthBytes(Len(b)) \in Seq(Nat) /\ WithLength(b) \in Seq(Nat)
           /\ Len(WithLength(b)) = Len(LengthBytes(Len(b))) + Len(b)
           /\ Len(b) \in Nat /\ Len(LengthBytes(Len(b))) \in Nat
<1>1. LengthBytes(Len(b)) \in Seq(Nat) /\ Len(b) \in Nat
  BY LenProperties, DigitsNumbers DEF LengthBytes
<1>2. QED
  BY <1>1, JoinedNumbers DEF WithLength

LEMMA BytesNumbers == ASSUME NEW b \in Seq(Byte) PROVE b \in Seq(Nat)
<1>1. Byte \subseteq Nat
  BY DEF Byte
<1>2. QED
  BY <1>1, SeqMonotonic

LEMMA ZigzagNumbers ==
    ASSUME NEW v \in Uint64
    PROVE  Zigzag(v) \in [1..10 -> Nat]
<1> DEFINE y == Shl(v)
<1>1. y \in [1..10 -> 0..127] /\ y[10] \in 0..1
  BY ShiftFacts DEF Uint64
<1> HIDE DEF y
<1>2. \A i \in 1..10 : Ones(i) - y[i] \in Nat
  BY <1>1 DEF Ones
<1>3. y \in [1..10 -> Nat] /\ Not(y) \in [1..10 -> Nat]
  BY <1>1, <1>2 DEF Not
<1>4. QED
  BY <1>3 DEF Zigzag, y

(* A part of a string is one.                                              *)
LEMMA StringBytes ==
    ASSUME NEW v \in Seq(Byte), NEW max
    PROVE  Terminated(v, max) \in Seq(Byte)
<1> DEFINE N == {n \in 1..Len(v) : n <= max /\ \A j \in 1..n : v[j] # 0}
           k == Cardinality(N)
<1>1. Terminated(v, max) = SubSeq(v, 1, k)
  BY DEF Terminated
<1>2. k \in 0..Len(v)
  <2>1. N \in SUBSET (1..Len(v))
    OBVIOUS
  <2> HIDE DEF N
  <2>2. IsFiniteSet(1..Len(v)) /\ Cardinality(1..Len(v)) = Len(v)
    <3>1. Len(v) \in Nat
      OBVIOUS
    <3>2. IsFiniteSet(1..Len(v)) /\ Cardinality(1..Len(v)) = IF 1 > Len(v) THEN 0 ELSE Len(v) - 1 + 1
      BY <3>1, FS_Interval
    <3>3. QED
      BY <3>1, <3>2
  <2>3. IsFiniteSet(N) /\ Cardinality(N) <= Len(v)
    BY <2>1, <2>2, FS_Subset
  <2>4. QED
    BY <2>3, FS_CardinalityType
<1> HIDE DEF k
<1>3. SubSeq(v, 1, k) \in Seq(Byte)
  BY <1>2
<1>4. QED
  BY <1>1, <1>3

(* A value of a static field or an item of a static array.                 *)
ValueAt(m, t, q) ==
    /\ m \in DOMAIN Schema /\ t \in DOMAIN Schema[m] /\ q \in Seq(Nat \ {0})
    /\ Schema[m][t].atype = "static"
    /\ IF Schema[m][t].ltype = "submessage" THEN Location(q) = Spot("message", Schema[m][t].sub, 0)
       ELSE Location(q) = Spot("field", m, t) \/ Location(q) = Spot("item", m, t)

LEMMA DatumTyped ==
    ASSUME NEW d \in Sources, NEW m, NEW t, NEW q, ValueAt(m, t, q),
           NEW f, f = Schema[m][t], f.ltype # "submessage"
    PROVE  /\ f.ltype \in {"varint", "uvarint", "svarint"} => Datum(d, f, q) \in Uint64
           /\ f.ltype \notin {"varint", "uvarint", "svarint"} => Datum(d, f, q) \in Seq(Byte)
           /\ f.ltype = "fixed32" => Len(Datum(d, f, q)) = 4
           /\ f.ltype = "fixed64" => Len(Datum(d, f, q)) = 8
<1>1. /\ q \in Seq(Nat \ {0}) /\ f.atype = "static" /\ f.ltype \in LType /\ f.size \in Nat
      /\ Location(q).kind \in {"field", "item"} /\ Location(q).msg = m /\ Location(q).tag = t
  BY SpotFields, DescShape DEF ValueAt
<1>2. CASE q \in DOMAIN d
  <2>1. Datum(d, f, q) = d[q]
    BY <1>2 DEF Datum, At
  <2>2. d[q] \in Seq(Byte)
    <3>1. \A i \in 1..Len(q) : q[i] # 0
      BY <1>1
    <3>2. QED
      BY <1>2, <3>1, SourcesAssumption
  <2>3. /\ f.ltype \in {"varint", "uvarint", "svarint"} => d[q] \in Uint64
        /\ f.ltype = "fixed32" => Len(d[q]) = 4
        /\ f.ltype = "fixed64" => Len(d[q]) = 8
    BY <1>1, <1>2, ValuesAssumption
  <2>4. QED
    BY <2>1, <2>2, <2>3
<1>3. CASE q \notin DOMAIN d
  <2>1. Datum(d, f, q) = ZeroOf(f)
    BY <1>3 DEF Datum, At
  <2>2. CASE f.ltype \in {"varint", "uvarint", "svarint"}
    <3>1. ZeroOf(f) = Zero
      BY <2>2 DEF ZeroOf
    <3>2. Zero \in Uint64
      BY DEF Zero, Uint64
    <3>3. QED
      BY <2>1, <2>2, <3>1, <3>2
  <2>3. CASE f.ltype \notin {"varint", "uvarint", "svarint"}
    <3>1. ZeroOf(f) \in Seq(Byte)
      BY <1>1, <2>3, ZeroWritten
    <3>2. f.ltype = "fixed32" => ZeroOf(f) = Zeros(4)
      BY DEF ZeroOf
    <3>3. f.ltype = "fixed64" => ZeroOf(f) = Zeros(8)
      BY DEF ZeroOf
    <3>4. Len(Zeros(4)) = 4 /\ Len(Zeros(8)) = 8
      BY DEF Zeros
    <3>5. QED
      BY <2>1, <2>3, <3>1, <3>2, <3>3, <3>4
  <2>4. QED
    BY <2>2, <2>3
<1>4. QED
  BY <1>2, <1>3

LEMMA DataTyped ==
    ASSUME NEW d \in Sources, NEW m, NEW t, NEW q, ValueAt(m, t, q),
           NEW f, f = Schema[m][t], f.ltype # "submessage"
    PROVE  /\ Data(f, Datum(d, f, q)) \in Seq(Nat)
           /\ f.ltype = "fixed32" => Len(Data(f, Datum(d, f, q))) = 4
           /\ f.ltype = "fixed64" => Len(Data(f, Datum(d, f, q))) = 8
<1> DEFINE v == Datum(d, f, q)
<1>1. /\ f.ltype \in {"varint", "uvarint", "svarint"} => v \in Uint64
      /\ f.ltype \notin {"varint", "uvarint", "svarint"} => v \in Seq(Byte)
      /\ f.ltype = "fixed32" => Len(v) = 4
      /\ f.ltype = "fixed64" => Len(v) = 8
  BY DatumTyped
<1> HIDE DEF v
<1>2. CASE f.ltype \in {"varint", "uvarint"}
  <2>1. Data(f, v) = EncodeVarint(v)
    BY <1>2 DEF Data
  <2>2. v \in [1..10 -> Nat]
    <3>1. v \in [1..10 -> 0..127]
      BY <1>1, <1>2 DEF Uint64
    <3>2. 0..127 \subseteq Nat
      OBVIOUS
    <3>3. QED
      BY <3>1, <3>2
  <2>3. QED
    BY <1>2, <2>1, <2>2, VarintNumbers DEF v
<1>3. CASE f.ltype = "svarint"
  <2>1. Data(f, v) = EncodeVarint(Zigzag(v))
    BY <1>3 DEF Data
  <2>2. QED
    BY <1>1, <1>3, <2>1, ZigzagNumbers, VarintNumbers DEF v
<1>4. CASE f.ltype = "string"
  <2>1. Data(f, v) = Terminated(v, f.size)
    BY <1>4 DEF Data
  <2>2. QED
    BY <1>1, <1>4, <2>1, StringBytes, BytesNumbers DEF v
<1>5. CASE f.ltype \notin {"varint", "uvarint", "svarint", "string"}
  <2>1. Data(f, v) = v
    <3>1. f.ltype # "varint" /\ f.ltype # "uvarint" /\ f.ltype # "svarint" /\ f.ltype # "string"
      BY <1>5
    <3>2. QED
      BY <3>1 DEF Data
  <2>2. v \in Seq(Nat)
    BY <1>1, <1>5, BytesNumbers
  <2>3. QED
    BY <1>1, <2>1, <2>2 DEF v
<1>6. QED
  BY <1>2, <1>3, <1>4, <1>5

LEMMA ValueNumbers ==
    ASSUME NEW d \in Sources, NEW m, NEW t, NEW q, ValueAt(m, t, q),
           NEW f, f = Schema[m][t], NEW e, f.ltype = "submessage" => e[f.sub][q] \in Seq(Nat)
    PROVE  ValueBytes(e, d, f, q) \in Seq(Nat) /\ TaggedBytes(e, d, t, f, q) \in Seq(Nat)
<1>1. ValueBytes(e, d, f, q) \in Seq(Nat)
  <2>1. CASE f.ltype = "submessage"
    <3>1. ValueBytes(e, d, f, q) = WithLength(e[f.sub][q])
      BY <2>1 DEF ValueBytes, HasLength
    <3>2. QED
      BY <2>1, <3>1, LengthNumbers
  <2>2. CASE f.ltype # "submessage"
    <3> DEFINE x == Data(f, Datum(d, f, q))
    <3>1. x \in Seq(Nat)
      BY <2>2, DataTyped
    <3>2. ValueBytes(e, d, f, q) = IF HasLength(f) THEN WithLength(x) ELSE x
      BY <2>2 DEF ValueBytes
    <3> HIDE DEF x
    <3>3. QED
      BY <3>1, <3>2, LengthNumbers
  <2>3. QED
    BY <2>1, <2>2
<1>2. t \in Nat
  BY DescShape DEF ValueAt
<1>3. TagBytes(t, WireOf(f)) \in Seq(Nat)
  BY <1>2, TagNumbers
<1>4. QED
  BY <1>1, <1>3, JoinedNumbers DEF TaggedBytes

(* Where the value of a static field, and the items of a static array, are. *)
LEMMA ValuePlaces ==
    ASSUME NEW m, NEW p, MessageAt(m, p), NEW t \in DOMAIN Schema[m], NEW f, f = Schema[m][t],
           f.atype = "static", NEW q, q = Append(p, t)
    PROVE  /\ q \in Seq(Nat \ {0})
           /\ f.htype # "repeated" => ValueAt(m, t, q)
           /\ f.htype = "repeated" => \A n \in Nat \ {0} : ValueAt(m, t, Append(q, n))
<1>1. /\ m \in DOMAIN Schema /\ p \in Seq(Nat \ {0}) /\ p \in Seq(Nat)
      /\ Location(p) = Spot("message", m, 0) /\ t \in Nat \ {0}
  <2>1. m \in DOMAIN Schema /\ p \in Seq(Nat \ {0}) /\ Location(p) = Spot("message", m, 0)
    BY DEF MessageAt
  <2>2. p \in Seq(Nat)
    BY <2>1
  <2>3. QED
    BY <2>1, <2>2, DescShape
<1>2. q \in Seq(Nat \ {0}) /\ q \in Seq(Nat)
  BY <1>1, Extended
<1>3. Location(q) = FieldSpot(m, t)
  BY <1>1, MessageSpots
<1>4. ASSUME f.htype # "repeated" PROVE ValueAt(m, t, q)
  <2>1. f.ltype = "submessage" => Location(q) = Spot("message", f.sub, 0)
    BY <1>3, <1>4 DEF FieldSpot, StaticMessage
  <2>2. f.ltype # "submessage" => Location(q) = Spot("field", m, t)
    BY <1>3 DEF FieldSpot, StaticMessage
  <2>3. QED
    BY <1>1, <1>2, <2>1, <2>2 DEF ValueAt
<1>5. ASSUME f.htype = "repeated", NEW n \in Nat \ {0} PROVE ValueAt(m, t, Append(q, n))
  <2>1. Location(q) = Spot("field", m, t)
    BY <1>3, <1>5 DEF FieldSpot
  <2>2. Location(Append(q, n)) = ArraySpot(m, t, n)
    <3>1. Location(Append(q, n)) = IF StaticArray(Schema[m][t]) THEN ArraySpot(m, t, n)
                                   ELSE Spot("none", m, 0)
      BY <1>2, <2>1, FieldSpots
    <3>2. QED
      BY <1>5, <3>1 DEF StaticArray
  <2>3. f.ltype = "submessage" => Location(Append(q, n)) = Spot("message", f.sub, 0)
    BY <2>2 DEF ArraySpot, StaticMessage
  <2>4. f.ltype # "submessage" => Location(Append(q, n)) = Spot("item", m, t)
    BY <2>2 DEF ArraySpot, StaticMessage
  <2>5. Append(q, n) \in Seq(Nat \ {0})
    BY <1>2, Extended
  <2>6. QED
    BY <1>1, <2>3, <2>4, <2>5 DEF ValueAt
<1>6. QED
  BY <1>2, <1>4, <1>5

(* The submessages of f are encoded to numbers.                            *)
SubNumbers(e, f) ==
    (f.ltype = "submessage" /\ f.atype = "static") =>
        \A q : MessageAt(f.sub, q) => e[f.sub][q] \in Seq(Nat)

LEMMA SubmessageAt ==
    ASSUME NEW m, NEW t, NEW q, ValueAt(m, t, q), NEW f, f = Schema[m][t], NEW e, SubNumbers(e, f)
    PROVE  f.ltype = "submessage" => MessageAt(f.sub, q) /\ e[f.sub][q] \in Seq(Nat)
<1>1. f.ltype = "submessage" => MessageAt(f.sub, q)
  BY DescShape DEF ValueAt, MessageAt
<1>2. f.atype = "static"
  BY DEF ValueAt
<1>3. QED
  BY <1>1, <1>2 DEF SubNumbers

LEMMA ItemNumbers ==
    ASSUME NEW d \in Sources, NEW m, NEW p, MessageAt(m, p), NEW t \in DOMAIN Schema[m],
           NEW f, f = Schema[m][t], f.atype = "static", f.htype = "repeated",
           NEW e, SubNumbers(e, f), NEW q, q = Append(p, t)
    PROVE  /\ Items(d, f, q) \in Nat
           /\ ItemBytes(e, d, t, f, q) \in Seq(Seq(Nat))
           /\ Len(ItemBytes(e, d, t, f, q)) = Items(d, f, q)
           /\ FlattenSeq(ItemBytes(e, d, t, f, q)) \in Seq(Nat)
<1> DEFINE N == Items(d, f, q)
           b(n) == IF IsPacked(f) THEN ValueBytes(e, d, f, Append(q, n))
                                  ELSE TaggedBytes(e, d, t, f, Append(q, n))
           s == [n \in 1..N |-> b(n)]
<1>1. /\ q \in Seq(Nat \ {0}) /\ q \in Seq(Nat)
      /\ \A n \in Nat \ {0} : ValueAt(m, t, Append(q, n))
  <2>1. q \in Seq(Nat \ {0}) /\ \A n \in Nat \ {0} : ValueAt(m, t, Append(q, n))
    BY ValuePlaces
  <2>2. QED
    BY <2>1
<1>2. N \in Nat
  <2>1. m \in DOMAIN Schema
    BY DEF MessageAt
  <2>2. f.max \in Nat
    BY <2>1, DescShape
  <2>3. QED
    BY <1>1, <2>2, CountsTypedHere
<1> HIDE DEF N
<1>3. \A n \in 1..N : b(n) \in Seq(Nat)
  <2> TAKE n \in 1..N
  <2> DEFINE x == Append(q, n)
  <2>1. ValueAt(m, t, x)
    BY <1>1, <1>2
  <2> HIDE DEF x
  <2>2. f.ltype = "submessage" => e[f.sub][x] \in Seq(Nat)
    BY <2>1, SubmessageAt
  <2>3. ValueBytes(e, d, f, x) \in Seq(Nat) /\ TaggedBytes(e, d, t, f, x) \in Seq(Nat)
    BY <2>1, <2>2, ValueNumbers
  <2>4. QED
    BY <2>3 DEF x
<1> HIDE DEF b
<1>4. s \in Seq(Seq(Nat)) /\ Len(s) = N
  <2>1. s \in [1..N -> Seq(Nat)]
    BY <1>3
  <2>2. QED
    BY <1>2, <2>1
<1>5. ItemBytes(e, d, t, f, q) = s
  BY DEF ItemBytes, b, N
<1> HIDE DEF s
<1>6. FlattenSeq(s) \in Seq(Nat)
  <2>1. <<>> \in Seq(Nat)
    BY EmptySeq
  <2>2. QED
    BY <1>4, <2>1, FlattenAppend
<1>7. QED
  BY <1>2, <1>4, <1>5, <1>6 DEF N

LEMMA FieldNumbers ==
    ASSUME NEW d \in Sources, NEW m, NEW p, MessageAt(m, p), NEW t \in DOMAIN Schema[m],
           NEW f, f = Schema[m][t], NEW e, SubNumbers(e, f), NEW q, q = Append(p, t),
           f.atype = "callback" => q \in DOMAIN d
    PROVE  FieldBytes(e, d, t, f, q) \in Seq(Nat)
<1>1. /\ m \in DOMAIN Schema /\ p \in Seq(Nat \ {0}) /\ t \in Nat \ {0}
      /\ f.atype \in {"static", "callback"}
  <2>1. m \in DOMAIN Schema /\ p \in Seq(Nat \ {0})
    BY DEF MessageAt
  <2>2. QED
    BY <2>1, DescShape, SchemaAssumption
<1>2. TagBytes(t, 2) \in Seq(Nat)
  BY <1>1, TagNumbers
<1>3. CASE f.atype = "callback"
  <2>1. d[q] \in Seq(Nat)
    <3>1. q \in Seq(Nat \ {0})
      BY <1>1, Extended
    <3>2. QED
      BY <1>3, <3>1, ValueWritten, BytesNumbers
  <2>2. WithLength(d[q]) \in Seq(Nat)
    BY <2>1, LengthNumbers
  <2>3. FieldBytes(e, d, t, f, q) = TagBytes(t, 2) \o WithLength(d[q])
    BY <1>3 DEF FieldBytes
  <2>4. QED
    BY <1>2, <2>2, <2>3, JoinedNumbers
<1>4. CASE f.atype = "static" /\ f.htype = "repeated"
  <2> DEFINE items == FlattenSeq(ItemBytes(e, d, t, f, q))
  <2>1. items \in Seq(Nat)
    BY <1>4, ItemNumbers
  <2>2. FieldBytes(e, d, t, f, q) = IF IsPacked(f) THEN TagBytes(t, 2) \o WithLength(items) ELSE items
    BY <1>4 DEF FieldBytes, IsArray
  <2> HIDE DEF items
  <2>3. TagBytes(t, 2) \o WithLength(items) \in Seq(Nat)
    BY <1>2, <2>1, LengthNumbers, JoinedNumbers
  <2>4. QED
    BY <2>1, <2>2, <2>3
<1>5. CASE f.atype = "static" /\ f.htype # "repeated"
  <2>1. ValueAt(m, t, q)
    BY <1>5, ValuePlaces
  <2>2. f.ltype = "submessage" => e[f.sub][q] \in Seq(Nat)
    BY <2>1, SubmessageAt
  <2>3. TaggedBytes(e, d, t, f, q) \in Seq(Nat)
    BY <2>1, <2>2, ValueNumbers
  <2>4. FieldBytes(e, d, t, f, q) = TaggedBytes(e, d, t, f, q)
    BY <1>5 DEF FieldBytes, IsArray, IsPacked
  <2>5. QED
    BY <2>3, <2>4
<1>6. QED
  BY <1>1, <1>3, <1>4, <1>5

LEMMA MessageNumbers ==
    ASSUME NEW d \in Sources, NEW m, NEW p, MessageAt(m, p),
           NEW e, \A t \in DOMAIN Schema[m] : SubNumbers(e, Schema[m][t])
    PROVE  /\ MessageBytes(e, d, m, p) \in Seq(Seq(Nat))
           /\ Len(MessageBytes(e, d, m, p)) = Max(DOMAIN Schema[m] \cup {0})
           /\ FlattenSeq(MessageBytes(e, d, m, p)) \in Seq(Nat)
<1> DEFINE L == Max(DOMAIN Schema[m] \cup {0})
           b(t) == IF t \in DOMAIN Schema[m] /\ Present(d, m, p, t)
                   THEN FieldBytes(e, d, t, Schema[m][t], Append(p, t)) ELSE <<>>
           s == [t \in 1..L |-> b(t)]
<1>1. L \in Nat
  BY LastTag DEF MessageAt
<1> HIDE DEF L
<1>2. <<>> \in Seq(Nat)
  BY EmptySeq
<1>3. \A t \in 1..L : b(t) \in Seq(Nat)
  <2> TAKE t \in 1..L
  <2>1. CASE t \in DOMAIN Schema[m] /\ Present(d, m, p, t)
    <3>1. Schema[m][t].atype = "callback" => Append(p, t) \in DOMAIN d
      BY <2>1 DEF Present
    <3>2. FieldBytes(e, d, t, Schema[m][t], Append(p, t)) \in Seq(Nat)
      BY <2>1, <3>1, FieldNumbers
    <3>3. QED
      BY <2>1, <3>2
  <2>2. CASE ~(t \in DOMAIN Schema[m] /\ Present(d, m, p, t))
    BY <1>2, <2>2
  <2>3. QED
    BY <2>1, <2>2
<1> HIDE DEF b
<1>4. s \in Seq(Seq(Nat)) /\ Len(s) = L
  <2>1. s \in [1..L -> Seq(Nat)]
    BY <1>3
  <2>2. QED
    BY <1>1, <2>1
<1>5. MessageBytes(e, d, m, p) = s
  BY DEF MessageBytes, b, L
<1> HIDE DEF s
<1>6. FlattenSeq(s) \in Seq(Nat)
  BY <1>2, <1>4, FlattenAppend
<1>7. QED
  BY <1>4, <1>5, <1>6 DEF L

(* The encoding of a structure is bytes all the way down.                  *)
LEMMA EncodingsNumbers ==
    ASSUME NEW d \in Sources, NEW m, NEW p, MessageAt(m, p)
    PROVE  Encodings(d)[m][p] \in Seq(Nat)
<1> DEFINE e == Encodings(d)
           C == Cardinality(DOMAIN Schema)
<1>1. PICK depth \in [DOMAIN Schema -> 1..C] :
          \A k \in DOMAIN Schema : \A s \in Nested(k) : depth[s] < depth[k]
  BY NestingAssumption
<1>2. C \in Nat /\ \A k \in DOMAIN Schema : depth[k] \in Nat /\ depth[k] <= C
  BY <1>1, NestingAssumption, FS_CardinalityType
<1> HIDE DEF C
<1> DEFINE P == {n \in Nat : \A k, q : (MessageAt(k, q) /\ depth[k] <= n) => e[k][q] \in Seq(Nat)}
<1>3. 0 \in P
  <2>1. \A k, q : MessageAt(k, q) => ~(depth[k] <= 0)
    BY <1>1 DEF MessageAt
  <2>2. QED
    BY <2>1
<1>4. ASSUME NEW n \in Nat, n \in P PROVE n + 1 \in P
  <2>1. ASSUME NEW k, NEW q, MessageAt(k, q), depth[k] <= n + 1 PROVE e[k][q] \in Seq(Nat)
    <3>1. k \in DOMAIN Schema /\ q \in Seq(Nat)
      <4>1. k \in DOMAIN Schema /\ q \in Seq(Nat \ {0})
        BY <2>1 DEF MessageAt
      <4>2. QED
        BY <4>1
    <3>2. \A t \in DOMAIN Schema[k] : SubNumbers(e, Schema[k][t])
      <4> SUFFICES ASSUME NEW t \in DOMAIN Schema[k], Schema[k][t].ltype = "submessage",
                          Schema[k][t].atype = "static", NEW x, MessageAt(Schema[k][t].sub, x)
                   PROVE  e[Schema[k][t].sub][x] \in Seq(Nat)
        BY DEF SubNumbers
      <4> DEFINE s == Schema[k][t].sub
      <4>1. s \in Nested(k) /\ s \in DOMAIN Schema
        BY DEF Nested, StaticMessage, MessageAt
      <4>2. depth[s] < depth[k]
        BY <1>1, <3>1, <4>1
      <4>3. depth[s] <= n
        BY <1>2, <2>1, <3>1, <4>1, <4>2
      <4>4. QED
        BY <1>4, <4>3
    <3>3. FlattenSeq(MessageBytes(e, d, k, q)) \in Seq(Nat)
      <4> HIDE DEF e
      <4>1. QED
        BY <2>1, <3>2, MessageNumbers
    <3>4. e[k][q] = FlattenSeq(MessageBytes(e, d, k, q))
      BY <3>1, EncodingsIs
    <3>5. QED
      BY <3>3, <3>4
  <2>2. QED
    BY <2>1
<1>5. C \in P
  <2>1. \A n \in Nat : n \in P
    <3> HIDE DEF P
    <3>1. QED
      BY <1>3, <1>4, SetInduction
  <2>2. QED
    BY <1>2, <2>1
<1>6. m \in DOMAIN Schema
  BY DEF MessageAt
<1>7. depth[m] <= C
  BY <1>2, <1>6
<1>8. QED
  BY <1>5, <1>7

LEMMA SubTyped ==
    ASSUME NEW d \in Sources, NEW f
    PROVE  SubNumbers(Encodings(d), f)
  BY EncodingsNumbers DEF SubNumbers

----------------------------------------------------------------------------
(* A call and what it writes.                                              *)

LEMMA PlacedAt ==
    ASSUME NEW d, NEW f \in CallType, CallPlaced(d, f)
    PROVE  MessageAt(f.msg, f.path) /\ f.path \in Seq(Nat)
<1>1. MessageAt(f.msg, f.path)
  BY CallFacts DEF CallPlaced, MessageAt
<1>2. f.path \in Seq(Nat \ {0})
  BY CallFacts
<1>3. QED
  BY <1>1, <1>2

LEMMA FieldsAre ==
    ASSUME NEW d \in Sources, NEW f \in CallType, MessageAt(f.msg, f.path)
    PROVE  /\ FieldsIn(d, f) \in Seq(Seq(Nat)) /\ Len(FieldsIn(d, f)) \in Nat
           /\ FlattenSeq(FieldsIn(d, f)) = Encodings(d)[f.msg][f.path]
           /\ FlattenSeq(FieldsIn(d, f)) \in Seq(Nat)
           /\ \A t \in DOMAIN Schema[f.msg] : t \in 1..Len(FieldsIn(d, f))
           /\ \A t \in 1..Len(FieldsIn(d, f)) :
                 FieldsIn(d, f)[t] =
                    IF t \in DOMAIN Schema[f.msg] /\ Present(d, f.msg, f.path, t)
                    THEN FieldBytes(Encodings(d), d, t, Schema[f.msg][t], Append(f.path, t)) ELSE <<>>
<1> DEFINE m == f.msg
           p == f.path
           s == MessageBytes(Encodings(d), d, m, p)
           L == Max(DOMAIN Schema[m] \cup {0})
<1>1. m \in DOMAIN Schema /\ p \in Seq(Nat)
  <2>1. m \in DOMAIN Schema /\ p \in Seq(Nat \ {0})
    BY DEF MessageAt
  <2>2. QED
    BY <2>1
<1>2. s \in Seq(Seq(Nat)) /\ Len(s) = L /\ FlattenSeq(s) \in Seq(Nat)
  <2>1. \A t \in DOMAIN Schema[m] : SubNumbers(Encodings(d), Schema[m][t])
    BY SubTyped
  <2> HIDE DEF m, p
  <2>2. MessageAt(m, p)
    BY DEF m, p
  <2>3. QED
    BY <2>1, <2>2, MessageNumbers
<1>3. Encodings(d)[m][p] = FlattenSeq(s)
  <2>1. Encodings(d)[m] = [x \in Seq(Nat) |-> FlattenSeq(MessageBytes(Encodings(d), d, m, x))]
    <3> HIDE DEF m
    <3>1. QED
      BY <1>1, EncodingsIs
  <2>2. QED
    BY <1>1, <2>1
<1>4. L \in Nat /\ \A t \in DOMAIN Schema[m] : t \in 1..L
  BY <1>1, LastTag
<1>5. \A t \in 1..L :
         s[t] = IF t \in DOMAIN Schema[m] /\ Present(d, m, p, t)
                THEN FieldBytes(Encodings(d), d, t, Schema[m][t], Append(p, t)) ELSE <<>>
  BY DEF MessageBytes
<1>6. FieldsIn(d, f) = s
  BY DEF FieldsIn
<1> HIDE DEF s, L
<1>7. QED
  BY <1>2, <1>3, <1>4, <1>5, <1>6

LEMMA ArrayItems ==
    ASSUME NEW d \in Sources, NEW f \in CallType, MessageAt(f.msg, f.path),
           NEW t \in DOMAIN Schema[f.msg],
           Schema[f.msg][t].atype = "static", Schema[f.msg][t].htype = "repeated"
    PROVE  /\ NumberOf(d, f, t) \in Nat
           /\ ItemsIn(d, f, t) \in Seq(Seq(Nat)) /\ Len(ItemsIn(d, f, t)) = NumberOf(d, f, t)
           /\ FlattenSeq(ItemsIn(d, f, t)) \in Seq(Nat)
           /\ \A n \in 1..NumberOf(d, f, t) :
                 ItemsIn(d, f, t)[n] =
                    LET g == Schema[f.msg][t]
                        q == Append(Append(f.path, t), n)
                    IN  IF IsPacked(g) THEN ValueBytes(Encodings(d), d, g, q)
                                       ELSE TaggedBytes(Encodings(d), d, t, g, q)
<1> DEFINE m == f.msg
           p == f.path
           g == Schema[m][t]
           q == Append(p, t)
           s == ItemBytes(Encodings(d), d, t, g, q)
<1>1. /\ Items(d, g, q) \in Nat
      /\ s \in Seq(Seq(Nat)) /\ Len(s) = Items(d, g, q)
      /\ FlattenSeq(s) \in Seq(Nat)
  <2>1. SubNumbers(Encodings(d), g)
    BY SubTyped
  <2>2. MessageAt(m, p) /\ t \in DOMAIN Schema[m] /\ g.atype = "static" /\ g.htype = "repeated"
    OBVIOUS
  <2>3. g = Schema[m][t] /\ q = Append(p, t)
    OBVIOUS
  <2> DEFINE e == Encodings(d)
             z == ItemBytes(e, d, t, g, q)
  <2>4. SubNumbers(e, g)
    BY <2>1
  <2> HIDE DEF m, p, g, q, e
  <2>5. /\ Items(d, g, q) \in Nat
        /\ z \in Seq(Seq(Nat))
        /\ Len(z) = Items(d, g, q)
        /\ FlattenSeq(z) \in Seq(Nat)
    <3>1. Items(d, g, q) \in Nat /\ z \in Seq(Seq(Nat)) /\ FlattenSeq(z) \in Seq(Nat)
      BY <2>2, <2>3, <2>4, ItemNumbers
    <3>2. Len(z) = Items(d, g, q)
      BY <3>1 DEF ItemBytes
    <3>3. QED
      BY <3>1, <3>2
  <2>6. QED
    BY <2>5 DEF e
<1>2. \A n \in 1..Items(d, g, q) :
         s[n] = IF IsPacked(g) THEN ValueBytes(Encodings(d), d, g, Append(q, n))
                               ELSE TaggedBytes(Encodings(d), d, t, g, Append(q, n))
  BY DEF ItemBytes
<1>3. ItemsIn(d, f, t) = s /\ NumberOf(d, f, t) = Items(d, g, q)
  BY DEF ItemsIn, NumberOf
<1> HIDE DEF s
<1>4. QED
  BY <1>1, <1>2, <1>3

(* The field that is next, and the fields before it that are not there.    *)
LEMMA NextIs ==
    ASSUME NEW d \in Sources, NEW f \in CallType, CallPlaced(d, f), f.packed = 0,
           NEW t \in Waiting(d, f), \A u \in Waiting(d, f) : t <= u
    PROVE  /\ t = Min(Waiting(d, f)) /\ f.at < t /\ f.at # Huge /\ t # Huge
           /\ t \in DOMAIN Schema[f.msg] /\ Present(d, f.msg, f.path, t)
           /\ t \in 1..Len(FieldsIn(d, f)) /\ f.at \in 0..Len(FieldsIn(d, f))
           /\ First(FieldsIn(d, f), f.at) \in Seq(Nat) /\ First(FieldsIn(d, f), t) \in Seq(Nat)
           /\ FieldsIn(d, f)[t] = FieldBytes(Encodings(d), d, t, Schema[f.msg][t], Append(f.path, t))
           /\ FieldsIn(d, f)[t] \in Seq(Nat)
           /\ First(FieldsIn(d, f), t) = First(FieldsIn(d, f), f.at) \o FieldsIn(d, f)[t]
<1> DEFINE s == FieldsIn(d, f)
           L == Len(s)
<1>1. t \in DOMAIN Schema[f.msg] /\ t > f.at /\ Present(d, f.msg, f.path, t)
  BY DEF Waiting
<1>2. MessageAt(f.msg, f.path) /\ f.at \in Nat /\ f.msg \in DOMAIN Schema
  BY PlacedAt, CallFacts
<1>3. /\ s \in Seq(Seq(Nat)) /\ L \in Nat
      /\ \A x \in DOMAIN Schema[f.msg] : x \in 1..L
      /\ \A x \in 1..L :
            s[x] = IF x \in DOMAIN Schema[f.msg] /\ Present(d, f.msg, f.path, x)
                   THEN FieldBytes(Encodings(d), d, x, Schema[f.msg][x], Append(f.path, x)) ELSE <<>>
  BY <1>2, FieldsAre
<1>4. t \in Nat /\ t < Huge
  <2>1. t \in 1..(Huge \div 8 - 1)
    BY <1>1, <1>2, SchemaAssumption
  <2>2. \A h \in Nat : h \div 8 <= h /\ h \div 8 \in Nat
    OBVIOUS
  <2>3. Huge \in Nat /\ Huge \div 8 <= Huge /\ Huge \div 8 \in Nat
    BY <2>2, HugeType
  <2>4. QED
    BY <2>1, <2>3
<1>5. f.at # Huge /\ t # Huge /\ f.at < t
  BY <1>1, <1>2, <1>4, HugeType
<1>6. Min(Waiting(d, f)) = t
  <2> DEFINE W == Waiting(d, f)
  <2>1. W \subseteq Nat
    <3>1. \A u \in DOMAIN Schema[f.msg] : u \in Nat
      BY <1>2, DescShape
    <3>2. QED
      BY <3>1 DEF Waiting
  <2>2. t \in W /\ \A u \in W : t <= u
    OBVIOUS
  <2> HIDE DEF W
  <2>3. Min(W) \in W /\ \A u \in W : Min(W) <= u
    <3>1. \E x \in W : \A u \in W : x <= u
      BY <2>2
    <3>2. QED
      BY <3>1 DEF Min
  <2>4. Min(W) <= t /\ t <= Min(W) /\ Min(W) \in Nat
    BY <2>1, <2>2, <2>3
  <2>5. Min(W) = t
    BY <1>4, <2>4
  <2>6. QED
    BY <2>5 DEF W
<1> HIDE DEF s
<1>7. t \in 1..L /\ t - 1 \in 0..L /\ f.at \in 0..L /\ t - 1 \in (f.at)..L
  BY <1>1, <1>2, <1>3, <1>4, <1>5
<1>8. \A i \in (f.at + 1)..(t - 1) : s[i] = <<>>
  <2> TAKE i \in (f.at + 1)..(t - 1)
  <2>1. i \in 1..L /\ i > f.at /\ ~(t <= i)
    BY <1>2, <1>7
  <2>2. i \notin Waiting(d, f)
    BY <2>1
  <2>3. ~(i \in DOMAIN Schema[f.msg] /\ Present(d, f.msg, f.path, i))
    BY <2>1, <2>2 DEF Waiting
  <2>4. QED
    BY <1>3, <2>1, <2>3
<1>9. First(s, t - 1) = First(s, f.at)
  BY <1>3, <1>7, <1>8, FirstSame
<1>10. First(s, t) = First(s, t - 1) \o s[t]
  BY <1>3, <1>7, FirstSteps
<1>11. First(s, f.at) \in Seq(Nat) /\ First(s, t) \in Seq(Nat) /\ s[t] \in Seq(Nat)
  <2>1. t \in 0..L
    BY <1>7
  <2>2. QED
    BY <1>3, <1>7, <2>1, FirstSteps, ElementOfSeq
<1>12. QED
  BY <1>1, <1>3, <1>5, <1>6, <1>7, <1>9, <1>10, <1>11 DEF s

(* In the middle of an array.                                              *)
LEMMA MidArray ==
    ASSUME NEW d \in Sources, NEW f \in CallType, CallPlaced(d, f), f.packed = 0, f.item # 1
    PROVE  LET t == Min(Waiting(d, f)) IN
           /\ f.at # Huge
           /\ t \in Waiting(d, f) /\ \A u \in Waiting(d, f) : t <= u
           /\ Schema[f.msg][t].atype = "static" /\ Schema[f.msg][t].htype = "repeated"
           /\ ~IsPacked(Schema[f.msg][t])
           /\ f.item <= NumberOf(d, f, t)
<1> DEFINE W == Waiting(d, f)
<1>1. /\ f.at # Huge /\ W # {}
      /\ StaticArray(Schema[f.msg][Min(W)]) /\ ~IsPacked(Schema[f.msg][Min(W)])
      /\ f.item <= NumberOf(d, f, Min(W))
  BY DEF CallPlaced
<1>2. W \in SUBSET Nat
  <2>1. f.msg \in DOMAIN Schema
    BY CallFacts
  <2>2. \A u \in DOMAIN Schema[f.msg] : u \in Nat
    BY <2>1, DescShape
  <2>3. QED
    BY <2>2 DEF Waiting
<1> HIDE DEF W
<1>3. \E x \in W : \A u \in W : x <= u
  BY <1>1, <1>2, LeastOf
<1>4. Min(W) \in W /\ \A u \in W : Min(W) <= u
  BY <1>3 DEF Min
<1>5. QED
  BY <1>1, <1>4 DEF W, StaticArray

LEMMA RootAt == MessageAt(Root, <<>>) /\ \A d \in Sources : Wire(d) \in Seq(Nat)
<1>1. MessageAt(Root, <<>>)
  BY LocationRoot, SchemaAssumption, EmptySeq DEF MessageAt
<1>2. QED
  BY <1>1, EncodingsNumbers DEF Wire

(* What has been reached is part of the whole.                             *)
LEMMA ReachedIsPart ==
    ASSUME NEW d \in Sources, NEW f \in CallType, CallPlaced(d, f)
    PROVE  /\ Whole(d, f) \in Seq(Nat) /\ Len(Whole(d, f)) \in Nat
           /\ Reached(d, f) \in Seq(Nat) /\ Len(Reached(d, f)) \in Nat
           /\ Len(Reached(d, f)) <= Len(Whole(d, f))
<1>1. MessageAt(f.msg, f.path) /\ f.msg \in DOMAIN Schema /\ f.at \in Nat /\ f.item \in Nat \ {0}
  BY PlacedAt, CallFacts
<1>2. CASE f.packed # 0
  <2> DEFINE t == f.packed
             s == ItemsIn(d, f, t)
  <2>1. /\ t \in DOMAIN Schema[f.msg] /\ Schema[f.msg][t].atype = "static"
        /\ Schema[f.msg][t].htype = "repeated" /\ f.item <= NumberOf(d, f, t) + 1
    BY <1>2, CallFacts DEF CallPlaced, IsPacked, IsArray
  <2>2. /\ NumberOf(d, f, t) \in Nat /\ s \in Seq(Seq(Nat)) /\ Len(s) = NumberOf(d, f, t)
        /\ FlattenSeq(s) \in Seq(Nat)
    BY <1>1, <2>1, ArrayItems
  <2>3. Whole(d, f) = FlattenSeq(s) /\ Reached(d, f) = First(s, f.item - 1)
    BY <1>2 DEF Whole, Reached
  <2> HIDE DEF t, s
  <2>4. f.item - 1 \in 0..Len(s) /\ Len(s) \in (f.item - 1)..Len(s)
    BY <1>1, <2>1, <2>2
  <2>5. First(s, f.item - 1) \in Seq(Nat) /\ First(s, Len(s)) = FlattenSeq(s)
    BY <2>2, <2>4, FirstSteps
  <2>6. Len(First(s, f.item - 1)) <= Len(First(s, Len(s)))
    BY <2>2, <2>4, FirstShorter
  <2>7. QED
    BY <2>2, <2>3, <2>5, <2>6, LenProperties
<1>3. CASE f.packed = 0 /\ f.at = Huge
  <2>1. Whole(d, f) = WithLength(Wire(d)) /\ Reached(d, f) = Whole(d, f)
    BY <1>3 DEF Whole, Reached
  <2>2. Whole(d, f) \in Seq(Nat)
    BY <2>1, RootAt, LengthNumbers
  <2>3. Len(Whole(d, f)) \in Nat
    BY <2>2, LenProperties
  <2>4. QED
    BY <2>1, <2>2, <2>3
<1>4. CASE f.packed = 0 /\ f.at # Huge
  <2> DEFINE s == FieldsIn(d, f)
  <2>1. /\ s \in Seq(Seq(Nat)) /\ Len(s) \in Nat /\ FlattenSeq(s) = Encodings(d)[f.msg][f.path]
        /\ FlattenSeq(s) \in Seq(Nat)
    BY <1>1, FieldsAre
  <2>2. Whole(d, f) = FlattenSeq(s)
    BY <1>4, <2>1 DEF Whole
  <2>3. f.at \in 0..Len(s) /\ Len(s) \in (f.at)..Len(s)
    <3>1. f.at <= Len(s)
      BY <1>4 DEF CallPlaced
    <3> HIDE DEF s
    <3>2. QED
      BY <1>1, <2>1, <3>1
  <2>4. CASE f.item = 1
    <3>1. Reached(d, f) = First(s, f.at) \o <<>>
      BY <1>4, <2>4 DEF Reached
    <3> HIDE DEF s
    <3>2. First(s, f.at) \in Seq(Nat) /\ First(s, Len(s)) = FlattenSeq(s)
      BY <2>1, <2>3, FirstSteps
    <3>3. Len(First(s, f.at)) <= Len(First(s, Len(s)))
      BY <2>1, <2>3, FirstShorter
    <3>4. Reached(d, f) = First(s, f.at)
      BY <3>1, <3>2, ConcatEmptySeq
    <3>5. QED
      BY <2>1, <2>2, <3>2, <3>3, <3>4, LenProperties
  <2>5. CASE f.item # 1
    <3> DEFINE W == Waiting(d, f)
               t == Min(W)
               g == Schema[f.msg][t]
               z == ItemsIn(d, f, t)
    <3>1. /\ t \in W /\ \A u \in W : t <= u
          /\ g.atype = "static" /\ g.htype = "repeated" /\ ~IsPacked(g)
          /\ f.item <= NumberOf(d, f, t)
      BY <1>4, <2>5, MidArray
    <3>2. Reached(d, f) = First(s, f.at) \o First(z, f.item - 1)
      BY <1>4, <2>5 DEF Reached
    <3> HIDE DEF t
    <3>3. /\ t \in DOMAIN Schema[f.msg] /\ t \in 1..Len(s)
          /\ First(s, f.at) \in Seq(Nat) /\ First(s, t) \in Seq(Nat)
          /\ s[t] = FieldBytes(Encodings(d), d, t, g, Append(f.path, t)) /\ s[t] \in Seq(Nat)
          /\ First(s, t) = First(s, f.at) \o s[t]
      BY <1>4, <3>1, NextIs
    <3>4. /\ NumberOf(d, f, t) \in Nat /\ z \in Seq(Seq(Nat)) /\ Len(z) = NumberOf(d, f, t)
          /\ FlattenSeq(z) \in Seq(Nat)
      BY <1>1, <3>1, <3>3, ArrayItems
    <3>5. s[t] = FlattenSeq(z)
      BY <3>1, <3>3 DEF FieldBytes, IsArray, ItemsIn
    <3> HIDE DEF s, z, g, W
    <3>6. f.item - 1 \in 0..Len(z) /\ Len(z) \in (f.item - 1)..Len(z) /\ t \in 0..Len(s) /\ Len(s) \in t..Len(s)
      <4>1. f.item \in Nat \ {0} /\ Len(z) \in Nat /\ f.item <= Len(z)
        BY <1>1, <3>1, <3>4
      <4>2. Len(s) \in Nat /\ t \in 1..Len(s)
        BY <2>1, <3>3
      <4>3. QED
        BY <4>1, <4>2
    <3>7. First(z, f.item - 1) \in Seq(Nat) /\ First(z, Len(z)) = FlattenSeq(z)
      BY <3>4, <3>6, FirstSteps
    <3>8. Len(First(z, f.item - 1)) <= Len(First(z, Len(z)))
      BY <3>4, <3>6, FirstShorter
    <3>9. Len(First(s, t)) <= Len(First(s, Len(s))) /\ First(s, Len(s)) = FlattenSeq(s)
      BY <2>1, <3>6, FirstShorter, FirstSteps
    <3>10. /\ Reached(d, f) \in Seq(Nat)
           /\ Len(Reached(d, f)) = Len(First(s, f.at)) + Len(First(z, f.item - 1))
           /\ Len(First(s, t)) = Len(First(s, f.at)) + Len(s[t])
           /\ Len(First(s, f.at)) \in Nat /\ Len(First(z, f.item - 1)) \in Nat /\ Len(s[t]) \in Nat
      BY <3>2, <3>3, <3>7, JoinedNumbers
    <3> DEFINE a == Len(First(s, f.at))
               b == Len(First(z, f.item - 1))
               c == Len(s[t])
               w == Len(Whole(d, f))
    <3>11. a \in Nat /\ b \in Nat /\ c \in Nat /\ w \in Nat /\ b <= c /\ a + c <= w
      BY <2>1, <2>2, <3>5, <3>7, <3>8, <3>9, <3>10, LenProperties
    <3>12. Len(Reached(d, f)) = a + b
      BY <3>10
    <3> HIDE DEF a, b, c, w
    <3>13. a + b <= w /\ a + b \in Nat
      BY <3>11
    <3>14. QED
      BY <2>1, <2>2, <3>10, <3>12, <3>13, <3>11 DEF w
  <2>6. QED
    BY <2>4, <2>5
<1>5. QED
  BY <1>2, <1>3, <1>4

----------------------------------------------------------------------------
(* How a call gets on: with each step it has reached what it writes then.  *)

(* The call x is the call f, further on in its message or array.           *)
Onward(x, f) ==
    /\ x \in CallType /\ x.msg = f.msg /\ x.path = f.path /\ x.packed = f.packed
    /\ x.sizing = f.sizing /\ x.from = f.from /\ x.max = f.max
    /\ x.at = Huge <=> f.at = Huge

LEMMA MovedItem ==
    ASSUME NEW f \in CallType, NEW i \in Nat \ {0}, NEW x, x = [f EXCEPT !.item = i]
    PROVE  Onward(x, f) /\ x.written = f.written /\ x.item = i /\ x.at = f.at
  BY DEF CallType, Onward

LEMMA MovedField ==
    ASSUME NEW f \in CallType, NEW t \in Nat, t # Huge, f.at # Huge, NEW x, x = [f EXCEPT !.at = t]
    PROVE  Onward(x, f) /\ x.written = f.written /\ x.item = f.item /\ x.at = t
  BY DEF CallType, Onward

LEMMA OnwardWhole ==
    ASSUME NEW d, NEW f, NEW x, Onward(x, f)
    PROVE  Whole(d, x) = Whole(d, f) /\ FieldsIn(d, x) = FieldsIn(d, f)
<1>1. x.msg = f.msg /\ x.path = f.path /\ x.packed = f.packed /\ (x.at = Huge <=> f.at = Huge)
  BY DEF Onward
<1>2. FieldsIn(d, x) = FieldsIn(d, f)
  BY <1>1 DEF FieldsIn
<1>3. \A t : ItemsIn(d, x, t) = ItemsIn(d, f, t)
  BY <1>1 DEF ItemsIn
<1>4. QED
  BY <1>1, <1>2, <1>3 DEF Whole

(* The call x is the call f after gain has been written by it, or is about *)
(* to be by a call it opens.                                               *)
Gains(d, x, f, gain) ==
    /\ x \in CallType /\ Onward(x, f) /\ x.written = f.written /\ CallPlaced(d, x)
    /\ Reached(d, x) = Reached(d, f) \o gain

(* The field t, which g describes and which is at q, is next in f.         *)
ComesNext(d, f, t, g, q) ==
    /\ d \in Sources /\ f \in CallType /\ CallPlaced(d, f) /\ f.packed = 0
    /\ t \in Waiting(d, f) /\ \A u \in Waiting(d, f) : t <= u
    /\ g = Schema[f.msg][t] /\ q = Append(f.path, t)

(* A field has been encoded as a whole.                                    *)
LEMMA FieldDone ==
    ASSUME NEW d \in Sources, NEW f \in CallType, CallPlaced(d, f), f.packed = 0,
           NEW t \in Waiting(d, f), \A u \in Waiting(d, f) : t <= u,
           NEW x, Onward(x, f), x.at = t, x.item = 1
    PROVE  /\ CallPlaced(d, x)
           /\ Reached(d, x) = First(FieldsIn(d, f), t)
<1>1. /\ t \in 1..Len(FieldsIn(d, f)) /\ t # Huge /\ f.at # Huge
      /\ First(FieldsIn(d, f), t) \in Seq(Nat)
  BY NextIs
<1>2. /\ x.msg = f.msg /\ x.path = f.path /\ x.packed = 0
  BY DEF Onward
<1>3. FieldsIn(d, x) = FieldsIn(d, f)
  BY OnwardWhole
<1>4. Reached(d, x) = First(FieldsIn(d, f), t)
  <2>1. Reached(d, x) = First(FieldsIn(d, f), t) \o <<>>
    BY <1>1, <1>2, <1>3 DEF Reached
  <2>2. QED
    BY <1>1, <2>1, ConcatEmptySeq
<1>5. Location(x.path) = Spot("message", x.msg, 0)
  BY <1>2 DEF CallPlaced
<1>6. x.at <= Len(FieldsIn(d, x))
  BY <1>1, <1>3
<1>7. CallPlaced(d, x)
  BY <1>2, <1>5, <1>6 DEF CallPlaced
<1>8. QED
  BY <1>4, <1>7

AfterField(x, f, t) == x = [f EXCEPT !.at = t]

LEMMA FieldStep ==
    ASSUME NEW d, NEW f, NEW t, NEW g, NEW q, ComesNext(d, f, t, g, q),
           g.atype = "callback" \/ IsPacked(g),
           NEW x, AfterField(x, f, t)
    PROVE  /\ FieldBytes(Encodings(d), d, t, g, q) \in Seq(Nat)
           /\ Gains(d, x, f, FieldBytes(Encodings(d), d, t, g, q))
<1>0. /\ d \in Sources /\ f \in CallType /\ CallPlaced(d, f) /\ f.packed = 0
      /\ t \in Waiting(d, f) /\ \A u \in Waiting(d, f) : t <= u
      /\ g = Schema[f.msg][t] /\ q = Append(f.path, t)
  BY DEF ComesNext
<1> USE <1>0
<1> DEFINE s == FieldsIn(d, f)
<1>1. /\ t = Min(Waiting(d, f)) /\ f.at # Huge /\ t # Huge
      /\ First(s, f.at) \in Seq(Nat)
      /\ s[t] = FieldBytes(Encodings(d), d, t, g, q) /\ s[t] \in Seq(Nat)
      /\ First(s, t) = First(s, f.at) \o s[t]
      /\ t \in DOMAIN Schema[f.msg]
  BY NextIs
<1>2. f.item = 1
  <2>1. ASSUME f.item # 1 PROVE FALSE
    <3>1. g.atype = "static" /\ ~IsPacked(g)
      BY <1>1, <2>1, MidArray
    <3>2. QED
      BY <3>1
  <2>2. QED
    BY <2>1
<1>3. f.msg \in DOMAIN Schema
  BY CallFacts
<1>4. t \in Nat
  BY <1>1, <1>3, DescShape
<1>5. Onward(x, f) /\ x.written = f.written /\ x.at = t /\ x.item = 1
  BY <1>1, <1>2, <1>4, MovedField DEF AfterField
<1>6. CallPlaced(d, x) /\ Reached(d, x) = First(s, t)
  BY <1>5, FieldDone
<1>7. Reached(d, f) = First(s, f.at)
  <2>1. Reached(d, f) = First(s, f.at) \o <<>>
    BY <1>1, <1>2 DEF Reached
  <2>2. QED
    BY <1>1, <2>1, ConcatEmptySeq
<1> HIDE DEF s
<1>8. QED
  BY <1>1, <1>5, <1>6, <1>7 DEF Gains, Onward

(* The call x is after the value, at place, of the field t or its item.    *)
Follows(d, x, f, t, g, q, place) ==
    /\ place = IF IsArray(g) THEN Append(q, f.item) ELSE q
    /\ x = IF IsArray(g) /\ f.item < Items(d, g, q)
           THEN [f EXCEPT !.item = f.item + 1] ELSE [f EXCEPT !.at = t, !.item = 1]

LEMMA ValueStep ==
    ASSUME NEW d, NEW f, NEW t, NEW g, NEW q, ComesNext(d, f, t, g, q),
           g.atype = "static", ~IsPacked(g),
           NEW x, NEW place, Follows(d, x, f, t, g, q, place)
    PROVE  /\ ValueAt(f.msg, t, place)
           /\ TaggedBytes(Encodings(d), d, t, g, place) \in Seq(Nat)
           /\ Gains(d, x, f, TaggedBytes(Encodings(d), d, t, g, place))
<1>0. /\ d \in Sources /\ f \in CallType /\ CallPlaced(d, f) /\ f.packed = 0
      /\ t \in Waiting(d, f) /\ \A u \in Waiting(d, f) : t <= u
      /\ g = Schema[f.msg][t] /\ q = Append(f.path, t)
  BY DEF ComesNext
<1> USE <1>0
<1> DEFINE s == FieldsIn(d, f)
           W == Waiting(d, f)
<1>1. /\ t = Min(W) /\ f.at # Huge /\ t # Huge
      /\ First(s, f.at) \in Seq(Nat)
      /\ s[t] = FieldBytes(Encodings(d), d, t, g, q) /\ s[t] \in Seq(Nat)
      /\ First(s, t) = First(s, f.at) \o s[t]
      /\ t \in DOMAIN Schema[f.msg]
      /\ Present(d, f.msg, f.path, t)
  BY NextIs
<1>2. f.msg \in DOMAIN Schema /\ f.item \in Nat \ {0} /\ f.path \in Seq(Nat \ {0})
  BY CallFacts
<1>3. t \in Nat /\ 1 \in Nat \ {0} /\ f.item + 1 \in Nat \ {0}
  BY <1>1, <1>2, DescShape
<1>4. MessageAt(f.msg, f.path)
  BY PlacedAt
<1>5. CASE ~IsArray(g)
  <2>1. g.htype # "repeated"
    BY <1>5 DEF IsArray
  <2>2. ValueAt(f.msg, t, q)
    BY <1>1, <1>4, <2>1, ValuePlaces
  <2>3. s[t] = TaggedBytes(Encodings(d), d, t, g, q)
    BY <1>1, <2>1 DEF FieldBytes, IsArray, IsPacked
  <2>4. f.item = 1
    <3>1. ASSUME f.item # 1 PROVE FALSE
      <4>1. g.htype = "repeated"
        BY <1>1, <3>1, MidArray
      <4>2. QED
        BY <2>1, <4>1
    <3>2. QED
      BY <3>1
  <2>5. x = [f EXCEPT !.at = t, !.item = 1] /\ place = q
    BY <1>5 DEF Follows
  <2>6. Onward(x, f) /\ x.written = f.written /\ x.at = t /\ x.item = 1
    BY <1>1, <1>3, <2>5 DEF CallType, Onward
  <2>7. CallPlaced(d, x) /\ Reached(d, x) = First(s, t)
    BY <2>6, FieldDone
  <2>8. Reached(d, f) = First(s, f.at)
    <3>1. Reached(d, f) = First(s, f.at) \o <<>>
      BY <1>1, <2>4 DEF Reached
    <3>2. QED
      BY <1>1, <3>1, ConcatEmptySeq
  <2> HIDE DEF s
  <2>9. QED
    BY <1>1, <2>2, <2>3, <2>5, <2>6, <2>7, <2>8 DEF Gains, Onward
<1>6. CASE IsArray(g)
  <2> DEFINE z == ItemsIn(d, f, t)
             N == NumberOf(d, f, t)
             i == f.item
  <2>1. g.htype = "repeated" /\ place = Append(q, i)
    BY <1>6 DEF IsArray, Follows
  <2>2. /\ N \in Nat /\ z \in Seq(Seq(Nat)) /\ Len(z) = N /\ FlattenSeq(z) \in Seq(Nat)
        /\ \A n \in 1..N : z[n] = TaggedBytes(Encodings(d), d, t, g, Append(q, n))
    BY <1>1, <1>4, <2>1, ArrayItems
  <2>3. N = Items(d, g, q)
    BY DEF NumberOf
  <2>4. s[t] = FlattenSeq(z)
    BY <1>1, <1>6 DEF FieldBytes, ItemsIn
  <2>5. i \in 1..N
    <3>1. CASE i = 1
      <4>1. Items(d, g, q) # 0
        BY <1>1, <2>1 DEF Present
      <4> HIDE DEF N
      <4>2. QED
        BY <2>2, <2>3, <3>1, <4>1
    <3>2. CASE i # 1
      <4>1. i <= N
        BY <1>1, <3>2, MidArray
      <4> HIDE DEF N
      <4>2. QED
        BY <1>2, <2>2, <4>1
    <3>3. QED
      BY <3>1, <3>2
  <2>6. ValueAt(f.msg, t, place)
    <3>1. \A n \in Nat \ {0} : ValueAt(f.msg, t, Append(q, n))
      BY <1>1, <1>4, <2>1, ValuePlaces
    <3>2. QED
      BY <1>2, <2>1, <3>1
  <2>7. Reached(d, f) = First(s, f.at) \o First(z, i - 1)
    <3>1. CASE i = 1
      <4>1. Reached(d, f) = First(s, f.at) \o <<>>
        BY <1>1, <3>1 DEF Reached
      <4>2. i - 1 = 0
        BY <3>1
      <4> HIDE DEF i, s, z
      <4>3. First(z, 0) = <<>>
        BY <2>2, FirstSteps
      <4>4. QED
        BY <4>1, <4>2, <4>3
    <3>2. CASE i # 1
      BY <1>1, <3>2 DEF Reached
    <3>3. QED
      BY <3>1, <3>2
  <2>8. z[i] = TaggedBytes(Encodings(d), d, t, g, place)
    BY <2>1, <2>2, <2>5
  <2> DEFINE tagged == TaggedBytes(Encodings(d), d, t, g, place)
  <2> HIDE DEF z, N, tagged
  <2>9. i - 1 \in 0..Len(z) /\ i \in 1..Len(z) /\ i \in 0..Len(z)
    BY <2>2, <2>5
  <2>10. /\ First(z, i - 1) \in Seq(Nat) /\ First(z, i) = First(z, i - 1) \o z[i]
         /\ First(z, i) \in Seq(Nat) /\ First(z, Len(z)) = FlattenSeq(z)
    BY <2>2, <2>9, FirstSteps
  <2>11. tagged \in Seq(Nat)
    <3>1. z[i] \in Seq(Nat)
      BY <2>2, <2>9, ElementOfSeq
    <3>2. QED
      BY <2>8, <3>1 DEF tagged
  <2> HIDE DEF i, s
  <2>12. Reached(d, f) \o tagged = First(s, f.at) \o First(z, i)
    <3>1. First(z, i) = First(z, i - 1) \o tagged
      BY <2>8, <2>10 DEF tagged
    <3>2. (First(s, f.at) \o First(z, i - 1)) \o tagged = First(s, f.at) \o (First(z, i - 1) \o tagged)
      <4>1. First(s, f.at) \in Seq(Nat) /\ First(z, i - 1) \in Seq(Nat)
        BY <1>1, <2>10
      <4>2. QED
        BY <4>1, <2>11, ConcatAssociative, SMTT(30)
    <3>3. QED
      BY <2>7, <3>1, <3>2
  <2>13. CASE i < N
    <3>1. x = [f EXCEPT !.item = f.item + 1]
      BY <1>6, <2>3, <2>13 DEF i, Follows
    <3>2. Onward(x, f) /\ x.written = f.written /\ x.item = f.item + 1 /\ x.at = f.at
      BY <1>1, <1>3, <3>1 DEF CallType, Onward
    <3>3. /\ x.msg = f.msg /\ x.path = f.path /\ x.packed = 0 /\ x.at # Huge
          /\ x.item = i + 1 /\ x.item - 1 = i /\ x.item # 1 /\ x.item <= N
      <4>1. x.msg = f.msg /\ x.path = f.path /\ x.packed = 0 /\ x.at # Huge /\ x.item = i + 1
        BY <1>1, <3>2 DEF Onward, i
      <4>2. i \in Nat /\ N \in Nat /\ i # 0
        BY <2>2, <2>5
      <4>3. QED
        BY <2>13, <4>1, <4>2
    <3>4. Waiting(d, x) = W
      BY <3>2, <3>3 DEF Waiting
    <3>5. FieldsIn(d, x) = s /\ ItemsIn(d, x, t) = z /\ NumberOf(d, x, t) = N
      BY <3>3 DEF FieldsIn, ItemsIn, NumberOf, s, z, N
    <3>6. Reached(d, x) = First(s, f.at) \o First(z, i)
      <4>1. Reached(d, x) = First(FieldsIn(d, x), x.at) \o First(ItemsIn(d, x, Min(Waiting(d, x))), x.item - 1)
        BY <3>3 DEF Reached
      <4> HIDE DEF W
      <4>2. QED
        BY <1>1, <3>2, <3>3, <3>4, <3>5, <4>1
    <3>7. CallPlaced(d, x)
      <4>1. Location(x.path) = Spot("message", x.msg, 0) /\ x.at <= Len(FieldsIn(d, x))
        BY <1>1, <3>2, <3>3, <3>5 DEF CallPlaced, s
      <4>2. t \in W
        OBVIOUS
      <4> HIDE DEF W
      <4>3. /\ Waiting(d, x) # {} /\ Min(Waiting(d, x)) = t
            /\ StaticArray(Schema[x.msg][t]) /\ ~IsPacked(Schema[x.msg][t])
            /\ x.item <= NumberOf(d, x, t)
        BY <1>1, <2>1, <3>3, <3>4, <3>5, <4>2 DEF StaticArray
      <4>4. QED
        BY <3>3, <4>1, <4>3 DEF CallPlaced
    <3>8. QED
      BY <2>6, <2>11, <2>12, <3>2, <3>6, <3>7 DEF tagged, Gains, Onward
  <2>14. CASE ~(i < N)
    <3>1. x = [f EXCEPT !.at = t, !.item = 1]
      BY <2>3, <2>14 DEF i, Follows
    <3>2. Onward(x, f) /\ x.written = f.written /\ x.at = t /\ x.item = 1
      BY <1>1, <1>3, <3>1 DEF CallType, Onward
    <3>3. CallPlaced(d, x) /\ Reached(d, x) = First(s, t)
      BY <3>2, FieldDone DEF s
    <3>4. i = Len(z)
      BY <2>2, <2>5, <2>14
    <3>5. First(s, t) = First(s, f.at) \o First(z, i)
      BY <1>1, <2>4, <2>10, <3>4
    <3>6. QED
      BY <2>6, <2>11, <2>12, <3>2, <3>3, <3>5 DEF tagged, Gains, Onward
  <2>15. QED
    BY <2>13, <2>14
<1>7. QED
  BY <1>5, <1>6

AfterItem(x, f) == x = [f EXCEPT !.item = f.item + 1]

LEMMA ItemStep ==
    ASSUME NEW d \in Sources, NEW f \in CallType, CallPlaced(d, f), f.packed # 0,
           NEW t, t = f.packed, NEW g, g = Schema[f.msg][t],
           NEW q, q = Append(f.path, t), f.item <= Items(d, g, q),
           NEW x, AfterItem(x, f),
           NEW data, data = Data(g, Datum(d, g, Append(q, f.item)))
    PROVE  data \in Seq(Nat) /\ Gains(d, x, f, data)
<1> DEFINE z == ItemsIn(d, f, t)
           N == NumberOf(d, f, t)
           i == f.item
<1>1. /\ f.msg \in DOMAIN Schema /\ i \in Nat \ {0} /\ f.path \in Seq(Nat \ {0})
      /\ t \in DOMAIN Schema[f.msg] /\ IsPacked(g) /\ i + 1 \in Nat \ {0}
  BY CallFacts
<1>2. g.htype = "repeated" /\ g.ltype \in Packable
  BY <1>1 DEF IsPacked, IsArray
<1>3. g.atype = "static"
  BY DEF CallPlaced
<1>4. MessageAt(f.msg, f.path)
  BY PlacedAt
<1>5. /\ N \in Nat /\ z \in Seq(Seq(Nat)) /\ Len(z) = N
      /\ \A n \in 1..N : z[n] = ValueBytes(Encodings(d), d, g, Append(q, n))
  BY <1>1, <1>2, <1>3, <1>4, ArrayItems
<1>6. i <= N
  BY DEF NumberOf
<1>7. z[i] = data
  <2>1. i \in 1..N
    BY <1>1, <1>5, <1>6
  <2>2. ValueBytes(Encodings(d), d, g, Append(q, i)) = data
    BY <1>2 DEF ValueBytes, HasLength, Packable
  <2> HIDE DEF i, N, z
  <2>3. QED
    BY <1>5, <2>1, <2>2
<1>8. Onward(x, f) /\ x.written = f.written /\ x.item = i + 1
  BY <1>1, MovedItem DEF AfterItem
<1>9. x.msg = f.msg /\ x.path = f.path /\ x.packed = t
  BY <1>8 DEF Onward
<1>10. ItemsIn(d, x, t) = z /\ NumberOf(d, x, t) = N
  BY <1>9 DEF ItemsIn, NumberOf
<1>11. Reached(d, x) = First(z, i) /\ Reached(d, f) = First(z, i - 1)
  <2>1. Reached(d, x) = First(ItemsIn(d, x, t), x.item - 1) /\ Reached(d, f) = First(z, i - 1)
    BY <1>9 DEF Reached
  <2>2. x.item - 1 = i
    BY <1>1, <1>8
  <2> HIDE DEF z, i
  <2>3. QED
    BY <1>10, <2>1, <2>2
<1>12. CallPlaced(d, x)
  <2>1. Location(x.path) = Spot("message", x.msg, 0) /\ Schema[x.msg][x.packed].atype = "static"
    BY <1>3, <1>9 DEF CallPlaced
  <2>2. x.item <= NumberOf(d, x, x.packed) + 1
    <3> HIDE DEF N, i
    <3>1. QED
      BY <1>1, <1>5, <1>6, <1>8, <1>9, <1>10
  <2>3. x.packed # 0
    BY <1>9
  <2>4. QED
    BY <2>1, <2>2, <2>3 DEF CallPlaced
<1> HIDE DEF z, N, i
<1>13. i \in 1..Len(z)
  BY <1>1, <1>5, <1>6
<1>14. First(z, i) = First(z, i - 1) \o z[i] /\ z[i] \in Seq(Nat)
  BY <1>5, <1>13, FirstSteps, ElementOfSeq
<1>15. QED
  BY <1>7, <1>8, <1>11, <1>12, <1>14 DEF Gains, Onward

(* A call that is done has reached all.                                    *)
LEMMA DoneIsWhole ==
    ASSUME NEW d \in Sources, NEW f \in CallType, CallPlaced(d, f),
           IF f.packed # 0 THEN f.item > NumberOf(d, f, f.packed) ELSE Waiting(d, f) = {}
    PROVE  Reached(d, f) = Whole(d, f)
<1>1. /\ f.msg \in DOMAIN Schema /\ f.item \in Nat \ {0} /\ f.at \in Nat
      /\ f.packed # 0 => f.packed \in DOMAIN Schema[f.msg] /\ IsPacked(Schema[f.msg][f.packed])
      /\ MessageAt(f.msg, f.path)
  BY CallFacts, PlacedAt
<1>2. CASE f.packed # 0
  <2> DEFINE t == f.packed
             z == ItemsIn(d, f, t)
             N == NumberOf(d, f, t)
  <2>1. /\ t \in DOMAIN Schema[f.msg] /\ Schema[f.msg][t].atype = "static"
        /\ Schema[f.msg][t].htype = "repeated" /\ f.item <= N + 1
    BY <1>1, <1>2 DEF CallPlaced, IsPacked, IsArray
  <2>2. N \in Nat /\ z \in Seq(Seq(Nat)) /\ Len(z) = N
    BY <1>1, <2>1, ArrayItems
  <2>3. Reached(d, f) = First(z, f.item - 1) /\ Whole(d, f) = FlattenSeq(z) /\ f.item > N
    BY <1>2 DEF Reached, Whole
  <2> HIDE DEF t, z, N
  <2>4. f.item - 1 = Len(z)
    BY <1>1, <2>1, <2>2, <2>3
  <2>5. First(z, Len(z)) = FlattenSeq(z)
    BY <2>2, FirstSteps
  <2>6. QED
    BY <2>3, <2>4, <2>5
<1>3. CASE f.packed = 0 /\ f.at = Huge
  BY <1>3 DEF Reached
<1>4. CASE f.packed = 0 /\ f.at # Huge
  <2> DEFINE s == FieldsIn(d, f)
  <2>1. f.item = 1 /\ f.at <= Len(s) /\ Waiting(d, f) = {}
    BY <1>4 DEF CallPlaced
  <2>2. /\ s \in Seq(Seq(Nat)) /\ Len(s) \in Nat /\ FlattenSeq(s) = Encodings(d)[f.msg][f.path]
        /\ \A x \in DOMAIN Schema[f.msg] : x \in 1..Len(s)
        /\ \A x \in 1..Len(s) :
              s[x] = IF x \in DOMAIN Schema[f.msg] /\ Present(d, f.msg, f.path, x)
                     THEN FieldBytes(Encodings(d), d, x, Schema[f.msg][x], Append(f.path, x)) ELSE <<>>
    BY <1>1, FieldsAre
  <2>3. Reached(d, f) = First(s, f.at) \o <<>> /\ Whole(d, f) = FlattenSeq(s)
    BY <1>4, <2>1, <2>2 DEF Reached, Whole
  <2> HIDE DEF s
  <2>4. f.at \in 0..Len(s) /\ Len(s) \in (f.at)..Len(s)
    BY <1>1, <2>1, <2>2
  <2>5. \A i \in (f.at + 1)..Len(s) : s[i] = <<>>
    <3> TAKE i \in (f.at + 1)..Len(s)
    <3>1. i \in 1..Len(s) /\ i > f.at
      BY <1>1, <2>2
    <3>2. ~(i \in DOMAIN Schema[f.msg] /\ Present(d, f.msg, f.path, i))
      BY <2>1, <3>1 DEF Waiting
    <3>3. QED
      BY <2>2, <3>1, <3>2
  <2>6. First(s, Len(s)) = First(s, f.at)
    BY <2>2, <2>4, <2>5, FirstSame
  <2>7. First(s, Len(s)) = FlattenSeq(s) /\ First(s, f.at) \in Seq(Nat)
    BY <2>2, <2>4, FirstSteps
  <2>8. QED
    BY <2>3, <2>6, <2>7, ConcatEmptySeq
<1>5. QED
  BY <1>2, <1>3, <1>4

----------------------------------------------------------------------------
(* The stack of calls in step.                                             *)

(* What the call that is opened, if any, will give.                        *)
Opening(d, opened) ==
    IF opened = <<>> THEN <<>>
    ELSE IF opened[1].sizing THEN WithLength(Whole(d, opened[1])) ELSE Whole(d, opened[1])

(* A call at its beginning, in what is left of its stream.                 *)
Begins(d, c, left, o) ==
    /\ c \in CallType /\ CallPlaced(d, c) /\ Reached(d, c) = <<>> /\ c.written = 0
    /\ ~c.sizing => c.from = Len(o)
    /\ c.packed = 0 => c.at # Huge /\ (~c.sizing => c.max = Len(Whole(d, c)))
    /\ (c.packed # 0 /\ ~c.sizing) => c.max = left

OpensRight(d, opened, left, o) ==
    \/ opened = <<>>
    \/ \E c \in CallType : opened = <<c>> /\ Begins(d, c, left, o)

LEMMA PartIs ==
    ASSUME NEW o \in Seq(Nat), NEW a \in Nat, NEW b \in Nat, a + b <= Len(o)
    PROVE  /\ SubSeq(o, a + 1, a + b) \in Seq(Nat) /\ Len(SubSeq(o, a + 1, a + b)) = b
           /\ \A i \in 1..b : SubSeq(o, a + 1, a + b)[i] = o[a + i]
<1> DEFINE m == a + 1
           n == a + b
<1>1. Len(o) \in Nat /\ m \in Int /\ n \in Int /\ m \in Nat /\ m >= 1 /\ n <= Len(o)
  BY LenProperties
<1>2. \A i \in m..n : o[i] \in Nat
  <2> TAKE i \in m..n
  <2>1. i \in 1..Len(o)
    BY <1>1
  <2>2. QED
    BY <2>1, ElementOfSeq
<1>3. /\ n - m + 1 = b /\ (IF m <= n THEN n - m + 1 ELSE 0) = b
      /\ \A i \in 1..b : m + i - 1 = a + i
  OBVIOUS
<1> HIDE DEF m, n
<1>4. /\ SubSeq(o, m, n) \in Seq(Nat)
      /\ Len(SubSeq(o, m, n)) = IF m <= n THEN n - m + 1 ELSE 0
      /\ \A i \in 1..(n - m + 1) : SubSeq(o, m, n)[i] = o[m + i - 1]
  BY <1>1, <1>2, SubSeqProperties
<1>5. Len(SubSeq(o, m, n)) = b
  BY <1>3, <1>4
<1>6. \A i \in 1..b : SubSeq(o, m, n)[i] = o[a + i]
  BY <1>3, <1>4
<1>7. QED
  BY <1>4, <1>5, <1>6 DEF m, n

LEMMA JoinedParts ==
    ASSUME NEW x \in Seq(Nat), NEW y \in Seq(Nat)
    PROVE  /\ x \o y \in Seq(Nat) /\ Len(x \o y) = Len(x) + Len(y)
           /\ \A i \in 1..Len(x) : (x \o y)[i] = x[i]
           /\ \A i \in 1..Len(y) : (x \o y)[Len(x) + i] = y[i]
<1>1. /\ x \o y \in Seq(Nat) /\ Len(x \o y) = Len(x) + Len(y)
      /\ \A i \in 1..(Len(x) + Len(y)) : (x \o y)[i] = IF i <= Len(x) THEN x[i] ELSE y[i - Len(x)]
  BY ConcatProperties
<1>2. Len(x) \in Nat /\ Len(y) \in Nat
  BY LenProperties
<1>3. \A i \in 1..Len(x) : i \in 1..(Len(x) + Len(y)) /\ i <= Len(x)
  BY <1>2
<1>4. \A i \in 1..Len(y) : /\ Len(x) + i \in 1..(Len(x) + Len(y)) /\ ~(Len(x) + i <= Len(x))
                          /\ (Len(x) + i) - Len(x) = i
  BY <1>2
<1>5. QED
  BY <1>1, <1>3, <1>4

LEMMA PartOfLonger ==
    ASSUME NEW o \in Seq(Nat), NEW s \in Seq(Nat), NEW a \in Nat, NEW b \in Nat, a + b <= Len(o)
    PROVE  /\ SubSeq(o \o s, a + 1, a + b) = SubSeq(o, a + 1, a + b)
           /\ SubSeq(o, a + 1, a + b) \in Seq(Nat) /\ Len(SubSeq(o, a + 1, a + b)) = b
           /\ a + b = Len(o) => SubSeq(o \o s, a + 1, a + (b + Len(s))) = SubSeq(o, a + 1, a + b) \o s
<1> DEFINE w == o \o s
           p == SubSeq(o, a + 1, a + b)
           q == SubSeq(w, a + 1, a + b)
<1>1. /\ w \in Seq(Nat) /\ Len(w) = Len(o) + Len(s) /\ Len(o) \in Nat /\ Len(s) \in Nat
      /\ \A i \in 1..Len(o) : w[i] = o[i]
      /\ \A i \in 1..Len(s) : w[Len(o) + i] = s[i]
  BY JoinedParts, LenProperties
<1> HIDE DEF w
<1>2. p \in Seq(Nat) /\ Len(p) = b /\ \A i \in 1..b : p[i] = o[a + i]
  BY PartIs
<1>3. q \in Seq(Nat) /\ Len(q) = b /\ \A i \in 1..b : q[i] = w[a + i]
  <2>1. a + b <= Len(w)
    BY <1>1
  <2>2. QED
    BY <1>1, <2>1, PartIs
<1> HIDE DEF p, q
<1>4. \A i \in 1..b : a + i \in 1..Len(o)
  BY <1>1
<1>5. q = p
  <2>1. \A i \in 1..b : q[i] = p[i]
    BY <1>1, <1>2, <1>3, <1>4
  <2>2. QED
    BY <1>2, <1>3, <2>1, SeqEqual
<1>6. ASSUME a + b = Len(o) PROVE SubSeq(w, a + 1, a + (b + Len(s))) = p \o s
  <2> DEFINE r == SubSeq(w, a + 1, a + (b + Len(s)))
             z == p \o s
  <2>1. a + (b + Len(s)) <= Len(w) /\ b + Len(s) \in Nat
    <3> DEFINE lo == Len(o)
               ls == Len(s)
    <3>1. lo \in Nat /\ ls \in Nat /\ a + b = lo /\ Len(w) = lo + ls
      BY <1>1, <1>6
    <3> HIDE DEF lo, ls
    <3>2. a + (b + ls) <= lo + ls /\ b + ls \in Nat
      BY <3>1
    <3>3. QED
      BY <3>1, <3>2 DEF ls
  <2>2. r \in Seq(Nat) /\ Len(r) = b + Len(s) /\ \A i \in 1..(b + Len(s)) : r[i] = w[a + i]
    BY <1>1, <2>1, PartIs
  <2>3. /\ z \in Seq(Nat) /\ Len(z) = b + Len(s)
        /\ \A i \in 1..b : z[i] = p[i]
        /\ \A i \in 1..Len(s) : z[b + i] = s[i]
    BY <1>2, JoinedParts
  <2> HIDE DEF r, z
  <2>4. ASSUME NEW i \in 1..(b + Len(s)) PROVE r[i] = z[i]
    <3>1. CASE i <= b
      <4>1. i \in 1..b
        BY <3>1
      <4>2. QED
        BY <1>1, <1>2, <1>4, <2>2, <2>3, <4>1
    <3>2. CASE i > b
      <4>1. PICK j \in 1..Len(s) : i = b + j
        <5>1. i - b \in 1..Len(s) /\ i = b + (i - b)
          BY <1>1, <3>2
        <5>2. QED
          BY <5>1
      <4>2. a + i = Len(o) + j
        BY <1>6, <4>1
      <4>3. r[i] = w[a + i] /\ z[i] = s[j] /\ w[Len(o) + j] = s[j]
        BY <1>1, <2>2, <2>3, <4>1
      <4>4. QED
        BY <4>2, <4>3
    <3>3. QED
      BY <3>1, <3>2
  <2>5. r = z
    BY <2>2, <2>3, <2>4, SeqEqual
  <2>6. QED
    BY <2>5 DEF r, z
<1>7. QED
  BY <1>2, <1>5, <1>6 DEF w, p, q

LEMMA InStepFacts ==
    ASSUME NEW d, NEW fs, NEW o, NEW i, InStep(d, fs, o, i)
    PROVE  LET f == fs[i] IN
           /\ CallPlaced(d, f)
           /\ i < Len(fs) => f.packed = 0
           /\ Len(Reached(d, f)) = f.written + Len(Ahead(d, fs, i))
           /\ ~f.sizing => /\ f.from + f.written <= Len(o)
                           /\ SubSeq(o, f.from + 1, f.from + f.written) \o Ahead(d, fs, i) = Reached(d, f)
           /\ (i > 1 /\ f.packed = 0) => f.at # Huge /\ (~f.sizing => f.max = Len(Whole(d, f)))
           /\ (i > 1 /\ f.packed # 0 /\ ~f.sizing) => f.max = fs[i - 1].max - fs[i - 1].written
  BY DEF InStep

LEMMA RebuiltInStep ==
    ASSUME NEW d \in Sources, NEW fs \in Seq(CallType), NEW o \in Seq(Nat),
           \A i \in 1..Len(fs) : InStep(d, fs, o, i),
           NEW k \in 1..Len(fs), NEW x \in CallType, Onward(x, fs[k]),
           NEW opened \in Seq(CallType), NEW s \in Seq(Nat),
           OpensRight(d, opened, x.max - x.written, o \o s),
           CallPlaced(d, x), opened # <<>> => x.packed = 0,
           Len(Reached(d, x)) = x.written + Len(Opening(d, opened)),
           ~x.sizing => /\ x.from + x.written <= Len(o \o s)
                        /\ SubSeq(o \o s, x.from + 1, x.from + x.written) \o Opening(d, opened) = Reached(d, x)
    PROVE  LET r == Rebuilt(fs, k - 1, x, opened)
           IN  \A i \in 1..Len(r) : InStep(d, r, o \o s, i)
<1> DEFINE r == Rebuilt(fs, k - 1, x, opened)
           w == o \o s
<1>1. /\ r \in Seq(CallType) /\ Len(r) = k + Len(opened)
      /\ \A i \in 1..(k - 1) : r[i] = fs[i]
      /\ r[k] = x
      /\ Len(opened) = 1 => r[k + 1] = opened[1]
  <2>1. Rebuilding(r, fs, k, x, opened)
    BY RebuiltHere
  <2> HIDE DEF r
  <2>2. QED
    BY <2>1 DEF Rebuilding
<1> HIDE DEF r
<1>2. w \in Seq(Nat) /\ Len(w) = Len(o) + Len(s) /\ Len(o) \in Nat /\ Len(s) \in Nat
  BY JoinedNumbers
<1>3. Len(fs) \in Nat /\ k \in Nat /\ k >= 1 /\ k <= Len(fs) /\ Len(opened) \in Nat
  OBVIOUS
<1>4. /\ x.packed = fs[k].packed /\ x.sizing = fs[k].sizing /\ x.max = fs[k].max
      /\ x.at = Huge <=> fs[k].at = Huge
      /\ Whole(d, x) = Whole(d, fs[k])
  BY OnwardWhole DEF Onward
<1>5. /\ opened = <<>> => Len(opened) = 0
      /\ opened # <<>> => Len(opened) = 1 /\ Begins(d, opened[1], x.max - x.written, w)
  BY DEF OpensRight
<1>6. ASSUME NEW i \in 1..(k - 1) PROVE InStep(d, r, w, i)
  <2>1. /\ i \in 1..Len(fs) /\ i + 1 \in 1..Len(fs) /\ i < Len(fs) /\ i < Len(r) /\ i # Len(fs) /\ i # Len(r)
        /\ i > 1 => i - 1 \in 1..(k - 1)
    <3> DEFINE n == Len(fs)
               m == Len(opened)
               l == Len(r)
    <3>1. n \in Nat /\ m \in Nat /\ k \in Nat /\ k <= n /\ l = k + m
      BY <1>1, <1>3
    <3> HIDE DEF n, m, l
    <3>2. /\ i \in 1..n /\ i + 1 \in 1..n /\ i < n /\ i < l /\ i # n /\ i # l
          /\ i > 1 => i - 1 \in 1..(k - 1)
      BY <3>1, BelowTop
    <3>3. QED
      BY <3>2 DEF n, l
  <2> DEFINE f == fs[i]
             g == fs[i + 1]
             h == r[i + 1]
  <2>2. /\ CallPlaced(d, f)
        /\ f.packed = 0
        /\ Len(Reached(d, f)) = f.written + Len(Ahead(d, fs, i))
        /\ ~f.sizing => /\ f.from + f.written <= Len(o)
                        /\ SubSeq(o, f.from + 1, f.from + f.written) \o Ahead(d, fs, i) = Reached(d, f)
        /\ i > 1 => f.at # Huge /\ (~f.sizing => f.max = Len(Whole(d, f)))
    BY <2>1 DEF InStep
  <2>3. h.sizing = g.sizing /\ Whole(d, h) = Whole(d, g)
    <3>1. CASE i + 1 = k
      BY <1>1, <1>4, <3>1
    <3>2. CASE i + 1 # k
      <4>1. i + 1 \in 1..(k - 1)
        BY <1>3, <3>2
      <4>2. QED
        BY <1>1, <4>1
    <3>3. QED
      BY <3>1, <3>2
  <2> HIDE DEF g, h
  <2>4. Ahead(d, r, i) = Ahead(d, fs, i)
    BY <2>1, <2>3 DEF Ahead, g, h
  <2>5. r[i] = f
    BY <1>1
  <2>6. f \in CallType
    BY <2>1, ElementOfSeq
  <2>7. f.from \in Nat /\ f.written \in Nat
    BY <2>6, CallFacts
  <2> HIDE DEF f
  <2>8. ~f.sizing => /\ f.from + f.written <= Len(w)
                     /\ SubSeq(w, f.from + 1, f.from + f.written) = SubSeq(o, f.from + 1, f.from + f.written)
    <3>1. ASSUME ~f.sizing PROVE f.from + f.written <= Len(o)
      BY <2>2, <3>1
    <3>2. ASSUME ~f.sizing PROVE SubSeq(w, f.from + 1, f.from + f.written) = SubSeq(o, f.from + 1, f.from + f.written)
      BY <2>7, <3>1, <3>2, PartOfLonger
    <3>3. ASSUME ~f.sizing PROVE f.from + f.written <= Len(w)
      <4>1. f.from + f.written \in Nat
        BY <2>7
      <4>2. QED
        BY <1>2, <3>1, <3>3, <4>1
    <3>4. QED
      BY <3>2, <3>3
  <2> HIDE DEF w
  <2>9. QED
    BY <2>1, <2>2, <2>4, <2>5, <2>8 DEF InStep
<1>7. InStep(d, r, w, k)
  <2>1. Ahead(d, r, k) = Opening(d, opened)
    <3>1. CASE opened = <<>>
      <4>1. k = Len(r)
        BY <1>1, <1>3, <1>5, <3>1
      <4>2. QED
        BY <3>1, <4>1 DEF Ahead, Opening
    <3>2. CASE opened # <<>>
      <4>1. k # Len(r) /\ r[k + 1] = opened[1]
        BY <1>1, <1>3, <1>5, <3>2
      <4>2. QED
        BY <3>2, <4>1 DEF Ahead, Opening
    <3>3. QED
      BY <3>1, <3>2
  <2>2. k < Len(r) => x.packed = 0
    <3>1. k < Len(r) => opened # <<>>
      BY <1>1, <1>3, <1>5
    <3>2. QED
      BY <3>1
  <2>3. (k > 1 /\ x.packed = 0) => x.at # Huge /\ (~x.sizing => x.max = Len(Whole(d, x)))
    <3>1. (k > 1 /\ fs[k].packed = 0) => fs[k].at # Huge /\ (~fs[k].sizing => fs[k].max = Len(Whole(d, fs[k])))
      BY InStepFacts
    <3>2. QED
      BY <1>4, <3>1
  <2>4. (k > 1 /\ x.packed # 0 /\ ~x.sizing) => x.max = r[k - 1].max - r[k - 1].written
    <3>1. (k > 1 /\ fs[k].packed # 0 /\ ~fs[k].sizing) => fs[k].max = fs[k - 1].max - fs[k - 1].written
      <4>1. InStep(d, fs, o, k)
        OBVIOUS
      <4>2. QED
        BY <4>1 DEF InStep
    <3>2. k > 1 => r[k - 1] = fs[k - 1]
      <4>1. k > 1 => k - 1 \in 1..(k - 1)
        BY <1>3
      <4>2. QED
        BY <1>1, <4>1
    <3>3. QED
      BY <1>4, <3>1, <3>2
  <2> HIDE DEF w
  <2>5. QED
    BY <1>1, <2>1, <2>2, <2>3, <2>4 DEF InStep, w
<1>8. ASSUME opened # <<>> PROVE InStep(d, r, w, k + 1)
  <2> DEFINE c == opened[1]
             j == k + 1
  <2>1. /\ c \in CallType /\ CallPlaced(d, c) /\ Reached(d, c) = <<>> /\ c.written = 0
        /\ ~c.sizing => c.from = Len(w)
        /\ c.packed = 0 => c.at # Huge /\ (~c.sizing => c.max = Len(Whole(d, c)))
        /\ (c.packed # 0 /\ ~c.sizing) => c.max = x.max - x.written
    BY <1>5, <1>8 DEF Begins
  <2>2. r[j] = c /\ j = Len(r) /\ ~(j < Len(r)) /\ j > 1 /\ j - 1 = k
    <3>1. Len(opened) = 1 /\ r[j] = c
      BY <1>1, <1>5, <1>8
    <3>2. j = Len(r)
      BY <1>1, <3>1
    <3>3. j \in Nat /\ ~(j < j) /\ j > 1 /\ j - 1 = k
      BY <1>3
    <3> HIDE DEF j
    <3>4. QED
      BY <3>1, <3>2, <3>3
  <2>3. Ahead(d, r, j) = <<>>
    BY <2>2 DEF Ahead
  <2>4. Len(Reached(d, c)) = c.written + Len(<<>>)
    BY <2>1
  <2>5. ~c.sizing => /\ c.from + c.written <= Len(w)
                     /\ SubSeq(w, c.from + 1, c.from + c.written) \o <<>> = Reached(d, c)
    <3>1. ASSUME ~c.sizing PROVE c.from = Len(w) /\ c.written = 0
      BY <2>1, <3>1
    <3>2. Len(w) \in Nat /\ Len(w) + 0 = Len(w) /\ Len(w) <= Len(w)
      BY <1>2
    <3>3. SubSeq(w, Len(w) + 1, Len(w)) = <<>>
      BY <3>2, SubSeqEmpty
    <3>4. <<>> \o <<>> = <<>>
      OBVIOUS
    <3> HIDE DEF c, w
    <3>5. QED
      BY <2>1, <3>1, <3>2, <3>3, <3>4
  <2> HIDE DEF c, j, w
  <2>6. QED
    BY <1>1, <2>1, <2>2, <2>3, <2>4, <2>5 DEF InStep, j
<1>9. \A i \in 1..Len(r) : InStep(d, r, w, i)
  <2> TAKE i \in 1..Len(r)
  <2>1. CASE i < k
    <3>1. i \in 1..(k - 1)
      BY <1>3, <2>1
    <3>2. QED
      BY <1>6, <3>1
  <2>2. CASE i = k
    BY <1>7, <2>2
  <2>3. CASE i > k
    <3>1. opened # <<>> /\ i = k + 1
      <4> DEFINE lo == Len(opened)
      <4>1. i \in 1..(k + lo) /\ lo \in Nat /\ (opened = <<>> => lo = 0) /\ (opened # <<>> => lo = 1)
        BY <1>1, <1>3, <1>5
      <4> HIDE DEF lo
      <4>2. QED
        BY <1>3, <2>3, <4>1
    <3>2. QED
      BY <1>8, <3>1
  <2>4. QED
    BY <1>3, <2>1, <2>2, <2>3
<1>10. QED
  BY <1>9 DEF r

----------------------------------------------------------------------------
(* The calls there are, in step.                                           *)

LEMMA NowFacts ==
    ASSUME EncIInv, Encoding, AllInStep
    PROVE  /\ src \in Sources /\ frames \in Seq(CallType) /\ out \in Seq(Nat) /\ room \in Nat
           /\ Len(frames) \in 1..Len(frames) /\ Cur = frames[Len(frames)] /\ Cur \in CallType
           /\ CallPlaced(src, Cur)
           /\ Len(Reached(src, Cur)) = Cur.written
           /\ ~Cur.sizing => SubSeq(out, Cur.from + 1, Cur.from + Cur.written) = Reached(src, Cur)
           /\ (Len(frames) > 1 /\ Cur.packed = 0) =>
                 Cur.at # Huge /\ (~Cur.sizing => Cur.max = Len(Whole(src, Cur)))
           /\ (Len(frames) > 1 /\ Cur.packed # 0 /\ ~Cur.sizing) => Cur.max = Parent.max - Parent.written
<1> DEFINE n == Len(frames)
<1>1. /\ src \in Sources /\ frames \in Seq(CallType) /\ out \in Seq(Nat) /\ room \in Nat
      /\ n \in 1..n /\ n \in Nat /\ Cur = frames[n] /\ Cur \in CallType
  BY CurFacts DEF EncIInv, EncInv, AllInStep, Cur
<1>2. InStep(src, frames, out, n)
  BY <1>1 DEF AllInStep
<1>3. /\ CallPlaced(src, Cur)
      /\ Len(Reached(src, Cur)) = Cur.written + Len(Ahead(src, frames, n))
      /\ ~Cur.sizing =>
            /\ Cur.from + Cur.written <= Len(out)
            /\ SubSeq(out, Cur.from + 1, Cur.from + Cur.written) \o Ahead(src, frames, n) = Reached(src, Cur)
      /\ (n > 1 /\ Cur.packed = 0) => Cur.at # Huge /\ (~Cur.sizing => Cur.max = Len(Whole(src, Cur)))
      /\ (n > 1 /\ Cur.packed # 0 /\ ~Cur.sizing) => Cur.max = Parent.max - Parent.written
  BY <1>1, <1>2 DEF InStep, Parent
<1>4. Ahead(src, frames, n) = <<>>
  BY DEF Ahead
<1>5. Cur.from \in Nat /\ Cur.written \in Nat
  BY <1>1, CallFacts
<1>6. Len(Reached(src, Cur)) = Cur.written
  <2>1. Len(<<>>) = 0
    OBVIOUS
  <2>2. QED
    BY <1>3, <1>4, <1>5, <2>1
<1>7. ASSUME ~Cur.sizing PROVE SubSeq(out, Cur.from + 1, Cur.from + Cur.written) = Reached(src, Cur)
  <2> DEFINE p == SubSeq(out, Cur.from + 1, Cur.from + Cur.written)
  <2>1. p \in Seq(Nat)
    BY <1>1, <1>3, <1>5, <1>7, PartIs
  <2>2. p \o <<>> = Reached(src, Cur)
    BY <1>3, <1>4, <1>7
  <2> HIDE DEF p
  <2>3. p = Reached(src, Cur)
    BY <2>1, <2>2, ConcatEmptySeq
  <2>4. QED
    BY <2>3 DEF p
<1>8. QED
  BY <1>1, <1>3, <1>6, <1>7

LEMMA CallerFacts ==
    ASSUME EncIInv, Encoding, AllInStep, Len(frames) > 1
    PROVE  LET ahead == IF Cur.sizing THEN WithLength(Whole(src, Cur)) ELSE Whole(src, Cur) IN
           /\ Len(frames) - 1 \in 1..Len(frames) /\ Parent = frames[Len(frames) - 1] /\ Parent \in CallType
           /\ CallPlaced(src, Parent) /\ Parent.packed = 0
           /\ Len(Reached(src, Parent)) = Parent.written + Len(ahead)
           /\ ~Parent.sizing =>
                 /\ Parent.from + Parent.written <= Len(out)
                 /\ SubSeq(out, Parent.from + 1, Parent.from + Parent.written) \o ahead = Reached(src, Parent)
<1> DEFINE k == Len(frames) - 1
           ahead == IF Cur.sizing THEN WithLength(Whole(src, Cur)) ELSE Whole(src, Cur)
<1>1. k \in 1..Len(frames) /\ Parent = frames[k] /\ Parent \in CallType
  BY ParentFacts
<1>2. k < Len(frames) /\ k # Len(frames) /\ k + 1 = Len(frames)
  BY <1>1
<1>3. InStep(src, frames, out, k)
  BY <1>1 DEF AllInStep
<1> HIDE DEF k
<1>4. Ahead(src, frames, k) = ahead
  BY <1>2 DEF Ahead, Cur
<1> HIDE DEF ahead
<1>5. /\ CallPlaced(src, Parent) /\ Parent.packed = 0
      /\ Len(Reached(src, Parent)) = Parent.written + Len(ahead)
      /\ ~Parent.sizing =>
            /\ Parent.from + Parent.written <= Len(out)
            /\ SubSeq(out, Parent.from + 1, Parent.from + Parent.written) \o ahead = Reached(src, Parent)
  BY <1>1, <1>2, <1>3, <1>4 DEF InStep
<1>6. QED
  BY <1>1, <1>5 DEF k, ahead

(* What the bottom call writes is what is expected, up to the tag of zero. *)
LEMMA BottomWhole ==
    ASSUME EncIInv, Encoding, AllInStep
    PROVE  /\ Whole(src, frames[1]) = IF mode = "delimited" THEN WithLength(Wire(src)) ELSE Wire(src)
           /\ Expected(src) = IF mode = "nullterminated" THEN Whole(src, frames[1]) \o <<0>>
                              ELSE Whole(src, frames[1])
<1>1. /\ frames[1].msg = Root /\ frames[1].path = <<>> /\ frames[1].packed = 0
      /\ frames[1].at = Huge <=> mode = "delimited"
  BY DEF AllInStep, BottomCall
<1>2. Whole(src, frames[1]) = IF mode = "delimited" THEN WithLength(Wire(src)) ELSE Wire(src)
  BY <1>1 DEF Whole, Wire
<1>3. QED
  BY <1>2 DEF Expected

(* A call that has more to write than it may means that the whole does not *)
(* fit: a submessage is given what it takes, and an array what is left.    *)
LEMMA MessageTooLong ==
    ASSUME EncIInv, Encoding, AllInStep, NEW i \in 1..Len(frames),
           frames[i].packed = 0, ~frames[i].sizing, Len(Whole(src, frames[i])) > frames[i].max
    PROVE  Len(Expected(src)) > room
<1>1. src \in Sources /\ frames \in Seq(CallType) /\ room \in Nat
  BY NowFacts
<1>2. CASE i = 1
  <2> DEFINE w == Whole(src, frames[1])
  <2>1. Len(w) > room
    BY <1>2 DEF AllInStep, BottomCall
  <2>2. w \in Seq(Nat)
    <3>1. WithLength(Wire(src)) \in Seq(Nat) /\ Wire(src) \in Seq(Nat)
      BY <1>1, RootAt, LengthNumbers
    <3>2. QED
      BY <3>1, BottomWhole
  <2>3. Expected(src) = w \/ Expected(src) = w \o <<0>>
    BY BottomWhole
  <2> HIDE DEF w
  <2>4. Len(w \o <<0>>) = Len(w) + 1 /\ Len(w) \in Nat
    <3>1. <<0>> \in Seq(Nat) /\ Len(<<0>>) = 1
      OBVIOUS
    <3>2. QED
      BY <2>2, <3>1, JoinedNumbers
  <2>5. QED
    BY <1>1, <2>1, <2>3, <2>4
<1>3. CASE i # 1
  <2>1. i > 1 /\ InStep(src, frames, out, i)
    BY <1>3 DEF AllInStep
  <2>2. frames[i].max = Len(Whole(src, frames[i]))
    BY <2>1 DEF InStep
  <2>3. frames[i] \in CallType
    BY <1>1, ElementOfSeq
  <2>4. frames[i].max \in Nat
    BY <2>3, CallFacts
  <2>5. QED
    BY <2>2, <2>4
<1>4. QED
  BY <1>2, <1>3

LEMMA TooLong ==
    ASSUME EncIInv, Encoding, AllInStep, NEW i \in 1..Len(frames),
           ~frames[i].sizing, Len(Whole(src, frames[i])) > frames[i].max
    PROVE  Len(Expected(src)) > room
<1>1. src \in Sources /\ frames \in Seq(CallType) /\ Len(frames) \in Nat
  BY NowFacts, LenProperties
<1>2. CASE frames[i].packed = 0
  BY <1>2, MessageTooLong
<1>3. CASE frames[i].packed # 0
  <2> DEFINE j == i - 1
             f == frames[j]
             g == frames[i]
  <2>1. i # 1 /\ i > 1
    BY <1>3 DEF AllInStep, BottomCall
  <2>2. j \in 1..Len(frames) /\ j + 1 = i /\ j < Len(frames) /\ j # Len(frames) /\ j \in 1..(i - 1)
    BY <1>1, <2>1
  <2>3. InStep(src, frames, out, i) /\ InStep(src, frames, out, j)
    BY <2>2 DEF AllInStep
  <2>4. g.max = f.max - f.written
    BY <1>3, <2>1, <2>3 DEF InStep
  <2>5. ~f.sizing
    <3>1. Streams(frames, Len(out))
      BY DEF EncIInv, EncInv
    <3>2. QED
      BY <2>2, <3>1 DEF Streams
  <2> HIDE DEF j
  <2>6. Ahead(src, frames, j) = Whole(src, g)
    BY <2>2 DEF Ahead
  <2>7. CallPlaced(src, f) /\ f.packed = 0 /\ Len(Reached(src, f)) = f.written + Len(Whole(src, g))
    <3> HIDE DEF g
    <3>1. QED
      BY <2>2, <2>3, <2>6 DEF InStep
  <2>8. f \in CallType /\ g \in CallType
    BY <1>1, <2>2, ElementOfSeq
  <2>9. /\ Len(Reached(src, f)) <= Len(Whole(src, f))
        /\ Len(Whole(src, f)) \in Nat /\ Len(Reached(src, f)) \in Nat
    BY <1>1, <2>7, <2>8, ReachedIsPart
  <2>10. f.max \in Nat /\ f.written \in Nat /\ g.max \in Nat
    BY <2>8, CallFacts
  <2>11. Len(Whole(src, g)) > g.max /\ Len(Whole(src, g)) \in Nat
    <3>1. InStep(src, frames, out, i)
      BY <2>3
    <3>2. CallPlaced(src, g)
      BY <3>1 DEF InStep
    <3>3. QED
      BY <1>1, <2>8, <3>2, ReachedIsPart
  <2> HIDE DEF f, g
  <2>12. Len(Whole(src, f)) > f.max
    <3> DEFINE a == Len(Whole(src, f))
               b == Len(Reached(src, f))
               c == Len(Whole(src, g))
               x == f.max
               y == f.written
               z == g.max
    <3>1. a \in Nat /\ b \in Nat /\ c \in Nat /\ x \in Nat /\ y \in Nat /\ z \in Nat
          /\ b <= a /\ b = y + c /\ c > z /\ z = x - y
      BY <2>4, <2>7, <2>9, <2>10, <2>11
    <3> HIDE DEF a, b, c, x, y, z
    <3>2. a > x
      BY <3>1
    <3>3. QED
      BY <3>2 DEF a, x
  <2>13. QED
    BY <2>2, <2>5, <2>7, <2>12, MessageTooLong DEF f
<1>4. QED
  BY <1>2, <1>3

(* The stream is full: that is the size of the buffer.                     *)
LEMMA FullTooLong ==
    ASSUME EncIInv, Encoding, AllInStep,
           NEW k \in 1..Len(frames), ~frames[k].sizing,
           NEW x \in CallType, Onward(x, frames[k]), CallPlaced(src, x),
           Len(Reached(src, x)) > frames[k].max
    PROVE  Len(Expected(src)) > room
<1>1. src \in Sources /\ frames[k] \in CallType
  BY NowFacts, ElementOfSeq
<1>2. Whole(src, x) = Whole(src, frames[k])
  BY OnwardWhole
<1>3. /\ Len(Reached(src, x)) <= Len(Whole(src, x))
      /\ Len(Reached(src, x)) \in Nat /\ Len(Whole(src, x)) \in Nat
  BY <1>1, ReachedIsPart
<1>4. frames[k].max \in Nat
  BY <1>1, CallFacts
<1>5. Len(Whole(src, frames[k])) > frames[k].max
  <2> DEFINE a == Len(Whole(src, x))
             b == Len(Reached(src, x))
             c == frames[k].max
  <2>1. b <= a /\ b > c /\ a \in Nat /\ b \in Nat /\ c \in Nat
    BY <1>3, <1>4
  <2> HIDE DEF a, b, c
  <2>2. a > c
    BY <2>1
  <2>3. QED
    BY <1>2, <2>2 DEF a, c
<1>6. QED
  BY <1>5, TooLong

LEMMA FullAgrees ==
    ASSUME EncIInv, Encoding, AllInStep, outcome' = "stream full", UNCHANGED <<src, room, mode>>,
           NEW k \in 1..Len(frames), ~frames[k].sizing,
           NEW x \in CallType, Onward(x, frames[k]), CallPlaced(src, x),
           Len(Reached(src, x)) > frames[k].max
    PROVE  PassesAgree'
<1>1. (Len(Expected(src)) > room)'
  BY FullTooLong DEF Expected
<1>2. QED
  BY <1>1 DEF PassesAgree

LEMMA RebuiltAgrees ==
    ASSUME EncIInv, Encoding, AllInStep, UNCHANGED <<src, room, mode>>,
           NEW k \in 1..Len(frames), NEW x \in CallType, Onward(x, frames[k]),
           NEW opened \in Seq(CallType), NEW s \in Seq(Nat),
           out' = out \o s, frames[1].sizing => s = <<>>,
           frames' = Rebuilt(frames, k - 1, x, opened),
           OpensRight(src, opened, x.max - x.written, out \o s),
           CallPlaced(src, x), opened # <<>> => x.packed = 0,
           Len(Reached(src, x)) = x.written + Len(Opening(src, opened)),
           ~x.sizing => /\ x.from + x.written <= Len(out \o s)
                        /\ SubSeq(out \o s, x.from + 1, x.from + x.written) \o Opening(src, opened)
                              = Reached(src, x)
    PROVE  AllInStep'
<1> DEFINE r == Rebuilt(frames, k - 1, x, opened)
           w == out \o s
<1>1. src \in Sources /\ frames \in Seq(CallType) /\ out \in Seq(Nat)
  BY NowFacts
<1>2. \A i \in 1..Len(frames) : InStep(src, frames, out, i)
  BY DEF AllInStep
<1>3. \A i \in 1..Len(r) : InStep(src, r, w, i)
  BY <1>1, <1>2, RebuiltInStep
<1>4. w \in Seq(Nat)
  BY <1>1, JoinedNumbers
<1>5. r[1] = IF k = 1 THEN x ELSE frames[1]
  <2>1. Rebuilding(r, frames, k, x, opened)
    BY <1>1, RebuiltHere
  <2> HIDE DEF r
  <2>2. r[k] = x /\ \A i \in 1..(k - 1) : r[i] = frames[i]
    BY <2>1 DEF Rebuilding
  <2>3. k # 1 => 1 \in 1..(k - 1)
    BY <1>1
  <2>4. QED
    BY <2>2, <2>3
<1>6. frames' = r /\ out' = w /\ src' = src /\ room' = room /\ mode' = mode
  OBVIOUS
<1> HIDE DEF r
<1>7. /\ r[1].msg = Root /\ r[1].path = <<>> /\ r[1].packed = 0 /\ r[1].from = 0
      /\ r[1].sizing <=> mode = "size"
      /\ r[1].at = Huge <=> mode = "delimited"
      /\ ~r[1].sizing => r[1].max = room
      /\ r[1].sizing => w = <<>>
  <2>1. /\ frames[1].msg = Root /\ frames[1].path = <<>> /\ frames[1].packed = 0 /\ frames[1].from = 0
        /\ frames[1].sizing <=> mode = "size"
        /\ frames[1].at = Huge <=> mode = "delimited"
        /\ ~frames[1].sizing => frames[1].max = room
        /\ frames[1].sizing => out = <<>>
    BY DEF AllInStep, BottomCall
  <2>2. frames[1].sizing => w = <<>>
    <3>1. <<>> \o <<>> = <<>>
      OBVIOUS
    <3>2. QED
      BY <2>1, <3>1
  <2>3. k = 1 => Onward(x, frames[1])
    OBVIOUS
  <2> HIDE DEF w
  <2>4. QED
    BY <1>5, <2>1, <2>2, <2>3 DEF Onward
<1> HIDE DEF w
<1>8. (BottomCall(frames[1]))'
  BY <1>6, <1>7 DEF BottomCall
<1>9. QED
  BY <1>3, <1>4, <1>6, <1>8 DEF AllInStep

(* The call f with w bytes written.                                        *)
WithWritten(x, f, w) == x = [f EXCEPT !.written = w]

LEMMA WrittenSame ==
    ASSUME NEW d, NEW f \in CallType, NEW w \in Nat, NEW x, WithWritten(x, f, w)
    PROVE  /\ x \in CallType /\ x.written = w
           /\ x.sizing = f.sizing /\ x.from = f.from /\ x.max = f.max /\ x.packed = f.packed
           /\ x.msg = f.msg /\ x.path = f.path /\ x.at = f.at /\ x.item = f.item
           /\ Reached(d, x) = Reached(d, f) /\ Whole(d, x) = Whole(d, f)
           /\ CallPlaced(d, x) <=> CallPlaced(d, f)
<1>1. /\ x \in CallType /\ x.written = w
      /\ x.sizing = f.sizing /\ x.from = f.from /\ x.max = f.max /\ x.packed = f.packed
      /\ x.msg = f.msg /\ x.path = f.path /\ x.at = f.at /\ x.item = f.item
  BY DEF CallType, WithWritten
<1>2. /\ Waiting(d, x) = Waiting(d, f) /\ FieldsIn(d, x) = FieldsIn(d, f)
      /\ \A t : ItemsIn(d, x, t) = ItemsIn(d, f, t)
      /\ \A t : NumberOf(d, x, t) = NumberOf(d, f, t)
  BY <1>1 DEF Waiting, FieldsIn, ItemsIn, NumberOf
<1>3. Whole(d, x) = Whole(d, f)
  BY <1>1, <1>2 DEF Whole
<1>4. Reached(d, x) = Reached(d, f)
  BY <1>1, <1>2, <1>3 DEF Reached
<1>5. CallPlaced(d, x) <=> CallPlaced(d, f)
  BY <1>1, <1>2 DEF CallPlaced
<1>6. QED
  BY <1>1, <1>3, <1>4, <1>5

(* The result of a step: in step, or the outcome is right.                 *)
Agreed == IF Encoding THEN AllInStep ELSE PassesAgree

LEMMA BottomCounts ==
    ASSUME EncIInv, Encoding, frames[1].sizing, NEW i \in 1..Len(frames)
    PROVE  frames[i].sizing
<1>1. Streams(frames, Len(out)) /\ frames \in Seq(CallType)
  BY DEF EncIInv, EncInv
<1>2. Len(frames) \in Nat
  BY <1>1, LenProperties
<1>3. CASE i = 1
  BY <1>3
<1>4. CASE i # 1
  <2>1. 1 \in 1..(i - 1)
    BY <1>2, <1>4
  <2>2. QED
    BY <1>1, <2>1 DEF Streams
<1>5. QED
  BY <1>3, <1>4

LEMMA JoinedTwice ==
    ASSUME NEW x \in Seq(Nat), NEW y \in Seq(Nat), NEW z \in Seq(Nat)
    PROVE  (x \o y) \o z = x \o (y \o z)
  BY ConcatAssociative, SMTT(30)

(* A stream that has got to the end of o, after s more.                    *)
EndsAt(o, a, b) == o \in Seq(Nat) /\ a \in Nat /\ b \in Nat /\ Len(o) = a + b

GoesOn(o, s, rest, a, b) ==
    /\ a + (b + Len(s)) <= Len(o \o s)
    /\ SubSeq(o \o s, a + 1, a + (b + Len(s))) \o rest = SubSeq(o, a + 1, a + b) \o (s \o rest)

LEMMA WritesOn ==
    ASSUME NEW o, NEW a, NEW b, EndsAt(o, a, b), NEW s \in Seq(Nat), NEW rest \in Seq(Nat)
    PROVE  GoesOn(o, s, rest, a, b)
<1> DEFINE p == SubSeq(o, a + 1, a + b)
<1>1. o \in Seq(Nat) /\ a \in Nat /\ b \in Nat /\ Len(o) = a + b /\ a + b <= Len(o)
  BY DEF EndsAt
<1>2. p \in Seq(Nat) /\ SubSeq(o \o s, a + 1, a + (b + Len(s))) = p \o s
  BY <1>1, PartOfLonger, ZenonT(30)
<1>3. (p \o s) \o rest = p \o (s \o rest)
  <2>1. p \in Seq(Nat)
    BY <1>2
  <2> HIDE DEF p
  <2>2. QED
    BY <2>1, JoinedTwice
<1>4. a + (b + Len(s)) <= Len(o \o s)
  <2> DEFINE l == Len(o \o s)
             k == Len(o)
             m == Len(s)
  <2>1. l = k + m /\ k = a + b /\ m \in Nat /\ a \in Nat /\ b \in Nat
    BY <1>1, JoinedNumbers
  <2> HIDE DEF l, k, m
  <2>2. a + (b + m) <= l
    BY <2>1
  <2>3. QED
    BY <2>2 DEF l, m
<1>5. QED
  BY <1>2, <1>3, <1>4 DEF GoesOn

LEMMA OneOpened ==
    ASSUME NEW d, NEW opened, NEW left, NEW o, OpensRight(d, opened, left, o)
    PROVE  opened \in Seq(CallType)
  <1>1. \A y \in CallType : <<y>> \in Seq(CallType)
    OBVIOUS
  <1>2. <<>> \in Seq(CallType)
    OBVIOUS
  <1>3. QED
    BY <1>1, <1>2 DEF OpensRight

(* The current call writes what comes next, or opens a call that will.     *)
LEMMA EmitAgrees ==
    ASSUME EncIInv, Encoding, AllInStep,
           NEW a \in Seq(Nat), NEW b \in Seq(Nat), NEW c \in Seq(Nat),
           NEW n, n = Len(a) + Len(b) + Len(c), NEW s, s = a \o b \o c,
           NEW next \in CallType, Onward(next, Cur), next.written = Cur.written, CallPlaced(src, next),
           NEW rest \in Seq(Nat), NEW gain \in Seq(Nat),
           Reached(src, next) = Reached(src, Cur) \o gain,
           Len(gain) = n + Len(rest), ~Cur.sizing => gain = s \o rest,
           NEW opened, opened # <<>> => next.packed = 0,
           Fits(Cur, n) => /\ rest = Opening(src, opened)
                           /\ OpensRight(src, opened, Cur.max - (Cur.written + n), Output(Cur, s)),
           Emit(a, b, c, next, opened)
    PROVE  Agreed'
<1>1. /\ src \in Sources /\ frames \in Seq(CallType) /\ out \in Seq(Nat)
      /\ Len(frames) \in 1..Len(frames) /\ Cur = frames[Len(frames)] /\ Cur \in CallType
      /\ Len(Reached(src, Cur)) = Cur.written
      /\ ~Cur.sizing => SubSeq(out, Cur.from + 1, Cur.from + Cur.written) = Reached(src, Cur)
      /\ CallPlaced(src, Cur)
  BY NowFacts
<1>2. s \in Seq(Nat) /\ Len(s) = n /\ n \in Nat
  <2>1. a \o b \in Seq(Nat) /\ Len(a \o b) = Len(a) + Len(b)
    BY JoinedNumbers
  <2>2. QED
    BY <2>1, JoinedNumbers
<1>3. Len(rest) \in Nat /\ Len(gain) \in Nat /\ Cur.written \in Nat /\ Cur.from \in Nat /\ Cur.max \in Nat
  BY <1>1, CallFacts, LenProperties
<1>4. Reached(src, Cur) \in Seq(Nat)
  BY <1>1, ReachedIsPart
<1>5. Len(Reached(src, next)) = (Cur.written + n) + Len(rest)
  <2>1. Len(Reached(src, next)) = Cur.written + Len(gain)
    BY <1>1, <1>4, JoinedNumbers
  <2>2. QED
    BY <1>2, <1>3, <2>1
<1>6. CASE ~Fits(Cur, n)
  <2>1. outcome' = "stream full" /\ UNCHANGED <<src, room, mode>>
    BY <1>6 DEF Emit, Stop
  <2>2. ~Cur.sizing /\ Cur.written + n > Cur.max
    BY <1>2, <1>3, <1>6 DEF Fits
  <2>3. Len(Reached(src, next)) > Cur.max
    BY <1>2, <1>3, <1>5, <2>2, SMTT(30)
  <2>4. PassesAgree'
    BY <1>1, <2>1, <2>2, <2>3, FullAgrees
  <2>5. QED
    BY <2>1, <2>4 DEF Agreed, Encoding
<1>7. CASE Fits(Cur, n)
  <2> DEFINE k == Len(frames)
             w == Cur.written + n
             x == [next EXCEPT !.written = w]
             t == IF Cur.sizing THEN <<>> ELSE s
  <2>1. /\ out' = Output(Cur, s)
        /\ frames' = Callers \o <<x>> \o opened
        /\ UNCHANGED <<src, room, mode, outcome>>
    BY <1>7 DEF Emit
  <2>2. w \in Nat
    BY <1>2, <1>3
  <2>3. t \in Seq(Nat) /\ Output(Cur, s) = out \o t /\ out \o t \in Seq(Nat) /\ Len(out \o t) \in Nat
        /\ Len(out \o t) = Len(out) + Len(t) /\ Len(out) \in Nat
    <3>1. CASE Cur.sizing
      <4>1. out \o <<>> = out /\ <<>> \in Seq(Nat)
        BY <1>1, ConcatEmptySeq
      <4>2. Len(out) \in Nat /\ Len(<<>>) = 0
        BY <1>1, LenProperties
      <4>3. QED
        BY <1>1, <3>1, <4>1, <4>2 DEF Output
    <3>2. CASE ~Cur.sizing
      <4>1. out \o s \in Seq(Nat) /\ Len(out \o s) = Len(out) + Len(s) /\ Len(out) \in Nat
        BY <1>1, <1>2, JoinedNumbers
      <4>2. QED
        BY <1>2, <3>2, <4>1, LenProperties DEF Output
    <3>3. QED
      BY <3>1, <3>2
  <2>4. frames[1].sizing => t = <<>>
    BY <1>1, BottomCounts
  <2>5. /\ x \in CallType /\ x.written = w /\ x.sizing = next.sizing /\ x.from = next.from
        /\ x.max = next.max /\ x.packed = next.packed /\ x.msg = next.msg /\ x.path = next.path
        /\ x.at = next.at /\ Reached(src, x) = Reached(src, next) /\ CallPlaced(src, x)
    <3> HIDE DEF w
    <3>1. WithWritten(x, next, w)
      BY DEF WithWritten
    <3> HIDE DEF x
    <3>2. QED
      BY <2>2, <3>1, WrittenSame, SMTT(30)
  <2> HIDE DEF x
  <2>6. Onward(x, Cur) /\ x.sizing = Cur.sizing /\ x.from = Cur.from /\ x.max = Cur.max
    BY <2>5 DEF Onward
  <2>7. opened \in Seq(CallType)
    BY <1>7, OneOpened
  <2>8. Len(Reached(src, x)) = x.written + Len(Opening(src, opened))
    BY <1>5, <1>7, <2>5
  <2>9. ASSUME ~x.sizing
        PROVE  /\ x.from + x.written <= Len(out \o t)
               /\ SubSeq(out \o t, x.from + 1, x.from + x.written) \o Opening(src, opened) = Reached(src, x)
    <3>1. t = s /\ ~Cur.sizing
      BY <2>6, <2>9
    <3>2. Len(out) = Cur.from + Cur.written
      BY <3>1, CurFacts
    <3>3. x.written = Cur.written + Len(s) /\ x.from = Cur.from
      BY <1>2, <2>5, <2>6
    <3>4. EndsAt(out, Cur.from, Cur.written)
      BY <1>1, <1>3, <3>2 DEF EndsAt
    <3>5. GoesOn(out, s, rest, Cur.from, Cur.written)
      BY <1>2, <3>4, WritesOn
    <3>6. /\ Cur.from + x.written <= Len(out \o s)
          /\ SubSeq(out \o s, Cur.from + 1, Cur.from + x.written) \o rest
                = SubSeq(out, Cur.from + 1, Cur.from + Cur.written) \o (s \o rest)
      BY <3>3, <3>5 DEF GoesOn
    <3>7. QED
      BY <1>1, <1>7, <2>5, <3>1, <3>3, <3>6
  <2>10. OpensRight(src, opened, x.max - x.written, out \o t)
    BY <1>7, <2>3, <2>5, <2>6
  <2>11. frames' = Rebuilt(frames, k - 1, x, opened)
    BY <2>1 DEF Rebuilt, Callers, x
  <2>12. k \in 1..Len(frames) /\ Onward(x, frames[k]) /\ out' = out \o t
    BY <1>1, <2>1, <2>3, <2>6
  <2>13. opened # <<>> => x.packed = 0
    BY <2>5
  <2> HIDE DEF k, t, w
  <2>14. AllInStep'
    BY <2>1, <2>3, <2>4, <2>5, <2>7, <2>8, <2>9, <2>10, <2>11, <2>12, <2>13, RebuiltAgrees
  <2>15. QED
    BY <2>1, <2>14 DEF Agreed, Encoding
<1>8. QED
  BY <1>6, <1>7

----------------------------------------------------------------------------
(* The steps.                                                              *)

(* A message, or an array of packed items of it, that can be encoded.      *)
CallAt(m, p, packed) ==
    /\ MessageAt(m, p) /\ packed \in Nat
    /\ packed # 0 => /\ packed \in DOMAIN Schema[m] /\ IsPacked(Schema[m][packed])
                     /\ Schema[m][packed].atype = "static"

WholeAt(d, m, p, packed) ==
    IF packed # 0
    THEN FlattenSeq(ItemBytes(Encodings(d), d, packed, Schema[m][packed], Append(p, packed)))
    ELSE Encodings(d)[m][p]

AtBeginning(d, c, sizing, from, max, packed, all) ==
    /\ c \in CallType /\ CallPlaced(d, c) /\ Reached(d, c) = <<>> /\ c.written = 0
    /\ c.sizing = sizing /\ c.from = from /\ c.max = max /\ c.packed = packed /\ c.at # Huge
    /\ Whole(d, c) = all

LEMMA NewCall ==
    ASSUME NEW d \in Sources, NEW m, NEW p, NEW packed, CallAt(m, p, packed),
           NEW sizing \in BOOLEAN, NEW from \in Nat, NEW max \in Nat
    PROVE  AtBeginning(d, Call(m, p, sizing, from, max, packed), sizing, from, max, packed,
                       WholeAt(d, m, p, packed))
<1> DEFINE c == Call(m, p, sizing, from, max, packed)
<1>0. /\ MessageAt(m, p) /\ packed \in Nat
      /\ packed # 0 => /\ packed \in DOMAIN Schema[m] /\ IsPacked(Schema[m][packed])
                       /\ Schema[m][packed].atype = "static"
  BY DEF CallAt
<1> USE <1>0
<1>1. m \in DOMAIN Schema /\ p \in Seq(Nat \ {0}) /\ Location(p) = Spot("message", m, 0)
  BY DEF MessageAt
<1>2. /\ c \in CallType
      /\ c.msg = m /\ c.path = p /\ c.at = 0 /\ c.item = 1 /\ c.packed = packed
      /\ c.written = 0 /\ c.sizing = sizing /\ c.from = from /\ c.max = max
  BY <1>1 DEF Call, CallType
<1> HIDE DEF c
<1>3. 0 # Huge
  BY DEF Huge
<1>4. Whole(d, c) = WholeAt(d, m, p, packed)
  BY <1>2, <1>3 DEF Whole, ItemsIn, WholeAt
<1>5. MessageAt(c.msg, c.path)
  BY <1>2
<1>6. CASE packed # 0
  <2>1. /\ NumberOf(d, c, packed) \in Nat /\ ItemsIn(d, c, packed) \in Seq(Seq(Nat))
    <3>1. Schema[m][packed].htype = "repeated"
      BY <1>6 DEF IsPacked, IsArray
    <3>2. QED
      BY <1>2, <1>5, <1>6, <3>1, ArrayItems
  <2>2. First(ItemsIn(d, c, packed), 0) = <<>>
    BY <2>1, FirstSteps
  <2>3. Reached(d, c) = <<>>
    BY <1>2, <1>6, <2>2 DEF Reached
  <2>4. CallPlaced(d, c)
    <3>1. c.item <= NumberOf(d, c, packed) + 1
      BY <1>2, <2>1
    <3>2. QED
      BY <1>1, <1>2, <1>6, <3>1 DEF CallPlaced
  <2>5. QED
    BY <1>2, <1>3, <1>4, <2>3, <2>4 DEF AtBeginning, c
<1>7. CASE packed = 0
  <2>1. FieldsIn(d, c) \in Seq(Seq(Nat)) /\ Len(FieldsIn(d, c)) \in Nat
    BY <1>2, <1>5, FieldsAre
  <2>2. First(FieldsIn(d, c), 0) = <<>>
    BY <2>1, FirstSteps
  <2>3. Reached(d, c) = <<>> \o <<>>
    BY <1>2, <1>3, <1>7, <2>2 DEF Reached
  <2>4. <<>> \o <<>> = <<>>
    OBVIOUS
  <2>5. CallPlaced(d, c)
    <3>1. c.at <= Len(FieldsIn(d, c))
      BY <1>2, <2>1
    <3>2. QED
      BY <1>1, <1>2, <1>7, <3>1 DEF CallPlaced
  <2>6. QED
    BY <1>2, <1>3, <1>4, <2>3, <2>4, <2>5 DEF AtBeginning, c
<1>8. QED
  BY <1>6, <1>7

(* The current call writes all itself; a stream that only counts may be    *)
(* given other bytes e.                                                    *)
LEMMA WriteAgrees ==
    ASSUME EncIInv, Encoding, AllInStep,
           NEW a \in Seq(Nat), NEW b \in Seq(Nat), NEW c \in Seq(Nat), NEW e \in Seq(Nat),
           Len(c) = Len(e), ~Cur.sizing => c = e,
           NEW next, Gains(src, next, Cur, a \o (b \o e)), Emit(a, b, c, next, <<>>)
    PROVE  Agreed'
<1> DEFINE n == Len(a) + Len(b) + Len(c)
           s == a \o b \o c
           gain == a \o (b \o e)
           rest == <<>>
<1>1. /\ next \in CallType /\ Onward(next, Cur) /\ next.written = Cur.written /\ CallPlaced(src, next)
      /\ Reached(src, next) = Reached(src, Cur) \o gain
  BY DEF Gains
<1>2. rest \in Seq(Nat) /\ Len(rest) = 0
  OBVIOUS
<1>3. gain \in Seq(Nat) /\ Len(gain) = Len(a) + (Len(b) + Len(e))
  <2>1. b \o e \in Seq(Nat) /\ Len(b \o e) = Len(b) + Len(e)
    BY JoinedNumbers
  <2>2. QED
    BY <2>1, JoinedNumbers
<1>4. Len(a) \in Nat /\ Len(b) \in Nat /\ Len(c) \in Nat
  BY LenProperties
<1>5. Len(gain) = n + Len(rest)
  <2> DEFINE i == Len(a)
             j == Len(b)
             k == Len(c)
             l == Len(gain)
  <2>1. i \in Nat /\ j \in Nat /\ k \in Nat /\ l = i + (j + k)
    BY <1>3, <1>4
  <2> HIDE DEF i, j, k, l
  <2>2. l = (i + j + k) + 0
    BY <2>1
  <2>3. QED
    BY <1>2, <2>2 DEF i, j, k, l
<1>6. ASSUME ~Cur.sizing PROVE gain = s \o rest
  <2>1. gain = a \o (b \o c)
    BY <1>6
  <2>2. (a \o b) \o c = a \o (b \o c)
    BY JoinedTwice
  <2>3. s \in Seq(Nat)
    BY <1>3, <2>1, <2>2
  <2> HIDE DEF s
  <2>4. s \o <<>> = s
    BY <2>3, ConcatEmptySeq
  <2>5. QED
    BY <2>1, <2>2, <2>4 DEF s
<1>7. rest = Opening(src, <<>>)
  BY DEF Opening
<1>8. \A left, o : OpensRight(src, <<>>, left, o)
  BY DEF OpensRight
<1> HIDE DEF n, s, gain, rest
<1>9. n = Len(a) + Len(b) + Len(c) /\ s = a \o b \o c
  BY DEF n, s
<1>10. QED
  BY <1>1, <1>2, <1>3, <1>5, <1>6, <1>7, <1>8, <1>9, EmitAgrees

(* The field that is due.                                                  *)
LEMMA DueIsNext ==
    ASSUME EncIInv, NEW t \in Due, AllInStep
    PROVE  /\ Encoding /\ src \in Sources
           /\ ComesNext(src, Cur, t, Desc(t), Place(t))
           /\ Follows(src, Following(t), Cur, t, Desc(t), Place(t), Here(t))
<1>1. Encoding
  BY DueFacts
<1>2. t \in Todo /\ \A u \in Todo : t <= u
  BY DEF Due
<1>3. Todo = Waiting(src, Cur)
  BY DEF Todo, Waiting
<1>4. CallPlaced(src, Cur) /\ src \in Sources /\ Cur \in CallType
  BY <1>1, NowFacts
<1>5. ComesNext(src, Cur, t, Desc(t), Place(t))
  BY <1>2, <1>3, <1>4, DueFacts DEF Place, ComesNext
<1>6. Follows(src, Following(t), Cur, t, Desc(t), Place(t), Here(t))
  BY DEF CountOf, Here, Following, Follows
<1>7. QED
  BY <1>1, <1>4, <1>5, <1>6

LEMMA ValueGained ==
    ASSUME EncIInv, NEW t \in Due, AllInStep, IsBasic(t), ~IsPacked(Desc(t))
    PROVE  /\ ValueAt(Cur.msg, t, Here(t))
           /\ TaggedBytes(Encodings(src), src, t, Desc(t), Here(t)) \in Seq(Nat)
           /\ Gains(src, Following(t), Cur, TaggedBytes(Encodings(src), src, t, Desc(t), Here(t)))
<1>1. Desc(t).atype = "static"
  BY DEF IsBasic
<1>2. QED
  BY <1>1, DueIsNext, ValueStep

LEMMA ScalarAgrees ==
    ASSUME EncIInv, NEW t \in Due, AllInStep, EncodeScalar(t)
    PROVE  Agreed'
<1> DEFINE g == Desc(t)
           a == TagBytes(t, WireOf(g))
           data == Data(g, Datum(src, g, Here(t)))
           b == IF HasLength(g) THEN LengthBytes(Len(data)) ELSE <<>>
<1>1. IsBasic(t) /\ ~IsPacked(g) /\ g.ltype # "submessage"
  BY DEF EncodeScalar
<1>2. Emit(a, b, data, Following(t), <<>>)
  BY DEF EncodeScalar
<1>3. /\ ValueAt(Cur.msg, t, Here(t)) /\ g = Schema[Cur.msg][t] /\ src \in Sources
      /\ Gains(src, Following(t), Cur, TaggedBytes(Encodings(src), src, t, g, Here(t)))
  BY <1>1, ValueGained, DueIsNext DEF Desc
<1>4. data \in Seq(Nat)
  <2> HIDE DEF g
  <2>1. QED
    BY <1>1, <1>3, DataTyped
<1>5. a \in Seq(Nat) /\ Encoding
  <2>1. t \in Nat /\ Encoding
    BY DueFacts
  <2>2. QED
    BY <2>1, TagNumbers
<1>6. b \in Seq(Nat)
  <2> HIDE DEF data
  <2>1. LengthBytes(Len(data)) \in Seq(Nat) /\ <<>> \in Seq(Nat)
    BY <1>4, LengthNumbers
  <2>2. QED
    BY <2>1
<1>7. TaggedBytes(Encodings(src), src, t, g, Here(t)) = a \o (b \o data)
  <2>1. TaggedBytes(Encodings(src), src, t, g, Here(t)) = a \o ValueBytes(Encodings(src), src, g, Here(t))
    BY DEF TaggedBytes
  <2>2. ValueBytes(Encodings(src), src, g, Here(t)) = IF HasLength(g) THEN WithLength(data) ELSE data
    BY <1>1 DEF ValueBytes
  <2> HIDE DEF data
  <2>3. HasLength(g) => WithLength(data) = b \o data
    BY DEF WithLength
  <2>4. ~HasLength(g) => b \o data = data
    BY <1>4, ConcatEmptySeq
  <2>5. QED
    BY <2>1, <2>2, <2>3, <2>4
<1> HIDE DEF g, a, b, data
<1>8. Gains(src, Following(t), Cur, a \o (b \o data))
  BY <1>3, <1>7
<1>9. QED
  BY <1>2, <1>4, <1>5, <1>6, <1>8, WriteAgrees

(* The current call opens the call c.                                      *)
LEMMA OpenAgrees ==
    ASSUME EncIInv, Encoding, AllInStep,
           NEW a \in Seq(Nat), NEW b \in Seq(Nat), NEW n, n = Len(a) + Len(b), NEW rest \in Seq(Nat),
           NEW next, next.packed = 0, Gains(src, next, Cur, a \o (b \o rest)),
           NEW c,
           Fits(Cur, n) => /\ Begins(src, c, Cur.max - (Cur.written + n), Output(Cur, a \o b))
                           /\ rest = IF c.sizing THEN WithLength(Whole(src, c)) ELSE Whole(src, c),
           Emit(a, b, <<>>, next, <<c>>)
    PROVE  Agreed'
<1> DEFINE e == <<>>
           s == a \o b \o e
           gain == a \o (b \o rest)
           opened == <<c>>
<1>1. /\ next \in CallType /\ Onward(next, Cur) /\ next.written = Cur.written /\ CallPlaced(src, next)
      /\ Reached(src, next) = Reached(src, Cur) \o gain
  BY DEF Gains
<1>2. e \in Seq(Nat) /\ Len(e) = 0
  OBVIOUS
<1>3. Len(a) \in Nat /\ Len(b) \in Nat /\ Len(rest) \in Nat
  BY LenProperties
<1>4. n = Len(a) + Len(b) + Len(e)
  <2> HIDE DEF e
  <2>1. QED
    BY <1>2, <1>3
<1>5. s = a \o b
  <2>1. a \o b \in Seq(Nat)
    BY JoinedNumbers
  <2>2. QED
    BY <2>1, ConcatEmptySeq
<1>6. gain \in Seq(Nat) /\ Len(gain) = n + Len(rest) /\ gain = s \o rest
  <2>1. a \o b \in Seq(Nat) /\ Len(a \o b) = n
    BY JoinedNumbers
  <2>2. (a \o b) \o rest \in Seq(Nat) /\ Len((a \o b) \o rest) = n + Len(rest)
    BY <2>1, JoinedNumbers
  <2>3. (a \o b) \o rest = gain
    BY JoinedTwice
  <2> HIDE DEF gain, s
  <2>4. QED
    BY <1>5, <2>2, <2>3
<1>7. opened # <<>> /\ opened[1] = c
  OBVIOUS
<1>8. ASSUME Fits(Cur, n)
      PROVE  /\ rest = Opening(src, opened)
             /\ OpensRight(src, opened, Cur.max - (Cur.written + n), Output(Cur, s))
  <2>1. Begins(src, c, Cur.max - (Cur.written + n), Output(Cur, s))
    BY <1>5, <1>8
  <2>2. c \in CallType
    BY <2>1 DEF Begins
  <2>3. OpensRight(src, opened, Cur.max - (Cur.written + n), Output(Cur, s))
    <3> HIDE DEF s
    <3>1. QED
      BY <2>1, <2>2 DEF OpensRight
  <2>4. rest = Opening(src, opened)
    <3> HIDE DEF opened
    <3>1. QED
      BY <1>7, <1>8 DEF Opening
  <2>5. QED
    BY <2>3, <2>4
<1> HIDE DEF e, s, gain, opened
<1>9. s = a \o b \o e /\ Emit(a, b, e, next, opened)
  BY DEF s, e, opened
<1>10. QED
  BY <1>1, <1>2, <1>4, <1>6, <1>8, <1>9, EmitAgrees

(* A call that counts, of a message or of packed items.                    *)
CountsFirst(d, c, packed, all) ==
    /\ c.sizing /\ c.packed = packed /\ \A left, o : Begins(d, c, left, o)
    /\ Whole(d, c) = all /\ WithLength(Whole(d, c)) \in Seq(Nat)

LEMMA CountingBegins ==
    ASSUME NEW d \in Sources, NEW m, NEW p, NEW packed, CallAt(m, p, packed)
    PROVE  CountsFirst(d, Call(m, p, TRUE, 0, 0, packed), packed, WholeAt(d, m, p, packed))
<1> DEFINE c == Call(m, p, TRUE, 0, 0, packed)
           all == WholeAt(d, m, p, packed)
<1>1. AtBeginning(d, c, TRUE, 0, 0, packed, all)
  BY NewCall
<1> HIDE DEF c, all
<1>2. /\ c \in CallType /\ CallPlaced(d, c) /\ Reached(d, c) = <<>> /\ c.written = 0
      /\ c.sizing = TRUE /\ c.packed = packed /\ c.at # Huge /\ Whole(d, c) = all
  BY <1>1 DEF AtBeginning
<1>3. \A left, o : Begins(d, c, left, o)
  BY <1>2 DEF Begins
<1>4. Whole(d, c) \in Seq(Nat)
  BY <1>2, ReachedIsPart
<1>5. WithLength(Whole(d, c)) \in Seq(Nat)
  BY <1>4, LengthNumbers
<1>6. CountsFirst(d, c, packed, all)
  BY <1>2, <1>3, <1>5 DEF CountsFirst
<1>7. QED
  BY <1>6 DEF c, all

LEMMA SubmessageAgrees ==
    ASSUME EncIInv, NEW t \in Due, AllInStep, EncodeSubmessage(t)
    PROVE  Agreed'
<1> DEFINE g == Desc(t)
           a == TagBytes(t, 2)
           c == Call(g.sub, Here(t), TRUE, 0, 0, 0)
           b == <<>>
           rest == WithLength(Whole(src, c))
           n == Len(a) + Len(b)
<1>1. IsBasic(t) /\ g.ltype = "submessage" /\ Emit(a, b, <<>>, Following(t), <<c>>)
  BY DEF EncodeSubmessage
<1>2. ~IsPacked(g)
  BY <1>1 DEF IsPacked, Packable
<1>3. /\ Encoding /\ src \in Sources /\ g = Schema[Cur.msg][t]
      /\ ValueAt(Cur.msg, t, Here(t))
      /\ Gains(src, Following(t), Cur, TaggedBytes(Encodings(src), src, t, g, Here(t)))
  <2>1. g = Schema[Cur.msg][t]
    BY DEF Desc
  <2>2. QED
    BY <1>1, <1>2, <2>1, ValueGained, DueIsNext
<1>4. MessageAt(g.sub, Here(t))
  <2> HIDE DEF g
  <2>1. SubNumbers(Encodings(src), g)
    BY <1>3, SubTyped
  <2>2. QED
    BY <1>1, <1>3, <2>1, SubmessageAt
<1>5. /\ c.sizing /\ c.packed = 0 /\ \A left, o : Begins(src, c, left, o)
      /\ Whole(src, c) = Encodings(src)[g.sub][Here(t)]
      /\ rest \in Seq(Nat)
  <2> HIDE DEF g
  <2>1. CallAt(g.sub, Here(t), 0)
    BY <1>4 DEF CallAt
  <2>2. WholeAt(src, g.sub, Here(t), 0) = Encodings(src)[g.sub][Here(t)]
    BY DEF WholeAt
  <2>3. CountsFirst(src, c, 0, WholeAt(src, g.sub, Here(t), 0))
    BY <1>3, <2>1, CountingBegins
  <2> HIDE DEF c
  <2>4. QED
    BY <2>2, <2>3 DEF CountsFirst
<1>6. a \in Seq(Nat) /\ b \in Seq(Nat) /\ Len(b) = 0
  <2>1. t \in Nat
    BY DueFacts
  <2>2. a \in Seq(Nat)
    BY <2>1, TagNumbers
  <2>3. QED
    BY <2>2
<1>7. TaggedBytes(Encodings(src), src, t, g, Here(t)) = a \o (b \o rest)
  <2> HIDE DEF g, c
  <2>1. WireOf(g) = 2
    BY <1>1 DEF WireOf
  <2>2. ValueBytes(Encodings(src), src, g, Here(t)) = WithLength(Encodings(src)[g.sub][Here(t)])
    <3>1. g.ltype = "submessage"
      BY <1>1
    <3>2. QED
      BY <3>1 DEF ValueBytes, HasLength
  <2>3. TaggedBytes(Encodings(src), src, t, g, Here(t)) = a \o rest
    BY <1>5, <2>1, <2>2 DEF TaggedBytes
  <2> HIDE DEF rest, a
  <2>4. b \o rest = rest
    BY <1>5, ConcatEmptySeq
  <2>5. QED
    BY <2>3, <2>4
<1>8. Following(t).packed = 0
  <2>1. Following(t).packed = Cur.packed
    BY <1>3 DEF Gains, Onward
  <2>2. QED
    BY <2>1, DueFacts
<1>9. Gains(src, Following(t), Cur, a \o (b \o rest))
  BY <1>3, <1>7
<1>10. rest = WithLength(Whole(src, c)) /\ n = Len(a) + Len(b)
  OBVIOUS
<1> HIDE DEF g, a, b, c, rest, n
<1>11. QED
  BY <1>1, <1>3, <1>5, <1>6, <1>8, <1>9, <1>10, OpenAgrees

(* A field that is encoded as a whole.                                     *)
LEMMA FieldGained ==
    ASSUME EncIInv, NEW t \in Due, AllInStep, Desc(t).atype = "callback" \/ IsPacked(Desc(t)),
           NEW x, AfterField(x, Cur, t)
    PROVE  /\ Gains(src, x, Cur, FieldBytes(Encodings(src), src, t, Desc(t), Place(t)))
           /\ x.packed = 0
<1>1. Gains(src, x, Cur, FieldBytes(Encodings(src), src, t, Desc(t), Place(t)))
  BY DueIsNext, FieldStep
<1>2. x.packed = Cur.packed
  BY <1>1 DEF Gains, Onward
<1>3. QED
  BY <1>1, <1>2, DueFacts

LEMMA PackedAgrees ==
    ASSUME EncIInv, NEW t \in Due, AllInStep, EncodePacked(t)
    PROVE  Agreed'
<1> DEFINE g == Desc(t)
           a == TagBytes(t, 2)
           c == Call(Cur.msg, Cur.path, TRUE, 0, 0, t)
           b == <<>>
           rest == WithLength(Whole(src, c))
           n == Len(a) + Len(b)
           x == [Cur EXCEPT !.at = t]
<1>1. g.atype = "static" /\ IsPacked(g) /\ Emit(a, b, <<>>, x, <<c>>)
  BY DEF EncodePacked, IsBasic
<1>2. AfterField(x, Cur, t)
  BY DEF AfterField
<1> HIDE DEF x
<1>3. /\ Encoding /\ src \in Sources /\ g = Schema[Cur.msg][t] /\ Place(t) = Append(Cur.path, t)
      /\ Gains(src, x, Cur, FieldBytes(Encodings(src), src, t, g, Place(t)))
      /\ x.packed = 0
  <2>1. g = Schema[Cur.msg][t] /\ Place(t) = Append(Cur.path, t)
    BY DEF Desc, Place
  <2>2. QED
    BY <1>1, <1>2, <2>1, FieldGained, DueIsNext
<1>4. MessageAt(Cur.msg, Cur.path) /\ t \in Nat \ {0} /\ t \in DOMAIN Schema[Cur.msg]
  <2>1. Cur \in CallType /\ CallPlaced(src, Cur)
    BY DueIsNext DEF ComesNext
  <2>2. QED
    BY <2>1, PlacedAt, DueFacts
<1>5. /\ c.sizing /\ c.packed = t /\ \A left, o : Begins(src, c, left, o)
      /\ Whole(src, c) = FlattenSeq(ItemBytes(Encodings(src), src, t, g, Place(t)))
      /\ rest \in Seq(Nat)
  <2> HIDE DEF g
  <2>1. CallAt(Cur.msg, Cur.path, t)
    BY <1>1, <1>3, <1>4 DEF CallAt
  <2>2. WholeAt(src, Cur.msg, Cur.path, t) = FlattenSeq(ItemBytes(Encodings(src), src, t, g, Place(t)))
    BY <1>3, <1>4 DEF WholeAt
  <2>3. CountsFirst(src, c, t, WholeAt(src, Cur.msg, Cur.path, t))
    BY <1>3, <2>1, CountingBegins
  <2> HIDE DEF c
  <2>4. QED
    BY <2>2, <2>3 DEF CountsFirst
<1>6. a \in Seq(Nat) /\ b \in Seq(Nat) /\ Len(b) = 0
  <2>1. a \in Seq(Nat)
    BY <1>4, TagNumbers
  <2>2. QED
    BY <2>1
<1>7. FieldBytes(Encodings(src), src, t, g, Place(t)) = a \o (b \o rest)
  <2> HIDE DEF g, c
  <2>1. FieldBytes(Encodings(src), src, t, g, Place(t)) = a \o rest
    BY <1>1, <1>5 DEF FieldBytes
  <2> HIDE DEF rest, a
  <2>2. b \o rest = rest
    BY <1>5, ConcatEmptySeq
  <2>3. QED
    BY <2>1, <2>2
<1>8. Gains(src, x, Cur, a \o (b \o rest))
  BY <1>3, <1>7
<1>9. rest = WithLength(Whole(src, c)) /\ n = Len(a) + Len(b)
  OBVIOUS
<1> HIDE DEF g, a, b, c, rest, n
<1>10. QED
  BY <1>1, <1>3, <1>5, <1>6, <1>8, <1>9, OpenAgrees

(* Sequences that are all of the same length.                              *)
LEMMA SameLengths ==
    ASSUME NEW s \in Seq(Seq(Nat)), NEW n \in {4, 8}, \A i \in 1..Len(s) : Len(s[i]) = n
    PROVE  Len(FlattenSeq(s)) = n * Len(s)
<1> DEFINE P == {k \in Nat : k <= Len(s) => Len(First(s, k)) = n * k}
<1>1. Len(s) \in Nat /\ First(s, Len(s)) = FlattenSeq(s)
  BY LenProperties, FirstSteps
<1>2. 0 \in P
  <2>1. First(s, 0) = <<>> /\ Len(<<>>) = 0
    BY FirstSteps
  <2>2. n * 0 = 0
    OBVIOUS
  <2>3. Len(First(s, 0)) = n * 0
    BY <2>1, <2>2
  <2>4. QED
    BY <2>3
<1>3. ASSUME NEW k \in Nat, k \in P PROVE k + 1 \in P
  <2> DEFINE i == k + 1
  <2> SUFFICES ASSUME i <= Len(s) PROVE Len(First(s, i)) = n * i
    OBVIOUS
  <2>1. i \in 1..Len(s) /\ i - 1 = k /\ k \in 0..Len(s) /\ k <= Len(s)
    BY <1>1
  <2>2. Len(First(s, k)) = n * k
    BY <1>3, <2>1
  <2>3. n * i = n * k + n
    <3>1. CASE n = 4
      BY <3>1
    <3>2. CASE n = 8
      BY <3>2
    <3>3. QED
      BY <3>1, <3>2
  <2> HIDE DEF i
  <2>4. s[i] \in Seq(Nat) /\ Len(s[i]) = n
    BY <2>1, ElementOfSeq
  <2>5. First(s, i) = First(s, k) \o s[i] /\ First(s, k) \in Seq(Nat)
    BY <2>1, FirstSteps
  <2>6. Len(First(s, i)) = Len(First(s, k)) + Len(s[i])
    BY <2>4, <2>5, JoinedNumbers
  <2>7. QED
    BY <2>2, <2>3, <2>4, <2>6
<1>4. \A k \in Nat : k \in P
  <2> HIDE DEF P
  <2>1. QED
    BY <1>2, <1>3, SetInduction
<1>5. Len(s) <= Len(s) /\ Len(s) \in P
  BY <1>1, <1>4
<1>6. Len(First(s, Len(s))) = n * Len(s)
  BY <1>5
<1>7. QED
  BY <1>1, <1>6

(* The items of a packed array of fixed size.                              *)
FixedArray(d, f, t, g, q, n) ==
    /\ d \in Sources /\ f \in CallType /\ MessageAt(f.msg, f.path) /\ t \in DOMAIN Schema[f.msg]
    /\ g = Schema[f.msg][t] /\ g.atype = "static" /\ IsPacked(g) /\ g.ltype \in {"fixed32", "fixed64"}
    /\ q = Append(f.path, t) /\ n = IF g.ltype = "fixed32" THEN 4 ELSE 8

LEMMA FixedItems ==
    ASSUME NEW d, NEW f, NEW t, NEW g, NEW q, NEW n, FixedArray(d, f, t, g, q, n)
    PROVE  /\ FlattenSeq(ItemBytes(Encodings(d), d, t, g, q)) \in Seq(Nat)
           /\ Len(FlattenSeq(ItemBytes(Encodings(d), d, t, g, q))) = n * Items(d, g, q)
<1>0. /\ d \in Sources /\ f \in CallType /\ MessageAt(f.msg, f.path) /\ t \in DOMAIN Schema[f.msg]
      /\ g = Schema[f.msg][t] /\ g.atype = "static" /\ IsPacked(g) /\ g.ltype \in {"fixed32", "fixed64"}
      /\ q = Append(f.path, t) /\ n = IF g.ltype = "fixed32" THEN 4 ELSE 8
  BY DEF FixedArray
<1> USE <1>0
<1> DEFINE s == ItemsIn(d, f, t)
           N == NumberOf(d, f, t)
<1>1. g.htype = "repeated"
  BY DEF IsPacked, IsArray
<1>2. /\ N \in Nat /\ s \in Seq(Seq(Nat)) /\ Len(s) = N /\ FlattenSeq(s) \in Seq(Nat)
      /\ \A i \in 1..N : s[i] = ValueBytes(Encodings(d), d, g, Append(q, i))
  BY <1>1, ArrayItems
<1>3. N = Items(d, g, q) /\ s = ItemBytes(Encodings(d), d, t, g, q)
  BY DEF NumberOf, ItemsIn
<1>4. \A i \in Nat \ {0} : ValueAt(f.msg, t, Append(q, i))
  BY <1>1, ValuePlaces
<1>5. n \in {4, 8}
  OBVIOUS
<1> HIDE DEF s, N
<1>6. \A i \in 1..Len(s) : Len(s[i]) = n
  <2> TAKE i \in 1..Len(s)
  <2> DEFINE r == Append(q, i)
  <2>1. i \in 1..N /\ i \in Nat \ {0}
    BY <1>2
  <2>2. s[i] = ValueBytes(Encodings(d), d, g, r) /\ ValueAt(f.msg, t, r)
    BY <1>2, <1>4, <2>1
  <2> HIDE DEF r
  <2>3. ValueBytes(Encodings(d), d, g, r) = Data(g, Datum(d, g, r))
    BY DEF ValueBytes, HasLength
  <2>4. g.ltype # "submessage"
    OBVIOUS
  <2>5. /\ g.ltype = "fixed32" => Len(Data(g, Datum(d, g, r))) = 4
        /\ g.ltype = "fixed64" => Len(Data(g, Datum(d, g, r))) = 8
    BY <2>2, <2>4, DataTyped
  <2>6. QED
    BY <2>2, <2>3, <2>5
<1>7. Len(FlattenSeq(s)) = n * Len(s)
  BY <1>2, <1>5, <1>6, SameLengths
<1>8. QED
  BY <1>2, <1>3, <1>7

LEMMA ZerosNumbers ==
    ASSUME NEW n \in Nat
    PROVE  Zeros(n) \in Seq(Nat) /\ Len(Zeros(n)) = n
  BY DEF Zeros

LEMMA CallbackAgrees ==
    ASSUME EncIInv, NEW t \in Due, AllInStep, CallbackWrites(t), ~varied'
    PROVE  Agreed'
<1> DEFINE g == Desc(t)
           a == TagBytes(t, 2)
           data == src[Place(t)]
           b == LengthBytes(Len(data))
           x == [Cur EXCEPT !.at = t]
<1>1. g.atype = "callback"
  BY DEF CallbackWrites
<1>2. PICK more \in {<<>>, <<0>>} :
         /\ Emit(a, LengthBytes(Len(data \o more)), data \o more, x, <<>>)
         /\ varied' = (varied \/ more # <<>>)
  BY DEF CallbackWrites
<1>3. more = <<>>
  BY <1>2
<1>4. Place(t) \in DOMAIN src /\ t \in Nat /\ Encoding /\ src \in Sources
  <2>1. Place(t) \in DOMAIN src
    BY <1>1, DueFacts DEF Present, Place
  <2>2. QED
    BY <2>1, DueFacts, DueIsNext
<1>5. data \in Seq(Nat)
  <2>1. data \in Seq(Byte)
    BY <1>4, DueFacts, ValueWritten
  <2> HIDE DEF data
  <2>2. QED
    BY <2>1, BytesNumbers
<1>6. AfterField(x, Cur, t)
  BY DEF AfterField
<1> HIDE DEF x, data
<1>7. data \o more = data
  BY <1>3, <1>5, ConcatEmptySeq
<1>8. Emit(a, b, data, x, <<>>)
  BY <1>2, <1>7
<1>9. a \in Seq(Nat) /\ b \in Seq(Nat)
  BY <1>4, <1>5, TagNumbers, LengthNumbers
<1>10. Gains(src, x, Cur, FieldBytes(Encodings(src), src, t, g, Place(t)))
  <2> HIDE DEF g
  <2>1. QED
    BY <1>1, <1>6, FieldGained DEF g
<1>11. FieldBytes(Encodings(src), src, t, g, Place(t)) = a \o (b \o data)
  <2> HIDE DEF g
  <2>1. FieldBytes(Encodings(src), src, t, g, Place(t)) = a \o WithLength(src[Place(t)])
    BY <1>1 DEF FieldBytes
  <2>2. WithLength(src[Place(t)]) = b \o data
    BY DEF WithLength, data
  <2>3. QED
    BY <2>1, <2>2
<1>12. Gains(src, x, Cur, a \o (b \o data))
  BY <1>10, <1>11
<1> HIDE DEF a, b
<1>13. QED
  BY <1>4, <1>5, <1>8, <1>9, <1>12, WriteAgrees

LEMMA ItemAgrees ==
    ASSUME EncIInv, AllInStep, EncodeItem
    PROVE  Agreed'
<1> DEFINE q == Append(PackedPlace, Cur.item)
           data == Data(PackedDesc, Datum(src, PackedDesc, q))
           x == [Cur EXCEPT !.item = @ + 1]
           e == <<>>
<1>1. Encoding /\ Cur.packed # 0 /\ ~ItemsDone /\ Emit(data, e, e, x, e)
  BY DEF EncodeItem
<1>2. src \in Sources /\ Cur \in CallType /\ CallPlaced(src, Cur)
  BY <1>1, NowFacts
<1>3. /\ PackedDesc = Schema[Cur.msg][Cur.packed] /\ PackedPlace = Append(Cur.path, Cur.packed)
      /\ Cur.item <= Items(src, PackedDesc, PackedPlace)
  <2>1. NumberOf(src, Cur, Cur.packed) \in Nat /\ Cur.item \in Nat
    <3>1. MessageAt(Cur.msg, Cur.path)
      BY <1>2, PlacedAt
    <3>2. /\ Cur.packed \in DOMAIN Schema[Cur.msg] /\ Schema[Cur.msg][Cur.packed].htype = "repeated"
          /\ Cur.item \in Nat
      BY <1>1, <1>2, CallFacts DEF IsPacked, IsArray
    <3>3. Schema[Cur.msg][Cur.packed].atype = "static"
      BY <1>1, <1>2 DEF CallPlaced
    <3>4. QED
      BY <1>2, <3>1, <3>2, <3>3, ArrayItems
  <2>2. NumberOf(src, Cur, Cur.packed) = Items(src, PackedDesc, PackedPlace)
    BY DEF NumberOf, PackedDesc, PackedPlace
  <2>3. ~(Cur.item > Items(src, PackedDesc, PackedPlace))
    BY <1>1 DEF ItemsDone
  <2>4. Cur.item <= Items(src, PackedDesc, PackedPlace)
    BY <2>1, <2>2, <2>3
  <2>5. QED
    BY <2>4 DEF PackedDesc, PackedPlace
<1>4. AfterItem(x, Cur)
  BY DEF AfterItem
<1> HIDE DEF x
<1>5. data \in Seq(Nat) /\ Gains(src, x, Cur, data)
  BY <1>1, <1>2, <1>3, <1>4, ItemStep
<1> HIDE DEF data
<1>6. e \in Seq(Nat) /\ e \o e = e
  OBVIOUS
<1>7. data \o (e \o e) = data
  BY <1>5, <1>6, ConcatEmptySeq
<1>8. Gains(src, x, Cur, data \o (e \o e))
  BY <1>5, <1>7
<1>9. Emit(data, e, e, x, <<>>)
  BY <1>1
<1> HIDE DEF e
<1>10. QED
  BY <1>1, <1>5, <1>6, <1>8, <1>9, WriteAgrees

LEMMA PackedFixedAgrees ==
    ASSUME EncIInv, NEW t \in Due, AllInStep, EncodePackedFixed(t)
    PROVE  Agreed'
<1> DEFINE g == Desc(t)
           a == TagBytes(t, 2)
           x == [Cur EXCEPT !.at = t]
           each == IF g.ltype = "fixed32" THEN 4 ELSE 8
           size == each * CountOf(t)
           b == LengthBytes(size)
           items == FlattenSeq(ItemBytes(Encodings(src), src, t, g, Place(t)))
           e == <<>>
           n == Len(a) + Len(b)
           from == Len(out) + n
           max == Cur.max - Cur.written - n
           c == Call(Cur.msg, Cur.path, FALSE, from, max, t)
<1>1. /\ g.atype = "static" /\ IsPacked(g) /\ g.ltype \in {"fixed32", "fixed64"}
      /\ IF Cur.sizing THEN Emit(a, b, Zeros(size), x, e) ELSE Emit(a, b, e, x, <<c>>)
  BY DEF EncodePackedFixed, IsBasic
<1>2. AfterField(x, Cur, t)
  BY DEF AfterField
<1> HIDE DEF x
<1>3. /\ Encoding /\ src \in Sources /\ g = Schema[Cur.msg][t] /\ Place(t) = Append(Cur.path, t)
      /\ CountOf(t) = Items(src, g, Place(t))
      /\ Gains(src, x, Cur, FieldBytes(Encodings(src), src, t, g, Place(t)))
      /\ x.packed = 0
  <2>1. g = Schema[Cur.msg][t] /\ Place(t) = Append(Cur.path, t) /\ CountOf(t) = Items(src, g, Place(t))
    BY DEF Desc, Place, CountOf
  <2>2. QED
    BY <1>1, <1>2, <2>1, FieldGained, DueIsNext
<1>4. /\ Cur \in CallType /\ MessageAt(Cur.msg, Cur.path)
      /\ t \in Nat \ {0} /\ t \in DOMAIN Schema[Cur.msg] /\ CountOf(t) \in Nat
  <2>1. Cur \in CallType /\ CallPlaced(src, Cur)
    BY DueIsNext DEF ComesNext
  <2>2. QED
    BY <2>1, PlacedAt, DueFacts
<1>5. items \in Seq(Nat) /\ Len(items) = size
  <2> HIDE DEF g
  <2>1. each = IF g.ltype = "fixed32" THEN 4 ELSE 8
    OBVIOUS
  <2> HIDE DEF each
  <2>2. FixedArray(src, Cur, t, g, Place(t), each)
    BY <1>1, <1>3, <1>4, <2>1 DEF FixedArray
  <2>3. items \in Seq(Nat) /\ Len(items) = each * Items(src, g, Place(t))
    BY <2>2, FixedItems
  <2>4. QED
    BY <1>3, <2>3
<1>6. size \in Nat
  BY <1>5, LenProperties
<1>7. a \in Seq(Nat) /\ b \in Seq(Nat) /\ e \in Seq(Nat)
  <2>1. a \in Seq(Nat)
    BY <1>4, TagNumbers
  <2>2. b = LengthBytes(Len(items))
    BY <1>5
  <2>3. e \in Seq(Nat)
    OBVIOUS
  <2> HIDE DEF items, b, a, e
  <2>4. LengthBytes(Len(items)) \in Seq(Nat)
    BY <1>5, LengthNumbers
  <2>5. QED
    BY <2>1, <2>2, <2>3, <2>4
<1>8. FieldBytes(Encodings(src), src, t, g, Place(t)) = a \o (b \o items)
  <2>1. b = LengthBytes(Len(items))
    BY <1>5
  <2> HIDE DEF g, b, size
  <2>2. FieldBytes(Encodings(src), src, t, g, Place(t)) = a \o WithLength(items)
    BY <1>1 DEF FieldBytes
  <2>3. QED
    BY <2>1, <2>2 DEF WithLength
<1>9. Gains(src, x, Cur, a \o (b \o items))
  BY <1>3, <1>8
<1>10. CASE Cur.sizing
  <2> DEFINE z == Zeros(size)
  <2>1. z \in Seq(Nat) /\ Len(z) = Len(items)
    BY <1>5, <1>6, ZerosNumbers
  <2>2. Emit(a, b, z, x, <<>>)
    BY <1>1, <1>10
  <2> HIDE DEF a, b, z, items
  <2>3. QED
    BY <1>3, <1>5, <1>7, <1>9, <1>10, <2>1, <2>2, WriteAgrees
<1>11. CASE ~Cur.sizing
  <2>1. Emit(a, b, <<>>, x, <<c>>)
    BY <1>1, <1>11
  <2>2. Len(a) \in Nat /\ Len(b) \in Nat /\ Len(out) \in Nat /\ out \in Seq(Nat)
    <3> HIDE DEF a, b
    <3>1. out \in Seq(Nat)
      BY <1>3, NowFacts
    <3>2. QED
      BY <1>7, <3>1, LenProperties
  <2>3. Cur.max \in Nat /\ Cur.written \in Nat
    BY <1>4, CallFacts
  <2>4. ASSUME Fits(Cur, n)
        PROVE  /\ Begins(src, c, Cur.max - (Cur.written + n), Output(Cur, a \o b))
               /\ items = IF c.sizing THEN WithLength(Whole(src, c)) ELSE Whole(src, c)
    <3> HIDE DEF a, b
    <3>1. n \in Nat /\ from \in Nat
      BY <2>2
    <3> HIDE DEF n
    <3>2. max \in Nat /\ max = Cur.max - (Cur.written + n)
      BY <1>11, <2>3, <2>4, <3>1 DEF Fits
    <3> HIDE DEF g
    <3>3. CallAt(Cur.msg, Cur.path, t)
      BY <1>1, <1>3, <1>4 DEF CallAt
    <3>4. WholeAt(src, Cur.msg, Cur.path, t) = items
      BY <1>3, <1>4 DEF WholeAt
    <3> HIDE DEF from, max
    <3>5. AtBeginning(src, c, FALSE, from, max, t, items)
      BY <1>3, <3>1, <3>2, <3>3, <3>4, NewCall
    <3> HIDE DEF c, items
    <3>6. /\ c \in CallType /\ CallPlaced(src, c) /\ Reached(src, c) = <<>> /\ c.written = 0
          /\ c.sizing = FALSE /\ c.from = from /\ c.max = max /\ c.packed = t
          /\ Whole(src, c) = items
      BY <3>5 DEF AtBeginning
    <3>7. Len(Output(Cur, a \o b)) = from
      <4>1. a \o b \in Seq(Nat) /\ Len(a \o b) = Len(a) + Len(b)
        BY <1>7, JoinedNumbers
      <4>2. Len(out \o (a \o b)) = Len(out) + Len(a \o b)
        BY <2>2, <4>1, JoinedNumbers
      <4>3. Output(Cur, a \o b) = out \o (a \o b)
        BY <1>11 DEF Output
      <4>4. QED
        BY <4>1, <4>2, <4>3 DEF from, n
    <3>8. Begins(src, c, Cur.max - (Cur.written + n), Output(Cur, a \o b))
      BY <1>4, <3>2, <3>6, <3>7 DEF Begins
    <3>9. QED
      BY <3>6, <3>8
  <2>5. n = Len(a) + Len(b)
    OBVIOUS
  <2> HIDE DEF a, b, items, n, c
  <2>6. QED
    BY <1>3, <1>5, <1>7, <1>9, <2>1, <2>4, <2>5, OpenAgrees
<1>12. QED
  BY <1>10, <1>11

LEMMA OtherAgrees ==
    ASSUME outcome' \notin {"running", "ok", "stream full", "submsg size changed"}
    PROVE  Agreed'
  BY DEF Agreed, Encoding, PassesAgree

LEMMA ErrorAgrees ==
    ASSUME EncIInv, NEW t \in Due, AllInStep,
           ArrayTooLong(t) \/ BytesExceeded(t) \/ CallbackRefuses(t)
    PROVE  Agreed'
<1>1. CASE ArrayTooLong(t)
  BY <1>1, OtherAgrees DEF ArrayTooLong, Stop
<1>2. CASE CallbackRefuses(t)
  BY <1>2, OtherAgrees DEF CallbackRefuses, Stop
<1>3. CASE BytesExceeded(t)
  <2> DEFINE a == TagBytes(t, 2)
             g == Desc(t)
             x == Following(t)
             b == ValueBytes(Encodings(src), src, g, Here(t))
             tagged == TaggedBytes(Encodings(src), src, t, g, Here(t))
  <2>1. IsBasic(t) /\ g.ltype = "bytes"
    BY <1>3 DEF BytesExceeded, BytesTooLong
  <2>2. CASE Fits(Cur, Len(a))
    BY <1>3, <2>2, OtherAgrees DEF BytesExceeded, Stop
  <2>3. CASE ~Fits(Cur, Len(a))
    <3>1. outcome' = "stream full" /\ UNCHANGED <<src, room, mode>>
      BY <1>3, <2>3 DEF BytesExceeded, Stop
    <3>2. /\ ValueAt(Cur.msg, t, Here(t)) /\ g = Schema[Cur.msg][t]
          /\ tagged \in Seq(Nat) /\ Gains(src, x, Cur, tagged)
      <4>1. ~IsPacked(g)
        BY <2>1 DEF IsPacked, Packable
      <4>2. QED
        BY <2>1, <4>1, ValueGained DEF Desc
    <3>3. /\ src \in Sources /\ Len(frames) \in 1..Len(frames) /\ Cur = frames[Len(frames)]
          /\ Cur \in CallType /\ CallPlaced(src, Cur) /\ Len(Reached(src, Cur)) = Cur.written
          /\ Encoding
      BY DueIsNext, NowFacts
    <3>4. a \in Seq(Nat)
      <4>1. t \in Nat
        BY DueFacts
      <4>2. QED
        BY <4>1, TagNumbers
    <3>5. b \in Seq(Nat) /\ tagged = a \o b
      <4> HIDE DEF g
      <4>1. WireOf(g) = 2
        BY <2>1 DEF WireOf
      <4>2. tagged = a \o b
        BY <4>1 DEF TaggedBytes
      <4>3. g.ltype # "submessage"
        BY <2>1
      <4>4. b \in Seq(Nat)
        BY <3>2, <3>3, <4>3, ValueNumbers
      <4>5. QED
        BY <4>2, <4>4
    <3> HIDE DEF a, b, g, x, tagged
    <3>6. x \in CallType /\ Onward(x, Cur) /\ CallPlaced(src, x) /\ Reached(src, x) = Reached(src, Cur) \o tagged
      BY <3>2 DEF Gains
    <3>7. Len(Reached(src, x)) > Cur.max /\ ~Cur.sizing
      <4>1. Reached(src, Cur) \in Seq(Nat)
        BY <3>3, ReachedIsPart
      <4>2. Len(Reached(src, x)) = Cur.written + Len(tagged) /\ Len(tagged) = Len(a) + Len(b)
            /\ Len(a) \in Nat /\ Len(b) \in Nat
        BY <3>2, <3>3, <3>4, <3>5, <3>6, <4>1, JoinedNumbers
      <4>3. Cur.written \in Nat /\ Cur.max \in Nat
        BY <3>3, CallFacts
      <4>4. ~Cur.sizing /\ ~(Cur.written + Len(a) <= Cur.max)
        BY <2>3 DEF Fits
      <4> DEFINE l == Len(Reached(src, x))
                 w == Cur.written
                 m == Cur.max
                 i == Len(a)
                 j == Len(b)
      <4>5. l = w + (i + j) /\ i \in Nat /\ j \in Nat /\ w \in Nat /\ m \in Nat /\ ~(w + i <= m)
        BY <4>2, <4>3, <4>4
      <4> HIDE DEF l, w, m, i, j
      <4>6. l > m
        BY <4>5
      <4>7. QED
        BY <4>4, <4>6 DEF l, m
    <3>8. PassesAgree'
      BY <3>1, <3>3, <3>6, <3>7, FullAgrees
    <3>9. QED
      BY <3>1, <3>8 DEF Agreed, Encoding
  <2>4. QED
    BY <2>2, <2>3
<1>4. QED
  BY <1>1, <1>2, <1>3

----------------------------------------------------------------------------
(* The end of a call.                                                      *)

LEMMA DoneFacts ==
    ASSUME EncIInv, AllInStep, CallDone
    PROVE  /\ Encoding /\ src \in Sources /\ Cur \in CallType /\ CallPlaced(src, Cur)
           /\ Whole(src, Cur) \in Seq(Nat) /\ Len(Whole(src, Cur)) = Cur.written /\ Cur.written \in Nat
           /\ ~Cur.sizing => SubSeq(out, Cur.from + 1, Cur.from + Cur.written) = Whole(src, Cur)
<1>1. Encoding
  BY DEF CallDone
<1>2. /\ src \in Sources /\ Cur \in CallType /\ CallPlaced(src, Cur)
      /\ Len(Reached(src, Cur)) = Cur.written
      /\ ~Cur.sizing => SubSeq(out, Cur.from + 1, Cur.from + Cur.written) = Reached(src, Cur)
  BY <1>1, NowFacts
<1>3. IF Cur.packed # 0 THEN Cur.item > NumberOf(src, Cur, Cur.packed) ELSE Waiting(src, Cur) = {}
  BY DEF CallDone, ItemsDone, PackedDesc, PackedPlace, NumberOf, Todo, Waiting
<1>4. Reached(src, Cur) = Whole(src, Cur)
  BY <1>2, <1>3, DoneIsWhole
<1>5. Whole(src, Cur) \in Seq(Nat) /\ Cur.written \in Nat
  BY <1>2, ReachedIsPart, CallFacts
<1>6. QED
  BY <1>1, <1>2, <1>4, <1>5

(* The call that made the current one goes on, with w bytes written.       *)
LEMMA ReturnAgrees ==
    ASSUME EncIInv, Encoding, AllInStep, Len(frames) > 1, UNCHANGED <<src, room, mode, outcome>>,
           NEW w \in Nat, NEW s \in Seq(Nat), NEW opened,
           Return([Parent EXCEPT !.written = w], opened),
           out' = out \o s, Parent.sizing => s = <<>>,
           OpensRight(src, opened, Parent.max - w, out \o s),
           Len(Reached(src, Parent)) = w + Len(Opening(src, opened)),
           ~Parent.sizing => /\ Parent.from + w <= Len(out \o s)
                             /\ SubSeq(out \o s, Parent.from + 1, Parent.from + w) \o Opening(src, opened)
                                   = Reached(src, Parent)
    PROVE  Agreed'
<1> DEFINE x == [Parent EXCEPT !.written = w]
           k == Len(frames) - 1
<1>1. /\ k \in 1..Len(frames) /\ Parent = frames[k] /\ Parent \in CallType
      /\ CallPlaced(src, Parent) /\ Parent.packed = 0
  BY CallerFacts
<1>2. /\ x \in CallType /\ x.written = w /\ x.sizing = Parent.sizing /\ x.from = Parent.from
      /\ x.max = Parent.max /\ x.packed = 0 /\ x.msg = Parent.msg /\ x.path = Parent.path
      /\ x.at = Parent.at /\ Reached(src, x) = Reached(src, Parent) /\ CallPlaced(src, x)
  <2>1. WithWritten(x, Parent, w)
    BY DEF WithWritten
  <2> HIDE DEF x
  <2>2. QED
    BY <1>1, <2>1, WrittenSame
<1>3. Len(frames) - 2 = k - 1
  BY <1>1, NowFacts
<1>4. frames' = Rebuilt(frames, k - 1, x, opened)
  BY <1>3 DEF Return, Rebuilt
<1> HIDE DEF x, k
<1>5. Onward(x, frames[k])
  BY <1>1, <1>2 DEF Onward
<1>6. opened \in Seq(CallType)
  BY OneOpened
<1>7. frames[1].sizing => s = <<>>
  BY <1>1, BottomCounts
<1>8. OpensRight(src, opened, x.max - x.written, out \o s)
  BY <1>2
<1>9. Len(Reached(src, x)) = x.written + Len(Opening(src, opened))
  BY <1>2
<1>10. ~x.sizing => /\ x.from + x.written <= Len(out \o s)
                    /\ SubSeq(out \o s, x.from + 1, x.from + x.written) \o Opening(src, opened) = Reached(src, x)
  BY <1>2
<1>11. AllInStep'
  BY <1>1, <1>2, <1>4, <1>5, <1>6, <1>7, <1>8, <1>9, <1>10, RebuiltAgrees
<1>12. QED
  BY <1>11 DEF Agreed, Encoding

(* What a stream and the one that follows it have written.                 *)
LEMMA PartsMeet ==
    ASSUME NEW o \in Seq(Nat), NEW a \in Nat, NEW b \in Nat, NEW c \in Nat, a + (b + c) <= Len(o)
    PROVE  SubSeq(o, a + 1, a + (b + c)) = SubSeq(o, a + 1, a + b) \o SubSeq(o, (a + b) + 1, (a + b) + c)
<1> DEFINE p == SubSeq(o, a + 1, a + b)
           q == SubSeq(o, (a + b) + 1, (a + b) + c)
           r == SubSeq(o, a + 1, a + (b + c))
<1>1. b + c \in Nat /\ a + b \in Nat /\ (a + b) + c <= Len(o) /\ a + b <= Len(o)
  BY LenProperties
<1>2. p \in Seq(Nat) /\ Len(p) = b /\ \A i \in 1..b : p[i] = o[a + i]
  BY <1>1, PartIs
<1>3. q \in Seq(Nat) /\ Len(q) = c /\ \A i \in 1..c : q[i] = o[(a + b) + i]
  <2> DEFINE ab == a + b
  <2>1. ab \in Nat /\ ab + c <= Len(o)
    BY <1>1
  <2> HIDE DEF ab
  <2>2. /\ SubSeq(o, ab + 1, ab + c) \in Seq(Nat) /\ Len(SubSeq(o, ab + 1, ab + c)) = c
        /\ \A i \in 1..c : SubSeq(o, ab + 1, ab + c)[i] = o[ab + i]
    BY <2>1, PartIs
  <2>3. QED
    BY <2>2 DEF ab
<1>4. r \in Seq(Nat) /\ Len(r) = b + c /\ \A i \in 1..(b + c) : r[i] = o[a + i]
  <2> DEFINE bc == b + c
  <2>1. bc \in Nat /\ a + bc <= Len(o)
    BY <1>1
  <2> HIDE DEF bc
  <2>2. /\ SubSeq(o, a + 1, a + bc) \in Seq(Nat) /\ Len(SubSeq(o, a + 1, a + bc)) = bc
        /\ \A i \in 1..bc : SubSeq(o, a + 1, a + bc)[i] = o[a + i]
    BY <2>1, PartIs
  <2>3. QED
    BY <2>2 DEF bc
<1> DEFINE pq == p \o q
<1> HIDE DEF p, q, r
<1>5. /\ pq \in Seq(Nat) /\ Len(pq) = b + c
      /\ \A i \in 1..b : pq[i] = p[i]
      /\ \A i \in 1..c : pq[b + i] = q[i]
  BY <1>2, <1>3, JoinedParts
<1> HIDE DEF pq
<1>6. \A i \in 1..(b + c) : r[i] = pq[i]
  <2> TAKE i \in 1..(b + c)
  <2>1. CASE i <= b
    <3>1. i \in 1..b
      BY <2>1
    <3>2. QED
      BY <1>2, <1>4, <1>5, <3>1
  <2>2. CASE i > b
    <3> DEFINE j == i - b
    <3>1. j \in 1..c /\ b + j = i /\ (a + b) + j = a + i
      BY <2>2
    <3> HIDE DEF j
    <3>2. pq[b + j] = o[(a + b) + j]
      BY <1>3, <1>5, <3>1
    <3>3. QED
      BY <1>4, <3>1, <3>2
  <2>3. QED
    BY <2>1, <2>2
<1>7. r = pq
  <2> DEFINE n == b + c
  <2>1. Len(r) = n /\ Len(pq) = n /\ r \in Seq(Nat) /\ pq \in Seq(Nat) /\ \A i \in 1..n : r[i] = pq[i]
    BY <1>4, <1>5, <1>6
  <2> HIDE DEF n
  <2>2. QED
    BY <2>1, SeqEqual
<1>8. QED
  BY <1>7 DEF r, pq, p, q

LEMMA SecondPassAgrees ==
    ASSUME EncIInv, AllInStep, SecondPassDone
    PROVE  Agreed'
<1>1. CallDone /\ Len(frames) > 1 /\ ~Cur.sizing /\ UNCHANGED <<src, room, mode, out>>
  BY DEF SecondPassDone
<1> DEFINE all == Whole(src, Cur)
           w == Parent.written + Cur.written
<1>2. /\ Encoding /\ src \in Sources /\ Cur \in CallType
      /\ all \in Seq(Nat) /\ Len(all) = Cur.written /\ Cur.written \in Nat
      /\ SubSeq(out, Cur.from + 1, Cur.from + Cur.written) = all
  BY <1>1, DoneFacts
<1>3. Cur.packed = 0 => Cur.max = Cur.written
  BY <1>1, <1>2, NowFacts
<1>4. Return([Parent EXCEPT !.written = w], <<>>) /\ UNCHANGED outcome
  BY <1>3 DEF SecondPassDone
<1>5. ~Parent.sizing /\ Cur.from = Parent.from + Parent.written /\ Parent \in CallType
  BY <1>1, <1>2, ParentFacts
<1>6. /\ Len(Reached(src, Parent)) = Parent.written + Len(all)
      /\ SubSeq(out, Parent.from + 1, Parent.from + Parent.written) \o all = Reached(src, Parent)
      /\ CallPlaced(src, Parent)
  <2> HIDE DEF all
  <2>1. QED
    BY <1>1, <1>2, <1>5, CallerFacts DEF all
<1>7. Parent.from \in Nat /\ Parent.written \in Nat /\ w \in Nat
  BY <1>2, <1>5, CallFacts
<1>8. out \in Seq(Nat) /\ Len(out) = Cur.from + Cur.written
  BY <1>1, <1>2, NowFacts, CurFacts
<1> HIDE DEF all
<1>9. Parent.from + w <= Len(out) /\ SubSeq(out, Parent.from + 1, Parent.from + w) = Reached(src, Parent)
  <2> DEFINE a == Parent.from
             b == Parent.written
             c == Cur.written
  <2>1. a \in Nat /\ b \in Nat /\ c \in Nat /\ Cur.from = a + b /\ w = b + c /\ Len(out) = (a + b) + c
    BY <1>2, <1>5, <1>7, <1>8
  <2>2. /\ SubSeq(out, a + 1, a + b) \o all = Reached(src, Parent)
        /\ SubSeq(out, (a + b) + 1, (a + b) + c) = all
    BY <1>2, <1>6, <2>1
  <2> HIDE DEF a, b, c, w
  <2>3. a + (b + c) <= Len(out)
    BY <2>1
  <2>4. SubSeq(out, a + 1, a + (b + c)) = Reached(src, Parent)
    BY <1>8, <2>1, <2>2, <2>3, PartsMeet
  <2>5. QED
    BY <2>1, <2>3, <2>4 DEF a
<1>10. out \o <<>> = out /\ <<>> \in Seq(Nat)
  BY <1>8, ConcatEmptySeq
<1>11. Opening(src, <<>>) = <<>> /\ OpensRight(src, <<>>, Parent.max - w, out)
  BY DEF Opening, OpensRight
<1>12. Reached(src, Parent) \o <<>> = Reached(src, Parent) /\ Len(<<>>) = 0
  BY <1>2, <1>5, <1>6, ReachedIsPart, ConcatEmptySeq
<1>13. Len(Reached(src, Parent)) = w + Len(Opening(src, <<>>))
  <2>1. Len(Reached(src, Parent)) = w
    BY <1>2, <1>6
  <2> HIDE DEF w
  <2>2. QED
    BY <1>7, <1>11, <1>12, <2>1
<1> HIDE DEF w
<1>14. QED
  <2>1. out' = out \o <<>>
    BY <1>1, <1>10
  <2>2. OpensRight(src, <<>>, Parent.max - w, out \o <<>>)
    BY <1>10, <1>11
  <2>3. /\ Parent.from + w <= Len(out \o <<>>)
        /\ SubSeq(out \o <<>>, Parent.from + 1, Parent.from + w) \o Opening(src, <<>>) = Reached(src, Parent)
    BY <1>9, <1>10, <1>11, <1>12
  <2>4. UNCHANGED <<src, room, mode, outcome>>
    BY <1>1, <1>4
  <2>5. QED
    BY <1>1, <1>2, <1>4, <1>7, <1>10, <1>13, <2>1, <2>2, <2>3, <2>4, ReturnAgrees

(* The current call again, to write what it has counted.                   *)
LEMMA CallAgain ==
    ASSUME NEW d \in Sources, NEW f \in CallType, CallPlaced(d, f), f.packed = 0 => f.at # Huge,
           NEW from \in Nat, NEW max \in Nat
    PROVE  AtBeginning(d, Call(f.msg, f.path, FALSE, from, max, f.packed), FALSE, from, max, f.packed, Whole(d, f))
<1>1. CallAt(f.msg, f.path, f.packed)
  BY PlacedAt, CallFacts DEF CallAt, CallPlaced
<1>2. WholeAt(d, f.msg, f.path, f.packed) = Whole(d, f)
  BY DEF WholeAt, Whole, ItemsIn
<1>3. QED
  BY <1>1, <1>2, NewCall

LEMMA SizeKnownAgrees ==
    ASSUME EncIInv, AllInStep, SizeKnown
    PROVE  Agreed'
<1> DEFINE all  == Whole(src, Cur)
           len  == LengthBytes(Cur.written)
           v    == Parent.written + Len(len)
           w    == v + Cur.written
           next == [Parent EXCEPT !.written = v]
           max  == IF Cur.packed # 0 THEN next.max - next.written ELSE Cur.written
           again == Call(Cur.msg, Cur.path, FALSE, Len(out) + Len(len), max, Cur.packed)
<1>1. Encoding /\ Len(frames) > 1 /\ Cur.sizing /\ CallDone /\ UNCHANGED <<src, room, mode>>
  BY DEF SizeKnown, CallDone
<1>2. /\ src \in Sources /\ Cur \in CallType /\ CallPlaced(src, Cur)
      /\ all \in Seq(Nat) /\ Len(all) = Cur.written /\ Cur.written \in Nat
      /\ out \in Seq(Nat) /\ Len(out) \in Nat
      /\ Cur.packed = 0 => Cur.at # Huge
  BY <1>1, DoneFacts, NowFacts, LenProperties
<1>3. len \in Seq(Nat) /\ Len(len) \in Nat /\ WithLength(all) = len \o all
      /\ Len(WithLength(all)) = Len(len) + Cur.written
  <2> HIDE DEF all
  <2>1. QED
    BY <1>2, LengthNumbers DEF WithLength
<1>4. /\ Len(frames) - 1 \in 1..Len(frames) /\ Parent = frames[Len(frames) - 1] /\ Parent \in CallType
      /\ CallPlaced(src, Parent) /\ Parent.packed = 0
      /\ Len(Reached(src, Parent)) = Parent.written + Len(WithLength(all))
      /\ ~Parent.sizing =>
            /\ Parent.from + Parent.written <= Len(out)
            /\ SubSeq(out, Parent.from + 1, Parent.from + Parent.written) \o WithLength(all) = Reached(src, Parent)
  BY <1>1, CallerFacts
<1>5. /\ Parent.written \in Nat /\ Parent.from \in Nat /\ Parent.max \in Nat /\ Parent.sizing \in BOOLEAN
      /\ v \in Nat /\ w \in Nat
  <2>1. Parent.written \in Nat /\ Parent.from \in Nat /\ Parent.max \in Nat /\ Parent.sizing \in BOOLEAN
    BY <1>4, CallFacts
  <2> HIDE DEF len
  <2>2. QED
    BY <1>2, <1>3, <2>1
<1>6. Len(Reached(src, Parent)) = w /\ w = v + Len(all)
  <2> DEFINE r == Len(Reached(src, Parent))
             l == Len(len)
             p == Parent.written
             c == Cur.written
  <2>1. r = p + (l + c) /\ l \in Nat /\ p \in Nat /\ c \in Nat
    BY <1>2, <1>3, <1>4, <1>5
  <2> HIDE DEF r, l, p, c
  <2>2. r = (p + l) + c
    BY <2>1
  <2>3. QED
    BY <1>2, <2>2 DEF r, l, p, c
<1>7. next \in CallType /\ next.written = v /\ next.max = Parent.max /\ next.sizing = Parent.sizing
  <2> HIDE DEF v
  <2>1. QED
    BY <1>4, <1>5, WrittenCall
<1>8. out \o <<>> = out /\ <<>> \in Seq(Nat) /\ Len(<<>>) = 0
  BY <1>2, ConcatEmptySeq
<1>9. CASE Parent.sizing
  <2>1. Return([next EXCEPT !.written = next.written + Cur.written], <<>>) /\ UNCHANGED <<out, outcome>>
    BY <1>9 DEF SizeKnown
  <2>2. [next EXCEPT !.written = next.written + Cur.written] = [Parent EXCEPT !.written = w]
    <3> HIDE DEF v
    <3>1. next.written + Cur.written = w
      BY <1>7
    <3> HIDE DEF w
    <3>2. [next EXCEPT !.written = w] = [Parent EXCEPT !.written = w]
      BY <1>4, WrittenTwice
    <3>3. QED
      BY <3>1, <3>2
  <2> HIDE DEF v, w, next, all, len
  <2>3. Return([Parent EXCEPT !.written = w], <<>>)
    BY <2>1, <2>2
  <2>4. Opening(src, <<>>) = <<>> /\ OpensRight(src, <<>>, Parent.max - w, out \o <<>>)
    BY DEF Opening, OpensRight
  <2>5. Len(Reached(src, Parent)) = w + Len(Opening(src, <<>>))
    BY <1>5, <1>6, <1>8, <2>4
  <2>6. out' = out \o <<>> /\ UNCHANGED <<src, room, mode, outcome>>
    BY <1>1, <1>8, <2>1
  <2>7. QED
    BY <1>1, <1>5, <1>8, <1>9, <2>3, <2>4, <2>5, <2>6, ReturnAgrees
<1>10. CASE ~Parent.sizing
  <2>1. \/ outcome' = "stream full" /\ ~Fits(Parent, Len(len))
        \/ outcome' = "stream full" /\ ~Fits(next, Cur.written)
        \/ /\ Fits(Parent, Len(len)) /\ out' = out \o len /\ Return(next, <<again>>) /\ UNCHANGED outcome
    BY <1>10 DEF SizeKnown
  <2>2. ASSUME ~Fits(Parent, Len(len)) \/ ~Fits(next, Cur.written)
        PROVE  Len(Reached(src, Parent)) > Parent.max
    <3>1. ~(v <= Parent.max) \/ ~(w <= Parent.max)
      BY <1>7, <2>2 DEF Fits
    <3> HIDE DEF v
    <3>2. w >= v
      BY <1>2, <1>5
    <3> HIDE DEF w
    <3>3. QED
      BY <1>5, <1>6, <3>1, <3>2
  <2>3. CASE outcome' = "stream full" /\ (~Fits(Parent, Len(len)) \/ ~Fits(next, Cur.written))
    <3> HIDE DEF v, w, next, len, all, max, again
    <3>1. Onward(Parent, Parent)
      BY <1>4 DEF Onward
    <3>2. outcome' = "stream full" /\ ~frames[Len(frames) - 1].sizing
          /\ Len(Reached(src, Parent)) > frames[Len(frames) - 1].max
          /\ Onward(Parent, frames[Len(frames) - 1])
      BY <1>4, <1>10, <2>2, <2>3, <3>1
    <3>3. PassesAgree'
      BY <1>1, <1>4, <3>2, FullAgrees
    <3>4. QED
      BY <3>2, <3>3 DEF Agreed, Encoding
  <2>4. CASE /\ Fits(Parent, Len(len)) /\ out' = out \o len /\ Return(next, <<again>>) /\ UNCHANGED outcome
    <3>1. v <= Parent.max
      BY <1>10, <2>4 DEF Fits
    <3>2. max = (IF Cur.packed # 0 THEN Parent.max - v ELSE Cur.written) /\ max \in Nat
      <4>1. max = IF Cur.packed # 0 THEN Parent.max - v ELSE Cur.written
        BY <1>7
      <4> HIDE DEF v, max
      <4>2. QED
        BY <1>2, <1>5, <3>1, <4>1
    <3> DEFINE from == Len(out) + Len(len)
    <3> HIDE DEF max, len, all
    <3>3. from \in Nat /\ Len(out \o len) = from
      BY <1>2, <1>3, JoinedNumbers
    <3> HIDE DEF from
    <3>4. AtBeginning(src, Call(Cur.msg, Cur.path, FALSE, from, max, Cur.packed), FALSE, from, max,
                      Cur.packed, all)
      BY <1>2, <3>2, <3>3, CallAgain DEF all
    <3>5. again = Call(Cur.msg, Cur.path, FALSE, from, max, Cur.packed)
      BY DEF from
    <3> HIDE DEF again
    <3>6. /\ again \in CallType /\ CallPlaced(src, again) /\ Reached(src, again) = <<>>
          /\ again.written = 0 /\ again.sizing = FALSE /\ again.from = from /\ again.max = max
          /\ again.packed = Cur.packed /\ again.at # Huge /\ Whole(src, again) = all
      BY <3>4, <3>5 DEF AtBeginning
    <3>7. Begins(src, again, Parent.max - v, out \o len)
      <4> HIDE DEF v
      <4>1. again.from = Len(out \o len)
        BY <3>3, <3>6
      <4>2. again.packed = 0 => again.max = Len(Whole(src, again))
        BY <1>2, <3>2, <3>6
      <4>3. again.packed # 0 => again.max = Parent.max - v
        BY <3>2, <3>6
      <4>4. QED
        BY <3>6, <4>1, <4>2, <4>3 DEF Begins
    <3>8. OpensRight(src, <<again>>, Parent.max - v, out \o len)
      BY <3>6, <3>7 DEF OpensRight
    <3>9. Opening(src, <<again>>) = all
      BY <3>6 DEF Opening
    <3>10. EndsAt(out, Parent.from, Parent.written)
      BY <1>1, <1>2, <1>5, <1>10, ParentFacts DEF EndsAt
    <3>11. GoesOn(out, len, all, Parent.from, Parent.written)
      BY <1>2, <1>3, <3>10, WritesOn
    <3>12. /\ Parent.from + v <= Len(out \o len)
           /\ SubSeq(out \o len, Parent.from + 1, Parent.from + v) \o Opening(src, <<again>>)
                 = Reached(src, Parent)
      BY <1>3, <1>4, <1>10, <3>9, <3>11 DEF GoesOn
    <3>13. Len(Reached(src, Parent)) = v + Len(Opening(src, <<again>>))
      BY <1>6, <3>9
    <3>14. Return([Parent EXCEPT !.written = v], <<again>>) /\ UNCHANGED <<src, room, mode, outcome>>
           /\ out' = out \o len
      BY <1>1, <2>4
    <3> HIDE DEF v, w, next
    <3>15. QED
      BY <1>1, <1>3, <1>5, <1>10, <3>8, <3>12, <3>13, <3>14, ReturnAgrees
  <2>5. QED
    BY <2>1, <2>3, <2>4
<1>11. QED
  BY <1>5, <1>9, <1>10

(* The bottom call is at its end: all has been written, or counted.        *)
LEMMA BottomDone ==
    ASSUME EncIInv, AllInStep, CallDone, Len(frames) = 1
    PROVE  LET all == Whole(src, Cur) IN
           /\ Cur = frames[1] /\ all \in Seq(Nat) /\ Len(all) = Cur.written /\ Cur.written \in Nat
           /\ Cur.sizing <=> mode = "size"
           /\ IF mode = "size" THEN out = <<>> ELSE out = all /\ Cur.max = room
           /\ all = IF mode = "delimited" THEN WithLength(Wire(src)) ELSE Wire(src)
           /\ Expected(src) = IF mode = "nullterminated" THEN all \o <<0>> ELSE all
<1> DEFINE all == Whole(src, Cur)
<1>1. Encoding /\ Cur = frames[1]
  BY DEF CallDone, Cur
<1>2. /\ all \in Seq(Nat) /\ Len(all) = Cur.written /\ Cur.written \in Nat
      /\ ~Cur.sizing => SubSeq(out, Cur.from + 1, Cur.from + Cur.written) = all
  BY DoneFacts
<1>3. /\ all = IF mode = "delimited" THEN WithLength(Wire(src)) ELSE Wire(src)
      /\ Expected(src) = IF mode = "nullterminated" THEN all \o <<0>> ELSE all
  BY <1>1, BottomWhole
<1>4. /\ Cur.from = 0
      /\ Cur.sizing <=> mode = "size"
      /\ IF Cur.sizing THEN out = <<>> ELSE Cur.max = room
      /\ out \in Seq(Nat)
  BY <1>1 DEF AllInStep, BottomCall
<1>5. ASSUME ~Cur.sizing PROVE out = all
  <2>1. Len(out) = Cur.from + Cur.written
    BY <1>1, <1>5, CurFacts
  <2>2. Len(out) = Cur.written /\ Cur.from + 1 = 1 /\ Cur.from + Cur.written = Len(out)
    <3> DEFINE f == Cur.from
               w == Cur.written
               n == Len(out)
    <3>1. f = 0 /\ w \in Nat /\ n = f + w
      BY <1>2, <1>4, <2>1
    <3> HIDE DEF f, w, n
    <3>2. n = w /\ f + 1 = 1 /\ f + w = n
      BY <3>1
    <3>3. QED
      BY <3>2 DEF f, w, n
  <2>3. SubSeq(out, 1, Len(out)) = out
    BY <1>4, SubSeqFull
  <2>4. QED
    BY <1>2, <1>5, <2>2, <2>3
<1>6. /\ Cur.sizing <=> mode = "size"
      /\ IF mode = "size" THEN out = <<>> ELSE out = all /\ Cur.max = room
  <2> HIDE DEF all
  <2>1. QED
    BY <1>4, <1>5
<1>7. QED
  BY <1>1, <1>2, <1>3, <1>6

LEMMA DoneAgrees ==
    ASSUME EncIInv, AllInStep, EncodeDone
    PROVE  Agreed'
<1> DEFINE all == Whole(src, Cur)
<1>1. CallDone /\ Encoding /\ Len(frames) = 1 /\ UNCHANGED <<src, room, mode>>
  BY DEF EncodeDone, CallDone
<1>2. /\ Cur = frames[1] /\ all \in Seq(Nat) /\ Len(all) = Cur.written /\ Cur.written \in Nat
      /\ Cur.sizing <=> mode = "size"
      /\ IF mode = "size" THEN out = <<>> ELSE out = all /\ Cur.max = room
      /\ all = IF mode = "delimited" THEN WithLength(Wire(src)) ELSE Wire(src)
      /\ Expected(src) = IF mode = "nullterminated" THEN all \o <<0>> ELSE all
  BY <1>1, BottomDone
<1>3. Expected(src)' = Expected(src) /\ Wire(src)' = Wire(src)
  BY <1>1 DEF Expected
<1> HIDE DEF all
<1>4. CASE mode # "nullterminated"
  <2>1. outcome' = "ok" /\ UNCHANGED <<out, frames>>
    BY <1>4 DEF EncodeDone
  <2>2. Cur' = Cur
    BY <2>1 DEF Cur
  <2>3. CASE mode = "size"
    <3>1. out' = <<>> /\ Cur'.written = Len(Wire(src)')
      BY <1>2, <1>3, <2>1, <2>2, <2>3
    <3>2. QED
      BY <1>1, <2>1, <2>3, <3>1 DEF Agreed, Encoding, PassesAgree
  <2>4. CASE mode # "size"
    <3>1. out' = Expected(src)'
      BY <1>2, <1>3, <1>4, <2>1, <2>4
    <3>2. QED
      BY <1>1, <2>1, <2>4, <3>1 DEF Agreed, Encoding, PassesAgree
  <2>5. QED
    BY <2>3, <2>4
<1>5. CASE mode = "nullterminated" /\ Fits(Cur, 1)
  <2>1. outcome' = "ok" /\ out' = out \o <<0>>
    BY <1>5 DEF EncodeDone
  <2>2. out' = Expected(src)'
    BY <1>2, <1>3, <1>5, <2>1
  <2>3. QED
    BY <1>1, <1>5, <2>1, <2>2 DEF Agreed, Encoding, PassesAgree
<1>6. CASE mode = "nullterminated" /\ ~Fits(Cur, 1)
  <2>1. outcome' = "stream full"
    BY <1>6 DEF EncodeDone
  <2>2. Len(Expected(src)) = Len(all) + 1
    <3>1. <<0>> \in Seq(Nat) /\ Len(<<0>>) = 1
      OBVIOUS
    <3>2. Len(all \o <<0>>) = Len(all) + Len(<<0>>)
      BY <1>2, <3>1, JoinedNumbers
    <3>3. QED
      BY <1>2, <1>6, <3>1, <3>2
  <2>3. Cur.written + 1 > Cur.max /\ Cur.max = room
    <3>1. ~(Cur.written + 1 <= Cur.max) /\ Cur.max = room
      BY <1>2, <1>6 DEF Fits
    <3>2. room \in Nat
      BY DEF EncIInv, EncInv
    <3>3. QED
      BY <1>2, <3>1, <3>2
  <2>4. Len(Expected(src)) > room
    BY <1>2, <2>2, <2>3
  <2>5. (Len(Expected(src)) > room)'
    BY <1>1, <1>3, <2>4
  <2>6. QED
    BY <2>1, <2>5 DEF Agreed, Encoding, PassesAgree
<1>7. QED
  BY <1>4, <1>5, <1>6

----------------------------------------------------------------------------
(* At the beginning.                                                       *)

LEMMA AloneInStep ==
    ASSUME NEW d \in Sources, NEW sizing \in BOOLEAN, NEW max \in Nat
    PROVE  LET c == Call(Root, <<>>, sizing, 0, max, 0) IN
           /\ c.msg = Root /\ c.path = <<>> /\ c.packed = 0 /\ c.from = 0 /\ c.sizing = sizing
           /\ c.max = max /\ c.at # Huge /\ c \in CallType
           /\ Whole(d, c) = Wire(d)
           /\ CallPlaced(d, c) /\ Reached(d, c) = <<>> /\ c.written = 0
<1> DEFINE c == Call(Root, <<>>, sizing, 0, max, 0)
<1>1. CallAt(Root, <<>>, 0)
  BY RootAt DEF CallAt
<1>2. AtBeginning(d, c, sizing, 0, max, 0, WholeAt(d, Root, <<>>, 0))
  BY <1>1, NewCall
<1>3. WholeAt(d, Root, <<>>, 0) = Wire(d)
  BY DEF WholeAt, Wire
<1>4. c.msg = Root /\ c.path = <<>>
  BY DEF Call
<1> HIDE DEF c
<1>5. QED
  BY <1>2, <1>3, <1>4 DEF AtBeginning, c

LEMMA InitInStep == EncInit => AllInStep
<1> SUFFICES ASSUME EncInit PROVE AllInStep
  OBVIOUS
<1>1. /\ src \in Sources /\ room \in Nat /\ out = <<>> /\ out \in Seq(Nat)
  BY EncodeAssumption DEF EncInit
<1>2. /\ SubSeq(<<>>, 1, 0) = <<>> /\ <<>> \o <<>> = <<>> /\ Len(<<>>) = 0
  OBVIOUS
<1>3. CASE mode = "delimited"
  <2> DEFINE c == Call(Root, <<>>, FALSE, 0, room, 0)
             bottom == [c EXCEPT !.at = Huge]
             top == Call(Root, <<>>, TRUE, 0, 0, 0)
  <2>1. frames = <<bottom, top>>
    BY <1>3 DEF EncInit
  <2>2. /\ c.msg = Root /\ c.path = <<>> /\ c.packed = 0 /\ c.from = 0 /\ c.sizing = FALSE
        /\ c.max = room /\ c.written = 0
    BY DEF Call
  <2>3. /\ bottom.msg = Root /\ bottom.path = <<>> /\ bottom.packed = 0 /\ bottom.from = 0
        /\ bottom.sizing = FALSE /\ bottom.max = room /\ bottom.written = 0 /\ bottom.at = Huge
        /\ bottom.item = 1
    BY DEF Call
  <2>4. /\ top.packed = 0 /\ top.sizing = TRUE /\ top.at # Huge /\ CallPlaced(src, top)
        /\ Reached(src, top) = <<>> /\ top.written = 0 /\ Whole(src, top) = Wire(src)
    BY <1>1, AloneInStep
  <2> HIDE DEF c, bottom, top
  <2>5. Len(frames) = 2 /\ frames[1] = bottom /\ frames[2] = top
    BY <2>1
  <2>6. InStep(src, frames, out, 2)
    <3>1. Ahead(src, frames, 2) = <<>>
      BY <2>5 DEF Ahead
    <3>2. Len(Reached(src, top)) = 0 + Len(<<>>)
      BY <1>2, <2>4
    <3>3. QED
      BY <2>4, <2>5, <3>1, <3>2 DEF InStep
  <2>7. InStep(src, frames, out, 1)
    <3> DEFINE all == WithLength(Wire(src))
    <3>1. all \in Seq(Nat) /\ Len(all) \in Nat
      BY <1>1, RootAt, LengthNumbers, LenProperties
    <3>2. Ahead(src, frames, 1) = all
      BY <2>4, <2>5 DEF Ahead
    <3>3. Reached(src, bottom) = all
      BY <2>3 DEF Reached, Whole
    <3>4. CallPlaced(src, bottom)
      <4>1. Location(<<>>) = Spot("message", Root, 0)
        BY RootAt DEF MessageAt
      <4>2. QED
        BY <2>3, <4>1 DEF CallPlaced
    <3> HIDE DEF all
    <3>5. <<>> \o all = all /\ Len(all) = 0 + Len(all)
      BY <3>1, ConcatEmptySeq
    <3>6. SubSeq(out, bottom.from + 1, bottom.from + bottom.written) \o Ahead(src, frames, 1) = Reached(src, bottom)
      <4>1. bottom.from + 1 = 1 /\ bottom.from + bottom.written = 0
        BY <2>3
      <4>2. QED
        BY <1>1, <1>2, <3>2, <3>3, <3>5, <4>1
    <3>7. bottom.from + bottom.written <= Len(out)
      BY <1>1, <1>2, <2>3
    <3>8. Len(Reached(src, bottom)) = bottom.written + Len(Ahead(src, frames, 1))
      BY <2>3, <3>2, <3>3, <3>5
    <3>9. /\ CallPlaced(src, frames[1]) /\ frames[1].packed = 0 /\ ~(1 > 1)
          /\ Len(Reached(src, frames[1])) = frames[1].written + Len(Ahead(src, frames, 1))
          /\ frames[1].from + frames[1].written <= Len(out)
          /\ SubSeq(out, frames[1].from + 1, frames[1].from + frames[1].written) \o Ahead(src, frames, 1)
                = Reached(src, frames[1])
      <4>1. ~(1 > 1)
        OBVIOUS
      <4>2. QED
        BY <2>3, <2>5, <3>4, <3>6, <3>7, <3>8, <4>1
    <3>10. QED
      BY <3>9 DEF InStep
  <2>8. BottomCall(frames[1])
    BY <1>1, <1>3, <2>3, <2>5 DEF BottomCall
  <2>9. \A i \in 1..Len(frames) : i = 1 \/ i = 2
    BY <2>5
  <2>10. QED
    BY <1>1, <2>6, <2>7, <2>8, <2>9 DEF AllInStep
<1>4. CASE mode # "delimited"
  <2> DEFINE top == Call(Root, <<>>, mode = "size", 0, room, 0)
  <2>1. frames = <<top>>
    BY <1>4 DEF EncInit
  <2>2. /\ top.msg = Root /\ top.path = <<>> /\ top.packed = 0 /\ top.from = 0
        /\ top.sizing = (mode = "size") /\ top.max = room /\ top.at # Huge
        /\ CallPlaced(src, top) /\ Reached(src, top) = <<>> /\ top.written = 0
    <3>1. (mode = "size") \in BOOLEAN
      OBVIOUS
    <3>2. QED
      BY <1>1, <3>1, AloneInStep
  <2> HIDE DEF top
  <2>3. Len(frames) = 1 /\ frames[1] = top
    BY <2>1
  <2>4. InStep(src, frames, out, 1)
    <3>1. Ahead(src, frames, 1) = <<>>
      BY <2>3 DEF Ahead
    <3>2. Len(Reached(src, top)) = 0 + Len(<<>>)
      BY <1>2, <2>2
    <3>3. /\ top.from + top.written <= Len(out)
          /\ SubSeq(out, top.from + 1, top.from + top.written) \o Ahead(src, frames, 1) = Reached(src, top)
      <4>1. top.from + 1 = 1 /\ top.from + top.written = 0
        BY <2>2
      <4>2. QED
        BY <1>1, <1>2, <2>2, <3>1, <4>1
    <3>4. /\ CallPlaced(src, frames[1]) /\ frames[1].packed = 0 /\ ~(1 > 1)
          /\ Len(Reached(src, frames[1])) = frames[1].written + Len(Ahead(src, frames, 1))
          /\ frames[1].from + frames[1].written <= Len(out)
          /\ SubSeq(out, frames[1].from + 1, frames[1].from + frames[1].written) \o Ahead(src, frames, 1)
                = Reached(src, frames[1])
      <4>1. ~(1 > 1)
        OBVIOUS
      <4>2. QED
        BY <2>2, <2>3, <3>1, <3>2, <3>3, <4>1
    <3>5. QED
      BY <3>4 DEF InStep
  <2>5. BottomCall(frames[1])
    BY <1>1, <1>4, <2>2, <2>3 DEF BottomCall
  <2>6. \A i \in 1..Len(frames) : i = 1
    BY <2>3
  <2>7. QED
    BY <1>1, <2>4, <2>5, <2>6 DEF AllInStep
<1>5. QED
  BY <1>3, <1>4

----------------------------------------------------------------------------
(* The inductive invariant.                                                *)

PassesIInv == EncIInv /\ IF Encoding THEN ~varied => AllInStep ELSE PassesAgree

LEMMA PassesInitHolds == EncInit => PassesIInv
<1> SUFFICES ASSUME EncInit PROVE PassesIInv
  OBVIOUS
<1>1. Encoding
  BY DEF EncInit, Encoding
<1>2. QED
  BY <1>1, EncInitHolds, InitInStep DEF PassesIInv

(* What a callback has once written otherwise stays known.                 *)
LEMMA StaysVaried ==
    ASSUME EncNext, varied
    PROVE  varied'
<1>1. ASSUME NEW t \in Due,
             \/ ArrayTooLong(t) \/ EncodeScalar(t) \/ BytesExceeded(t) \/ EncodeSubmessage(t)
             \/ EncodePacked(t) \/ EncodePackedFixed(t)
             \/ CallbackWrites(t) \/ CallbackRefuses(t)
      PROVE  varied'
  <2>1. CASE CallbackWrites(t)
    BY <2>1 DEF CallbackWrites
  <2>2. CASE ~CallbackWrites(t)
    BY <1>1, <2>2 DEF ArrayTooLong, EncodeScalar, BytesExceeded, EncodeSubmessage, EncodePacked,
                      EncodePackedFixed, CallbackRefuses
  <2>3. QED
    BY <2>1, <2>2
<1>2. CASE EncodeItem \/ SizeKnown \/ SecondPassDone \/ EncodeDone
  BY <1>2 DEF EncodeItem, SizeKnown, SecondPassDone, EncodeDone
<1>3. QED
  BY <1>1, <1>2 DEF EncNext

LEMMA StepAgrees ==
    ASSUME EncIInv, AllInStep, EncNext, ~varied'
    PROVE  Agreed'
<1>1. ASSUME NEW t \in Due,
             \/ ArrayTooLong(t) \/ EncodeScalar(t) \/ BytesExceeded(t) \/ EncodeSubmessage(t)
             \/ EncodePacked(t) \/ EncodePackedFixed(t)
             \/ CallbackWrites(t) \/ CallbackRefuses(t)
      PROVE  Agreed'
  BY <1>1, ErrorAgrees, ScalarAgrees, SubmessageAgrees, PackedAgrees, PackedFixedAgrees, CallbackAgrees
<1>2. CASE EncodeItem
  BY <1>2, ItemAgrees
<1>3. CASE SizeKnown
  BY <1>3, SizeKnownAgrees
<1>4. CASE SecondPassDone
  BY <1>4, SecondPassAgrees
<1>5. CASE EncodeDone
  BY <1>5, DoneAgrees
<1>6. QED
  BY <1>1, <1>2, <1>3, <1>4, <1>5 DEF EncNext

LEMMA OnlyWhileEncoding ==
    ASSUME EncNext
    PROVE  Encoding
<1>1. Due # {} => Encoding
  BY DEF Due
<1>2. (EncodeItem \/ SizeKnown \/ SecondPassDone \/ EncodeDone) => Encoding
  BY DEF EncodeItem, SizeKnown, SecondPassDone, EncodeDone, CallDone
<1>3. QED
  BY <1>1, <1>2 DEF EncNext

LEMMA PassesNextKeeps == PassesIInv /\ [EncNext]_encVars => PassesIInv'
<1> SUFFICES ASSUME PassesIInv, [EncNext]_encVars PROVE PassesIInv'
  OBVIOUS
<1>1. EncIInv'
  BY EncNextKeeps DEF PassesIInv
<1>2. CASE EncNext
  <2>1. Encoding /\ (~varied => AllInStep) /\ EncIInv
    BY <1>2, OnlyWhileEncoding DEF PassesIInv
  <2>2. CASE varied
    <3>1. varied'
      BY <1>2, <2>2, StaysVaried
    <3>2. PassesAgree'
      BY <3>1 DEF PassesAgree
    <3>3. QED
      BY <1>1, <3>1, <3>2 DEF PassesIInv
  <2>3. CASE ~varied
    <3>1. ASSUME ~varied' PROVE Agreed'
      BY <1>2, <2>1, <2>3, <3>1, StepAgrees
    <3>2. varied' => PassesAgree'
      BY DEF PassesAgree
    <3>3. IF Encoding' THEN ~varied' => AllInStep' ELSE PassesAgree'
      BY <3>1, <3>2 DEF Agreed
    <3>4. QED
      BY <1>1, <3>3 DEF PassesIInv
  <2>4. QED
    BY <2>2, <2>3
<1>3. CASE UNCHANGED encVars
  <2>1. /\ src' = src /\ room' = room /\ mode' = mode /\ out' = out
        /\ frames' = frames /\ outcome' = outcome /\ varied' = varied
    BY <1>3 DEF encVars
  <2>2. Encoding' <=> Encoding
    BY <2>1 DEF Encoding
  <2>3. AllInStep' <=> AllInStep
    BY <2>1 DEF AllInStep, BottomCall
  <2>4. PassesAgree' <=> PassesAgree
    BY <2>1 DEF PassesAgree, Expected, Cur
  <2>5. QED
    BY <1>1, <2>1, <2>2, <2>3, <2>4 DEF PassesIInv
<1>4. QED
  BY <1>2, <1>3

LEMMA PassesInvAgrees == PassesIInv => PassesAgree /\ OutContained
<1> SUFFICES ASSUME PassesIInv PROVE PassesAgree
  BY InvContains DEF PassesIInv
<1>1. CASE Encoding
  BY <1>1 DEF Encoding, PassesAgree
<1>2. CASE ~Encoding
  BY <1>2 DEF PassesIInv
<1>3. QED
  BY <1>1, <1>2

LEMMA CodecEncodes == [Next]_codecVars => [EncNext]_encVars
  BY DEF Next, Encode, Deliver, Decode, codecVars

(* pb_encode.c:682-730: while callbacks write the same each time, a stream *)
(* that counts or writes has at every step what one pass over the          *)
(* structure would have written, less what the calls above still give it.  *)
THEOREM PassesInvariant == Spec => []PassesInv
<1>1. Init => PassesIInv
  BY PassesInitHolds DEF Init
<1>2. PassesIInv /\ [Next]_codecVars => PassesIInv'
  BY PassesNextKeeps, CodecEncodes
<1>3. PassesIInv => PassesInv
  BY DEF PassesIInv, PassesInv, EncIInv
<1>4. QED
  BY <1>1, <1>2, <1>3, PTL DEF Spec

(* pb_encode.c:682-730, :533: every length is right, the size that         *)
(* pb_get_encoded_size returns is that of the encoding, "stream full"      *)
(* means that it does not fit, and a submessage has the same size twice,   *)
(* unless a callback writes something else the second time.                *)
THEOREM PassesAlwaysAgree == Spec => []PassesAgree
<1>1. Init => PassesIInv
  BY PassesInitHolds DEF Init
<1>2. PassesIInv /\ [Next]_codecVars => PassesIInv'
  BY PassesNextKeeps, CodecEncodes
<1>3. PassesIInv => PassesAgree
  BY PassesInvAgrees
<1>4. QED
  BY <1>1, <1>2, <1>3, PTL DEF Spec

(* docs/security.rst:53, of the encoder and decoder together: what is      *)
(* delivered to the decoder is never more than there was room for.         *)
THEOREM CodecContained == Spec => []OutContained
<1>1. Init => PassesIInv
  BY PassesInitHolds DEF Init
<1>2. PassesIInv /\ [Next]_codecVars => PassesIInv'
  BY PassesNextKeeps, CodecEncodes
<1>3. PassesIInv => OutContained
  BY PassesInvAgrees
<1>4. QED
  BY <1>1, <1>2, <1>3, PTL DEF Spec
=============================================================================
