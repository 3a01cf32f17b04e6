-------------------------- MODULE PbDecode_proofs --------------------------
(***************************************************************************)
(* Proofs about PbDecode, for every schema, every buffer and every depth   *)
(* of nesting.  StreamInv is inductive: the open substreams lie inside     *)
(* each other and inside buf, so no length found in buf lets the decoder   *)
(* leave it.  The second part is about the structure: its invariants rest  *)
(* on this one.                                                            *)
(***************************************************************************)
EXTENDS PbDecode, PbVarint_proofs, FiniteSetTheorems, SequenceTheorems, TLAPS

----------------------------------------------------------------------------
(* What StreamInv says of the stream at hand.                              *)
LEMMA TopFacts ==
    ASSUME StreamInv
    PROVE  /\ Len(stack) \in Nat \ {0}
           /\ Top \in FrameType
           /\ Top.left \in Nat /\ Top.end \in Nat
           /\ pos + Top.left = Top.end
           /\ Top.end <= Len(buf)
<1>1. Len(stack) \in Nat \ {0}
  BY EmptySeq DEF StreamInv
<1>2. Len(stack) \in 1..Len(stack)
  BY <1>1
<1>3. Top \in FrameType /\ Top.end <= Len(buf)
  BY <1>2, ElementOfSeq DEF StreamInv, Top
<1>4. Top.left \in Nat /\ Top.end \in Nat
  BY <1>3 DEF FrameType
<1>5. QED
  BY <1>1, <1>3, <1>4 DEF StreamInv, StreamContained

LEMMA RestFacts ==
    ASSUME StreamInv
    PROVE  Rest \in Seq(Byte) /\ Len(Rest) = Top.left
<1>1. /\ Top.left \in Nat /\ Top.end \in Nat /\ pos + Top.left = Top.end
      /\ Top.end <= Len(buf)
  BY TopFacts
<1>2. buf \in Seq(Byte) /\ pos \in Nat
  BY DEF StreamInv
<1> DEFINE m == pos + 1
           n == pos + Top.left
<1>3. m \in Int /\ n \in Int /\ m >= 1 /\ n <= Len(buf)
  BY <1>1, <1>2
<1>4. \A i \in m..n : buf[i] \in Byte
  <2> TAKE i \in m..n
  <2>1. i \in 1..Len(buf)
    BY <1>2, <1>3, LenProperties
  <2>2. QED
    BY <1>2, <2>1, ElementOfSeq
<1>5. Rest = SubSeq(buf, m, n)
  BY DEF Rest
<1>6. /\ SubSeq(buf, m, n) \in Seq(Byte)
      /\ Len(SubSeq(buf, m, n)) = IF m <= n THEN n - m + 1 ELSE 0
  <2> HIDE DEF m, n
  <2> QED BY <1>3, <1>4, SubSeqProperties
<1>7. QED
  BY <1>1, <1>2, <1>5, <1>6

----------------------------------------------------------------------------
(* The three ways the streams change: bytes are read from the stream on    *)
(* top, a substream is opened, a substream is closed.                      *)
LEMMA ReadKeepsInv ==
    ASSUME StreamInv, NEW n \in 0..Top.left, NEW f \in FrameType,
           f.left = Top.left - n, f.end = Top.end, f.packed = Top.packed,
           pos' = pos + n,
           stack' = [stack EXCEPT ![Len(stack)] = f],
           buf' = buf,
           header' \in {<<>>} \cup (Nat \X Nat),
           ret' \in {"running", "ok", "failed"}
    PROVE  StreamInv'
<1>1. /\ Len(stack) \in Nat \ {0} /\ Top.left \in Nat /\ Top.end \in Nat
      /\ pos + Top.left = Top.end /\ Top.end <= Len(buf)
  BY TopFacts
<1>2. /\ stack \in Seq(FrameType) /\ pos \in Nat /\ buf \in Seq(Byte)
      /\ stack[1].packed = 0 /\ stack[1].end = Len(buf)
      /\ \A i \in 1..(Len(stack) - 1) : stack[i + 1].end + stack[i].left = stack[i].end
      /\ \A i \in 1..Len(stack) : stack[i].end <= Len(buf)
  BY DEF StreamInv, StreamContained
<1>3. Len(stack) \in 1..Len(stack)
  BY <1>1
<1>4. /\ stack' \in Seq(FrameType)
      /\ Len(stack') = Len(stack)
      /\ \A j \in 1..Len(stack) : stack'[j] = IF j = Len(stack) THEN f ELSE stack[j]
  BY <1>2, <1>3, ExceptSeq
<1>5. Top' = f
  BY <1>3, <1>4 DEF Top
<1>6. pos' \in Nat /\ pos' + Top'.left = Top'.end
  BY <1>1, <1>2, <1>5
<1>7. stack' # <<>>
  BY <1>1, <1>4, EmptySeq
<1>8. \A j \in 1..Len(stack') : stack'[j].end = stack[j].end /\ stack'[j].packed = stack[j].packed
  BY <1>4 DEF Top
<1>9. /\ stack'[1].end = Len(buf') /\ stack'[1].packed = 0
      /\ \A i \in 1..Len(stack') : stack'[i].end <= Len(buf')
  <2>1. /\ 1 \in 1..Len(stack')
        /\ \A j \in 1..Len(stack') : stack[j].end <= Len(buf)
    BY <1>1, <1>2, <1>4
  <2>2. stack'[1].end = Len(buf') /\ stack'[1].packed = 0
    BY <1>2, <1>8, <2>1
  <2>3. \A i \in 1..Len(stack') : stack'[i].end <= Len(buf')
    BY <1>8, <2>1
  <2>4. QED
    BY <2>2, <2>3
<1>10. \A i \in 1..(Len(stack') - 1) : stack'[i + 1].end + stack'[i].left = stack'[i].end
  <2> TAKE i \in 1..(Len(stack') - 1)
  <2>0. i \in 1..(Len(stack) - 1)
    BY <1>4
  <2>1. i \in 1..Len(stack) /\ i + 1 \in 1..Len(stack) /\ i # Len(stack)
    BY <1>1, <2>0
  <2>2. stack'[i].left = stack[i].left
    BY <1>4, <2>1
  <2>3. stack'[i].end = stack[i].end /\ stack'[i + 1].end = stack[i + 1].end
    BY <1>4, <1>8, <2>1
  <2>4. QED
    BY <1>2, <2>0, <2>2, <2>3
<1>11. StreamContained'
  BY <1>6, <1>9, <1>10 DEF StreamContained
<1>12. QED
  BY <1>2, <1>4, <1>6, <1>7, <1>9, <1>11 DEF StreamInv

LEMMA CloseKeepsInv ==
    ASSUME StreamInv, Top.packed # 0 \/ Len(stack) > 1, Close
    PROVE  StreamInv'
<1>1. /\ Len(stack) \in Nat \ {0} /\ Top.left \in Nat /\ Top.end \in Nat
      /\ pos + Top.left = Top.end /\ Top.end <= Len(buf)
  BY TopFacts
<1>2. /\ stack \in Seq(FrameType) /\ pos \in Nat /\ buf \in Seq(Byte)
      /\ stack[1].packed = 0 /\ stack[1].end = Len(buf)
      /\ \A i \in 1..(Len(stack) - 1) : stack[i + 1].end + stack[i].left = stack[i].end
      /\ \A i \in 1..Len(stack) : stack[i].end <= Len(buf)
  BY DEF StreamInv, StreamContained
<1>3. pos' = pos + Top.left /\ stack' = SubSeq(stack, 1, Len(stack) - 1) /\ buf' = buf
  BY DEF Close
<1>4. Len(stack) > 1
  BY <1>1, <1>2 DEF Top
<1>5. /\ stack' \in Seq(FrameType)
      /\ Len(stack') = Len(stack) - 1
      /\ \A i \in 1..(Len(stack) - 1) : stack'[i] = stack[i]
  <2> DEFINE n == Len(stack) - 1
  <2>1. n \in Int /\ n >= 1
    BY <1>1, <1>4
  <2>2. \A i \in 1..n : stack[i] \in FrameType
    BY <1>1, <1>2, ElementOfSeq
  <2>3. /\ SubSeq(stack, 1, n) \in Seq(FrameType)
        /\ Len(SubSeq(stack, 1, n)) = IF 1 <= n THEN n - 1 + 1 ELSE 0
        /\ \A i \in 1..(n - 1 + 1) : SubSeq(stack, 1, n)[i] = stack[1 + i - 1]
    <3> HIDE DEF n
    <3> QED BY <2>1, <2>2, SubSeqProperties
  <2>4. Len(SubSeq(stack, 1, n)) = n /\ n - 1 + 1 = n
    BY <2>1, <2>3
  <2>5. \A i \in 1..n : SubSeq(stack, 1, n)[i] = stack[i]
    <3> TAKE i \in 1..n
    <3>1. 1 + i - 1 = i
      OBVIOUS
    <3>2. QED
      BY <2>3, <2>4, <3>1
  <2>6. QED
    BY <1>3, <2>3, <2>4, <2>5
<1>6. Len(stack') \in Nat \ {0} /\ stack' # <<>>
  BY <1>1, <1>4, <1>5, EmptySeq
<1>7. Top' = stack[Len(stack) - 1]
  BY <1>1, <1>4, <1>5 DEF Top
<1>8. pos' + Top'.left = Top'.end
  <2>1. stack[Len(stack) - 1 + 1].end + stack[Len(stack) - 1].left = stack[Len(stack) - 1].end
    BY <1>1, <1>2, <1>4
  <2>2. stack[Len(stack) - 1 + 1].end = Top.end
    BY <1>1 DEF Top
  <2>3. QED
    BY <1>1, <1>3, <1>7, <2>1, <2>2
<1>9. pos' \in Nat
  BY <1>1, <1>2, <1>3
<1>10. /\ stack'[1].end = Len(buf') /\ stack'[1].packed = 0
       /\ \A i \in 1..Len(stack') : stack'[i].end <= Len(buf')
  <2>1. 1 \in 1..(Len(stack) - 1)
    BY <1>1, <1>4
  <2>2. stack'[1] = stack[1]
    BY <1>5, <2>1
  <2>3. \A i \in 1..(Len(stack) - 1) : stack[i].end <= Len(buf)
    BY <1>1, <1>2
  <2>4. QED
    BY <1>2, <1>3, <1>5, <2>2, <2>3
<1>11. \A i \in 1..(Len(stack') - 1) : stack'[i + 1].end + stack'[i].left = stack'[i].end
  <2> TAKE i \in 1..(Len(stack') - 1)
  <2>1. i \in 1..(Len(stack) - 1) /\ i + 1 \in 1..(Len(stack) - 1)
    BY <1>1, <1>5
  <2>2. stack'[i] = stack[i] /\ stack'[i + 1] = stack[i + 1]
    BY <1>5, <2>1
  <2>3. QED
    BY <1>2, <2>1, <2>2
<1>12. StreamContained'
  BY <1>8, <1>10, <1>11 DEF StreamContained
<1>13. header' \in {<<>>} \cup (Nat \X Nat) /\ ret' \in {"running", "ok", "failed"}
  BY DEF Close, StreamInv
<1>14. QED
  BY <1>2, <1>3, <1>5, <1>6, <1>9, <1>10, <1>12, <1>13 DEF StreamInv

(* The stream on top after n bytes, with field t noted if it is required.  *)
LEMMA AfterFacts ==
    ASSUME StreamInv, NEW n \in 0..Top.left, NEW t \in Nat
    PROVE  /\ After(n, t) \in FrameType
           /\ After(n, t).left = Top.left - n
           /\ After(n, t).end = Top.end
           /\ After(n, t).packed = Top.packed
<1>1. Top \in FrameType /\ Top.left \in Nat
  BY TopFacts
<1>2. Top.left - n \in Nat
  BY <1>1
<1> DEFINE seen == IF t \in Tracked(Top.msg) THEN Top.seen \cup {t} ELSE Top.seen
           fixed == IF t \in DOMAIN Schema[Top.msg] /\ FixedCount(Schema[Top.msg][t])
                    THEN t ELSE Top.fixed
<1>3. seen \in SUBSET Nat /\ fixed \in Nat
  BY <1>1 DEF FrameType
<1>4. After(n, t) = [Top EXCEPT !.left = Top.left - n, !.seen = seen, !.fixed = fixed]
  BY <1>1 DEF After, FrameType
<1>5. QED
  <2> HIDE DEF seen, fixed
  <2> QED BY <1>1, <1>2, <1>3, <1>4 DEF FrameType

LEMMA ProceedKeepsInv ==
    ASSUME StreamInv, NEW n \in 0..Top.left, NEW t \in Nat, NEW d, Proceed(n, t, d)
    PROVE  StreamInv'
<1>1. /\ pos' = pos + n
      /\ stack' = [stack EXCEPT ![Len(stack)] = After(n, t)]
      /\ buf' = buf
  BY DEF Proceed
<1>2. header' \in {<<>>} \cup (Nat \X Nat) /\ ret' \in {"running", "ok", "failed"}
  BY DEF Proceed, StreamInv
<1>3. QED
  BY <1>1, <1>2, AfterFacts, ReadKeepsInv

LEMMA FailKeepsInv ==
    ASSUME StreamInv, NEW d, Fail(d)
    PROVE  StreamInv'
<1>1. UNCHANGED <<buf, pos, stack, header>> /\ ret' \in {"running", "ok", "failed"}
  BY DEF Fail
<1>2. StreamContained'
  BY <1>1 DEF StreamContained, StreamInv, Top
<1>3. QED
  BY <1>1, <1>2 DEF StreamInv

LEMMA OpenKeepsInv ==
    ASSUME StreamInv, NEW n \in Nat, NEW size \in Nat, n + size <= Top.left,
           NEW t \in Nat, NEW m \in DOMAIN Schema, NEW p \in Seq(Nat), NEW packed \in Nat,
           NEW d, Open(n, t, m, p, size, packed, d)
    PROVE  StreamInv'
<1> DEFINE parent == [After(n, t) EXCEPT !.left = After(n, t).left - size]
           child  == Frame(m, p, size, pos + n, packed)
           below  == [stack EXCEPT ![Len(stack)] = parent]
<1>1. /\ Len(stack) \in Nat \ {0} /\ Top.left \in Nat /\ Top.end \in Nat
      /\ pos + Top.left = Top.end /\ Top.end <= Len(buf)
  BY TopFacts
<1>2. /\ stack \in Seq(FrameType) /\ pos \in Nat /\ buf \in Seq(Byte)
      /\ stack[1].packed = 0 /\ stack[1].end = Len(buf)
      /\ \A i \in 1..(Len(stack) - 1) : stack[i + 1].end + stack[i].left = stack[i].end
      /\ \A i \in 1..Len(stack) : stack[i].end <= Len(buf)
  BY DEF StreamInv, StreamContained
<1>3. pos' = pos + n /\ stack' = Append(below, child) /\ buf' = buf
  BY DEF Open
<1>4. /\ After(n, t) \in FrameType /\ After(n, t).left = Top.left - n
      /\ After(n, t).end = Top.end /\ After(n, t).packed = Top.packed
  BY <1>1, AfterFacts
<1>5. /\ parent \in FrameType /\ parent.left = Top.left - n - size
      /\ parent.end = Top.end /\ parent.packed = Top.packed
  <2>1. After(n, t).left - size \in Nat
    BY <1>1, <1>4
  <2>2. QED
    BY <1>4, <2>1 DEF FrameType
<1>6. /\ child \in FrameType /\ child.left = size
      /\ child.end = pos + n + size /\ child.packed = packed
  BY <1>2 DEF Frame, FrameType
<1>7. /\ below \in Seq(FrameType) /\ Len(below) = Len(stack)
      /\ \A j \in 1..Len(stack) : below[j] = IF j = Len(stack) THEN parent ELSE stack[j]
  <2>1. Len(stack) \in 1..Len(stack)
    BY <1>1
  <2> HIDE DEF parent
  <2>2. QED
    BY <1>2, <1>5, <2>1, ExceptSeq
<1> HIDE DEF parent, child, below
<1>8. /\ stack' \in Seq(FrameType) /\ stack' # <<>> /\ Len(stack') = Len(stack) + 1
      /\ \A i \in 1..Len(stack) : stack'[i] = below[i]
      /\ stack'[Len(stack) + 1] = child
  BY <1>3, <1>6, <1>7, AppendProperties, SMTT(30)
<1>9. Top' = child
  BY <1>1, <1>8 DEF Top
<1>10. pos' \in Nat /\ pos' + Top'.left = Top'.end
  BY <1>2, <1>3, <1>6, <1>9
<1>11. \A j \in 1..Len(stack) : stack'[j].end = stack[j].end /\ stack'[j].packed = stack[j].packed
  BY <1>5, <1>7, <1>8 DEF Top
<1>12. child.end <= Len(buf) /\ child.end + parent.left = Top.end
  BY <1>1, <1>2, <1>5, <1>6, SMTT(30)
<1>13. /\ stack'[1].end = Len(buf') /\ stack'[1].packed = 0
       /\ \A i \in 1..Len(stack') : stack'[i].end <= Len(buf')
  <2>1. 1 \in 1..Len(stack)
    BY <1>1
  <2>2. stack'[1].end = Len(buf) /\ stack'[1].packed = 0
    BY <1>2, <1>11, <2>1
  <2>3. \A i \in 1..(Len(stack) + 1) : stack'[i].end <= Len(buf)
    <3> TAKE i \in 1..(Len(stack) + 1)
    <3>1. CASE i = Len(stack) + 1
      BY <1>8, <1>12, <3>1
    <3>2. CASE i \in 1..Len(stack)
      BY <1>2, <1>11, <3>2
    <3>3. QED
      BY <1>1, <3>1, <3>2
  <2>4. QED
    BY <1>3, <1>8, <2>2, <2>3
<1>14. \A i \in 1..Len(stack) : stack'[i + 1].end + stack'[i].left = stack'[i].end
  <2> TAKE i \in 1..Len(stack)
  <2>1. CASE i = Len(stack)
    <3>1. stack'[i] = parent /\ stack'[i + 1] = child
      BY <1>1, <1>7, <1>8, <2>1
    <3>2. QED
      BY <1>5, <1>12, <3>1
  <2>2. CASE i \in 1..(Len(stack) - 1)
    <3>1. i + 1 \in 1..Len(stack) /\ i # Len(stack)
      BY <1>1, <2>2
    <3>2. stack'[i].left = stack[i].left /\ stack'[i].end = stack[i].end
      BY <1>7, <1>8, <3>1
    <3>3. stack'[i + 1].end = stack[i + 1].end
      BY <1>11, <3>1
    <3>4. QED
      BY <1>2, <2>2, <3>2, <3>3
  <2>3. QED
    BY <1>1, <2>1, <2>2
<1>15. StreamContained'
  <2>1. Len(stack') - 1 = Len(stack)
    BY <1>1, <1>8
  <2>2. QED
    BY <1>10, <1>13, <1>14, <2>1 DEF StreamContained
<1>16. header' \in {<<>>} \cup (Nat \X Nat) /\ ret' \in {"running", "ok", "failed"}
  BY DEF Open, StreamInv
<1>17. QED
  BY <1>2, <1>3, <1>8, <1>10, <1>13, <1>15, <1>16 DEF StreamInv

----------------------------------------------------------------------------
(* Counts stay numbers.                                                    *)
LEMMA CountType ==
    ASSUME NEW d, CountsTyped(d), NEW p \in Seq(Nat)
    PROVE  Count(d, p) \in Nat
<1> DEFINE q == Append(p, 0)
<1>1. q \in Seq(Nat) /\ Len(q) = Len(p) + 1 /\ q[Len(p) + 1] = 0
  BY AppendProperties
<1>2. q[Len(q)] = 0
  BY <1>1
<1>3. Count(d, p) = IF q \in DOMAIN d THEN d[q] ELSE 0
  BY DEF Count, At
<1> HIDE DEF q
<1>4. QED
  BY <1>2, <1>3 DEF CountsTyped

LEMMA PutCount ==
    ASSUME NEW d, CountsTyped(d), NEW p \in Seq(Nat), NEW n \in Nat
    PROVE  CountsTyped(Put(d, Append(p, 0), n))
<1> DEFINE q == Append(p, 0)
<1>1. q \in Seq(Nat) /\ q # <<>>
  BY AppendProperties, EmptySeq
<1> HIDE DEF q
<1>2. CountsTyped(Put(d, q, n))
  BY <1>1 DEF CountsTyped, Put
<1>3. QED
  BY <1>2 DEF q

LEMMA PutValue ==
    ASSUME NEW d, CountsTyped(d), NEW p \in Seq(Nat), NEW t \in Nat \ {0}, NEW v
    PROVE  CountsTyped(Put(d, Append(p, t), v))
<1> DEFINE q == Append(p, t)
<1>1. q \in Seq(Nat) /\ q # <<>> /\ Len(q) = Len(p) + 1 /\ q[Len(p) + 1] = t
  BY AppendProperties, EmptySeq
<1>2. q[Len(q)] # 0
  BY <1>1
<1> HIDE DEF q
<1>3. CountsTyped(Put(d, q, v))
  BY <1>1, <1>2 DEF CountsTyped, Put
<1>4. QED
  BY <1>3 DEF q

LEMMA RestrictCounts ==
    ASSUME NEW d, CountsTyped(d), NEW S \in SUBSET DOMAIN d
    PROVE  CountsTyped([q \in S |-> d[q]])
BY DEF CountsTyped

LEMMA HasAtIs ==
    ASSUME NEW p \in Seq(Nat), NEW t \in Nat
    PROVE  HasAt(p, t) = Append(Append(p, 0), t)
<1>1. p \o <<0, t>> = Append(Append(p, 0), t)
  OBVIOUS
<1>2. QED
  BY <1>1 DEF HasAt

LEMMA UnionCounts ==
    ASSUME NEW d, CountsTyped(d), NEW m, NEW p
    PROVE  CountsTyped(NoUnion(d, m, p)) /\ CountsTyped(Defaults(d, p))
BY RestrictCounts DEF NoUnion, Defaults

----------------------------------------------------------------------------
(* What the actions read is there to be read.                              *)
LEMMA FieldFacts ==
    ASSUME PbInv, AtField
    PROVE  /\ Tag \in Nat /\ WireType \in Nat
           /\ Top.msg \in DOMAIN Schema /\ Top.path \in Seq(Nat)
           /\ Path \in Seq(Nat)
           /\ Known => /\ Tag # 0
                       /\ Field.htype \in {"required", "optional", "repeated", "oneof"}
                       /\ Field.ltype = "submessage" => Field.sub \in DOMAIN Schema
<1>1. header \in Nat \X Nat
  BY DEF PbInv, StreamInv, AtField
<1>2. Tag \in Nat /\ WireType \in Nat
  BY <1>1 DEF Tag, WireType
<1>3. Top.msg \in DOMAIN Schema /\ Top.path \in Seq(Nat)
  BY TopFacts DEF FrameType, PbInv
<1>4. Path \in Seq(Nat)
  BY <1>2, <1>3, AppendProperties DEF Path
<1>5. Known => /\ Tag \in 1..(Huge \div 8 - 1)
               /\ Field.htype \in {"required", "optional", "repeated", "oneof"}
               /\ Field.ltype = "submessage" => Field.sub \in DOMAIN Schema
  BY <1>3, SchemaAssumption DEF Known, Field
<1>6. QED
  BY <1>2, <1>3, <1>4, <1>5

LEMMA TargetFacts ==
    ASSUME PbInv, AtField, Known
    PROVE  ItemCount \in Nat /\ CountsTyped(Counted) /\ Target \in Seq(Nat)
<1>1. CountsTyped(dest) /\ Path \in Seq(Nat)
  BY FieldFacts DEF PbInv
<1>2. ItemCount \in Nat
  BY <1>1, CountType DEF ItemCount
<1>3. CountsTyped(Counted)
  BY <1>1, <1>2, PutCount DEF Counted
<1>4. Target \in Seq(Nat)
  BY <1>1, <1>2, AppendProperties DEF Target
<1>5. QED
  BY <1>2, <1>3, <1>4

LEMMA FlaggedFacts ==
    ASSUME PbInv, AtField, Known
    PROVE  CountsTyped(Flagged) /\ \A v : CountsTyped(Stored(Flagged, v))
<1>1. /\ CountsTyped(dest) /\ Path \in Seq(Nat) /\ Top.path \in Seq(Nat) /\ Tag \in Nat \ {0}
      /\ Field.htype \in {"required", "optional", "repeated", "oneof"}
  BY FieldFacts DEF PbInv
<1>2. ItemCount \in Nat
  BY TargetFacts
<1>3. CountsTyped(Flagged)
  <2>1. CASE IsItem
    <3>1. Flagged = Put(dest, Append(Path, 0), ItemCount + 1)
      BY <2>1 DEF Flagged, IsItem
    <3>2. QED
      BY <1>1, <1>2, <3>1, PutCount
  <2>2. CASE Field.htype = "oneof" /\ Field.ltype = "submessage"
    <3>1. Flagged = Put(NoUnion(dest, Top.msg, Top.path), Append(Top.path, 0), Tag)
      BY <2>2 DEF Flagged, IsItem, Select
    <3>2. QED
      BY <1>1, <3>1, PutCount, UnionCounts
  <2>3. CASE Field.htype = "oneof" /\ Field.ltype # "submessage"
    <3>1. Flagged = Put(dest, Append(Top.path, 0), Tag)
      BY <2>3 DEF Flagged, IsItem
    <3>2. QED
      BY <1>1, <3>1, PutCount
  <2>4. CASE Field.htype \in {"required", "optional"}
    <3>1. Flagged = IF Field.has \/ Field.ext THEN Put(dest, HasAt(Top.path, Tag), TRUE) ELSE dest
      BY <2>4 DEF Flagged, IsItem
    <3>2. CountsTyped(Put(dest, HasAt(Top.path, Tag), TRUE))
      <4>1. Append(Top.path, 0) \in Seq(Nat)
        BY <1>1, AppendProperties
      <4>2. QED
        BY <1>1, <4>1, HasAtIs, PutValue
    <3>3. QED
      BY <1>1, <3>1, <3>2
  <2>5. QED
    BY <1>1, <2>1, <2>2, <2>3, <2>4 DEF IsItem
<1>4. ASSUME NEW v PROVE CountsTyped(Stored(Flagged, v))
  <2> DEFINE d == IF Field.htype = "oneof" THEN NoUnion(Flagged, Top.msg, Top.path) ELSE Flagged
  <2>1. CountsTyped(d)
    BY <1>3, UnionCounts
  <2>2. Stored(Flagged, v) = Put(d, Target, v)
    BY DEF Stored
  <2> HIDE DEF d
  <2>3. CASE IsItem
    BY <1>1, <1>2, <2>1, <2>2, <2>3, PutValue DEF Target
  <2>4. CASE ~IsItem
    <3>1. Target = Append(Top.path, Tag)
      BY <2>4 DEF Target, Path
    <3>2. QED
      BY <1>1, <2>1, <2>2, <3>1, PutValue
  <2>5. QED
    BY <2>3, <2>4
<1>5. QED
  BY <1>3, <1>4

LEMMA SkippedFacts ==
    ASSUME StreamInv, AtField
    PROVE  Skipped(Rest) \subseteq 0..Top.left /\ Lengths \subseteq 0..Top.left
<1>1. Rest \in Seq(Byte) /\ Len(Rest) = Top.left /\ Top.left \in Nat
  BY RestFacts, TopFacts
<1>2. VarintLen(Rest) \in 0..Len(Rest)
  BY <1>1, VarintLenBound
<1>3. Skipped(Rest) \subseteq 0..Len(Rest)
  <2> DEFINE size == Varint32(Rest)
             string == IF size.ok THEN {size.len + Num(size.value)} \cap 0..Len(Rest) ELSE {}
  <2>1. string \subseteq 0..Len(Rest)
    OBVIOUS
  <2>2. \/ Skipped(Rest) = {VarintLen(Rest)} \ {0}
        \/ Skipped(Rest) = {8} \cap 0..Len(Rest)
        \/ Skipped(Rest) = string
        \/ Skipped(Rest) = {4} \cap 0..Len(Rest)
        \/ Skipped(Rest) = {}
    <3> HIDE DEF string
    <3>1. Skipped(Rest) = CASE WireType = 0 -> {VarintLen(Rest)} \ {0}
                            [] WireType = 1 -> {8} \cap 0..Len(Rest)
                            [] WireType = 2 -> string
                            [] WireType = 5 -> {4} \cap 0..Len(Rest)
                            [] OTHER        -> {}
      BY DEF Skipped, string
    <3>2. QED
      BY <3>1
  <2> HIDE DEF string
  <2>3. QED
    BY <1>2, <2>1, <2>2
<1>4. QED
  BY <1>1, <1>3 DEF Lengths

LEMMA RawFacts ==
    ASSUME StreamInv, AtField
    PROVE  Raw(Rest) \subseteq 0..Top.left
<1>1. Rest \in Seq(Byte) /\ Len(Rest) = Top.left /\ Top.left \in Nat
  BY RestFacts, TopFacts
<1>2. VarintLen(Rest) \in 0..Top.left
  BY <1>1, VarintLenBound
<1>3. QED
  BY <1>2, SkippedFacts DEF Raw

(* A decoder that succeeds has read no more than there is.                 *)
LEMMA DecodedFacts ==
    ASSUME NEW s \in Seq(Byte), NEW f, Decoded(f, s).ok
    PROVE  Decoded(f, s).len \in 0..Len(s)
<1>1. Integer(f, s).len \in 0..Len(s)
  BY Varint64Type DEF Integer, Result
<1>2. ASSUME NEW n \in Nat PROVE Fixed(n, s).ok => Fixed(n, s).len \in 0..Len(s)
  <2>1. Fixed(n, s).len = n
    BY DEF Fixed, Result
  <2>2. Fixed(n, s).ok => n <= Len(s)
    BY DEF Fixed, Result
  <2>3. QED
    BY <2>1, <2>2
<1>3. Sized(f, s).ok => Sized(f, s).len \in 0..Len(s)
  <2> DEFINE size == Varint32(s)
             n == Num(size.value)
  <2>1. Sized(f, s).len = size.len + n
    BY DEF Sized, Result
  <2>2. Sized(f, s).ok => size.len + n <= Len(s)
    BY DEF Sized, Result
  <2>3. size.len \in 0..Len(s) /\ n \in Nat
    BY Varint32Type
  <2> HIDE DEF size, n
  <2>4. QED
    BY <2>1, <2>2, <2>3
<1>4. \/ Decoded(f, s) = Integer(f, s)
      \/ Decoded(f, s) = Fixed(4, s)
      \/ Decoded(f, s) = Fixed(8, s)
      \/ Decoded(f, s) = Sized(f, s)
  BY DEF Decoded
<1>5. QED
  BY <1>1, <1>2, <1>3, <1>4

LEMMA OpenSizedKeepsInv ==
    ASSUME StreamInv, header \in Nat \X Nat,
           NEW m \in DOMAIN Schema, NEW p \in Seq(Nat), NEW packed \in Nat, NEW d, NEW opened,
           OpenSized(m, p, packed, d, opened)
    PROVE  StreamInv' /\ dest' \in {d, opened}
<1> DEFINE size == Varint32(Rest)
<1>1. /\ size.len \in 0..Top.left /\ Num(size.value) \in Nat
      /\ Tag \in Nat /\ Top.left \in Nat
  BY RestFacts, TopFacts, Varint32Type DEF Tag
<1> HIDE DEF size
<1>2. \/ Fail(d)
      \/ /\ Num(size.value) <= Top.left - size.len
         /\ Open(size.len, Tag, m, p, Num(size.value), packed, opened)
  BY DEF OpenSized, size
<1>3. Num(size.value) <= Top.left - size.len =>
         size.len \in Nat /\ size.len + Num(size.value) <= Top.left
  BY <1>1
<1>4. StreamInv'
  BY <1>1, <1>2, <1>3, FailKeepsInv, OpenKeepsInv
<1>5. dest' \in {d, opened}
  BY <1>2 DEF Fail, Open
<1>6. QED
  BY <1>4, <1>5

----------------------------------------------------------------------------
(* The actions.                                                            *)
LEMMA StartPbInv ==
    ASSUME NEW b \in Seq(Byte), Started(b)
    PROVE  PbInv
<1> DEFINE f == Frame(Root, <<>>, Len(b), 0, 0)
<1>1. b \in Seq(Byte) /\ Len(b) \in Nat
  BY LenProperties
<1>2. <<>> \in Seq(Nat)
  BY EmptySeq
<1>3. /\ f \in FrameType /\ f.left = Len(b) /\ f.end = Len(b) /\ f.packed = 0
  BY <1>1, <1>2, SchemaAssumption DEF Frame, FrameType
<1>4. buf = b /\ pos = 0 /\ stack = <<f>> /\ header = <<>> /\ ret = "running"
  BY DEF Started
<1> HIDE DEF f
<1>5. stack \in Seq(FrameType) /\ stack # <<>> /\ Len(stack) = 1 /\ stack[1] = f
  BY <1>3, <1>4
<1>6. Top = f
  BY <1>5 DEF Top
<1>7. StreamContained
  BY <1>1, <1>3, <1>4, <1>5, <1>6 DEF StreamContained
<1>8. \A i \in 1..Len(stack) : stack[i].end <= Len(buf)
  BY <1>1, <1>3, <1>4, <1>5
<1>9. StreamInv
  BY <1>1, <1>3, <1>4, <1>5, <1>7, <1>8 DEF StreamInv
<1>10. CountsTyped(dest)
  BY CallbacksAssumption DEF Started, Empty, CountsTyped
<1>11. QED
  BY <1>9, <1>10 DEF PbInv

LEMMA InitPbInv == PbInit => PbInv
BY StartPbInv, InputsAssumption DEF PbInit

LEMMA MessageKeepsInv ==
    ASSUME PbInv, ReadTag \/ BadTag \/ EndMessage \/ MissingRequired
    PROVE  PbInv'
<1>0. StreamInv /\ CountsTyped(dest)
  BY DEF PbInv
<1>1. CASE ReadTag
  <2> DEFINE temp == Varint32(Rest)
             f == [Top EXCEPT !.left = Top.left - temp.len]
  <2>1. temp.len \in 0..Top.left /\ Num(temp.value) \in Nat /\ temp.value[1] \in 0..127
    BY <1>0, RestFacts, Varint32Type
  <2>2. Top \in FrameType /\ Top.left \in Nat /\ Len(stack) \in 1..Len(stack)
    BY <1>0, TopFacts
  <2> HIDE DEF temp
  <2>3. /\ f \in FrameType /\ f.left = Top.left - temp.len
        /\ f.end = Top.end /\ f.packed = Top.packed
    <3>1. Top.left - temp.len \in Nat
      BY <2>1, <2>2
    <3>2. QED
      BY <2>2, <3>1 DEF FrameType
  <2>4. /\ pos' = pos + temp.len
        /\ stack' = [stack EXCEPT ![Len(stack)].left = @ - temp.len]
        /\ header' = <<Num(temp.value) \div 8, temp.value[1] % 8>>
        /\ buf' = buf /\ ret' = ret
    BY <1>1 DEF ReadTag, temp
  <2>5. stack' = [stack EXCEPT ![Len(stack)] = f]
    BY <2>4 DEF Top
  <2>6. header' \in {<<>>} \cup (Nat \X Nat)
    <3>1. \A n \in Nat : n \div 8 \in Nat /\ n % 8 \in Nat
      OBVIOUS
    <3>2. temp.value[1] \in Nat
      BY <2>1
    <3>3. Num(temp.value) \div 8 \in Nat /\ temp.value[1] % 8 \in Nat
      BY <2>1, <3>1, <3>2
    <3>4. QED
      BY <2>4, <3>3
  <2>7. ret' \in {"running", "ok", "failed"}
    BY <1>0, <2>4 DEF StreamInv
  <2> HIDE DEF f
  <2>8. StreamInv'
    BY <1>0, <2>1, <2>3, <2>4, <2>5, <2>6, <2>7, ReadKeepsInv
  <2>9. QED
    BY <1>0, <1>1, <2>8 DEF PbInv, ReadTag
<1>2. CASE BadTag
  BY <1>0, <1>2, FailKeepsInv DEF BadTag, Fail, PbInv
<1>3. CASE EndMessage
  <2>0. dest' = dest
    BY <1>3 DEF EndMessage, Close
  <2>1. CASE Len(stack) > 1
    BY <1>0, <1>3, <2>0, <2>1, CloseKeepsInv DEF EndMessage, PbInv
  <2>2. CASE ~(Len(stack) > 1)
    <3>1. UNCHANGED <<buf, pos, stack, header>> /\ ret' = "ok"
      BY <1>3, <2>2 DEF EndMessage
    <3>2. StreamContained'
      BY <1>0, <3>1 DEF StreamContained, StreamInv, Top
    <3>3. StreamInv'
      BY <1>0, <3>1, <3>2 DEF StreamInv
    <3>4. QED
      BY <1>0, <2>0, <3>3 DEF PbInv
  <2>3. QED
    BY <2>1, <2>2
<1>4. CASE MissingRequired
  BY <1>0, <1>4, FailKeepsInv DEF MissingRequired, Fail, PbInv
<1>5. QED
  BY <1>1, <1>2, <1>3, <1>4

(* Reading n bytes or failing keeps the invariant, whatever is stored.     *)
LEMMA ProceedOrFail ==
    ASSUME PbInv, NEW n, NEW t \in Nat, NEW d, NEW e, CountsTyped(d), CountsTyped(e),
           (n \in 0..Top.left /\ Proceed(n, t, d)) \/ Fail(e)
    PROVE  PbInv'
<1>1. StreamInv
  BY DEF PbInv
<1>2. StreamInv'
  BY <1>1, ProceedKeepsInv, FailKeepsInv
<1>3. dest' \in {d, e}
  BY DEF Proceed, Fail
<1>4. QED
  BY <1>2, <1>3 DEF PbInv

LEMMA FailKeeps ==
    ASSUME PbInv, NEW d, CountsTyped(d), Fail(d)
    PROVE  PbInv'
BY FailKeepsInv DEF PbInv, Fail

LEMMA FieldKeepsInv ==
    ASSUME PbInv,
           \/ WrongFixedCount \/ SkipField \/ CannotSkip
           \/ ArrayOverflow \/ DecodeScalar \/ DecodeSubmessage \/ OpenPacked
    PROVE  PbInv'
<1>0. StreamInv /\ CountsTyped(dest)
  BY DEF PbInv
<1>1. CASE WrongFixedCount
  BY <1>0, <1>1, FailKeeps DEF WrongFixedCount
<1>2. CASE SkipField
  <2> DEFINE d == IF Known THEN Counted ELSE dest
  <2>1. AtField /\ \E n \in Lengths : Proceed(n, Tag, d)
    BY <1>2 DEF SkipField, Skippable, AtKnown
  <2>2. CountsTyped(d) /\ Tag \in Nat
    BY <1>0, <2>1, TargetFacts, FieldFacts
  <2> HIDE DEF d
  <2>3. PICK n \in Lengths : Proceed(n, Tag, d)
    BY <2>1
  <2>4. n \in 0..Top.left
    BY <1>0, <2>1, SkippedFacts
  <2>5. QED
    BY <2>2, <2>3, <2>4, ProceedOrFail
<1>3. CASE CannotSkip
  BY <1>0, <1>3, FailKeeps DEF CannotSkip
<1>4. CASE ArrayOverflow
  <2>1. AtField /\ Known /\ Fail(Flagged)
    BY <1>4 DEF ArrayOverflow, IsStatic, AtKnown
  <2>2. QED
    BY <2>1, FlaggedFacts, FailKeeps
<1>5. CASE DecodeScalar
  <2> DEFINE r == Decoded(Field, Rest)
             d == IF r.stored THEN Stored(Flagged, r.value) ELSE Flagged
  <2>1. AtField /\ Known
    BY <1>5 DEF DecodeScalar, IsStatic, AtKnown
  <2>2. r.ok => r.len \in 0..Top.left
    BY <1>0, RestFacts, DecodedFacts
  <2>3. CountsTyped(d) /\ Tag \in Nat
    BY <2>1, FlaggedFacts, FieldFacts
  <2>4. IF r.ok THEN Proceed(r.len, Tag, d) ELSE Fail(d)
    BY <1>5 DEF DecodeScalar
  <2> HIDE DEF r, d
  <2>5. QED
    BY <2>2, <2>3, <2>4, ProceedOrFail
<1>6. CASE DecodeSubmessage
  <2> DEFINE opened == IF IsItem THEN Defaults(Flagged, Target) ELSE Flagged
  <2>1. AtField /\ Known /\ Field.ltype = "submessage" /\ header \in Nat \X Nat
    BY <1>0, <1>6 DEF DecodeSubmessage, IsStatic, AtKnown, AtField, StreamInv
  <2>2. OpenSized(Field.sub, Target, 0, Flagged, opened)
    BY <1>6 DEF DecodeSubmessage
  <2>3. Field.sub \in DOMAIN Schema /\ Target \in Seq(Nat)
    BY <2>1, FieldFacts, TargetFacts
  <2>4. CountsTyped(Flagged) /\ CountsTyped(opened)
    BY <2>1, FlaggedFacts, UnionCounts
  <2> HIDE DEF opened
  <2>5. StreamInv' /\ dest' \in {Flagged, opened}
    BY <1>0, <2>1, <2>2, <2>3, OpenSizedKeepsInv
  <2>6. QED
    BY <2>4, <2>5 DEF PbInv
<1>7. CASE OpenPacked
  <2>1. /\ AtField /\ Known /\ header \in Nat \X Nat
        /\ OpenSized(Top.msg, Top.path, Tag, dest, Counted)
    BY <1>0, <1>7 DEF OpenPacked, IsStatic, AtKnown, AtField, StreamInv
  <2>2. Top.msg \in DOMAIN Schema /\ Top.path \in Seq(Nat) /\ Tag \in Nat /\ CountsTyped(Counted)
    BY <2>1, FieldFacts, TargetFacts
  <2>3. StreamInv' /\ dest' \in {dest, Counted}
    BY <1>0, <2>1, <2>2, OpenSizedKeepsInv
  <2>4. QED
    BY <1>0, <2>2, <2>3 DEF PbInv
<1>8. QED
  BY <1>1, <1>2, <1>3, <1>4, <1>5, <1>6, <1>7

LEMMA PackedFacts ==
    ASSUME PbInv, Top.packed # 0
    PROVE  /\ Top.path \in Seq(Nat) /\ Top.packed \in Nat \ {0}
           /\ PackedPath \in Seq(Nat) /\ Count(dest, PackedPath) \in Nat
<1>1. Top.path \in Seq(Nat) /\ Top.packed \in Nat \ {0} /\ CountsTyped(dest)
  BY TopFacts DEF PbInv, FrameType
<1>2. PackedPath \in Seq(Nat)
  BY <1>1, AppendProperties DEF PackedPath
<1>3. QED
  BY <1>1, <1>2, CountType

LEMMA PackedKeepsInv ==
    ASSUME PbInv, DecodePacked \/ ClosePacked \/ PackedOverflow
    PROVE  PbInv'
<1>0. StreamInv /\ CountsTyped(dest)
  BY DEF PbInv
<1>1. CASE DecodePacked
  <2> DEFINE n == Count(dest, PackedPath) + 1
             r == Decoded(PackedField, Rest)
             d == IF r.stored THEN Put(dest, Append(PackedPath, n), r.value) ELSE dest
             e == Put(d, Append(PackedPath, 0), n)
  <2>1. PackedPath \in Seq(Nat) /\ n \in Nat \ {0}
    BY <1>1, PackedFacts DEF DecodePacked, InPacked
  <2>2. r.ok => r.len \in 0..Top.left
    BY <1>0, RestFacts, DecodedFacts
  <2>3. IF r.ok THEN Proceed(r.len, 0, e) ELSE Fail(d)
    BY <1>1 DEF DecodePacked
  <2> HIDE DEF n, r
  <2>4. CountsTyped(d)
    BY <1>0, <2>1, PutValue
  <2> HIDE DEF d
  <2>5. CountsTyped(e)
    BY <2>1, <2>4, PutCount
  <2> HIDE DEF e
  <2>6. QED
    BY <2>2, <2>3, <2>4, <2>5, ProceedOrFail
<1>2. CASE ClosePacked
  BY <1>0, <1>2, CloseKeepsInv DEF ClosePacked, InPacked, Close, PbInv
<1>3. CASE PackedOverflow
  BY <1>0, <1>3, FailKeeps DEF PackedOverflow
<1>4. QED
  BY <1>1, <1>2, <1>3

LEMMA CallbackKeepsInv ==
    ASSUME PbInv,
           \/ OpenCallback \/ CallbackReads \/ CallbackDone \/ CallbackFails
           \/ CallbackScalar \/ CallbackUnread
    PROVE  PbInv'
<1>0. StreamInv /\ CountsTyped(dest)
  BY DEF PbInv
<1>1. CASE OpenCallback
  <2>1. /\ AtField /\ Known /\ header \in Nat \X Nat
        /\ OpenSized(Top.msg, Top.path, Tag, Counted, Counted)
    BY <1>0, <1>1 DEF OpenCallback, IsCallback, AtKnown, AtField, StreamInv
  <2>2. Top.msg \in DOMAIN Schema /\ Top.path \in Seq(Nat) /\ Tag \in Nat /\ CountsTyped(Counted)
    BY <2>1, FieldFacts, TargetFacts
  <2>3. StreamInv' /\ dest' = Counted
    BY <1>0, <2>1, <2>2, OpenSizedKeepsInv
  <2>4. QED
    BY <2>2, <2>3 DEF PbInv
<1>2. CASE CallbackReads
  <2>1. PICK n \in 1..Top.left :
           Proceed(n, 0, Put(dest, PackedPath, dest[PackedPath] \o SubSeq(Rest, 1, n)))
    BY <1>2 DEF CallbackReads
  <2> DEFINE v == dest[PackedPath] \o SubSeq(Rest, 1, n)
  <2> HIDE DEF v
  <2>2. Proceed(n, 0, Put(dest, Append(Top.path, Top.packed), v))
    BY <2>1 DEF v, PackedPath
  <2>3. CountsTyped(Put(dest, Append(Top.path, Top.packed), v))
    BY <1>0, <1>2, PackedFacts, PutValue DEF CallbackReads, InCallback
  <2>4. n \in 0..Top.left
    BY <2>1
  <2>5. QED
    BY <2>2, <2>3, <2>4, ProceedOrFail
<1>3. CASE CallbackDone
  BY <1>0, <1>3, CloseKeepsInv DEF CallbackDone, InCallback, Close, PbInv
<1>4. CASE CallbackFails
  BY <1>0, <1>4, FailKeeps DEF CallbackFails
<1>5. CASE CallbackScalar
  <2>1. AtField /\ Known
    BY <1>5 DEF CallbackScalar, IsCallback, AtKnown
  <2>2. PICK n \in Raw(Rest) : Proceed(n, Tag, Put(Counted, Path, dest[Path] \o SubSeq(Rest, 1, n)))
    BY <1>5 DEF CallbackScalar
  <2> DEFINE v == dest[Path] \o SubSeq(Rest, 1, n)
  <2> HIDE DEF v
  <2>3. Proceed(n, Tag, Put(Counted, Append(Top.path, Tag), v))
    BY <2>2 DEF v, Path
  <2>4. Tag \in Nat \ {0} /\ Top.path \in Seq(Nat) /\ CountsTyped(Counted)
    BY <2>1, FieldFacts, TargetFacts
  <2>5. CountsTyped(Put(Counted, Append(Top.path, Tag), v))
    BY <2>4, PutValue
  <2>6. n \in 0..Top.left
    BY <1>0, <2>1, RawFacts
  <2>7. QED
    BY <2>3, <2>4, <2>5, <2>6, ProceedOrFail
<1>6. CASE CallbackUnread
  BY <1>0, <1>6, FailKeeps DEF CallbackUnread
<1>7. QED
  BY <1>1, <1>2, <1>3, <1>4, <1>5, <1>6

----------------------------------------------------------------------------
(* PbInv holds in every state of every call of pb_decode, whatever the     *)
(* message type and the buffer.                                            *)
THEOREM PbInvariant == PbSpec => []PbInv
<1>1. PbInit => PbInv
  BY InitPbInv
<1>2. PbInv /\ [PbNext]_pbVars => PbInv'
  <2> SUFFICES ASSUME PbInv, [PbNext]_pbVars PROVE PbInv'
    OBVIOUS
  <2>1. CASE PbNext
    BY <2>1, MessageKeepsInv, FieldKeepsInv, PackedKeepsInv, CallbackKeepsInv DEF PbNext
  <2>2. CASE UNCHANGED pbVars
    <3>1. StreamContained'
      BY <2>2 DEF pbVars, StreamContained, PbInv, StreamInv, Top
    <3>2. QED
      BY <2>2, <3>1 DEF pbVars, PbInv, StreamInv
  <2>3. QED
    BY <2>1, <2>2
<1>3. QED
  BY <1>1, <1>2, PTL DEF PbSpec

(* The decoder's state is well-typed; pos never leaves the buffer.         *)
THEOREM PbTypeCorrect == PbSpec => []PbTypeOK
<1>1. PbInv => PbTypeOK
  <2> SUFFICES ASSUME PbInv PROVE PbTypeOK
    OBVIOUS
  <2>1. pos \in 0..Len(buf)
    <3>1. pos \in Nat /\ Len(buf) \in Nat
      BY DEF PbInv, StreamInv
    <3>2. QED
      BY <3>1, TopFacts DEF PbInv
  <2>2. QED
    BY <2>1 DEF PbInv, StreamInv, PbTypeOK
<1>2. QED
  BY <1>1, PbInvariant, PTL

(* docs/security.rst:52: whatever lengths a buffer claims, each of its     *)
(* bytes belongs to one stream and no stream reaches behind it.            *)
THEOREM StreamAlwaysContained == PbSpec => []StreamContained
<1>1. PbInv => StreamContained
  BY DEF PbInv, StreamInv
<1>2. QED
  BY <1>1, PbInvariant, PTL

----------------------------------------------------------------------------
(***************************************************************************)
(* The structure that is decoded into: what is where in it (PlacesInv),    *)
(* what of the message called for has been stored (RootInv), and that no   *)
(* member of a oneof outlives its selection (UnionsInv).                   *)
(***************************************************************************)

(* Where a path leads, one step at a time.                                 *)
LEMMA SpotSteps ==
    ASSUME NEW p \in Seq(Nat)
    PROVE  \E f : /\ f[0] = Spot("message", Root, 0)
                  /\ \A i \in 1..Len(p) : f[i] = Inside(f[i - 1], p[i])
                  /\ Location(p) = f[Len(p)]
<1> DEFINE D(f, i) == IF i = 0 THEN Spot("message", Root, 0) ELSE Inside(f[i - 1], p[i])
           P == {n \in Nat : \E f : f = [i \in 0..n |-> D(f, i)]}
<1>1. Len(p) \in Nat
  BY LenProperties
<1>2. 0 \in P
  <2> DEFINE g == [i \in 0..0 |-> D(<<>>, i)]
  <2>1. g = [i \in 0..0 |-> D(g, i)]
    OBVIOUS
  <2> HIDE DEF g, D
  <2>2. QED
    BY <2>1
<1>3. ASSUME NEW n \in Nat, n \in P PROVE n + 1 \in P
  <2>1. PICK f : f = [i \in 0..n |-> D(f, i)]
    BY <1>3
  <2> DEFINE g == [i \in 0..(n + 1) |-> IF i = n + 1 THEN D(f, i) ELSE f[i]]
  <2>2. \A i \in 0..(n + 1) : g[i] = D(g, i)
    <3> TAKE i \in 0..(n + 1)
    <3>1. i # 0 => i - 1 \in 0..n /\ i - 1 \in 0..(n + 1) /\ i - 1 # n + 1
      OBVIOUS
    <3>2. D(g, i) = D(f, i)
      BY <3>1
    <3> HIDE DEF D
    <3>3. i # n + 1 => f[i] = D(f, i)
      <4>1. i # n + 1 => i \in 0..n
        OBVIOUS
      <4>2. QED
        BY <2>1, <4>1
    <3>4. QED
      BY <3>2, <3>3
  <2>3. g = [i \in 0..(n + 1) |-> D(g, i)]
    <3> HIDE DEF D
    <3>1. QED
      BY <2>2
  <2> HIDE DEF g, D
  <2>4. QED
    BY <2>3
<1>4. \E f : f = [i \in 0..Len(p) |-> D(f, i)]
  <2>1. \A n \in Nat : n \in P
    <3> HIDE DEF P
    <3>1. QED
      BY <1>2, <1>3, SetInduction
  <2>2. QED
    BY <1>1, <2>1
<1> DEFINE spot == CHOOSE f : f = [i \in 0..Len(p) |-> D(f, i)]
<1>5. spot = [i \in 0..Len(p) |-> D(spot, i)]
  <2> HIDE DEF D
  <2>1. QED
    BY <1>4
<1>6. Location(p) = spot[Len(p)]
  BY DEF Location
<1> HIDE DEF spot
<1>7. \A i \in 0..Len(p) : spot[i] = D(spot, i)
  <2> HIDE DEF D
  <2>1. QED
    BY <1>5
<1>8. spot[0] = Spot("message", Root, 0)
  <2>1. 0 \in 0..Len(p)
    BY <1>1
  <2>2. QED
    BY <1>7, <2>1
<1>9. \A i \in 1..Len(p) : spot[i] = Inside(spot[i - 1], p[i])
  <2> TAKE i \in 1..Len(p)
  <2>1. i \in 0..Len(p) /\ i # 0
    BY <1>1
  <2>2. QED
    BY <1>7, <2>1
<1>10. QED
  BY <1>6, <1>8, <1>9

LEMMA LocationRoot == Location(<<>>) = Spot("message", Root, 0)
<1>1. <<>> \in Seq(Nat) /\ Len(<<>>) = 0
  BY EmptySeq
<1>2. QED
  BY <1>1, SpotSteps

LEMMA LocationAppend ==
    ASSUME NEW p \in Seq(Nat), NEW x \in Nat
    PROVE  Location(Append(p, x)) = Inside(Location(p), x)
<1> DEFINE q == Append(p, x)
           n == Len(p)
<1>1. /\ q \in Seq(Nat) /\ Len(q) = n + 1 /\ n \in Nat /\ q[n + 1] = x
      /\ \A i \in 1..n : q[i] = p[i]
  BY AppendProperties, LenProperties
<1> HIDE DEF q
<1>2. PICK f : /\ f[0] = Spot("message", Root, 0)
               /\ \A i \in 1..n : f[i] = Inside(f[i - 1], p[i])
               /\ Location(p) = f[n]
  BY SpotSteps
<1>3. PICK g : /\ g[0] = Spot("message", Root, 0)
               /\ \A i \in 1..Len(q) : g[i] = Inside(g[i - 1], q[i])
               /\ Location(q) = g[Len(q)]
  BY <1>1, SpotSteps
<1> DEFINE P == {k \in Nat : k \in 0..n => f[k] = g[k]}
<1> HIDE DEF n
<1>4. 0 \in P
  BY <1>2, <1>3
<1>5. ASSUME NEW k \in Nat, k \in P PROVE k + 1 \in P
  <2> SUFFICES ASSUME k + 1 \in 0..n PROVE f[k + 1] = g[k + 1]
    OBVIOUS
  <2>1. k \in 0..n /\ k + 1 \in 1..n /\ k + 1 \in 1..Len(q) /\ (k + 1) - 1 = k
    BY <1>1
  <2>2. f[k + 1] = Inside(f[k], p[k + 1]) /\ g[k + 1] = Inside(g[k], q[k + 1])
    BY <1>2, <1>3, <2>1
  <2>3. QED
    BY <1>1, <1>5, <2>1, <2>2
<1>6. \A k \in Nat : k \in P
  <2> HIDE DEF P
  <2>1. QED
    BY <1>4, <1>5, SetInduction
<1>7. f[n] = g[n]
  BY <1>1, <1>6
<1>8. g[n + 1] = Inside(g[n], x)
  <2>1. n + 1 \in 1..Len(q) /\ (n + 1) - 1 = n
    BY <1>1
  <2>2. QED
    BY <1>1, <1>3, <2>1
<1>9. QED
  BY <1>1, <1>2, <1>3, <1>7, <1>8 DEF q

(* The parts of a message, of an array and of a message's which_.          *)
LEMMA SpotFields ==
    ASSUME NEW k, NEW m, NEW t
    PROVE  Spot(k, m, t).kind = k /\ Spot(k, m, t).msg = m /\ Spot(k, m, t).tag = t
BY DEF Spot

LEMMA MessageSpots ==
    ASSUME NEW p \in Seq(Nat), NEW m \in DOMAIN Schema, Location(p) = Spot("message", m, 0)
    PROVE  /\ \A t \in DOMAIN Schema[m] : Location(Append(p, t)) = FieldSpot(m, t)
           /\ Location(Append(p, 0)) = Spot("none", m, 0)
           /\ \A t \in Nat : Location(HasAt(p, t)) = Spot("none", m, 0)
<1>1. \A t \in DOMAIN Schema[m] : t \in Nat \ {0}
  BY SchemaAssumption
<1>2. ASSUME NEW t \in DOMAIN Schema[m] PROVE Location(Append(p, t)) = FieldSpot(m, t)
  <2>1. Location(Append(p, t)) = Inside(Spot("message", m, 0), t)
    BY <1>1, LocationAppend
  <2>2. QED
    BY <2>1, SpotFields DEF Inside
<1>3. Location(Append(p, 0)) = Spot("none", m, 0)
  <2>1. Location(Append(p, 0)) = Inside(Spot("message", m, 0), 0)
    BY LocationAppend
  <2>2. 0 \notin DOMAIN Schema[m]
    BY <1>1
  <2>3. QED
    BY <2>1, <2>2, SpotFields DEF Inside
<1>4. ASSUME NEW t \in Nat PROVE Location(HasAt(p, t)) = Spot("none", m, 0)
  <2>1. Append(p, 0) \in Seq(Nat)
    BY AppendProperties
  <2>2. Location(Append(Append(p, 0), t)) = Inside(Spot("none", m, 0), t)
    BY <1>3, <2>1, LocationAppend
  <2>3. Inside(Spot("none", m, 0), t) = Spot("none", m, 0)
    BY SpotFields DEF Inside
  <2>4. QED
    BY <2>2, <2>3, HasAtIs
<1>5. QED
  BY <1>2, <1>3, <1>4

LEMMA FieldSpots ==
    ASSUME NEW p \in Seq(Nat), NEW m, NEW t, Location(p) = Spot("field", m, t), NEW n \in Nat
    PROVE  Location(Append(p, n)) = IF StaticArray(Schema[m][t]) THEN ArraySpot(m, t, n)
                                    ELSE Spot("none", m, 0)
<1>1. Location(Append(p, n)) = Inside(Spot("field", m, t), n)
  BY LocationAppend
<1>2. QED
  BY <1>1, SpotFields DEF Inside

----------------------------------------------------------------------------
(* Paths and what is below them.                                           *)
LEMMA PrefixType ==
    ASSUME NEW q \in Seq(Nat), NEW k \in 0..Len(q)
    PROVE  /\ SubSeq(q, 1, k) \in Seq(Nat) /\ Len(SubSeq(q, 1, k)) = k
           /\ \A i \in 1..k : SubSeq(q, 1, k)[i] = q[i]
<1>1. k \in Nat /\ Len(q) \in Nat
  BY LenProperties
<1>2. \A i \in 1..k : q[i] \in Nat
  BY <1>1, ElementOfSeq
<1>3. /\ SubSeq(q, 1, k) \in Seq(Nat)
      /\ Len(SubSeq(q, 1, k)) = IF 1 <= k THEN k - 1 + 1 ELSE 0
      /\ \A i \in 1..(k - 1 + 1) : SubSeq(q, 1, k)[i] = q[1 + i - 1]
  BY <1>1, <1>2, SubSeqProperties
<1>4. k - 1 + 1 = k /\ \A i \in 1..k : 1 + i - 1 = i
  BY <1>1
<1>5. QED
  BY <1>1, <1>3, <1>4

LEMMA PrefixOfAppend ==
    ASSUME NEW q \in Seq(Nat), NEW x \in Nat, NEW k \in 0..Len(q)
    PROVE  SubSeq(Append(q, x), 1, k) = SubSeq(q, 1, k)
<1>1. k \in Nat /\ Len(q) \in Nat
  BY LenProperties
<1>2. CASE k = 0
  BY <1>2, SubSeqEmpty
<1>3. CASE k # 0
  <2>1. Append(q, x) = q \o <<x>> /\ <<x>> \in Seq(Nat)
    BY AppendIsConcat
  <2>2. 1 \in 1..Len(q) /\ k \in 1..Len(q)
    BY <1>1, <1>3
  <2>3. SubSeq(q \o <<x>>, 1, k) = SubSeq(q, 1, k)
    BY <2>1, <2>2, SubSeqOfConcat1
  <2>4. QED
    BY <2>1, <2>3
<1>4. QED
  BY <1>2, <1>3

LEMMA NextPrefix ==
    ASSUME NEW q \in Seq(Nat), NEW k \in 0..Len(q), k < Len(q)
    PROVE  /\ SubSeq(q, 1, k + 1) = Append(SubSeq(q, 1, k), q[k + 1])
           /\ q[k + 1] \in Nat
<1>1. Len(q) \in Nat /\ k \in Nat /\ k + 1 \in 1..Len(q) /\ 1 \in 1..Len(q)
  BY LenProperties
<1>2. q[k + 1] \in Nat
  BY <1>1, ElementOfSeq
<1>3. SubSeq(q, 1, k + 1) = SubSeq(q, 1, (k + 1) - 1) \o <<q[k + 1]>>
  BY <1>1, SubSeqRecursiveSecond
<1>4. (k + 1) - 1 = k
  BY <1>1
<1>5. QED
  BY <1>2, <1>3, <1>4, PrefixType, AppendIsConcat

LEMMA BelowItself ==
    ASSUME NEW q \in Seq(Nat)
    PROVE  Below(q, q)
BY SubSeqFull, LenProperties DEF Below

LEMMA BelowLength ==
    ASSUME NEW r \in Seq(Nat), NEW q \in Seq(Nat), Below(r, q)
    PROVE  Len(r) <= Len(q) /\ Len(r) \in Nat /\ Len(q) \in Nat
BY LenProperties DEF Below

LEMMA BelowAppend ==
    ASSUME NEW r \in Seq(Nat), NEW q \in Seq(Nat), NEW x \in Nat
    PROVE  Below(r, Append(q, x)) <=> Below(r, q) \/ r = Append(q, x)
<1> DEFINE t == Append(q, x)
<1>1. t \in Seq(Nat) /\ Len(t) = Len(q) + 1 /\ Len(q) \in Nat /\ Len(r) \in Nat
  BY AppendProperties, LenProperties
<1>2. CASE Len(r) <= Len(q)
  <2>1. Len(r) \in 0..Len(q) /\ Len(r) <= Len(t)
    BY <1>1, <1>2
  <2>2. SubSeq(t, 1, Len(r)) = SubSeq(q, 1, Len(r))
    BY <2>1, PrefixOfAppend
  <2>3. r # t
    BY <1>1, <1>2
  <2>4. QED
    BY <1>2, <2>1, <2>2, <2>3 DEF Below
<1>3. CASE Len(r) = Len(q) + 1
  <2>1. SubSeq(t, 1, Len(t)) = t
    BY <1>1, SubSeqFull
  <2>2. ~Below(r, q)
    BY <1>1, <1>3 DEF Below
  <2>3. Len(r) = Len(t) /\ SubSeq(t, 1, Len(r)) = t
    BY <1>1, <1>3, <2>1
  <2> HIDE DEF t
  <2>4. Below(r, t) <=> r = t
    BY <1>1, <2>3 DEF Below
  <2>5. QED
    BY <2>2, <2>4 DEF t
<1>4. CASE Len(r) > Len(q) + 1
  BY <1>1, <1>4 DEF Below
<1>5. QED
  BY <1>1, <1>2, <1>3, <1>4

LEMMA BelowPrefix ==
    ASSUME NEW r \in Seq(Nat), NEW q \in Seq(Nat), NEW k \in 0..Len(q), Below(r, SubSeq(q, 1, k))
    PROVE  Below(r, q)
<1> DEFINE n == Len(r)
           p == SubSeq(q, 1, k)
<1>1. n \in Nat /\ k \in Nat /\ Len(q) \in Nat /\ k <= Len(q)
  BY LenProperties
<1>2. p \in Seq(Nat) /\ Len(p) = k /\ \A i \in 1..k : p[i] = q[i]
  BY PrefixType
<1>3. n <= k /\ SubSeq(p, 1, n) = r
  BY <1>2 DEF Below
<1>4. n \in 0..Len(p) /\ n \in 0..Len(q)
  BY <1>1, <1>2, <1>3
<1> HIDE DEF n, p
<1>5. /\ SubSeq(p, 1, n) \in Seq(Nat) /\ Len(SubSeq(p, 1, n)) = n
      /\ \A i \in 1..n : SubSeq(p, 1, n)[i] = p[i]
  BY <1>2, <1>4, PrefixType
<1>6. /\ SubSeq(q, 1, n) \in Seq(Nat) /\ Len(SubSeq(q, 1, n)) = n
      /\ \A i \in 1..n : SubSeq(q, 1, n)[i] = q[i]
  BY <1>4, PrefixType
<1>7. \A i \in 1..n : p[i] = q[i]
  BY <1>1, <1>2, <1>3
<1>8. SubSeq(q, 1, n) = SubSeq(p, 1, n)
  BY <1>5, <1>6, <1>7, SeqEqual
<1>9. QED
  BY <1>1, <1>3, <1>8 DEF Below, n

----------------------------------------------------------------------------
(* Chosen, one step at a time.                                             *)
LEMMA ChosenRoot ==
    ASSUME NEW d, NEW ms
    PROVE  Chosen(d, <<>>, ms)
<1>1. Len(<<>>) = 0
  BY EmptySeq
<1>2. QED
  BY <1>1 DEF Chosen

LEMMA ChosenAppend ==
    ASSUME NEW d, NEW q \in Seq(Nat), NEW x \in Nat, NEW ms
    PROVE  Chosen(d, Append(q, x), ms) <=>
             /\ Chosen(d, q, ms)
             /\ (/\ Location(q).kind = "message" /\ Location(q).msg \in ms
                 /\ x \in OneofTags(Location(q).msg)) => Which(d, q) = x
<1> DEFINE t == Append(q, x)
           n == Len(q)
           On(p, y) == (/\ Location(p).kind = "message" /\ Location(p).msg \in ms
                        /\ y \in OneofTags(Location(p).msg)) => Which(d, p) = y
<1>1. /\ t \in Seq(Nat) /\ Len(t) = n + 1 /\ n \in Nat /\ t[n + 1] = x
      /\ \A i \in 1..n : t[i] = q[i]
  BY AppendProperties, LenProperties
<1>2. \A k \in 0..n : SubSeq(t, 1, k) = SubSeq(q, 1, k)
  BY PrefixOfAppend
<1>3. SubSeq(q, 1, n) = q
  BY SubSeqFull
<1>4. Chosen(d, q, ms) <=> \A k \in 0..(n - 1) : On(SubSeq(q, 1, k), q[k + 1])
  BY DEF Chosen
<1>5. Chosen(d, t, ms) <=> \A k \in 0..((n + 1) - 1) : On(SubSeq(t, 1, k), t[k + 1])
  BY <1>1 DEF Chosen
<1> HIDE DEF On, t, n
<1>6. \A k \in 0..(n - 1) : On(SubSeq(t, 1, k), t[k + 1]) <=> On(SubSeq(q, 1, k), q[k + 1])
  <2> TAKE k \in 0..(n - 1)
  <2>1. k \in 0..n /\ k + 1 \in 1..n
    BY <1>1
  <2>2. QED
    BY <1>1, <1>2, <2>1
<1>7. On(SubSeq(t, 1, n), t[n + 1]) <=> On(q, x)
  <2>1. n \in 0..n
    BY <1>1
  <2>2. QED
    BY <1>1, <1>2, <1>3, <2>1
<1>8. Chosen(d, t, ms) <=> Chosen(d, q, ms) /\ On(q, x)
  <2>1. (n + 1) - 1 = n /\ \A k \in 0..n : k = n \/ k \in 0..(n - 1)
    BY <1>1
  <2>2. n \in 0..n /\ \A k \in 0..(n - 1) : k \in 0..n
    BY <1>1
  <2>3. QED
    BY <1>4, <1>5, <1>6, <1>7, <2>1, <2>2
<1>9. QED
  BY <1>8 DEF On, t

LEMMA ChosenFewer ==
    ASSUME NEW d, NEW q, NEW ms, NEW fewer \in SUBSET ms, Chosen(d, q, ms)
    PROVE  Chosen(d, q, fewer)
BY DEF Chosen

(* Only the which_ of messages on the way matter.                          *)
LEMMA ChosenSame ==
    ASSUME NEW d, NEW e, NEW q \in Seq(Nat), NEW ms, Chosen(d, q, ms),
           \A k \in 0..(Len(q) - 1) :
              (/\ Location(SubSeq(q, 1, k)).kind = "message"
               /\ Location(SubSeq(q, 1, k)).msg \in ms
               /\ q[k + 1] \in OneofTags(Location(SubSeq(q, 1, k)).msg))
              => Which(e, SubSeq(q, 1, k)) = Which(d, SubSeq(q, 1, k))
    PROVE  Chosen(e, q, ms)
BY DEF Chosen

----------------------------------------------------------------------------
(* The frames after a step.                                                *)
LEMMA LengthOne ==
    ASSUME StreamInv
    PROVE  Len(stack) \in Nat \ {0} /\ Len(stack) \in 1..Len(stack) /\ 1 \in 1..Len(stack)
BY TopFacts

LEMMA ReadStack ==
    ASSUME StreamInv, NEW f \in FrameType, stack' = [stack EXCEPT ![Len(stack)] = f]
    PROVE  /\ Len(stack') = Len(stack)
           /\ \A i \in 1..Len(stack) : stack'[i] = IF i = Len(stack) THEN f ELSE stack[i]
BY LengthOne, ExceptSeq DEF StreamInv

LEMMA PlacedRead ==
    ASSUME StreamInv, StackPlaced, NEW f \in FrameType, stack' = [stack EXCEPT ![Len(stack)] = f],
           f.msg = Top.msg, f.path = Top.path, f.packed = Top.packed,
           header' = <<>> \/ Top.packed = 0
    PROVE  StackPlaced'
<1>1. /\ Len(stack') = Len(stack) /\ Len(stack) \in 1..Len(stack)
      /\ \A i \in 1..Len(stack) : stack'[i] = IF i = Len(stack) THEN f ELSE stack[i]
  BY ReadStack, LengthOne
<1>2. FramePlaced(Top) /\ FramePlaced(f)
  BY <1>1 DEF StackPlaced, FramePlaced, Top
<1>3. \A i \in 1..Len(stack) :
         /\ stack'[i].path = stack[i].path
         /\ stack'[i].packed = stack[i].packed
         /\ FramePlaced(stack'[i])
  BY <1>1, <1>2 DEF StackPlaced, Top
<1>4. \A i \in 1..Len(stack) :
         /\ i > 1 => stack'[i].packed # 0 \/ stack'[i].path # <<>>
         /\ i < Len(stack) => stack'[i].packed = 0
         /\ header' # <<>> => stack'[i].packed = 0
  <2>1. \A i \in 1..Len(stack) :
           /\ i > 1 => stack[i].packed # 0 \/ stack[i].path # <<>>
           /\ i < Len(stack) => stack[i].packed = 0
    BY DEF StackPlaced
  <2>2. \A i \in 1..Len(stack) : i < Len(stack) \/ i = Len(stack)
    BY LengthOne
  <2>3. QED
    BY <1>3, <2>1, <2>2 DEF Top
<1>5. \A i \in 1..Len(stack') :
         /\ FramePlaced(stack'[i])
         /\ i > 1 => stack'[i].packed # 0 \/ stack'[i].path # <<>>
         /\ i < Len(stack') \/ header' # <<>> => stack'[i].packed = 0
  BY <1>1, <1>3, <1>4
<1>6. QED
  BY <1>5 DEF StackPlaced

LEMMA PlacedOpen ==
    ASSUME StreamInv, StackPlaced, header # <<>>, header' = <<>>,
           NEW below \in FrameType, NEW child \in FrameType,
           stack' = Append([stack EXCEPT ![Len(stack)] = below], child),
           below.msg = Top.msg, below.path = Top.path, below.packed = Top.packed,
           FramePlaced(child), child.packed # 0 \/ child.path # <<>>
    PROVE  StackPlaced'
<1> DEFINE s == [stack EXCEPT ![Len(stack)] = below]
<1>1. /\ s \in Seq(FrameType) /\ Len(s) = Len(stack) /\ Len(stack) \in 1..Len(stack)
      /\ \A i \in 1..Len(stack) : s[i] = IF i = Len(stack) THEN below ELSE stack[i]
  BY LengthOne, ExceptSeq DEF StreamInv
<1>2. stack' = Append(s, child)
  OBVIOUS
<1> HIDE DEF s
<1>3. /\ Len(stack') = Len(stack) + 1
      /\ \A i \in 1..Len(stack) : stack'[i] = s[i]
      /\ stack'[Len(stack) + 1] = child
  BY <1>1, <1>2, AppendProperties
<1>4. FramePlaced(Top) /\ FramePlaced(below)
  BY <1>1 DEF StackPlaced, FramePlaced, Top
<1>5. \A i \in 1..Len(stack) :
         /\ FramePlaced(stack'[i])
         /\ i > 1 => stack'[i].packed # 0 \/ stack'[i].path # <<>>
         /\ stack'[i].packed = 0
  BY <1>1, <1>3, <1>4 DEF StackPlaced, Top
<1>6. \A i \in 1..Len(stack') : i \in 1..Len(stack) \/ i = Len(stack) + 1
  BY <1>1, <1>3
<1>7. ASSUME NEW i \in 1..Len(stack')
      PROVE  /\ FramePlaced(stack'[i])
             /\ i > 1 => stack'[i].packed # 0 \/ stack'[i].path # <<>>
             /\ i < Len(stack') => stack'[i].packed = 0
  <2>1. CASE i \in 1..Len(stack)
    BY <1>5, <2>1
  <2>2. CASE i = Len(stack) + 1
    <3>1. stack'[i] = child /\ ~(i < Len(stack'))
      BY <1>1, <1>3, <2>2
    <3>2. QED
      BY <3>1
  <2>3. QED
    BY <1>6, <2>1, <2>2
<1>8. QED
  BY <1>7 DEF StackPlaced

LEMMA PoppedStack ==
    ASSUME StreamInv, Len(stack) > 1, stack' = SubSeq(stack, 1, Len(stack) - 1)
    PROVE  /\ Len(stack') = Len(stack) - 1
           /\ \A i \in 1..(Len(stack) - 1) : stack'[i] = stack[i]
<1> DEFINE n == Len(stack) - 1
<1>1. n \in Nat /\ n >= 1 /\ n <= Len(stack) /\ Len(stack) \in Nat
  BY LengthOne
<1>2. stack' = SubSeq(stack, 1, n) /\ stack \in Seq(FrameType)
  BY DEF StreamInv
<1> HIDE DEF n
<1>3. \A i \in 1..n : stack[i] \in FrameType
  <2>1. \A i \in 1..n : i \in 1..Len(stack)
    BY <1>1
  <2>2. QED
    BY <1>2, <2>1, ElementOfSeq
<1>4. /\ Len(stack') = IF 1 <= n THEN n - 1 + 1 ELSE 0
      /\ \A i \in 1..(n - 1 + 1) : stack'[i] = stack[1 + i - 1]
  BY <1>1, <1>2, <1>3, SubSeqProperties
<1>5. n - 1 + 1 = n /\ \A i \in 1..n : 1 + i - 1 = i
  BY <1>1
<1>6. QED
  BY <1>1, <1>4, <1>5 DEF n

LEMMA PlacedClose ==
    ASSUME StreamInv, StackPlaced, Len(stack) > 1,
           stack' = SubSeq(stack, 1, Len(stack) - 1), header' = header
    PROVE  StackPlaced'
<1>1. /\ Len(stack') = Len(stack) - 1 /\ Len(stack) \in Nat
      /\ \A i \in 1..(Len(stack) - 1) : stack'[i] = stack[i]
  BY PoppedStack, LengthOne
<1>2. \A i \in 1..Len(stack') : i \in 1..Len(stack) /\ i < Len(stack) /\ stack'[i] = stack[i]
  BY <1>1
<1>3. QED
  BY <1>2 DEF StackPlaced

LEMMA PlacedSame ==
    ASSUME StackPlaced, stack' = stack, header' = header
    PROVE  StackPlaced'
BY DEF StackPlaced

LEMMA AfterPlace ==
    ASSUME StreamInv, NEW n, NEW t
    PROVE  After(n, t).msg = Top.msg /\ After(n, t).path = Top.path
<1>1. Top \in FrameType
  BY TopFacts
<1>2. QED
  BY <1>1 DEF After, FrameType

LEMMA ProceedPlaced ==
    ASSUME StreamInv, StackPlaced, NEW n \in 0..Top.left, NEW t \in Nat, NEW d, Proceed(n, t, d)
    PROVE  StackPlaced'
<1> DEFINE f == After(n, t)
<1>1. /\ f \in FrameType /\ f.msg = Top.msg /\ f.path = Top.path /\ f.packed = Top.packed
      /\ stack' = [stack EXCEPT ![Len(stack)] = f] /\ header' = <<>>
  BY AfterFacts, AfterPlace DEF Proceed
<1> HIDE DEF f
<1>2. QED
  BY <1>1, PlacedRead

LEMMA FailPlaced ==
    ASSUME StackPlaced, NEW d, Fail(d)
    PROVE  StackPlaced'
BY PlacedSame DEF Fail

(* The stack with the frame at hand as After leaves it and child on top.  *)
Opened(n, t, m, p, packed) ==
    \E below, child \in FrameType :
        /\ stack' = Append([stack EXCEPT ![Len(stack)] = below], child)
        /\ header' = <<>>
        /\ below.msg = Top.msg /\ below.path = Top.path /\ below.packed = Top.packed
        /\ below.seen = After(n, t).seen /\ below.fixed = After(n, t).fixed
        /\ child.msg = m /\ child.path = p /\ child.packed = packed

(* The frame at hand, and the frame that is opened.                        *)
LEMMA OpenFrames ==
    ASSUME StreamInv, NEW n \in Nat, NEW size \in Nat, n + size <= Top.left, NEW t \in Nat,
           NEW m \in DOMAIN Schema, NEW p \in Seq(Nat), NEW packed \in Nat, NEW d,
           Open(n, t, m, p, size, packed, d)
    PROVE  Opened(n, t, m, p, packed)
<1> DEFINE f == After(n, t)
           below == [f EXCEPT !.left = @ - size]
           child == Frame(m, p, size, pos + n, packed)
<1>1. Top.left \in Nat /\ pos \in Nat
  BY TopFacts DEF StreamInv
<1>2. /\ f \in FrameType /\ f.left = Top.left - n /\ f.packed = Top.packed
      /\ f.msg = Top.msg /\ f.path = Top.path
  <2>1. n \in 0..Top.left
    BY <1>1
  <2>2. QED
    BY <2>1, AfterFacts, AfterPlace
<1>3. stack' = Append([stack EXCEPT ![Len(stack)] = below], child) /\ header' = <<>>
  BY DEF Open
<1>4. /\ child \in FrameType /\ child.msg = m /\ child.path = p /\ child.packed = packed
  BY <1>1 DEF Frame, FrameType
<1>5. f.left - size \in Nat
  BY <1>1, <1>2
<1> HIDE DEF f
<1>6. /\ below \in FrameType /\ below.msg = Top.msg /\ below.path = Top.path
      /\ below.packed = Top.packed /\ below.seen = f.seen /\ below.fixed = f.fixed
  BY <1>2, <1>5 DEF FrameType
<1> HIDE DEF below, child
<1>7. QED
  BY <1>3, <1>4, <1>6 DEF f, Opened

(* What OpenSized does to the stack: it stays, or it is Open's.            *)
LEMMA OpenSizedCases ==
    ASSUME StreamInv, AtField, NEW m \in DOMAIN Schema, NEW p \in Seq(Nat), NEW packed \in Nat,
           NEW d, NEW opened, OpenSized(m, p, packed, d, opened)
    PROVE  Fail(d) \/ ((\E n \in Nat : Opened(n, Tag, m, p, packed)) /\ dest' = opened /\ ret' = ret)
<1> DEFINE size == Varint32(Rest)
           n == size.len
           k == Num(size.value)
<1>1. n \in 0..Top.left /\ k \in Nat /\ Top.left \in Nat
  BY RestFacts, TopFacts, Varint32Type
<1>2. Tag \in Nat
  BY DEF Tag, AtField, StreamInv
<1>3. Fail(d) \/ (k <= Top.left - n /\ Open(n, Tag, m, p, k, packed, opened))
  BY DEF OpenSized
<1> HIDE DEF n, k
<1>4. k <= Top.left - n => n \in Nat /\ n + k <= Top.left
  BY <1>1
<1>5. Open(n, Tag, m, p, k, packed, opened) => dest' = opened /\ ret' = ret
  BY DEF Open
<1>6. ASSUME k <= Top.left - n, Open(n, Tag, m, p, k, packed, opened)
      PROVE  n \in Nat /\ Opened(n, Tag, m, p, packed)
  <2>1. n \in Nat /\ n + k <= Top.left
    BY <1>4, <1>6
  <2>2. QED
    BY <1>1, <1>2, <1>6, <2>1, OpenFrames
<1>7. QED
  BY <1>3, <1>5, <1>6

LEMMA OpenSizedPlaced ==
    ASSUME StreamInv, StackPlaced, AtField,
           NEW m \in DOMAIN Schema, NEW p \in Seq(Nat), NEW packed \in Nat,
           NEW d, NEW opened, OpenSized(m, p, packed, d, opened),
           Location(p) = Spot("message", m, 0), packed # 0 \/ p # <<>>,
           packed # 0 => /\ packed \in DOMAIN Schema[m]
                         /\ Schema[m][packed].atype = "static" =>
                               Schema[m][packed].htype = "repeated" /\ Schema[m][packed].ltype \in Packable
    PROVE  StackPlaced'
<1>1. CASE Fail(d)
  BY <1>1, FailPlaced
<1>2. CASE ~Fail(d)
  <2>0. PICK n \in Nat : Opened(n, Tag, m, p, packed)
    BY <1>2, OpenSizedCases
  <2>1. PICK below, child \in FrameType :
           /\ stack' = Append([stack EXCEPT ![Len(stack)] = below], child)
           /\ header' = <<>>
           /\ below.msg = Top.msg /\ below.path = Top.path /\ below.packed = Top.packed
           /\ child.msg = m /\ child.path = p /\ child.packed = packed
    BY <2>0 DEF Opened
  <2>2. header # <<>>
    BY DEF AtField
  <2>3. FramePlaced(child)
    BY <2>1 DEF FramePlaced
  <2>4. QED
    BY <2>1, <2>2, <2>3, PlacedOpen
<1>3. QED
  BY <1>1, <1>2

----------------------------------------------------------------------------
(* Where the field at hand and its parts are.                              *)
LEMMA TopPlaced ==
    ASSUME PlacesInv
    PROVE  /\ StreamInv /\ CountsTyped(dest)
           /\ Top.msg \in DOMAIN Schema /\ Top.path \in Seq(Nat) /\ Top.packed \in Nat
           /\ FramePlaced(Top) /\ Location(Top.path) = Spot("message", Top.msg, 0)
           /\ header # <<>> => Top.packed = 0
<1>1. StreamInv /\ CountsTyped(dest)
  BY DEF PlacesInv, PbInv
<1>2. Len(stack) \in 1..Len(stack) /\ Top \in FrameType
  BY <1>1, LengthOne, TopFacts
<1>3. FramePlaced(Top) /\ (header # <<>> => Top.packed = 0)
  BY <1>2 DEF PlacesInv, StackPlaced, Top
<1>4. QED
  BY <1>1, <1>2, <1>3 DEF FrameType, FramePlaced

(* What the schema says of field t of message m.                           *)
LEMMA FieldAt ==
    ASSUME NEW m \in DOMAIN Schema, NEW t \in DOMAIN Schema[m]
    PROVE  /\ t \in Nat \ {0}
           /\ Schema[m][t].ltype \in LType
           /\ Schema[m][t].htype \in {"required", "optional", "repeated", "oneof"}
           /\ Schema[m][t].atype \in {"static", "callback"}
           /\ Schema[m][t].max \in Nat /\ Schema[m][t].size \in Nat
           /\ Schema[m][t].ltype = "submessage" => Schema[m][t].sub \in DOMAIN Schema
<1>1. t \in 1..(Huge \div 8 - 1)
  BY SchemaAssumption
<1>2. QED
  BY <1>1, SchemaAssumption

LEMMA PathPlaced ==
    ASSUME PlacesInv, AtField, Known
    PROVE  /\ Tag \in Nat \ {0} /\ Tag \in DOMAIN Schema[Top.msg] /\ Top.msg \in DOMAIN Schema
           /\ Top.path \in Seq(Nat) /\ Path \in Seq(Nat) /\ Top.packed = 0
           /\ Location(Top.path) = Spot("message", Top.msg, 0)
           /\ Location(Path) = FieldSpot(Top.msg, Tag)
           /\ Location(Append(Top.path, 0)) = Spot("none", Top.msg, 0)
           /\ Location(HasAt(Top.path, Tag)) = Spot("none", Top.msg, 0)
           /\ ItemCount \in Nat
<1>1. /\ StreamInv /\ PbInv /\ Top.msg \in DOMAIN Schema /\ Top.path \in Seq(Nat) /\ Top.packed = 0
      /\ Location(Top.path) = Spot("message", Top.msg, 0)
  BY TopPlaced DEF AtField, PlacesInv
<1>2. Tag \in DOMAIN Schema[Top.msg] /\ Tag \in Nat \ {0} /\ Path \in Seq(Nat)
  BY <1>1, FieldFacts DEF Known
<1>3. ItemCount \in Nat
  BY <1>1, TargetFacts
<1>4. /\ Location(Append(Top.path, Tag)) = FieldSpot(Top.msg, Tag)
      /\ Location(Append(Top.path, 0)) = Spot("none", Top.msg, 0)
      /\ Location(HasAt(Top.path, Tag)) = Spot("none", Top.msg, 0)
  BY <1>1, <1>2, MessageSpots
<1>5. QED
  BY <1>1, <1>2, <1>3, <1>4 DEF Path

(* Repeated and callback fields are one place, whatever they consist of.   *)
LEMMA FieldPlaced ==
    ASSUME PlacesInv, AtField, Known, IsItem \/ Field.atype = "callback"
    PROVE  /\ Location(Path) = Spot("field", Top.msg, Tag)
           /\ \A n \in Nat : Location(Append(Path, n)) =
                 IF StaticArray(Field) THEN ArraySpot(Top.msg, Tag, n) ELSE Spot("none", Top.msg, 0)
<1>1. Location(Path) = FieldSpot(Top.msg, Tag) /\ Path \in Seq(Nat)
  BY PathPlaced
<1>2. FieldSpot(Top.msg, Tag) = Spot("field", Top.msg, Tag)
  BY DEF FieldSpot, StaticMessage, IsItem, Field
<1>3. QED
  BY <1>1, <1>2, FieldSpots DEF Field

----------------------------------------------------------------------------
(* The structure stays what the schema says.                               *)
LEMMA TypedPut ==
    ASSUME NEW d, NEW over, StructTyped(d, over), NEW p, NEW v, ValueFits(p, v, over)
    PROVE  StructTyped(Put(d, p, v), over)
BY DEF StructTyped, Put

LEMMA TypedPart ==
    ASSUME NEW d, NEW over, StructTyped(d, over), NEW m, NEW p
    PROVE  StructTyped(NoUnion(d, m, p), over) /\ StructTyped(Defaults(d, p), over)
BY DEF StructTyped, NoUnion, Defaults

LEMMA TypedOver ==
    ASSUME NEW d, StructTyped(d, FALSE), NEW over
    PROVE  StructTyped(d, over)
BY DEF StructTyped, ValueFits

LEMMA FitsNone ==
    ASSUME NEW p, NEW m, Location(p) = Spot("none", m, 0), NEW v, NEW over
    PROVE  ValueFits(p, v, over)
BY SpotFields DEF ValueFits

LEMMA FitsCount ==
    ASSUME NEW p, NEW m, NEW t, Location(p) = Spot("count", m, t), NEW v, NEW over,
           v <= Schema[m][t].max \/ (over /\ v = Schema[m][t].max + 1)
    PROVE  ValueFits(p, v, over)
BY SpotFields DEF ValueFits

LEMMA FitsField ==
    ASSUME NEW p, NEW m, NEW t, Location(p) = Spot("field", m, t), NEW v, NEW over,
           Schema[m][t].atype = "static" /\ Schema[m][t].ltype \in {"bytes", "string"}
              => Len(v) < Schema[m][t].size
    PROVE  ValueFits(p, v, over)
BY SpotFields DEF ValueFits

LEMMA FitsItem ==
    ASSUME NEW p \in Seq(Nat), NEW m, NEW t, NEW n \in Nat, Location(Append(p, n)) = Spot("item", m, t),
           n <= Schema[m][t].max, NEW v, NEW over,
           Schema[m][t].ltype \in {"bytes", "string"} => Len(v) < Schema[m][t].size
    PROVE  ValueFits(Append(p, n), v, over)
<1>1. Len(Append(p, n)) = Len(p) + 1 /\ Append(p, n)[Len(p) + 1] = n
  BY AppendProperties
<1> DEFINE q == Append(p, n)
<1>2. q[Len(q)] = n
  BY <1>1
<1> HIDE DEF q
<1>3. Location(q) = Spot("item", m, t)
  BY DEF q
<1>4. ValueFits(q, v, over)
  BY <1>2, <1>3, SpotFields DEF ValueFits
<1>5. QED
  BY <1>4 DEF q

(* The count of an array, where there is one, is not above its size while  *)
(* decoding goes on.                                                       *)
LEMMA CountBound ==
    ASSUME NEW d, StructTyped(d, FALSE), NEW p \in Seq(Nat), NEW m \in DOMAIN Schema,
           NEW t \in DOMAIN Schema[m], Location(p) = Spot("field", m, t), StaticArray(Schema[m][t])
    PROVE  Count(d, p) <= Schema[m][t].max
<1> DEFINE q == Append(p, 0)
<1>1. Location(q) = Spot("count", m, t)
  BY FieldSpots DEF ArraySpot
<1>2. Count(d, p) = IF q \in DOMAIN d THEN d[q] ELSE 0
  BY DEF Count, At
<1>3. Schema[m][t].max \in Nat
  BY FieldAt
<1> HIDE DEF q
<1>4. q \in DOMAIN d => d[q] <= Schema[m][t].max
  BY <1>1, SpotFields DEF StructTyped, ValueFits
<1>5. QED
  BY <1>2, <1>3, <1>4

LEMMA RunningTyped ==
    ASSUME PlacesInv, Running
    PROVE  StructTyped(dest, FALSE)
<1>1. StructTyped(dest, ret = "failed") /\ ret = "running"
  BY DEF PlacesInv, Running
<1>2. QED
  BY <1>1 DEF StructTyped, ValueFits

(* A value of bytes or characters is shorter than its field.               *)
LEMMA SizedFits ==
    ASSUME NEW s \in Seq(Byte), NEW f, f.ltype \in {"bytes", "string"}, f.size \in Nat,
           Decoded(f, s).stored
    PROVE  Len(Decoded(f, s).value) < f.size
<1> DEFINE size == Varint32(s)
           n == Num(size.value)
           r == Decoded(f, s)
           from == size.len + 1
           to == size.len + n
<1>1. size.len \in 0..Len(s) /\ n \in Nat /\ Len(s) \in Nat
  BY Varint32Type, LenProperties
<1>2. r = Sized(f, s)
  BY DEF Decoded
<1>3. n + 1 <= f.size
  <2> DEFINE fits == CASE f.ltype = "bytes"  -> BytesFit(f, n)
                       [] f.ltype = "string" -> StringFits(f, n)
                       [] f.ltype = "fixed_length_bytes" -> FixedLengthFits(f, n)
  <2>1. r.stored => fits
    <3> HIDE DEF fits
    <3>1. f.ltype # "fixed_length_bytes"
      OBVIOUS
    <3>2. r.stored => \/ fits \/ (f.ltype = "fixed_length_bytes" /\ n = 0)
                      \/ fits /\ f.ltype = "bytes"
      <4> DEFINE read == size.ok /\ (fits \/ (f.ltype = "fixed_length_bytes" /\ n = 0)) /\ to <= Len(s)
                 stored == read \/ (size.ok /\ fits /\ f.ltype = "bytes")
                 value == IF f.ltype = "fixed_length_bytes" /\ n = 0 THEN Zeros(f.size)
                          ELSE IF to <= Len(s) THEN SubSeq(s, from, to) ELSE Zeros(n)
      <4>1. r = Result(read, to, stored, value)
        BY <1>2 DEF Sized, fits
      <4>2. r.stored = stored
        <5> HIDE DEF read, stored, value
        <5>1. QED
          BY <4>1 DEF Result
      <4>3. QED
        BY <4>2
    <3>3. QED
      BY <3>1, <3>2
  <2>2. CASE f.ltype = "bytes"
    BY <2>1, <2>2 DEF BytesFit, BytesAllocSize
  <2>3. CASE f.ltype = "string"
    BY <2>1, <2>3 DEF StringFits
  <2>4. QED
    BY <2>2, <2>3
<1>4. r.value = IF to <= Len(s) THEN SubSeq(s, from, to) ELSE Zeros(n)
  BY <1>2 DEF Sized, Result
<1> HIDE DEF size, n, r
<1>5. ASSUME to <= Len(s) PROVE Len(SubSeq(s, from, to)) = n
  <2>1. from \in Nat /\ to \in Nat /\ from >= 1 /\ to - from + 1 = n
    BY <1>1
  <2>2. \A i \in from..to : i \in 1..Len(s)
    BY <1>1, <1>5, <2>1, SMTT(30)
  <2> HIDE DEF from, to
  <2>3. \A i \in from..to : s[i] \in Byte
    BY <2>2, ElementOfSeq
  <2>4. Len(SubSeq(s, from, to)) = IF from <= to THEN to - from + 1 ELSE 0
    BY <2>1, <2>3, SubSeqProperties
  <2>5. from <= to \/ n = 0
    BY <1>1, <2>1
  <2>6. n = 0 => ~(from <= to)
    BY <2>1
  <2>7. QED
    BY <2>1, <2>4, <2>5, <2>6
<1>6. Len(Zeros(n)) = n
  BY <1>1 DEF Zeros
<1>7. Len(r.value) = n
  BY <1>4, <1>5, <1>6
<1>8. QED
  BY <1>1, <1>3, <1>7 DEF r

LEMMA FixedStored ==
    ASSUME NEW f, NEW s, Decoded(f, s).ok
    PROVE  Decoded(f, s).stored
<1>1. Integer(f, s).ok => Integer(f, s).stored
  BY DEF Integer, Result
<1>2. \A n : Fixed(n, s).ok => Fixed(n, s).stored
  BY DEF Fixed, Result
<1>3. Sized(f, s).ok => Sized(f, s).stored
  BY DEF Sized, Result
<1>4. \/ Decoded(f, s) = Integer(f, s)
      \/ Decoded(f, s) = Fixed(4, s)
      \/ Decoded(f, s) = Fixed(8, s)
      \/ Decoded(f, s) = Sized(f, s)
  BY DEF Decoded
<1>5. QED
  BY <1>1, <1>2, <1>3, <1>4

LEMMA ItemCountBound ==
    ASSUME PlacesInv, AtField, Known, IsItem, Field.atype = "static"
    PROVE  /\ ItemCount <= Field.max /\ Field.max \in Nat
           /\ Location(Append(Path, 0)) = Spot("count", Top.msg, Tag)
           /\ \A n \in Nat \ {0} : Field.ltype # "submessage" =>
                 Location(Append(Path, n)) = Spot("item", Top.msg, Tag)
           /\ \A n \in Nat \ {0} : Field.ltype = "submessage" =>
                 Location(Append(Path, n)) = Spot("message", Field.sub, 0)
<1>1. /\ Path \in Seq(Nat) /\ Tag \in DOMAIN Schema[Top.msg] /\ Top.msg \in DOMAIN Schema
      /\ Location(Path) = Spot("field", Top.msg, Tag)
      /\ \A n \in Nat : Location(Append(Path, n)) =
            IF StaticArray(Field) THEN ArraySpot(Top.msg, Tag, n) ELSE Spot("none", Top.msg, 0)
  BY PathPlaced, FieldPlaced
<1>2. StaticArray(Field) /\ Field = Schema[Top.msg][Tag]
  BY DEF StaticArray, IsItem, Field
<1>3. Count(dest, Path) <= Field.max
  BY <1>1, <1>2, RunningTyped, CountBound DEF AtField
<1>4. Field.max \in Nat
  BY <1>1, <1>2, FieldAt
<1>5. ItemCount <= Field.max
  BY <1>3, <1>4 DEF ItemCount
<1>6. /\ Location(Append(Path, 0)) = Spot("count", Top.msg, Tag)
      /\ \A n \in Nat \ {0} : Field.ltype # "submessage" =>
            Location(Append(Path, n)) = Spot("item", Top.msg, Tag)
      /\ \A n \in Nat \ {0} : Field.ltype = "submessage" =>
            Location(Append(Path, n)) = Spot("message", Field.sub, 0)
  BY <1>1, <1>2 DEF ArraySpot, StaticMessage, StaticArray
<1>7. QED
  BY <1>4, <1>5, <1>6

LEMMA CountedTyped ==
    ASSUME PlacesInv, AtField, Known, IsItem \/ Field.atype = "callback"
    PROVE  StructTyped(Counted, FALSE)
<1>1. StructTyped(dest, FALSE)
  BY RunningTyped DEF AtField
<1>2. Field.atype \in {"static", "callback"} /\ ItemCount \in Nat
  BY PathPlaced, FieldAt DEF Field
<1>3. ValueFits(Append(Path, 0), ItemCount, FALSE)
  <2>1. CASE Field.atype = "static"
    BY <2>1, ItemCountBound, FitsCount DEF Field
  <2>2. CASE Field.atype = "callback"
    BY <2>2, FieldPlaced, FitsNone DEF StaticArray
  <2>3. QED
    BY <1>2, <2>1, <2>2
<1>4. QED
  BY <1>1, <1>3, TypedPut DEF Counted

LEMMA FlaggedTyped ==
    ASSUME PlacesInv, AtField, Known, Field.atype = "static", NEW over \in BOOLEAN, over \/ ~Overfull
    PROVE  StructTyped(Flagged, over)
<1>1. StructTyped(dest, over)
  BY RunningTyped, TypedOver DEF AtField
<1>2. Field.htype \in {"required", "optional", "repeated", "oneof"}
  BY PathPlaced, FieldAt DEF Field
<1>3. /\ Location(Append(Top.path, 0)) = Spot("none", Top.msg, 0)
      /\ Location(HasAt(Top.path, Tag)) = Spot("none", Top.msg, 0)
      /\ ItemCount \in Nat
  BY PathPlaced
<1>4. CASE IsItem
  <2>1. Flagged = Put(dest, Append(Path, 0), ItemCount + 1)
    BY <1>4 DEF Flagged, IsItem
  <2>2. ItemCount + 1 <= Field.max \/ (over /\ ItemCount + 1 = Field.max + 1)
    <3>1. ItemCount <= Field.max /\ Field.max \in Nat
      BY <1>4, ItemCountBound
    <3>2. QED
      BY <1>3, <1>4, <3>1 DEF Overfull
  <2>3. ValueFits(Append(Path, 0), ItemCount + 1, over)
    BY <1>4, <2>2, ItemCountBound, FitsCount DEF Field
  <2>4. QED
    BY <1>1, <2>1, <2>3, TypedPut
<1>5. CASE Field.htype = "oneof" /\ Field.ltype = "submessage"
  <2>1. Flagged = Put(NoUnion(dest, Top.msg, Top.path), Append(Top.path, 0), Tag)
    BY <1>5 DEF Flagged, IsItem, Select
  <2>2. QED
    BY <1>1, <1>3, <2>1, TypedPart, TypedPut, FitsNone
<1>6. CASE Field.htype = "oneof" /\ Field.ltype # "submessage"
  <2>1. Flagged = Put(dest, Append(Top.path, 0), Tag)
    BY <1>6 DEF Flagged, IsItem
  <2>2. QED
    BY <1>1, <1>3, <2>1, TypedPut, FitsNone
<1>7. CASE Field.htype \in {"required", "optional"}
  <2>1. Flagged = IF Field.has \/ Field.ext THEN Put(dest, HasAt(Top.path, Tag), TRUE) ELSE dest
    BY <1>7 DEF Flagged, IsItem
  <2>2. QED
    BY <1>1, <1>3, <2>1, TypedPut, FitsNone
<1>8. QED
  BY <1>2, <1>4, <1>5, <1>6, <1>7 DEF IsItem

LEMMA StoredTyped ==
    ASSUME PlacesInv, AtField, Known, Field.atype = "static", Field.ltype # "submessage", ~Overfull,
           NEW v, Field.ltype \in {"bytes", "string"} => Len(v) < Field.size
    PROVE  StructTyped(Stored(Flagged, v), FALSE)
<1> DEFINE d == IF Field.htype = "oneof" THEN NoUnion(Flagged, Top.msg, Top.path) ELSE Flagged
<1>1. StructTyped(d, FALSE)
  BY FlaggedTyped, TypedPart
<1>2. Stored(Flagged, v) = Put(d, Target, v)
  BY DEF Stored
<1> HIDE DEF d
<1>3. ValueFits(Target, v, FALSE)
  <2>1. CASE IsItem
    <3> DEFINE n == ItemCount + 1
    <3>1. n \in Nat \ {0} /\ n <= Field.max /\ Path \in Seq(Nat)
      BY <2>1, ItemCountBound, PathPlaced DEF Overfull
    <3>2. Target = Append(Path, n)
      BY <2>1 DEF Target
    <3> HIDE DEF n
    <3>3. Location(Append(Path, n)) = Spot("item", Top.msg, Tag)
      BY <2>1, <3>1, ItemCountBound
    <3>4. QED
      BY <3>1, <3>2, <3>3, FitsItem DEF Field
  <2>2. CASE ~IsItem
    <3>1. Target = Path /\ Location(Path) = FieldSpot(Top.msg, Tag)
      BY <2>2, PathPlaced DEF Target
    <3>2. FieldSpot(Top.msg, Tag) = Spot("field", Top.msg, Tag)
      BY DEF FieldSpot, StaticMessage, Field
    <3>3. QED
      BY <3>1, <3>2, FitsField DEF Field
  <2>3. QED
    BY <2>1, <2>2
<1>4. QED
  BY <1>1, <1>2, <1>3, TypedPut

----------------------------------------------------------------------------
(* The first invariant, action by action.                                  *)
LEMMA PbInvStep ==
    ASSUME PbInv, PbNext
    PROVE  PbInv'
BY MessageKeepsInv, FieldKeepsInv, PackedKeepsInv, CallbackKeepsInv DEF PbNext

LEMMA PlacesNext ==
    ASSUME PbInv', StackPlaced',
           StructTyped(dest', FALSE) \/ (ret' = "failed" /\ StructTyped(dest', TRUE))
    PROVE  PlacesInv'
<1>1. StructTyped(dest', ret' = "failed")
  <2>1. CASE StructTyped(dest', FALSE)
    BY <2>1, TypedOver
  <2>2. CASE ret' = "failed" /\ StructTyped(dest', TRUE)
    BY <2>2 DEF StructTyped, ValueFits
  <2>3. QED
    BY <2>1, <2>2
<1>2. QED
  BY <1>1 DEF PlacesInv

LEMMA PlacesProceed ==
    ASSUME PlacesInv, PbInv', NEW n \in 0..Top.left, NEW t \in Nat, NEW d, StructTyped(d, FALSE),
           Proceed(n, t, d)
    PROVE  PlacesInv'
<1>1. StackPlaced'
  BY ProceedPlaced DEF PlacesInv, PbInv
<1>2. dest' = d
  BY DEF Proceed
<1>3. QED
  BY <1>1, <1>2, PlacesNext

LEMMA PlacesFail ==
    ASSUME PlacesInv, PbInv', NEW d, StructTyped(d, TRUE), Fail(d)
    PROVE  PlacesInv'
<1>1. StackPlaced'
  BY FailPlaced DEF PlacesInv
<1>2. dest' = d /\ ret' = "failed"
  BY DEF Fail
<1>3. QED
  BY <1>1, <1>2, PlacesNext

LEMMA PlacesOpenSized ==
    ASSUME PlacesInv, PbInv', AtField,
           NEW m \in DOMAIN Schema, NEW p \in Seq(Nat), NEW packed \in Nat,
           NEW d, NEW opened, OpenSized(m, p, packed, d, opened),
           StructTyped(d, TRUE), StructTyped(opened, FALSE),
           Location(p) = Spot("message", m, 0), packed # 0 \/ p # <<>>,
           packed # 0 => /\ packed \in DOMAIN Schema[m]
                         /\ Schema[m][packed].atype = "static" =>
                               Schema[m][packed].htype = "repeated" /\ Schema[m][packed].ltype \in Packable
    PROVE  PlacesInv'
<1>1. StreamInv /\ StackPlaced
  BY DEF PlacesInv, PbInv
<1>2. StackPlaced'
  BY <1>1, OpenSizedPlaced
<1>3. dest' = opened \/ (ret' = "failed" /\ dest' = d)
  BY <1>1, OpenSizedCases DEF Fail
<1>4. QED
  BY <1>2, <1>3, PlacesNext

LEMMA MessageKeepsPlaces ==
    ASSUME PlacesInv, PbInv', ReadTag \/ BadTag \/ EndMessage \/ MissingRequired
    PROVE  PlacesInv'
<1>0. StreamInv /\ StackPlaced /\ Running
  BY DEF PlacesInv, PbInv, ReadTag, BadTag, EndMessage, NoMoreFields, MissingRequired, AtTag
<1>a. StructTyped(dest, FALSE) /\ StructTyped(dest, TRUE)
  BY <1>0, RunningTyped, TypedOver
<1>1. CASE ReadTag
  <2> DEFINE temp == Varint32(Rest)
             f == [Top EXCEPT !.left = Top.left - temp.len]
  <2>1. temp.len \in 0..Top.left /\ Top \in FrameType /\ Top.left \in Nat
    BY <1>0, RestFacts, TopFacts, Varint32Type
  <2> HIDE DEF temp
  <2>2. Top.left - temp.len \in Nat
    BY <2>1
  <2>3. f \in FrameType /\ f.msg = Top.msg /\ f.path = Top.path /\ f.packed = Top.packed
    BY <2>1, <2>2 DEF FrameType
  <2>4. stack' = [stack EXCEPT ![Len(stack)].left = @ - temp.len] /\ dest' = dest /\ Top.packed = 0
    BY <1>1 DEF ReadTag, AtTag, temp
  <2>5. stack' = [stack EXCEPT ![Len(stack)] = f]
    BY <2>4 DEF Top
  <2> HIDE DEF f
  <2>6. StackPlaced'
    BY <1>0, <2>3, <2>4, <2>5, PlacedRead
  <2>7. QED
    BY <1>a, <2>4, <2>6, PlacesNext
<1>2. CASE BadTag
  BY <1>a, <1>2, PlacesFail DEF BadTag
<1>3. CASE EndMessage
  <2>1. dest' = dest
    BY <1>3 DEF EndMessage, Close
  <2>2. CASE Len(stack) > 1
    <3>1. stack' = SubSeq(stack, 1, Len(stack) - 1) /\ header' = header
      BY <1>3, <2>2 DEF EndMessage, Close
    <3>2. QED
      BY <1>0, <1>a, <2>1, <2>2, <3>1, PlacedClose, PlacesNext
  <2>3. CASE ~(Len(stack) > 1)
    <3>1. stack' = stack /\ header' = header
      BY <1>3, <2>3 DEF EndMessage
    <3>2. QED
      BY <1>0, <1>a, <2>1, <3>1, PlacedSame, PlacesNext
  <2>4. QED
    BY <2>2, <2>3
<1>4. CASE MissingRequired
  BY <1>a, <1>4, PlacesFail DEF MissingRequired
<1>5. QED
  BY <1>1, <1>2, <1>3, <1>4

LEMMA FieldKeepsPlaces ==
    ASSUME PlacesInv, PbInv',
           \/ WrongFixedCount \/ SkipField \/ CannotSkip
           \/ ArrayOverflow \/ DecodeScalar \/ DecodeSubmessage \/ OpenPacked
    PROVE  PlacesInv'
<1>0. StreamInv /\ PbInv
  BY DEF PlacesInv, PbInv
<1>a. AtField
  BY DEF WrongFixedCount, SkipField, CannotSkip, Skippable, ArrayOverflow, DecodeScalar,
         DecodeSubmessage, OpenPacked, IsStatic, AtKnown
<1>b. StructTyped(dest, FALSE) /\ StructTyped(dest, TRUE) /\ Tag \in Nat
  BY <1>0, <1>a, RunningTyped, TypedOver, FieldFacts DEF AtField
<1>1. CASE WrongFixedCount
  BY <1>b, <1>1, PlacesFail DEF WrongFixedCount
<1>2. CASE SkipField
  <2> DEFINE d == IF Known THEN Counted ELSE dest
  <2>1. PICK n \in Lengths : Proceed(n, Tag, d)
    BY <1>2 DEF SkipField
  <2>2. n \in 0..Top.left
    BY <1>0, <1>a, SkippedFacts
  <2>3. Known => Field.atype = "callback"
    BY <1>2 DEF SkipField, Skippable
  <2>4. StructTyped(d, FALSE)
    BY <1>a, <1>b, <2>3, CountedTyped
  <2> HIDE DEF d
  <2>5. QED
    BY <1>b, <2>1, <2>2, <2>4, PlacesProceed
<1>3. CASE CannotSkip
  BY <1>b, <1>3, PlacesFail DEF CannotSkip
<1>4. CASE ArrayOverflow
  <2>1. Known /\ Field.atype = "static" /\ Fail(Flagged)
    BY <1>4 DEF ArrayOverflow, IsStatic, AtKnown
  <2>2. QED
    BY <1>a, <2>1, FlaggedTyped, PlacesFail
<1>5. CASE DecodeScalar
  <2> DEFINE r == Decoded(Field, Rest)
             d == IF r.stored THEN Stored(Flagged, r.value) ELSE Flagged
  <2>1. Known /\ Field.atype = "static" /\ Field.ltype # "submessage" /\ ~Overfull
    BY <1>5 DEF DecodeScalar, IsStatic, AtKnown
  <2>2. r.ok => r.len \in 0..Top.left
    BY <1>0, RestFacts, DecodedFacts
  <2>3. IF r.ok THEN Proceed(r.len, Tag, d) ELSE Fail(d)
    BY <1>5 DEF DecodeScalar
  <2>4. r.stored /\ Field.ltype \in {"bytes", "string"} => Len(r.value) < Field.size
    <3>1. Field.size \in Nat /\ Rest \in Seq(Byte)
      BY <1>0, <1>a, <2>1, PathPlaced, FieldAt, RestFacts DEF Field
    <3>2. QED
      BY <3>1, SizedFits
  <2> HIDE DEF r
  <2>5. StructTyped(d, FALSE)
    BY <1>a, <2>1, <2>4, FlaggedTyped, StoredTyped
  <2>6. StructTyped(d, TRUE)
    BY <2>5, TypedOver
  <2> HIDE DEF d
  <2>7. QED
    BY <1>b, <2>2, <2>3, <2>5, <2>6, PlacesProceed, PlacesFail
<1>6. CASE DecodeSubmessage
  <2> DEFINE opened == IF IsItem THEN Defaults(Flagged, Target) ELSE Flagged
  <2>1. /\ Known /\ Field.ltype = "submessage" /\ Field.atype = "static" /\ ~Overfull
        /\ OpenSized(Field.sub, Target, 0, Flagged, opened)
    BY <1>6 DEF DecodeSubmessage, IsStatic, AtKnown
  <2>2. StructTyped(Flagged, FALSE) /\ StructTyped(Flagged, TRUE)
    BY <1>a, <2>1, FlaggedTyped
  <2>3. StructTyped(opened, FALSE)
    BY <2>2, TypedPart
  <2> HIDE DEF opened
  <2>4. Field.sub \in DOMAIN Schema /\ Target \in Seq(Nat)
    BY <1>0, <1>a, <2>1, FieldFacts, TargetFacts
  <2>5. Location(Target) = Spot("message", Field.sub, 0) /\ Target # <<>>
    <3>0. /\ Path \in Seq(Nat) /\ Top.path \in Seq(Nat) /\ Tag \in Nat /\ ItemCount \in Nat
          /\ Location(Path) = FieldSpot(Top.msg, Tag)
      BY <1>a, <2>1, PathPlaced
    <3>1. CASE IsItem
      <4> DEFINE n == ItemCount + 1
      <4>1. n \in Nat \ {0} /\ Target = Append(Path, n)
        BY <3>0, <3>1 DEF Target
      <4> HIDE DEF n
      <4>2. QED
        BY <1>a, <2>1, <3>0, <3>1, <4>1, ItemCountBound, AppendProperties
    <3>2. CASE ~IsItem
      <4>1. Target = Append(Top.path, Tag) /\ Target = Path
        BY <3>2 DEF Target, Path
      <4>2. FieldSpot(Top.msg, Tag) = Spot("message", Field.sub, 0)
        BY <2>1, <3>2 DEF FieldSpot, StaticMessage, IsItem, Field
      <4>3. Location(Target) = Spot("message", Field.sub, 0)
        BY <3>0, <4>1, <4>2
      <4>4. Append(Top.path, Tag) # <<>>
        <5>1. Top.path \in Seq(Nat) /\ Tag \in Nat
          BY <3>0
        <5>2. QED
          BY <5>1, AppendProperties, EmptySeq
      <4>5. QED
        BY <4>1, <4>3, <4>4
    <3>3. QED
      BY <3>1, <3>2
  <2>6. 0 \in Nat
    OBVIOUS
  <2>7. QED
    BY <1>a, <2>1, <2>2, <2>3, <2>4, <2>5, <2>6, PlacesOpenSized
<1>7. CASE OpenPacked
  <2>1. /\ Known /\ IsItem /\ Field.ltype \in Packable
        /\ OpenSized(Top.msg, Top.path, Tag, dest, Counted)
    BY <1>7 DEF OpenPacked, IsStatic, AtKnown, Packed
  <2>2. StructTyped(Counted, FALSE)
    BY <1>a, <2>1, CountedTyped
  <2>3. /\ Top.msg \in DOMAIN Schema /\ Top.path \in Seq(Nat) /\ Tag \in Nat \ {0}
        /\ Tag \in DOMAIN Schema[Top.msg] /\ Location(Top.path) = Spot("message", Top.msg, 0)
    BY <1>a, <2>1, PathPlaced
  <2>4. Schema[Top.msg][Tag].htype = "repeated" /\ Schema[Top.msg][Tag].ltype \in Packable
    BY <2>1 DEF IsItem, Field
  <2>5. QED
    BY <1>a, <1>b, <2>1, <2>2, <2>3, <2>4, PlacesOpenSized
<1>8. QED
  BY <1>1, <1>2, <1>3, <1>4, <1>5, <1>6, <1>7

LEMMA PackedPlaced ==
    ASSUME PlacesInv, Top.packed # 0
    PROVE  /\ Top.msg \in DOMAIN Schema /\ Top.packed \in DOMAIN Schema[Top.msg]
           /\ Top.path \in Seq(Nat) /\ PackedPath \in Seq(Nat) /\ Top.packed \in Nat \ {0}
           /\ Count(dest, PackedPath) \in Nat /\ PackedField.max \in Nat /\ PackedField.size \in Nat
           /\ Location(Top.path) = Spot("message", Top.msg, 0)
           /\ Location(PackedPath) = Spot("field", Top.msg, Top.packed)
           /\ PackedField.atype = "static" => StaticArray(PackedField) /\ PackedField.ltype \in Packable
           /\ Len(stack) > 1
<1>1. /\ StreamInv /\ Top.msg \in DOMAIN Schema /\ FramePlaced(Top) /\ PbInv
      /\ Location(Top.path) = Spot("message", Top.msg, 0)
  BY TopPlaced DEF PlacesInv
<1>2. /\ Top.packed \in DOMAIN Schema[Top.msg]
      /\ PackedField.atype = "static" => StaticArray(PackedField) /\ PackedField.ltype \in Packable
  BY <1>1 DEF FramePlaced, PackedField, StaticArray
<1>3. /\ Top.path \in Seq(Nat) /\ Top.packed \in Nat \ {0}
      /\ PackedPath \in Seq(Nat) /\ Count(dest, PackedPath) \in Nat
  BY <1>1, PackedFacts
<1>4. Location(PackedPath) = FieldSpot(Top.msg, Top.packed)
  BY <1>1, <1>2, <1>3, MessageSpots DEF PackedPath
<1>5. ~(StaticMessage(PackedField) /\ PackedField.htype # "repeated")
  BY <1>2 DEF StaticMessage, StaticArray
<1>6. FieldSpot(Top.msg, Top.packed) = Spot("field", Top.msg, Top.packed)
  BY <1>5 DEF FieldSpot, PackedField
<1>7. PackedField.max \in Nat /\ PackedField.size \in Nat
  BY <1>1, <1>2, FieldAt DEF PackedField
<1>8. Len(stack) > 1
  BY <1>1, TopFacts DEF StreamInv, Top
<1>9. QED
  BY <1>1, <1>2, <1>3, <1>4, <1>6, <1>7, <1>8

LEMMA PackedKeepsPlaces ==
    ASSUME PlacesInv, PbInv', DecodePacked \/ ClosePacked \/ PackedOverflow
    PROVE  PlacesInv'
<1>0. StreamInv /\ PbInv /\ StackPlaced
  BY DEF PlacesInv, PbInv
<1>a. InPacked /\ Running /\ Top.packed # 0 /\ PackedField.atype = "static"
  BY DEF DecodePacked, ClosePacked, PackedOverflow, InPacked
<1>b. StructTyped(dest, FALSE) /\ StructTyped(dest, TRUE)
  BY <1>a, RunningTyped, TypedOver
<1>1. CASE DecodePacked
  <2> DEFINE n == Count(dest, PackedPath) + 1
             r == Decoded(PackedField, Rest)
             d == IF r.stored THEN Put(dest, Append(PackedPath, n), r.value) ELSE dest
             e == Put(d, Append(PackedPath, 0), n)
  <2>1. r.ok => r.len \in 0..Top.left
    BY <1>0, RestFacts, DecodedFacts
  <2>2. IF r.ok THEN Proceed(r.len, 0, e) ELSE Fail(d)
    BY <1>1 DEF DecodePacked
  <2>3. /\ Top.msg \in DOMAIN Schema /\ PackedPath \in Seq(Nat) /\ n \in Nat \ {0}
        /\ PackedField.ltype \in Packable /\ PackedField.ltype # "submessage"
        /\ StaticArray(PackedField) /\ Location(PackedPath) = Spot("field", Top.msg, Top.packed)
    BY <1>a, PackedPlaced DEF Packable
  <2>4. n <= PackedField.max
    BY <1>1, <1>a, PackedPlaced DEF DecodePacked, PackedFull
  <2> HIDE DEF n, r
  <2>5. /\ Location(Append(PackedPath, n)) = Spot("item", Top.msg, Top.packed)
        /\ Location(Append(PackedPath, 0)) = Spot("count", Top.msg, Top.packed)
    BY <2>3, FieldSpots DEF ArraySpot, StaticMessage, PackedField
  <2>6. ValueFits(Append(PackedPath, n), r.value, FALSE)
    BY <2>3, <2>4, <2>5, FitsItem DEF PackedField, Packable
  <2>7. StructTyped(d, FALSE)
    BY <1>b, <2>6, TypedPut
  <2> HIDE DEF d
  <2>8. ValueFits(Append(PackedPath, 0), n, FALSE)
    BY <2>4, <2>5, FitsCount DEF PackedField
  <2>9. StructTyped(e, FALSE) /\ StructTyped(d, TRUE)
    BY <2>7, <2>8, TypedPut, TypedOver
  <2> HIDE DEF e
  <2>10. 0 \in Nat
    OBVIOUS
  <2>11. QED
    BY <2>1, <2>2, <2>9, <2>10, PlacesProceed, PlacesFail
<1>2. CASE ClosePacked
  <2>1. dest' = dest /\ stack' = SubSeq(stack, 1, Len(stack) - 1) /\ header' = header
    BY <1>2 DEF ClosePacked, Close
  <2>2. Len(stack) > 1
    BY <1>a, PackedPlaced
  <2>3. QED
    BY <1>0, <1>b, <2>1, <2>2, PlacedClose, PlacesNext
<1>3. CASE PackedOverflow
  BY <1>b, <1>3, PlacesFail DEF PackedOverflow
<1>4. QED
  BY <1>1, <1>2, <1>3

LEMMA CallbackKeepsPlaces ==
    ASSUME PlacesInv, PbInv',
           \/ OpenCallback \/ CallbackReads \/ CallbackDone \/ CallbackFails
           \/ CallbackScalar \/ CallbackUnread
    PROVE  PlacesInv'
<1>0. StreamInv /\ PbInv /\ StackPlaced
  BY DEF PlacesInv, PbInv
<1>a. Running
  BY DEF OpenCallback, CallbackReads, CallbackDone, CallbackFails, CallbackScalar, CallbackUnread,
         IsCallback, InCallback, AtKnown, AtField
<1>b. StructTyped(dest, FALSE) /\ StructTyped(dest, TRUE)
  BY <1>a, RunningTyped, TypedOver
<1>1. CASE OpenCallback
  <2>1. /\ AtField /\ Known /\ Field.atype = "callback"
        /\ OpenSized(Top.msg, Top.path, Tag, Counted, Counted)
    BY <1>1 DEF OpenCallback, IsCallback, AtKnown
  <2>2. StructTyped(Counted, FALSE) /\ StructTyped(Counted, TRUE)
    BY <2>1, CountedTyped, TypedOver
  <2>3. /\ Top.msg \in DOMAIN Schema /\ Top.path \in Seq(Nat) /\ Tag \in Nat \ {0}
        /\ Tag \in DOMAIN Schema[Top.msg] /\ Location(Top.path) = Spot("message", Top.msg, 0)
    BY <2>1, PathPlaced
  <2>4. Schema[Top.msg][Tag].atype # "static"
    BY <2>1 DEF Field
  <2>5. QED
    BY <2>1, <2>2, <2>3, <2>4, PlacesOpenSized
<1>2. CASE CallbackReads
  <2> DEFINE v(n) == dest[PackedPath] \o SubSeq(Rest, 1, n)
  <2>1. PICK n \in 1..Top.left : Proceed(n, 0, Put(dest, PackedPath, v(n)))
    BY <1>2 DEF CallbackReads
  <2>2. Top.packed # 0 /\ PackedField.atype = "callback"
    BY <1>2 DEF CallbackReads, InCallback
  <2>3. Location(PackedPath) = Spot("field", Top.msg, Top.packed)
    BY <2>2, PackedPlaced
  <2> HIDE DEF v
  <2>4. ValueFits(PackedPath, v(n), FALSE)
    BY <2>2, <2>3, FitsField DEF PackedField
  <2>5. StructTyped(Put(dest, PackedPath, v(n)), FALSE)
    BY <1>b, <2>4, TypedPut
  <2>6. n \in 0..Top.left /\ 0 \in Nat
    OBVIOUS
  <2>7. QED
    BY <2>1, <2>5, <2>6, PlacesProceed
<1>3. CASE CallbackDone
  <2>1. dest' = dest /\ stack' = SubSeq(stack, 1, Len(stack) - 1) /\ header' = header
    BY <1>3 DEF CallbackDone, Close
  <2>2. Len(stack) > 1
    BY <1>3, PackedPlaced DEF CallbackDone, InCallback
  <2>3. QED
    BY <1>0, <1>b, <2>1, <2>2, PlacedClose, PlacesNext
<1>4. CASE CallbackFails
  BY <1>b, <1>4, PlacesFail DEF CallbackFails
<1>5. CASE CallbackScalar
  <2> DEFINE v(n) == dest[Path] \o SubSeq(Rest, 1, n)
  <2>1. PICK n \in Raw(Rest) : Proceed(n, Tag, Put(Counted, Path, v(n)))
    BY <1>5 DEF CallbackScalar
  <2>2. AtField /\ Known /\ Field.atype = "callback"
    BY <1>5 DEF CallbackScalar, IsCallback, AtKnown
  <2>3. StructTyped(Counted, FALSE) /\ Location(Path) = Spot("field", Top.msg, Tag) /\ Tag \in Nat
    BY <2>2, CountedTyped, FieldPlaced, PathPlaced
  <2> HIDE DEF v
  <2>4. ValueFits(Path, v(n), FALSE)
    BY <2>2, <2>3, FitsField DEF Field
  <2>5. StructTyped(Put(Counted, Path, v(n)), FALSE)
    BY <2>3, <2>4, TypedPut
  <2>6. n \in 0..Top.left
    BY <1>0, <2>2, RawFacts
  <2>7. QED
    BY <2>1, <2>3, <2>5, <2>6, PlacesProceed
<1>6. CASE CallbackUnread
  BY <1>b, <1>6, PlacesFail DEF CallbackUnread
<1>7. QED
  BY <1>1, <1>2, <1>3, <1>4, <1>5, <1>6

LEMMA StartPlaces ==
    ASSUME NEW b \in Seq(Byte), Started(b)
    PROVE  PlacesInv
<1>1. PbInv
  BY StartPbInv
<1> DEFINE f == Frame(Root, <<>>, Len(b), 0, 0)
<1>3. stack = <<f>> /\ dest = Empty /\ ret = "running" /\ header = <<>>
  BY DEF Started
<1>4. f.path = <<>> /\ f.msg = Root /\ f.packed = 0
  BY DEF Frame
<1> HIDE DEF f
<1>5. Len(stack) = 1 /\ stack[1] = f
  BY <1>3
<1>6. StackPlaced
  <2>1. \A i \in 1..Len(stack) : i = 1
    BY <1>5
  <2>2. FramePlaced(f)
    BY <1>4, LocationRoot DEF FramePlaced
  <2>3. QED
    BY <1>3, <1>4, <1>5, <2>1, <2>2 DEF StackPlaced
<1>7. StructTyped(dest, ret = "failed")
  <2> SUFFICES ASSUME NEW q \in Callbacks PROVE ValueFits(q, dest[q], ret = "failed")
    BY <1>3 DEF StructTyped, Empty
  <2>1. /\ Location(q).kind = "field"
        /\ Schema[Location(q).msg][Location(q).tag].atype = "callback"
    BY CallbackPlaces
  <2>2. QED
    BY <2>1 DEF ValueFits
<1>8. QED
  BY <1>1, <1>6, <1>7 DEF PlacesInv

LEMMA PlacesInit == PbInit => PlacesInv
BY StartPlaces, InputsAssumption DEF PbInit

LEMMA PlacesStep ==
    ASSUME PlacesInv, [PbNext]_pbVars
    PROVE  PlacesInv'
<1>1. CASE PbNext
  <2>1. PbInv'
    BY <1>1, PbInvStep DEF PlacesInv
  <2>2. QED
    BY <1>1, <2>1, MessageKeepsPlaces, FieldKeepsPlaces, PackedKeepsPlaces, CallbackKeepsPlaces DEF PbNext
<1>2. CASE UNCHANGED pbVars
  <2>1. StreamContained'
    BY <1>2 DEF pbVars, StreamContained, PlacesInv, PbInv, StreamInv, Top
  <2>2. QED
    BY <1>2, <2>1 DEF pbVars, PlacesInv, PbInv, StreamInv, StackPlaced
<1>3. QED
  BY <1>1, <1>2

(* While buf is decoded, every path of the structure leads where the       *)
(* schema says and what is stored there fits.                              *)
THEOREM PlacesInvariant == PbSpec => []PlacesInv
<1>1. PlacesInv /\ [PbNext]_pbVars => PlacesInv'
  BY PlacesStep
<1>2. QED
  BY <1>1, PlacesInit, PTL DEF PbSpec

LEMMA FramePlaces ==
    ASSUME PlacesInv, NEW i \in 1..Len(stack), NEW t \in DOMAIN Schema[stack[i].msg]
    PROVE  /\ stack[i].path \in Seq(Nat) /\ stack[i].msg \in DOMAIN Schema /\ t \in Nat \ {0}
           /\ Location(stack[i].path) = Spot("message", stack[i].msg, 0)
           /\ Append(stack[i].path, t) \in Seq(Nat)
           /\ Location(Append(stack[i].path, t)) = FieldSpot(stack[i].msg, t)
<1>1. stack[i] \in FrameType
  BY ElementOfSeq DEF PlacesInv, PbInv, StreamInv
<1>2. stack[i].path \in Seq(Nat) /\ stack[i].msg \in DOMAIN Schema
  BY <1>1 DEF FrameType
<1>3. Location(stack[i].path) = Spot("message", stack[i].msg, 0)
  BY DEF PlacesInv, StackPlaced, FramePlaced
<1>4. t \in Nat \ {0}
  BY <1>2, FieldAt
<1>5. Append(stack[i].path, t) \in Seq(Nat)
  BY <1>2, <1>4, AppendProperties
<1>6. Location(Append(stack[i].path, t)) = FieldSpot(stack[i].msg, t)
  BY <1>2, <1>3, MessageSpots
<1>7. QED
  BY <1>2, <1>3, <1>4, <1>5, <1>6

LEMMA CountsFit == PlacesInv => CountsInBounds
<1>1. ASSUME PlacesInv, NEW i \in 1..Len(stack), NEW t \in DOMAIN Schema[stack[i].msg],
             StaticArray(Schema[stack[i].msg][t])
      PROVE  LET f == Schema[stack[i].msg][t]
                 p == Append(stack[i].path, t)
             IN  /\ Count(dest, p) <= f.max + (IF ret = "failed" THEN 1 ELSE 0)
                 /\ \A n \in (f.max + 1)..(f.max + 2) : Append(p, n) \notin DOMAIN dest
  <2> DEFINE m == stack[i].msg
             f == Schema[m][t]
             p == Append(stack[i].path, t)
             c == Append(p, 0)
  <2>1. m \in DOMAIN Schema /\ p \in Seq(Nat) /\ Location(p) = FieldSpot(m, t)
    BY <1>1, FramePlaces
  <2>2. FieldSpot(m, t) = Spot("field", m, t)
    BY <1>1 DEF FieldSpot, StaticArray
  <2>3. f.max \in Nat
    BY <1>1, <2>1, FieldAt
  <2>4. StructTyped(dest, ret = "failed")
    BY <1>1 DEF PlacesInv
  <2> HIDE DEF m, f, p
  <2>5. \A n \in Nat : Location(Append(p, n)) = ArraySpot(m, t, n)
    BY <1>1, <2>1, <2>2, FieldSpots DEF f, m
  <2>6. Count(dest, p) <= f.max + (IF ret = "failed" THEN 1 ELSE 0)
    <3>1. Count(dest, p) = IF c \in DOMAIN dest THEN dest[c] ELSE 0
      BY DEF Count, At
    <3>2. Location(c) = Spot("count", m, t)
      BY <2>5 DEF ArraySpot
    <3> HIDE DEF c
    <3>3. c \in DOMAIN dest => dest[c] <= f.max \/ (ret = "failed" /\ dest[c] = f.max + 1)
      BY <2>4, <3>2, SpotFields DEF StructTyped, ValueFits, f
    <3>4. c \in DOMAIN dest => dest[c] \in Nat
      <4>1. c \in DOMAIN dest => Count(dest, p) = dest[c]
        BY <3>1
      <4>2. CountsTyped(dest)
        BY <1>1 DEF PlacesInv, PbInv
      <4>3. QED
        BY <2>1, <4>1, <4>2, CountType
    <3>5. QED
      BY <2>3, <3>1, <3>3, <3>4
  <2>7. ASSUME NEW n \in (f.max + 1)..(f.max + 2) PROVE Append(p, n) \notin DOMAIN dest
    <3> DEFINE q == Append(p, n)
    <3>1. n \in Nat /\ n # 0 /\ ~(n <= f.max)
      BY <2>3, <2>7
    <3>2. Location(q).kind = "message" \/ (Location(q).kind = "item" /\ Location(q).msg = m /\ Location(q).tag = t)
      BY <2>5, <3>1, SpotFields DEF ArraySpot
    <3>3. Len(q) = Len(p) + 1 /\ q[Len(p) + 1] = n
      BY <2>1, <3>1, AppendProperties
    <3>4. q[Len(q)] = n
      BY <3>3
    <3> HIDE DEF q
    <3>5. q \notin DOMAIN dest
      BY <2>4, <3>1, <3>2, <3>4 DEF StructTyped, ValueFits, f
    <3>6. QED
      BY <3>5 DEF q
  <2>8. QED
    BY <2>6, <2>7 DEF m, f, p
<1>2. QED
  BY <1>1 DEF CountsInBounds, StaticArray

(* docs/security.rst:58: no _count exceeds the size of its array (but by   *)
(* one where decoding has failed), and no item lies behind its array.      *)
THEOREM CountsAlwaysInBounds == PbSpec => []CountsInBounds
BY CountsFit, PlacesInvariant, PTL

LEMMA SizesFit == PlacesInv => SizesInBounds
<1>1. ASSUME PlacesInv, NEW i \in 1..Len(stack), NEW t \in DOMAIN Schema[stack[i].msg],
             Schema[stack[i].msg][t].ltype \in {"bytes", "string"},
             Schema[stack[i].msg][t].atype = "static",
             NEW q \in DOMAIN dest,
             LET p == Append(stack[i].path, t)
             IN  IF Schema[stack[i].msg][t].htype = "repeated"
                 THEN Len(q) = Len(p) + 1 /\ Below(p, q) /\ q # Append(p, 0)
                 ELSE q = p
      PROVE  Len(dest[q]) < Schema[stack[i].msg][t].size
  <2> DEFINE m == stack[i].msg
             f == Schema[m][t]
             p == Append(stack[i].path, t)
  <2>1. m \in DOMAIN Schema /\ p \in Seq(Nat) /\ Location(p) = FieldSpot(m, t)
    BY <1>1, FramePlaces
  <2>2. FieldSpot(m, t) = Spot("field", m, t)
    BY <1>1 DEF FieldSpot, StaticMessage
  <2>3. StructTyped(dest, ret = "failed") /\ q \in Seq(Nat)
    BY <1>1 DEF PlacesInv, PbInv, CountsTyped
  <2>4. f.atype = "static" /\ f.ltype \in {"bytes", "string"}
    BY <1>1
  <2>5. CASE f.htype = "repeated"
    <3>1. Len(q) = Len(p) + 1 /\ Below(p, q) /\ q # Append(p, 0)
      BY <1>1, <2>5
    <3> HIDE DEF m, f, p
    <3>2. q = Append(p, q[Len(q)]) /\ q[Len(q)] \in Nat
      <4>1. Len(p) \in 0..Len(q) /\ Len(p) < Len(q)
        BY <2>1, <2>3, <3>1
      <4>2. SubSeq(q, 1, Len(p)) = p
        BY <3>1 DEF Below
      <4>3. SubSeq(q, 1, Len(p) + 1) = Append(SubSeq(q, 1, Len(p)), q[Len(p) + 1]) /\ q[Len(p) + 1] \in Nat
        BY <2>3, <4>1, NextPrefix
      <4>4. SubSeq(q, 1, Len(q)) = q
        BY <2>3, SubSeqFull
      <4>5. QED
        BY <3>1, <4>2, <4>3, <4>4
    <3>3. q[Len(q)] # 0
      BY <3>1, <3>2
    <3>4. Location(q) = ArraySpot(m, t, q[Len(q)])
      <4>1. StaticArray(Schema[m][t])
        BY <2>4, <2>5 DEF f, StaticArray
      <4> DEFINE n == q[Len(q)]
      <4>2. n \in Nat /\ q = Append(p, n)
        BY <3>2
      <4> HIDE DEF n
      <4>3. Location(Append(p, n)) = ArraySpot(m, t, n)
        BY <2>1, <2>2, <4>1, <4>2, FieldSpots
      <4>4. QED
        BY <4>2, <4>3 DEF n
    <3>5. Location(q) = Spot("item", m, t)
      BY <2>4, <3>3, <3>4 DEF ArraySpot, StaticMessage, f
    <3>6. QED
      BY <2>3, <2>4, <3>5, SpotFields DEF StructTyped, ValueFits, f, m
  <2>6. CASE f.htype # "repeated"
    <3>1. q = p
      BY <1>1, <2>6
    <3> HIDE DEF m, f, p
    <3>2. Location(q) = Spot("field", m, t)
      BY <2>1, <2>2, <3>1
    <3>3. QED
      BY <2>3, <2>4, <3>2, SpotFields DEF StructTyped, ValueFits, f, m
  <2>7. QED
    BY <2>5, <2>6
<1>2. QED
  BY <1>1 DEF SizesInBounds

(* docs/security.rst:59-60: what is stored in a bytes or string field is   *)
(* shorter than the field, in every message, also where decoding failed.   *)
THEOREM SizesAlwaysInBounds == PbSpec => []SizesInBounds
BY SizesFit, PlacesInvariant, PTL

----------------------------------------------------------------------------
(* The whole message.                                                      *)
LEMMA RootTop ==
    ASSUME RootInv
    PROVE  /\ PlacesInv /\ StreamInv /\ CountsTyped(dest)
           /\ stack[1].msg = Root /\ stack[1].packed = 0
           /\ stack[1].seen \subseteq Nat /\ stack[1].fixed \in Nat
           /\ Len(stack) \in Nat \ {0}
           /\ Len(stack) = 1 => Top = stack[1]
           /\ Len(stack) # 1 => Top.packed # 0 \/ Top.path # <<>>
<1>1. PlacesInv /\ StreamInv /\ StackPlaced /\ CountsTyped(dest) /\ stack[1].path = <<>>
  BY DEF RootInv, PlacesInv, PbInv
<1>2. Len(stack) \in Nat \ {0} /\ 1 \in 1..Len(stack) /\ Len(stack) \in 1..Len(stack)
  BY <1>1, LengthOne
<1>3. stack[1] \in FrameType
  BY <1>1, <1>2, ElementOfSeq DEF StreamInv
<1>4. Location(<<>>) = Spot("message", stack[1].msg, 0)
  BY <1>1, <1>2 DEF StackPlaced, FramePlaced
<1>5. stack[1].msg = Root
  BY <1>4, LocationRoot, SpotFields
<1>6. stack[1].packed = 0
  BY <1>1 DEF StreamInv
<1>7. Len(stack) # 1 => Top.packed # 0 \/ Top.path # <<>>
  <2>1. Len(stack) # 1 => Len(stack) > 1
    BY <1>2
  <2>2. QED
    BY <1>1, <1>2, <2>1 DEF StackPlaced, Top
<1>8. QED
  BY <1>1, <1>2, <1>3, <1>5, <1>6, <1>7 DEF FrameType, Top

LEMMA PairIs ==
    ASSUME NEW t \in Nat, NEW n \in Nat
    PROVE  /\ <<t>> \in Seq(Nat) /\ <<t>> = Append(<<>>, t) /\ Len(<<t>>) = 1
           /\ <<t, n>> \in Seq(Nat) /\ <<t, n>> = Append(<<t>>, n) /\ Len(<<t, n>>) = 2
           /\ <<t>> # <<>>
OBVIOUS

LEMMA ItemsAre ==
    ASSUME NEW d, CountsTyped(d), NEW t \in Nat
    PROVE  \A n : n \in ItemsOf(d, t) <=> n \in Nat \ {0} /\ <<t, n>> \in DOMAIN d
<1>1. ASSUME NEW n \in ItemsOf(d, t) PROVE n \in Nat \ {0} /\ <<t, n>> \in DOMAIN d
  <2>1. PICK q \in DOMAIN d : Len(q) = 2 /\ q[1] = t /\ q[2] > 0 /\ n = q[2]
    BY DEF ItemsOf
  <2>2. q \in Seq(Nat)
    BY DEF CountsTyped
  <2>3. q = <<q[1], q[2]>> /\ q[2] \in Nat
    <3>1. 1 \in 1..Len(q) /\ 2 \in 1..Len(q)
      BY <2>1
    <3>2. q[1] \in Nat /\ q[2] \in Nat
      BY <2>2, <3>1, ElementOfSeq
    <3> DEFINE r == <<q[1], q[2]>>
    <3>3. r \in Seq(Nat) /\ Len(r) = 2 /\ r[1] = q[1] /\ r[2] = q[2]
      BY <3>2
    <3> HIDE DEF r
    <3>4. \A i \in 1..Len(q) : q[i] = r[i]
      <4>1. \A i \in 1..Len(q) : i = 1 \/ i = 2
        BY <2>1
      <4>2. QED
        BY <3>3, <4>1
    <3>5. q = r
      BY <2>1, <2>2, <3>3, <3>4, SeqEqual
    <3>6. QED
      BY <3>2, <3>5 DEF r
  <2>4. QED
    BY <2>1, <2>3
<1>2. ASSUME NEW n \in Nat \ {0}, <<t, n>> \in DOMAIN d PROVE n \in ItemsOf(d, t)
  <2> DEFINE q == <<t, n>>
  <2>1. Len(q) = 2 /\ q[1] = t /\ q[2] = n /\ n > 0
    OBVIOUS
  <2>2. q \in DOMAIN d
    BY <1>2
  <2> HIDE DEF q
  <2>3. QED
    BY <2>1, <2>2 DEF ItemsOf
<1>3. QED
  BY <1>1, <1>2

(* Field t of the whole message is the same in d and in e.                 *)
SameAt(d, e, t) ==
    /\ <<t>> \in DOMAIN d => <<t>> \in DOMAIN e
    /\ ItemsOf(e, t) = ItemsOf(d, t)
    /\ Count(e, <<t>>) = Count(d, <<t>>)

LEMMA SameChain ==
    ASSUME NEW d, NEW e, NEW g, NEW t, SameAt(d, e, t), SameAt(e, g, t)
    PROVE  SameAt(d, g, t)
BY DEF SameAt

LEMMA SameItself ==
    ASSUME NEW d, NEW t
    PROVE  SameAt(d, d, t)
BY DEF SameAt

LEMMA SameByPaths ==
    ASSUME NEW d, CountsTyped(d), NEW e, CountsTyped(e), NEW t \in Nat,
           <<t>> \in DOMAIN d => <<t>> \in DOMAIN e,
           \A n \in Nat : <<t, n>> \in DOMAIN d <=> <<t, n>> \in DOMAIN e,
           <<t, 0>> \in DOMAIN d => d[<<t, 0>>] = e[<<t, 0>>]
    PROVE  SameAt(d, e, t)
<1>1. ItemsOf(e, t) = ItemsOf(d, t)
  BY ItemsAre
<1>2. Count(e, <<t>>) = Count(d, <<t>>)
  <2>1. Append(<<t>>, 0) = <<t, 0>>
    BY PairIs
  <2>2. QED
    BY <2>1 DEF Count, At
<1>3. QED
  BY <1>1, <1>2 DEF SameAt

LEMMA SamePut ==
    ASSUME NEW d, CountsTyped(d), NEW w, NEW v, CountsTyped(Put(d, w, v)), NEW t \in Nat,
           \A n \in Nat : w # <<t, n>>
    PROVE  SameAt(d, Put(d, w, v), t)
<1> DEFINE e == Put(d, w, v)
<1>1. DOMAIN e = DOMAIN d \cup {w} /\ \A q \in DOMAIN d : q # w => e[q] = d[q]
  BY DEF Put
<1> HIDE DEF e
<1>2. CountsTyped(e)
  BY DEF e
<1>3. <<t, 0>> \in DOMAIN d => d[<<t, 0>>] = e[<<t, 0>>]
  BY <1>1
<1>4. \A n \in Nat : <<t, n>> \in DOMAIN d <=> <<t, n>> \in DOMAIN e
  BY <1>1
<1>5. SameAt(d, e, t)
  BY <1>1, <1>2, <1>3, <1>4, SameByPaths
<1>6. QED
  BY <1>5 DEF e

LEMMA SamePart ==
    ASSUME NEW d, CountsTyped(d), NEW S \in SUBSET DOMAIN d, NEW t \in Nat,
           <<t>> \in DOMAIN d => <<t>> \in S,
           \A n \in Nat : <<t, n>> \in DOMAIN d => <<t, n>> \in S
    PROVE  SameAt(d, [q \in S |-> d[q]], t)
<1> DEFINE e == [q \in S |-> d[q]]
<1>1. DOMAIN e = S /\ \A q \in S : e[q] = d[q]
  OBVIOUS
<1>2. CountsTyped(e)
  BY RestrictCounts
<1> HIDE DEF e
<1>3. <<t, 0>> \in DOMAIN d => d[<<t, 0>>] = e[<<t, 0>>]
  BY <1>1
<1>4. SameAt(d, e, t)
  BY <1>1, <1>2, <1>3, SameByPaths
<1>5. QED
  BY <1>4 DEF e

(* The fields of the whole message that RootInOrder speaks of.             *)
LEMMA TrackedIs ==
    ASSUME NEW t \in FixedScalars \cup RequiredScalars
    PROVE  /\ t \in DOMAIN Schema[Root] /\ t \in Nat \ {0} /\ t \notin OneofTags(Root)
           /\ Schema[Root][t].ltype # "submessage" /\ Schema[Root][t].atype = "static"
           /\ Location(<<t>>) = Spot("field", Root, t)
<1>1. /\ t \in DOMAIN Schema[Root]
      /\ Schema[Root][t].ltype # "submessage" /\ Schema[Root][t].atype = "static"
      /\ Schema[Root][t].htype \in {"required", "repeated"}
  BY DEF FixedScalars, RequiredScalars, FixedCount, Tracked, Required, RootScalar
<1>2. t \in Nat \ {0} /\ Root \in DOMAIN Schema
  BY <1>1, FieldAt, SchemaAssumption
<1>3. t \notin OneofTags(Root)
  BY <1>1 DEF OneofTags
<1>4. Location(Append(<<>>, t)) = FieldSpot(Root, t)
  BY <1>1, <1>2, LocationRoot, MessageSpots, EmptySeq
<1>5. FieldSpot(Root, t) = Spot("field", Root, t)
  BY <1>1 DEF FieldSpot, StaticMessage
<1>6. Append(<<>>, t) = <<t>>
  BY <1>2, PairIs
<1>7. QED
  BY <1>1, <1>2, <1>3, <1>4, <1>5, <1>6

(* The parts of other messages and of other fields are elsewhere.          *)
LEMMA FarPaths ==
    ASSUME NEW t \in FixedScalars \cup RequiredScalars, NEW p \in Seq(Nat), Location(p).kind = "message",
           NEW x \in Nat, NEW y \in Nat
    PROVE  /\ Append(p, x) # <<t>> \/ (p = <<>> /\ x = t)
           /\ \A n \in Nat : Append(p, x) # <<t, n>>
           /\ p # <<>> \/ x # t => \A n \in Nat : Append(Append(p, x), y) # <<t, n>>
<1>1. t \in Nat /\ Location(<<t>>).kind = "field"
  BY TrackedIs, SpotFields
<1>2. <<>> \in Seq(Nat) /\ <<t>> \in Seq(Nat) /\ <<t>> = Append(<<>>, t)
  BY <1>1, PairIs, EmptySeq
<1>3. \A n \in Nat : <<t, n>> = Append(<<t>>, n)
  BY <1>1, PairIs
<1> DEFINE one == <<t>>
           nil == <<>>
<1>4. one \in Seq(Nat) /\ nil \in Seq(Nat) /\ one = Append(nil, t) /\ Location(one).kind = "field"
  BY <1>1, <1>2
<1>5. \A n \in Nat : <<t, n>> = Append(one, n)
  BY <1>3
<1> HIDE DEF one, nil
<1>6. Append(p, x) # one \/ (p = nil /\ x = t)
  BY <1>1, <1>4, AppendInjective
<1>7. ASSUME NEW n \in Nat PROVE Append(p, x) # Append(one, n)
  <2>1. p # one
    BY <1>4
  <2>2. QED
    BY <1>4, <2>1, AppendInjective, SMTT(30)
<1>8. ASSUME NEW n \in Nat, p # nil \/ x # t PROVE Append(Append(p, x), y) # Append(one, n)
  <2> DEFINE q == Append(p, x)
  <2>1. q # one /\ q \in Seq(Nat)
    BY <1>6, <1>8, AppendProperties
  <2> HIDE DEF q
  <2>2. one \in Seq(Nat)
    BY <1>4
  <2>3. Append(q, y) = Append(one, n) <=> q = one /\ y = n
    BY <2>1, <2>2, AppendInjective
  <2>4. QED
    BY <2>1, <2>3 DEF q
<1>9. QED
  BY <1>5, <1>6, <1>7, <1>8 DEF one, nil

LEMMA NotBelow ==
    ASSUME NEW t \in FixedScalars \cup RequiredScalars, NEW r \in Seq(Nat), r # <<>>, r # <<t>>,
           \A n \in Nat : r # <<t, n>>
    PROVE  ~Below(r, <<t>>) /\ \A n \in Nat : ~Below(r, <<t, n>>)
<1>1. t \in Nat
  BY TrackedIs
<1>2. <<>> \in Seq(Nat) /\ <<t>> \in Seq(Nat) /\ <<t>> = Append(<<>>, t) /\ Len(<<>>) = 0
  BY <1>1, PairIs, EmptySeq
<1>3. ~Below(r, <<>>)
  <2> DEFINE nil == <<>>
  <2>1. Len(r) \in Nat /\ Len(r) # 0
    BY EmptySeq, LenProperties
  <2>2. nil \in Seq(Nat) /\ Len(nil) = 0
    BY <1>2
  <2> HIDE DEF nil
  <2>3. ~Below(r, nil)
    <3> SUFFICES ASSUME Below(r, nil) PROVE FALSE
      OBVIOUS
    <3>1. Len(r) <= Len(nil)
      BY <2>2, BelowLength
    <3>2. QED
      BY <2>1, <2>2, <3>1
  <2>4. QED
    BY <2>3 DEF nil
<1>4. ~Below(r, <<t>>)
  BY <1>1, <1>2, <1>3, BelowAppend
<1>5. ASSUME NEW n \in Nat PROVE ~Below(r, <<t, n>>)
  <2>1. <<t, n>> = Append(<<t>>, n)
    BY <1>1, PairIs
  <2>2. QED
    BY <1>2, <1>4, <2>1, BelowAppend, ZenonT(30)
<1>6. QED
  BY <1>4, <1>5

LEMMA SameNoUnion ==
    ASSUME NEW d, CountsTyped(d), NEW t \in FixedScalars \cup RequiredScalars,
           NEW p \in Seq(Nat), NEW m \in DOMAIN Schema, Location(p) = Spot("message", m, 0)
    PROVE  SameAt(d, NoUnion(d, m, p), t)
<1> DEFINE S == {q \in DOMAIN d : \A u \in OneofTags(m) : ~Below(Append(p, u), q)}
<1>1. NoUnion(d, m, p) = [q \in S |-> d[q]] /\ S \in SUBSET DOMAIN d
  BY DEF NoUnion
<1>2. t \in Nat
  BY TrackedIs
<1>3. ASSUME NEW u \in OneofTags(m)
      PROVE  ~Below(Append(p, u), <<t>>) /\ \A n \in Nat : ~Below(Append(p, u), <<t, n>>)
  <2>1. u \in Nat
    BY FieldAt DEF OneofTags
  <2>2. ~(p = <<>> /\ u = t)
    <3>1. p = <<>> => m = Root
      BY LocationRoot, SpotFields
    <3>2. QED
      BY <3>1, TrackedIs
  <2>3. Location(p).kind = "message"
    BY SpotFields
  <2>4. Append(p, u) # <<t>> /\ (\A n \in Nat : Append(p, u) # <<t, n>>)
    BY <2>1, <2>2, <2>3, FarPaths
  <2>5. Append(p, u) \in Seq(Nat) /\ Append(p, u) # <<>>
    BY <2>1, AppendProperties, EmptySeq
  <2>6. QED
    BY <2>4, <2>5, NotBelow
<1>4. /\ <<t>> \in DOMAIN d => <<t>> \in S
      /\ \A n \in Nat : <<t, n>> \in DOMAIN d => <<t, n>> \in S
  BY <1>3
<1> HIDE DEF S
<1>5. QED
  BY <1>1, <1>2, <1>4, SamePart

LEMMA SameDefaults ==
    ASSUME NEW d, CountsTyped(d), NEW t \in FixedScalars \cup RequiredScalars,
           NEW p \in Seq(Nat), p # <<>>, p # <<t>>, \A n \in Nat : p # <<t, n>>
    PROVE  SameAt(d, Defaults(d, p), t)
<1> DEFINE S == {q \in DOMAIN d : Below(p, q) => q \in Callbacks}
<1>1. Defaults(d, p) = [q \in S |-> d[q]] /\ S \in SUBSET DOMAIN d
  BY DEF Defaults
<1>2. t \in Nat
  BY TrackedIs
<1>3. /\ <<t>> \in DOMAIN d => <<t>> \in S
      /\ \A n \in Nat : <<t, n>> \in DOMAIN d => <<t, n>> \in S
  BY NotBelow
<1> HIDE DEF S
<1>4. QED
  BY <1>1, <1>2, <1>3, SamePart

(* Field t of the whole message is not the one at hand.                    *)
Elsewhere(t) == t \in FixedScalars \cup RequiredScalars /\ (Top.path # <<>> \/ Tag # t)

LEMMA TopKind ==
    ASSUME PlacesInv
    PROVE  Location(Top.path).kind = "message"
BY TopPlaced, SpotFields

LEMMA CountedSame ==
    ASSUME PlacesInv, AtField, Known, NEW t, Elsewhere(t)
    PROVE  SameAt(dest, Counted, t) /\ CountsTyped(Counted)
<1>1. /\ Tag \in Nat \ {0} /\ Top.path \in Seq(Nat) /\ Location(Top.path).kind = "message"
      /\ ItemCount \in Nat /\ t \in FixedScalars \cup RequiredScalars /\ t \in Nat
  BY PathPlaced, TopKind, TrackedIs DEF Elsewhere
<1>2. CountsTyped(dest) /\ CountsTyped(Counted)
  BY TargetFacts DEF PlacesInv, PbInv
<1>3. CASE FixedCount(Field)
  <2>1. Counted = Put(dest, Append(Path, 0), ItemCount)
    BY <1>3 DEF Counted
  <2>2. \A n \in Nat : Append(Path, 0) # <<t, n>>
    BY <1>1, FarPaths DEF Elsewhere, Path
  <2>3. QED
    BY <1>1, <1>2, <2>1, <2>2, SamePut
<1>4. CASE ~FixedCount(Field)
  BY <1>2, <1>4, SameItself DEF Counted
<1>5. QED
  BY <1>3, <1>4

LEMMA FlaggedSame ==
    ASSUME PlacesInv, AtField, Known, NEW t, t \in FixedScalars \cup RequiredScalars,
           IsItem => Elsewhere(t)
    PROVE  SameAt(dest, Flagged, t) /\ CountsTyped(Flagged)
<1>1. /\ Tag \in Nat \ {0} /\ Top.path \in Seq(Nat) /\ Location(Top.path) = Spot("message", Top.msg, 0)
      /\ Top.msg \in DOMAIN Schema /\ t \in Nat \ {0} /\ Path \in Seq(Nat) /\ ItemCount \in Nat
      /\ Field.htype \in {"required", "optional", "repeated", "oneof"}
  BY PathPlaced, TrackedIs, FieldAt DEF Field
<1>2. CountsTyped(dest) /\ CountsTyped(Flagged)
  BY FlaggedFacts DEF PlacesInv, PbInv
<1>3. \A n \in Nat : Append(Top.path, 0) # <<t, n>>
  BY <1>1, TopKind, FarPaths
<1>4. CASE IsItem
  <2>1. Flagged = Put(dest, Append(Path, 0), ItemCount + 1)
    BY <1>4 DEF Flagged, IsItem
  <2>2. \A n \in Nat : Append(Path, 0) # <<t, n>>
    BY <1>1, <1>4, TopKind, FarPaths DEF Elsewhere, Path
  <2>3. QED
    BY <1>1, <1>2, <2>1, <2>2, SamePut
<1>5. CASE Field.htype = "oneof" /\ Field.ltype = "submessage"
  <2> DEFINE d == NoUnion(dest, Top.msg, Top.path)
  <2>1. Flagged = Put(d, Append(Top.path, 0), Tag)
    BY <1>5 DEF Flagged, IsItem, Select
  <2>2. CountsTyped(d) /\ SameAt(dest, d, t)
    BY <1>1, <1>2, UnionCounts, SameNoUnion
  <2> HIDE DEF d
  <2>3. SameAt(d, Flagged, t)
    BY <1>1, <1>2, <1>3, <2>1, <2>2, SamePut
  <2>4. QED
    BY <1>2, <2>2, <2>3, SameChain
<1>6. CASE Field.htype = "oneof" /\ Field.ltype # "submessage"
  <2>1. Flagged = Put(dest, Append(Top.path, 0), Tag)
    BY <1>6 DEF Flagged, IsItem
  <2>2. QED
    BY <1>1, <1>2, <1>3, <2>1, SamePut
<1>7. CASE Field.htype \in {"required", "optional"}
  <2>1. Flagged = IF Field.has \/ Field.ext THEN Put(dest, HasAt(Top.path, Tag), TRUE) ELSE dest
    BY <1>7 DEF Flagged, IsItem
  <2>2. \A n \in Nat : HasAt(Top.path, Tag) # <<t, n>>
    <3>1. HasAt(Top.path, Tag) = Append(Append(Top.path, 0), Tag)
      BY <1>1, HasAtIs
    <3>2. 0 # t /\ 0 \in Nat /\ Tag \in Nat
      BY <1>1
    <3>3. \A n \in Nat : Append(Append(Top.path, 0), Tag) # <<t, n>>
      BY <1>1, <3>2, TopKind, FarPaths
    <3>4. QED
      BY <3>1, <3>3
  <2>3. CASE Flagged = dest
    BY <1>2, <2>3, SameItself
  <2>4. CASE Flagged = Put(dest, HasAt(Top.path, Tag), TRUE)
    BY <1>1, <1>2, <2>2, <2>4, SamePut
  <2>5. QED
    BY <2>1, <2>3, <2>4
<1>8. QED
  BY <1>1, <1>4, <1>5, <1>6, <1>7 DEF IsItem

(* A value stored in d leaves every other field as it is.                  *)
LEMMA TargetFar ==
    ASSUME PlacesInv, AtField, Known, NEW t, t \in FixedScalars \cup RequiredScalars, IsItem => Elsewhere(t)
    PROVE  \A n \in Nat : Target # <<t, n>>
<1>1. /\ Tag \in Nat \ {0} /\ Top.path \in Seq(Nat) /\ Location(Top.path).kind = "message"
      /\ ItemCount + 1 \in Nat
  BY PathPlaced, TopKind
<1>2. CASE IsItem
  <2>1. Target = Append(Append(Top.path, Tag), ItemCount + 1)
    BY <1>2 DEF Target, Path
  <2>2. QED
    BY <1>1, <1>2, <2>1, FarPaths DEF Elsewhere
<1>3. CASE ~IsItem
  <2>1. Target = Append(Top.path, Tag)
    BY <1>3 DEF Target, Path
  <2>2. QED
    BY <1>1, <2>1, FarPaths
<1>4. QED
  BY <1>2, <1>3

LEMMA StoredSame ==
    ASSUME PlacesInv, AtField, Known, NEW t, t \in FixedScalars \cup RequiredScalars, IsItem => Elsewhere(t),
           NEW v
    PROVE  SameAt(dest, Stored(Flagged, v), t) /\ CountsTyped(Stored(Flagged, v))
<1> DEFINE d == IF Field.htype = "oneof" THEN NoUnion(Flagged, Top.msg, Top.path) ELSE Flagged
<1>1. SameAt(dest, Flagged, t) /\ CountsTyped(Flagged) /\ CountsTyped(Stored(Flagged, v)) /\ t \in Nat
  BY FlaggedSame, FlaggedFacts, TrackedIs DEF PlacesInv
<1>2. CountsTyped(d)
  BY <1>1, UnionCounts
<1>3. SameAt(Flagged, d, t)
  <2>1. /\ Top.path \in Seq(Nat) /\ Top.msg \in DOMAIN Schema
        /\ Location(Top.path) = Spot("message", Top.msg, 0)
    BY PathPlaced
  <2>2. SameAt(Flagged, NoUnion(Flagged, Top.msg, Top.path), t)
    BY <1>1, <2>1, SameNoUnion
  <2>3. QED
    BY <2>2, SameItself
<1>4. Stored(Flagged, v) = Put(d, Target, v)
  BY DEF Stored
<1> HIDE DEF d
<1>5. SameAt(d, Stored(Flagged, v), t)
  BY <1>1, <1>2, <1>4, TargetFar, SamePut
<1>6. QED
  BY <1>1, <1>3, <1>5, SameChain

LEMMA OpenedSame ==
    ASSUME PlacesInv, AtField, Known, Field.ltype = "submessage", Field.atype = "static",
           NEW t, t \in FixedScalars \cup RequiredScalars, NEW opened,
           opened = IF IsItem THEN Defaults(Flagged, Target) ELSE Flagged
    PROVE  SameAt(dest, opened, t)
<1>1. Elsewhere(t)
  <2>1. Top.path = <<>> => Top.msg = Root
    BY PathPlaced, LocationRoot, SpotFields
  <2>2. Top.path = <<>> => Tag # t
    BY <2>1, TrackedIs DEF Field
  <2>3. QED
    BY <2>2 DEF Elsewhere
<1>2. SameAt(dest, Flagged, t) /\ CountsTyped(Flagged)
  BY <1>1, FlaggedSame
<1>3. CASE IsItem
  <2>1. Target = Append(Path, ItemCount + 1) /\ Path \in Seq(Nat) /\ Path # <<>> /\ ItemCount + 1 \in Nat
    <3>1. /\ Path \in Seq(Nat) /\ ItemCount \in Nat /\ Path = Append(Top.path, Tag)
          /\ Top.path \in Seq(Nat) /\ Tag \in Nat
      BY PathPlaced DEF Path
    <3>2. Append(Top.path, Tag) # <<>>
      BY <3>1, AppendProperties, EmptySeq
    <3>3. QED
      BY <1>3, <3>1, <3>2 DEF Target
  <2>2. Target # <<>> /\ Target \in Seq(Nat)
    BY <2>1, AppendProperties
  <2>3. Target # <<t>>
    <3> DEFINE one == <<t>>
               k == ItemCount + 1
    <3>1. t \in Nat
      BY TrackedIs
    <3>2. one = Append(<<>>, t)
      BY <3>1, PairIs
    <3>3. Target = Append(Path, k) /\ k \in Nat
      BY <2>1
    <3> HIDE DEF one, k
    <3>4. Append(Path, k) = Append(<<>>, t) <=> Path = <<>> /\ k = t
      BY <2>1, <3>1, <3>3, AppendInjective, EmptySeq
    <3>5. QED
      BY <2>1, <3>2, <3>3, <3>4 DEF one
  <2>4. \A n \in Nat : Target # <<t, n>>
    BY <1>1, TargetFar
  <2>5. SameAt(Flagged, Defaults(Flagged, Target), t)
    BY <1>2, <2>2, <2>3, <2>4, SameDefaults
  <2>6. QED
    BY <1>2, <1>3, <2>5, SameChain
<1>4. CASE ~IsItem
  BY <1>2, <1>4
<1>5. QED
  BY <1>3, <1>4

(* The order of an array that a step leaves alone.                         *)
LEMMA OrderKept ==
    ASSUME NEW d, NEW e, NEW fixed, NEW t, SameAt(d, e, t), ArrayInOrder(d, fixed, t)
    PROVE  ArrayInOrder(e, fixed, t)
BY DEF SameAt, ArrayInOrder

(* What a step makes of seen and fixed of the whole message.               *)
LEMMA AfterSeen ==
    ASSUME StreamInv, NEW n, NEW t
    PROVE  /\ After(n, t).seen = IF t \in Tracked(Top.msg) THEN Top.seen \cup {t} ELSE Top.seen
           /\ After(n, t).fixed = IF t \in DOMAIN Schema[Top.msg] /\ FixedCount(Schema[Top.msg][t])
                                  THEN t ELSE Top.fixed
<1>1. Top \in FrameType
  BY TopFacts
<1>2. QED
  BY <1>1 DEF After, FrameType

(* When fixed_count_field changes the array it leaves is complete.         *)
LEMMA OrderLeft ==
    ASSUME RootInv, AtField, Known, ~LeavesFixed, Len(stack) = 1, NEW t \in FixedScalars, Tag # t,
           ArrayInOrder(dest, stack[1].fixed, t), NEW n
    PROVE  ArrayInOrder(dest, After(n, Tag).fixed, t)
<1>1. StreamInv /\ Top = stack[1] /\ Top.path = <<>> /\ Top.msg = Root /\ t \in Nat \ {0}
  BY RootTop, TrackedIs DEF RootInv
<1>2. After(n, Tag).fixed = IF FixedCount(Field) THEN Tag ELSE Top.fixed
  BY <1>1, AfterSeen DEF Known, Field
<1>3. CASE ~FixedCount(Field) \/ Top.fixed = Tag
  <2>1. After(n, Tag).fixed = stack[1].fixed
    BY <1>1, <1>2, <1>3
  <2>2. QED
    BY <2>1
<1>4. CASE FixedCount(Field) /\ Top.fixed # Tag
  <2>1. FixedFull(Top) /\ After(n, Tag).fixed = Tag
    BY <1>2, <1>4 DEF LeavesFixed
  <2>2. Top.fixed = t => Count(dest, <<t>>) = Schema[Root][t].max
    <3>1. Top.fixed = t => Count(dest, Append(Top.path, t)) = Schema[Root][t].max
      BY <1>1, <2>1 DEF FixedFull
    <3>2. Append(<<>>, t) = <<t>>
      BY <1>1, PairIs
    <3>3. QED
      BY <1>1, <3>1, <3>2
  <2>3. QED
    BY <1>1, <2>1, <2>2 DEF ArrayInOrder
<1>5. QED
  BY <1>3, <1>4

(* A field of the whole message is met and d is the structure then: all    *)
(* is in order if that field is.                                           *)
LEMMA OrderAtRoot ==
    ASSUME RootInv, AtField, Known, ~LeavesFixed, Len(stack) = 1, NEW n, NEW d,
           \A t \in FixedScalars \cup RequiredScalars : Elsewhere(t) => SameAt(dest, d, t),
           Tag \in RequiredScalars => <<Tag>> \in DOMAIN d,
           Tag \in FixedScalars => ArrayInOrder(d, Tag, Tag)
    PROVE  RootInOrder(d, After(n, Tag).seen, After(n, Tag).fixed)
<1>1. /\ StreamInv /\ Top = stack[1] /\ Top.path = <<>> /\ Top.msg = Root
      /\ RootInOrder(dest, stack[1].seen, stack[1].fixed)
  BY RootTop DEF RootInv, AtField, Running
<1>2. ASSUME NEW t \in After(n, Tag).seen \cap RequiredScalars PROVE <<t>> \in DOMAIN d
  <2>1. CASE t = Tag
    BY <2>1
  <2>2. CASE t # Tag
    <3>1. t \in stack[1].seen
      <4>1. After(n, Tag).seen \in {Top.seen, Top.seen \cup {Tag}}
        BY <1>1, AfterSeen
      <4>2. t \in Top.seen
        BY <2>2, <4>1
      <4>3. QED
        BY <1>1, <4>2
    <3>2. <<t>> \in DOMAIN dest
      BY <1>1, <3>1 DEF RootInOrder
    <3>3. SameAt(dest, d, t)
      BY <2>2 DEF Elsewhere
    <3>4. QED
      BY <3>2, <3>3 DEF SameAt
  <2>3. QED
    BY <2>1, <2>2
<1>3. ASSUME NEW t \in FixedScalars PROVE ArrayInOrder(d, After(n, Tag).fixed, t)
  <2>1. CASE t = Tag
    <3>1. Tag \in DOMAIN Schema[Top.msg] /\ FixedCount(Schema[Top.msg][Tag])
      BY <1>1, <2>1 DEF FixedScalars
    <3>2. After(n, Tag).fixed = Tag
      BY <1>1, <3>1, AfterSeen
    <3>3. QED
      BY <2>1, <3>2
  <2>2. CASE t # Tag
    <3>1. ArrayInOrder(dest, stack[1].fixed, t)
      BY <1>1 DEF RootInOrder
    <3>2. ArrayInOrder(dest, After(n, Tag).fixed, t)
      BY <2>2, <3>1, OrderLeft
    <3>3. SameAt(dest, d, t)
      BY <2>2 DEF Elsewhere
    <3>4. QED
      BY <3>2, <3>3, OrderKept
  <2>3. QED
    BY <2>1, <2>2
<1>4. QED
  BY <1>2, <1>3 DEF RootInOrder

(* A field of another message is met.                                      *)
LEMMA OrderElsewhere ==
    ASSUME NEW d, NEW seen, NEW fixed, RootInOrder(dest, seen, fixed),
           \A t \in FixedScalars \cup RequiredScalars : SameAt(dest, d, t)
    PROVE  RootInOrder(d, seen, fixed)
<1>1. ASSUME NEW t \in seen \cap RequiredScalars PROVE <<t>> \in DOMAIN d
  BY DEF RootInOrder, SameAt
<1>2. ASSUME NEW t \in FixedScalars PROVE ArrayInOrder(d, fixed, t)
  BY OrderKept DEF RootInOrder
<1>3. QED
  BY <1>1, <1>2 DEF RootInOrder

----------------------------------------------------------------------------
(* The third invariant, shape by shape of the steps.                       *)
NotedAt(s) ==
    \A i \in 2..Len(s) :
        (s[i].path = <<>> /\ s[i].packed \in FixedScalars) => s[1].fixed = s[i].packed

LEMMA NotedOne ==
    ASSUME NEW s, Len(s) = 1
    PROVE  NotedAt(s)
BY DEF NotedAt

LEMMA RootSame ==
    ASSUME RootInv, Running, PlacesInv', stack' = stack, dest' = dest, ret' \in {"running", "failed"}
    PROVE  RootInv'
BY DEF RootInv, Running, RootInOrder, ArrayInOrder, ItemsOf

LEMMA RootFail ==
    ASSUME RootInv, PlacesInv', NEW d, Fail(d)
    PROVE  RootInv'
BY DEF RootInv, Fail

LEMMA RootNext ==
    ASSUME PlacesInv', stack'[1].path = <<>>, ret' # "ok",
           RootInOrder(dest', stack'[1].seen, stack'[1].fixed), NotedAt(stack')
    PROVE  RootInv'
<1>1. \A i \in 2..Len(stack') :
         (stack'[i].path = <<>> /\ stack'[i].packed \in FixedScalars) => stack'[1].fixed = stack'[i].packed
  BY DEF NotedAt
<1>2. RootInOrder(dest, stack[1].seen, stack[1].fixed)'
  BY DEF RootInOrder, ArrayInOrder, ItemsOf
<1>3. QED
  BY <1>1, <1>2 DEF RootInv

LEMMA RootNow ==
    ASSUME RootInv, Running
    PROVE  /\ stack[1].path = <<>> /\ NotedAt(stack) /\ ret # "ok" /\ ret # "failed"
           /\ RootInOrder(dest, stack[1].seen, stack[1].fixed)
BY DEF RootInv, Running, NotedAt

LEMMA RootRead ==
    ASSUME RootInv, Running, PlacesInv', NEW f \in FrameType,
           stack' = [stack EXCEPT ![Len(stack)] = f], ret' = ret,
           f.path = Top.path, f.packed = Top.packed,
           Len(stack) = 1 => RootInOrder(dest', f.seen, f.fixed),
           Len(stack) # 1 => RootInOrder(dest', stack[1].seen, stack[1].fixed)
    PROVE  RootInv'
<1>1. /\ StreamInv /\ Len(stack) \in Nat \ {0}
      /\ Len(stack) = 1 => Top = stack[1]
      /\ 1 \in 1..Len(stack) /\ Len(stack) \in 1..Len(stack)
  BY RootTop, LengthOne
<1>2. /\ Len(stack') = Len(stack)
      /\ \A i \in 1..Len(stack) : stack'[i] = IF i = Len(stack) THEN f ELSE stack[i]
  BY <1>1, ReadStack
<1>3. stack[1].path = <<>> /\ NotedAt(stack) /\ ret # "ok"
  BY RootNow
<1>4. CASE Len(stack) = 1
  <2>1. stack'[1] = f /\ f.path = <<>>
    BY <1>1, <1>2, <1>3, <1>4
  <2>2. NotedAt(stack')
    <3>1. Len(stack') = 1
      BY <1>2, <1>4
    <3>2. QED
      BY <3>1, NotedOne
  <2>3. QED
    BY <1>3, <1>4, <2>1, <2>2, RootNext
<1>5. CASE Len(stack) # 1
  <2>1. stack'[1] = stack[1]
    BY <1>1, <1>2, <1>5
  <2>2. \A i \in 2..Len(stack') : stack'[i].path = stack[i].path /\ stack'[i].packed = stack[i].packed
    <3> TAKE i \in 2..Len(stack')
    <3>1. i \in 1..Len(stack)
      BY <1>1, <1>2
    <3>2. QED
      BY <1>2, <3>1 DEF Top
  <2>3. NotedAt(stack')
    BY <1>2, <1>3, <2>1, <2>2, ZenonT(30) DEF NotedAt
  <2>4. QED
    BY <1>3, <1>5, <2>1, <2>3, RootNext
<1>6. QED
  BY <1>4, <1>5

LEMMA RootProceed ==
    ASSUME RootInv, Running, PlacesInv', NEW n \in 0..Top.left, NEW t \in Nat, NEW d, Proceed(n, t, d),
           Len(stack) = 1 => RootInOrder(d, After(n, t).seen, After(n, t).fixed),
           Len(stack) # 1 => RootInOrder(d, stack[1].seen, stack[1].fixed)
    PROVE  RootInv'
<1> DEFINE f == After(n, t)
<1>1. StreamInv
  BY RootTop
<1>2. /\ f \in FrameType /\ f.path = Top.path /\ f.packed = Top.packed
      /\ stack' = [stack EXCEPT ![Len(stack)] = f] /\ ret' = ret /\ dest' = d
  BY <1>1, AfterFacts, AfterPlace DEF Proceed
<1> HIDE DEF f
<1>3. Len(stack) = 1 => RootInOrder(dest', f.seen, f.fixed)
  BY <1>2 DEF f
<1>4. Len(stack) # 1 => RootInOrder(dest', stack[1].seen, stack[1].fixed)
  BY <1>2
<1>5. QED
  BY <1>2, <1>3, <1>4, RootRead

LEMMA RootOpenSized ==
    ASSUME RootInv, PlacesInv', AtField,
           NEW m \in DOMAIN Schema, NEW p \in Seq(Nat), NEW packed \in Nat,
           NEW d, NEW opened, OpenSized(m, p, packed, d, opened),
           Len(stack) = 1 => \A n : RootInOrder(opened, After(n, Tag).seen, After(n, Tag).fixed),
           Len(stack) # 1 => RootInOrder(opened, stack[1].seen, stack[1].fixed),
           (p = <<>> /\ packed \in FixedScalars) => Len(stack) = 1 /\ \A n : After(n, Tag).fixed = packed
    PROVE  RootInv'
<1>0. Running
  BY DEF AtField
<1>1. /\ StreamInv /\ Len(stack) \in Nat \ {0}
      /\ Len(stack) = 1 => Top = stack[1]
      /\ 1 \in 1..Len(stack) /\ Len(stack) \in 1..Len(stack)
  BY RootTop, LengthOne
<1>2. stack[1].path = <<>> /\ NotedAt(stack) /\ ret # "ok"
  BY <1>0, RootNow
<1>3. CASE Fail(d)
  BY <1>3, RootFail
<1>4. CASE ~Fail(d)
  <2>0. PICK n \in Nat : Opened(n, Tag, m, p, packed) /\ dest' = opened /\ ret' = ret
    BY <1>1, <1>4, OpenSizedCases
  <2>1. PICK below, child \in FrameType :
           /\ stack' = Append([stack EXCEPT ![Len(stack)] = below], child)
           /\ below.path = Top.path /\ below.packed = Top.packed
           /\ \E k : below.seen = After(k, Tag).seen /\ below.fixed = After(k, Tag).fixed
           /\ child.path = p /\ child.packed = packed
           /\ dest' = opened /\ ret' = ret
    BY <2>0 DEF Opened
  <2> DEFINE s == [stack EXCEPT ![Len(stack)] = below]
  <2>2. /\ s \in Seq(FrameType) /\ Len(s) = Len(stack)
        /\ \A i \in 1..Len(stack) : s[i] = IF i = Len(stack) THEN below ELSE stack[i]
    BY <1>1, ExceptSeq DEF StreamInv
  <2> HIDE DEF s
  <2>3. /\ Len(stack') = Len(stack) + 1
        /\ \A i \in 1..Len(stack) : stack'[i] = IF i = Len(stack) THEN below ELSE stack[i]
        /\ stack'[Len(stack) + 1] = child
    <3>1. stack' = Append(s, child)
      BY <2>1 DEF s
    <3>2. QED
      BY <2>1, <2>2, <3>1, AppendProperties
  <2>4. /\ stack'[1].path = <<>>
        /\ RootInOrder(dest', stack'[1].seen, stack'[1].fixed)
        /\ (p = <<>> /\ packed \in FixedScalars) => stack'[1].fixed = packed
    <3>1. CASE Len(stack) = 1
      <4>1. stack'[1] = below /\ Top.path = <<>>
        BY <1>1, <1>2, <2>3, <3>1
      <4>2. QED
        BY <2>1, <3>1, <4>1
    <3>2. CASE Len(stack) # 1
      <4>1. stack'[1] = stack[1]
        <5>1. 1 \in 1..Len(stack) /\ 1 # Len(stack)
          BY <1>1, <3>2
        <5>2. QED
          BY <2>3, <5>1
      <4>2. QED
        BY <1>2, <2>1, <3>2, <4>1
    <3>3. QED
      BY <3>1, <3>2
  <2>5. ASSUME NEW i \in 2..Len(stack'), stack'[i].path = <<>>, stack'[i].packed \in FixedScalars
        PROVE  stack'[1].fixed = stack'[i].packed
    <3>1. CASE i = Len(stack) + 1
      BY <2>1, <2>3, <2>4, <2>5, <3>1
    <3>2. CASE i # Len(stack) + 1
      <4>1. i \in 1..Len(stack) /\ i \in 2..Len(stack) /\ 1 # Len(stack)
        <5>1. Len(stack) \in Nat /\ Len(stack') = Len(stack) + 1
          BY <1>1, <2>3
        <5>2. i \in 2..(Len(stack) + 1)
          BY <5>1
        <5>3. \A k \in Nat : \A j \in 2..(k + 1) :
                 j # k + 1 => j \in 1..k /\ j \in 2..k /\ 1 # k
          OBVIOUS
        <5>4. QED
          BY <3>2, <5>1, <5>2, <5>3
      <4>2. stack'[i].path = stack[i].path /\ stack'[i].packed = stack[i].packed
        BY <2>1, <2>3, <4>1 DEF Top
      <4>3. stack'[1] = stack[1]
        BY <1>1, <2>3, <4>1
      <4>4. QED
        BY <1>2, <2>5, <4>1, <4>2, <4>3 DEF NotedAt
    <3>3. QED
      BY <3>1, <3>2
  <2>6. NotedAt(stack')
    BY <2>5 DEF NotedAt
  <2>7. QED
    BY <1>2, <2>1, <2>4, <2>6, RootNext
<1>5. QED
  BY <1>3, <1>4

LEMMA RootClose ==
    ASSUME RootInv, Running, PlacesInv', Len(stack) > 1,
           stack' = SubSeq(stack, 1, Len(stack) - 1), dest' = dest, ret' = ret
    PROVE  RootInv'
<1>1. StreamInv /\ Len(stack) \in Nat
  BY RootTop
<1>2. /\ Len(stack') = Len(stack) - 1
      /\ \A i \in 1..(Len(stack) - 1) : stack'[i] = stack[i]
  BY <1>1, PoppedStack
<1>3. /\ stack[1].path = <<>> /\ NotedAt(stack) /\ ret # "ok"
      /\ RootInOrder(dest, stack[1].seen, stack[1].fixed)
  BY RootNow
<1>4. stack'[1] = stack[1]
  <2>1. 1 \in 1..(Len(stack) - 1)
    BY <1>1
  <2>2. QED
    BY <1>2, <2>1
<1>5. NotedAt(stack')
  <2>1. \A i \in 2..Len(stack') : i \in 2..Len(stack) /\ stack'[i] = stack[i]
    BY <1>1, <1>2
  <2>2. QED
    BY <1>3, <1>4, <2>1 DEF NotedAt
<1>6. QED
  BY <1>3, <1>4, <1>5, RootNext

(* An array of fixed count that is begun, and one that gets its next item. *)
LEMMA ArrayBegins ==
    ASSUME NEW t \in FixedScalars, NEW d, NEW e, CountsTyped(d), CountsTyped(e), NEW fixed, NEW c,
           fixed = t => c = Count(d, <<t>>), fixed # t => c = 0,
           ArrayInOrder(d, fixed, t), Count(e, <<t>>) = c,
           \A n \in Nat \ {0} : <<t, n>> \in DOMAIN e <=> <<t, n>> \in DOMAIN d
    PROVE  ArrayInOrder(e, t, t)
<1>1. t \in Nat
  BY TrackedIs
<1>2. \A n : n \in ItemsOf(e, t) <=> n \in ItemsOf(d, t)
  <2>1. \A n : n \in ItemsOf(d, t) <=> n \in Nat \ {0} /\ <<t, n>> \in DOMAIN d
    BY <1>1, ItemsAre
  <2>2. \A n : n \in ItemsOf(e, t) <=> n \in Nat \ {0} /\ <<t, n>> \in DOMAIN e
    BY <1>1, ItemsAre, Zenon
  <2>3. QED
    BY <2>1, <2>2
<1>3. ItemsOf(e, t) = ItemsOf(d, t)
  BY <1>2
<1>4. QED
  BY <1>3 DEF ArrayInOrder

LEMMA ArrayGrows ==
    ASSUME NEW t \in FixedScalars, NEW d, NEW e, CountsTyped(d), CountsTyped(e), NEW fixed, NEW c \in Nat,
           fixed = t => c = Count(d, <<t>>), fixed # t => c = 0,
           ArrayInOrder(d, fixed, t), Count(e, <<t>>) = c + 1, c + 1 <= Schema[Root][t].max,
           \A n \in Nat \ {0} : <<t, n>> \in DOMAIN e <=> <<t, n>> \in DOMAIN d \/ n = c + 1
    PROVE  ArrayInOrder(e, t, t)
<1> DEFINE max == Schema[Root][t].max
<1>1. t \in Nat
  BY TrackedIs
<1>2. max \in Nat
  BY TrackedIs, FieldAt, SchemaAssumption
<1>3. \A n : n \in ItemsOf(e, t) <=> n \in ItemsOf(d, t) \/ n = c + 1
  <2>1. \A n : n \in ItemsOf(d, t) <=> n \in Nat \ {0} /\ <<t, n>> \in DOMAIN d
    BY <1>1, ItemsAre, Zenon
  <2>2. \A n : n \in ItemsOf(e, t) <=> n \in Nat \ {0} /\ <<t, n>> \in DOMAIN e
    BY <1>1, ItemsAre, Zenon
  <2>3. c + 1 \in Nat \ {0}
    OBVIOUS
  <2>4. QED
    BY <2>1, <2>2, <2>3
<1>4. ItemsOf(e, t) = ItemsOf(d, t) \cup {c + 1}
  BY <1>3
<1> HIDE DEF max
<1>5. c + 1 \in 1..max
  BY <1>2 DEF max
<1>6. CASE ItemsOf(d, t) = 1..max
  <2>1. ItemsOf(e, t) = 1..max
    BY <1>4, <1>5, <1>6
  <2>2. QED
    BY <2>1 DEF ArrayInOrder, max
<1>7. CASE ItemsOf(d, t) = 1..c
  <2>1. 1..(c + 1) = 1..c \cup {c + 1}
    OBVIOUS
  <2>2. ItemsOf(e, t) = 1..(c + 1)
    BY <1>4, <1>7, <2>1
  <2>3. QED
    BY <2>2 DEF ArrayInOrder
<1>8. CASE ItemsOf(d, t) = {} /\ fixed # t
  <2>1. 1..c = {}
    BY <1>8
  <2>2. QED
    BY <1>7, <1>8, <2>1
<1>9. QED
  BY <1>6, <1>7, <1>8 DEF ArrayInOrder, max

LEMMA MessageKeepsRoot ==
    ASSUME RootInv, PlacesInv', ReadTag \/ BadTag \/ EndMessage \/ MissingRequired
    PROVE  RootInv'
<1>0. Running
  BY DEF ReadTag, BadTag, EndMessage, NoMoreFields, MissingRequired, AtTag
<1>a. /\ StreamInv /\ stack[1].msg = Root /\ Len(stack) \in Nat \ {0}
      /\ Len(stack) = 1 => Top = stack[1]
  BY RootTop
<1>b. stack[1].path = <<>> /\ RootInOrder(dest, stack[1].seen, stack[1].fixed) /\ NotedAt(stack)
  BY <1>0, RootNow
<1>1. CASE ReadTag
  <2> DEFINE temp == Varint32(Rest)
             f == [Top EXCEPT !.left = Top.left - temp.len]
  <2>1. temp.len \in 0..Top.left /\ Top \in FrameType /\ Top.left \in Nat
    BY <1>a, RestFacts, TopFacts, Varint32Type
  <2> HIDE DEF temp
  <2>2. Top.left - temp.len \in Nat
    BY <2>1
  <2>3. f \in FrameType /\ f.path = Top.path /\ f.packed = Top.packed /\ f.seen = Top.seen /\ f.fixed = Top.fixed
    BY <2>1, <2>2 DEF FrameType
  <2>4. stack' = [stack EXCEPT ![Len(stack)].left = @ - temp.len] /\ dest' = dest /\ ret' = ret
    BY <1>1 DEF ReadTag, AtTag, temp
  <2>5. stack' = [stack EXCEPT ![Len(stack)] = f]
    BY <2>4 DEF Top
  <2> HIDE DEF f
  <2>6. /\ Len(stack) = 1 => RootInOrder(dest', f.seen, f.fixed)
        /\ Len(stack) # 1 => RootInOrder(dest', stack[1].seen, stack[1].fixed)
    BY <1>a, <1>b, <2>3, <2>4
  <2>7. QED
    BY <1>0, <2>3, <2>4, <2>5, <2>6, RootRead
<1>2. CASE BadTag
  BY <1>2, RootFail DEF BadTag
<1>3. CASE EndMessage
  <2>1. CASE Len(stack) > 1
    <3>1. stack' = SubSeq(stack, 1, Len(stack) - 1) /\ dest' = dest /\ ret' = ret
      BY <1>3, <2>1 DEF EndMessage, Close
    <3>2. QED
      BY <1>0, <2>1, <3>1, RootClose
  <2>2. CASE ~(Len(stack) > 1)
    <3>1. UNCHANGED <<stack, dest>> /\ ret' = "ok" /\ FixedFull(Top) /\ Tracked(Top.msg) \subseteq Top.seen
      BY <1>3, <2>2 DEF EndMessage
    <3>2. Top = stack[1]
      <4>1. Len(stack) = 1
        BY <1>a, <2>2
      <4>2. QED
        BY <1>a, <4>1
    <3>3. FixedFull(stack[1])' /\ Tracked(Root) \subseteq stack'[1].seen
      BY <1>a, <3>1, <3>2 DEF FixedFull
    <3>4. RootInOrder(dest, stack[1].seen, stack[1].fixed)'
      BY <1>b, <3>1 DEF RootInOrder, ArrayInOrder, ItemsOf
    <3>5. \A i \in 2..Len(stack') :
             (stack'[i].path = <<>> /\ stack'[i].packed \in FixedScalars) => stack'[1].fixed = stack'[i].packed
      BY <1>b, <3>1 DEF NotedAt
    <3>6. QED
      BY <1>b, <3>1, <3>3, <3>4, <3>5 DEF RootInv
  <2>3. QED
    BY <2>1, <2>2
<1>4. CASE MissingRequired
  BY <1>4, RootFail DEF MissingRequired
<1>5. QED
  BY <1>1, <1>2, <1>3, <1>4

(* At a field of another message nothing of the whole message is at hand.  *)
LEMMA AllElsewhere ==
    ASSUME RootInv, AtField, Len(stack) # 1, NEW t \in FixedScalars \cup RequiredScalars
    PROVE  Elsewhere(t)
<1>1. Top.packed = 0 /\ (Top.packed # 0 \/ Top.path # <<>>)
  BY RootTop, TopPlaced DEF AtField
<1>2. QED
  BY <1>1 DEF Elsewhere

LEMMA AtRoot ==
    ASSUME RootInv, AtField, Known, Len(stack) = 1
    PROVE  /\ Top = stack[1] /\ Top.path = <<>> /\ Top.msg = Root
           /\ Tag \in Nat \ {0} /\ Path = <<Tag>> /\ Field = Schema[Root][Tag]
           /\ Tag \in DOMAIN Schema[Root]
<1>1. Top = stack[1] /\ Top.path = <<>> /\ Top.msg = Root /\ PlacesInv
  BY RootTop DEF RootInv
<1>2. Tag \in Nat \ {0}
  BY <1>1, PathPlaced
<1>3. Append(<<>>, Tag) = <<Tag>>
  BY <1>2, PairIs
<1>4. QED
  BY <1>1, <1>2, <1>3 DEF Path, Field, Known

(* A field with a callback is none that RootInOrder speaks of.             *)
LEMMA CallbackElsewhere ==
    ASSUME RootInv, AtField, Known, Field.atype = "callback"
    PROVE  /\ Len(stack) = 1 => Tag \notin FixedScalars \cup RequiredScalars
           /\ \A t \in FixedScalars \cup RequiredScalars : Elsewhere(t)
<1>1. CASE Len(stack) = 1
  <2>1. Tag \notin FixedScalars \cup RequiredScalars
    BY <1>1, AtRoot, TrackedIs
  <2>2. QED
    BY <2>1 DEF Elsewhere
<1>2. CASE Len(stack) # 1
  BY <1>2, AllElsewhere
<1>3. QED
  BY <1>1, <1>2

(* The structure d after a field the whole message may or may not have.    *)
LEMMA OrderAnywhere ==
    ASSUME RootInv, AtField, Known, ~LeavesFixed, NEW d,
           \A t \in FixedScalars \cup RequiredScalars : Elsewhere(t) => SameAt(dest, d, t),
           Len(stack) = 1 => /\ Tag \in RequiredScalars => <<Tag>> \in DOMAIN d
                             /\ Tag \in FixedScalars => ArrayInOrder(d, Tag, Tag)
    PROVE  /\ Len(stack) = 1 => \A n : RootInOrder(d, After(n, Tag).seen, After(n, Tag).fixed)
           /\ Len(stack) # 1 => RootInOrder(d, stack[1].seen, stack[1].fixed)
<1>1. CASE Len(stack) = 1
  <2>1. ASSUME NEW n PROVE RootInOrder(d, After(n, Tag).seen, After(n, Tag).fixed)
    BY <1>1, OrderAtRoot
  <2>2. QED
    BY <1>1, <2>1
<1>2. CASE Len(stack) # 1
  <2>1. \A t \in FixedScalars \cup RequiredScalars : SameAt(dest, d, t)
    BY <1>2, AllElsewhere
  <2>2. RootInOrder(dest, stack[1].seen, stack[1].fixed)
    BY RootNow DEF AtField
  <2>3. QED
    BY <1>2, <2>1, <2>2, OrderElsewhere
<1>3. QED
  BY <1>1, <1>2

(* A scalar of the whole message is stored.                                *)
LEMMA ScalarInOrder ==
    ASSUME RootInv, AtField, Known, Field.atype = "static", ~Overfull, Len(stack) = 1, NEW v
    PROVE  /\ Tag \in RequiredScalars => <<Tag>> \in DOMAIN Stored(Flagged, v)
           /\ Tag \in FixedScalars => ArrayInOrder(Stored(Flagged, v), Tag, Tag)
<1> DEFINE e == Stored(Flagged, v)
<1>1. /\ PlacesInv /\ Top = stack[1] /\ Path = <<Tag>> /\ Field = Schema[Root][Tag]
      /\ Tag \in Nat \ {0} /\ Tag \in DOMAIN Schema[Root]
  BY AtRoot DEF RootInv
<1>2. CountsTyped(dest) /\ CountsTyped(e) /\ ItemCount \in Nat
  BY <1>1, FlaggedFacts, PathPlaced DEF PlacesInv, PbInv
<1>3. ASSUME Tag \in RequiredScalars PROVE <<Tag>> \in DOMAIN e
  <2>1. ~IsItem
    BY <1>1, <1>3 DEF IsItem, RequiredScalars, Tracked, Required
  <2>2. Target = <<Tag>>
    BY <1>1, <2>1 DEF Target
  <2>3. QED
    BY <2>2 DEF Stored, Put
<1>4. ASSUME Tag \in FixedScalars PROVE ArrayInOrder(e, Tag, Tag)
  <2> DEFINE c == ItemCount
             d == Put(dest, Append(Path, 0), c + 1)
  <2>1. IsItem /\ FixedCount(Field)
    BY <1>1, <1>4 DEF IsItem, FixedScalars, FixedCount
  <2>2. c + 1 <= Schema[Root][Tag].max
    <3>1. ItemCount <= Field.max /\ Field.max \in Nat
      BY <1>1, <2>1, ItemCountBound
    <3>2. QED
      BY <1>1, <1>2, <2>1, <3>1 DEF Overfull
  <2>3. \A n \in Nat : Append(Path, n) = <<Tag, n>>
    BY <1>1, PairIs
  <2>4. e = Put(d, <<Tag, c + 1>>, v) /\ d = Put(dest, <<Tag, 0>>, c + 1)
    <3>1. Flagged = d /\ Target = Append(Path, c + 1)
      BY <2>1 DEF Flagged, Target, IsItem
    <3>2. c + 1 \in Nat
      BY <1>2
    <3>3. QED
      BY <2>1, <2>3, <3>1, <3>2 DEF Stored, IsItem
  <2>5. \A n \in Nat : \A k \in Nat : <<Tag, n>> = <<Tag, k>> => n = k
    OBVIOUS
  <2>6. c \in Nat /\ c + 1 \in Nat /\ c + 1 # 0
    BY <1>2
  <2>7. (Top.fixed = Tag => c = Count(dest, <<Tag>>)) /\ (Top.fixed # Tag => c = 0)
    BY <1>1, <2>1 DEF ItemCount
  <2> HIDE DEF c, d, e
  <2>8. DOMAIN e = DOMAIN dest \cup {<<Tag, 0>>, <<Tag, c + 1>>} /\ e[<<Tag, 0>>] = c + 1
    BY <2>4, <2>5, <2>6 DEF Put
  <2>9. Count(e, <<Tag>>) = c + 1
    <3>1. Append(<<Tag>>, 0) = <<Tag, 0>>
      BY <1>1, PairIs
    <3>2. QED
      BY <2>8, <3>1 DEF Count, At
  <2>10. \A n \in Nat \ {0} : <<Tag, n>> \in DOMAIN e <=> <<Tag, n>> \in DOMAIN dest \/ n = c + 1
    BY <2>5, <2>6, <2>8
  <2>11. ArrayInOrder(dest, Top.fixed, Tag)
    BY <1>1, <1>4, RootNow DEF RootInOrder, AtField
  <2>12. CountsTyped(e) /\ CountsTyped(dest)
    BY <1>2 DEF e
  <2>13. QED
    BY <1>4, <2>2, <2>6, <2>7, <2>9, <2>10, <2>11, <2>12, ArrayGrows
<1>5. QED
  BY <1>3, <1>4

(* The count of an array of the whole message is set.                      *)
LEMMA CountInOrder ==
    ASSUME RootInv, AtField, Known, IsItem, Len(stack) = 1
    PROVE  /\ Tag \notin RequiredScalars
           /\ Tag \in FixedScalars => ArrayInOrder(Counted, Tag, Tag)
<1>1. /\ PlacesInv /\ Top = stack[1] /\ Path = <<Tag>> /\ Field = Schema[Root][Tag]
      /\ Tag \in Nat \ {0} /\ Tag \in DOMAIN Schema[Root]
  BY AtRoot DEF RootInv
<1>2. CountsTyped(dest) /\ CountsTyped(Counted) /\ ItemCount \in Nat
  BY <1>1, TargetFacts DEF PlacesInv, PbInv
<1>3. Tag \notin RequiredScalars
  BY <1>1 DEF IsItem, RequiredScalars, Tracked, Required
<1>4. ASSUME Tag \in FixedScalars PROVE ArrayInOrder(Counted, Tag, Tag)
  <2> DEFINE c == ItemCount
             e == Put(dest, <<Tag, 0>>, c)
  <2>1. FixedCount(Field)
    BY <1>1, <1>4 DEF FixedScalars
  <2>2. Counted = e
    <3>1. Append(Path, 0) = <<Tag, 0>>
      BY <1>1, PairIs
    <3>2. QED
      BY <2>1, <3>1 DEF Counted
  <2>3. \A n \in Nat : \A k \in Nat : <<Tag, n>> = <<Tag, k>> => n = k
    OBVIOUS
  <2>4. (Top.fixed = Tag => c = Count(dest, <<Tag>>)) /\ (Top.fixed # Tag => c = 0)
    BY <1>1, <2>1 DEF ItemCount
  <2> HIDE DEF c
  <2>5. DOMAIN e = DOMAIN dest \cup {<<Tag, 0>>} /\ e[<<Tag, 0>>] = c
    BY DEF Put
  <2> HIDE DEF e
  <2>6. Count(e, <<Tag>>) = c
    <3>1. Append(<<Tag>>, 0) = <<Tag, 0>>
      BY <1>1, PairIs
    <3>2. QED
      BY <2>5, <3>1 DEF Count, At
  <2>7. \A n \in Nat \ {0} : <<Tag, n>> \in DOMAIN e <=> <<Tag, n>> \in DOMAIN dest
    BY <2>3, <2>5
  <2>8. ArrayInOrder(dest, Top.fixed, Tag)
    BY <1>1, <1>4, RootNow DEF RootInOrder, AtField
  <2>9. CountsTyped(e) /\ CountsTyped(dest)
    BY <1>2, <2>2
  <2>10. ArrayInOrder(e, Tag, Tag)
    BY <1>4, <2>4, <2>6, <2>7, <2>8, <2>9, ArrayBegins
  <2>11. QED
    BY <2>2, <2>10
<1>5. QED
  BY <1>3, <1>4

LEMMA FieldKeepsRoot ==
    ASSUME RootInv, PlacesInv',
           \/ WrongFixedCount \/ SkipField \/ CannotSkip
           \/ ArrayOverflow \/ DecodeScalar \/ DecodeSubmessage \/ OpenPacked
    PROVE  RootInv'
<1>0. /\ AtField /\ Running /\ PlacesInv /\ StreamInv /\ Tag \in Nat
      /\ RootInOrder(dest, stack[1].seen, stack[1].fixed)
  <2>1. AtField
    BY DEF WrongFixedCount, SkipField, CannotSkip, Skippable, ArrayOverflow, DecodeScalar,
           DecodeSubmessage, OpenPacked, IsStatic, AtKnown
  <2>2. PlacesInv /\ StreamInv /\ PbInv /\ Running
    BY <2>1 DEF RootInv, PlacesInv, PbInv, AtField
  <2>3. QED
    BY <2>1, <2>2, FieldFacts, RootNow
<1>1. CASE WrongFixedCount
  BY <1>1, RootFail DEF WrongFixedCount
<1>2. CASE SkipField
  <2>1. PICK n \in Lengths : Proceed(n, Tag, IF Known THEN Counted ELSE dest)
    BY <1>2 DEF SkipField
  <2>2. n \in 0..Top.left
    BY <1>0, SkippedFacts
  <2>3. CASE Known
    <3>1. Field.atype = "callback" /\ ~LeavesFixed /\ Proceed(n, Tag, Counted)
      BY <1>2, <2>1, <2>3 DEF SkipField, Skippable, AtKnown
    <3>2. \A t \in FixedScalars \cup RequiredScalars : Elsewhere(t) => SameAt(dest, Counted, t)
      BY <1>0, <2>3, CountedSame
    <3>3. Len(stack) = 1 => Tag \notin FixedScalars \cup RequiredScalars
      BY <1>0, <2>3, <3>1, CallbackElsewhere
    <3>4. /\ Len(stack) = 1 => \A k : RootInOrder(Counted, After(k, Tag).seen, After(k, Tag).fixed)
          /\ Len(stack) # 1 => RootInOrder(Counted, stack[1].seen, stack[1].fixed)
      BY <1>0, <2>3, <3>1, <3>2, <3>3, OrderAnywhere
    <3>5. QED
      BY <1>0, <2>2, <3>1, <3>4, RootProceed
  <2>4. CASE ~Known
    <3>1. Proceed(n, Tag, dest) /\ Tag \notin DOMAIN Schema[Top.msg]
      BY <2>1, <2>4 DEF Known
    <3>2. After(n, Tag).seen = Top.seen /\ After(n, Tag).fixed = Top.fixed
      BY <1>0, <3>1, AfterSeen DEF Tracked, Required
    <3>3. Len(stack) = 1 => RootInOrder(dest, After(n, Tag).seen, After(n, Tag).fixed)
      BY <1>0, <3>2, RootTop
    <3>4. QED
      BY <1>0, <2>2, <3>1, <3>3, RootProceed
  <2>5. QED
    BY <2>3, <2>4
<1>3. CASE CannotSkip
  BY <1>3, RootFail DEF CannotSkip
<1>4. CASE ArrayOverflow
  BY <1>4, RootFail DEF ArrayOverflow
<1>5. CASE DecodeScalar
  <2> DEFINE r == Decoded(Field, Rest)
             d == IF r.stored THEN Stored(Flagged, r.value) ELSE Flagged
  <2>1. Known /\ Field.atype = "static" /\ ~Overfull /\ ~LeavesFixed
    BY <1>5 DEF DecodeScalar, IsStatic, AtKnown
  <2>2. r.ok => r.len \in 0..Top.left /\ r.stored
    BY <1>0, RestFacts, DecodedFacts, FixedStored
  <2>3. IF r.ok THEN Proceed(r.len, Tag, d) ELSE Fail(d)
    BY <1>5 DEF DecodeScalar
  <2> HIDE DEF r
  <2>4. CASE r.ok
    <3> DEFINE e == Stored(Flagged, r.value)
    <3>1. d = e /\ r.len \in 0..Top.left /\ Proceed(r.len, Tag, e)
      BY <2>2, <2>3, <2>4
    <3>2. \A t \in FixedScalars \cup RequiredScalars : Elsewhere(t) => SameAt(dest, e, t)
      BY <1>0, <2>1, StoredSame
    <3>3. Len(stack) = 1 => /\ Tag \in RequiredScalars => <<Tag>> \in DOMAIN e
                            /\ Tag \in FixedScalars => ArrayInOrder(e, Tag, Tag)
      BY <1>0, <2>1, ScalarInOrder
    <3> HIDE DEF e
    <3>4. /\ Len(stack) = 1 => \A n : RootInOrder(e, After(n, Tag).seen, After(n, Tag).fixed)
          /\ Len(stack) # 1 => RootInOrder(e, stack[1].seen, stack[1].fixed)
      BY <1>0, <2>1, <3>2, <3>3, OrderAnywhere
    <3>5. QED
      BY <1>0, <3>1, <3>4, RootProceed
  <2>5. CASE ~r.ok
    BY <2>3, <2>5, RootFail
  <2>6. QED
    BY <2>4, <2>5
<1>6. CASE DecodeSubmessage
  <2> DEFINE opened == IF IsItem THEN Defaults(Flagged, Target) ELSE Flagged
  <2>1. /\ Known /\ Field.ltype = "submessage" /\ Field.atype = "static" /\ ~LeavesFixed
        /\ OpenSized(Field.sub, Target, 0, Flagged, opened)
    BY <1>6 DEF DecodeSubmessage, IsStatic, AtKnown
  <2>2. \A t \in FixedScalars \cup RequiredScalars : SameAt(dest, opened, t)
    BY <1>0, <2>1, OpenedSame
  <2> HIDE DEF opened
  <2>3. Len(stack) = 1 => Tag \notin FixedScalars \cup RequiredScalars
    BY <1>0, <2>1, AtRoot, TrackedIs
  <2>4. /\ Len(stack) = 1 => \A n : RootInOrder(opened, After(n, Tag).seen, After(n, Tag).fixed)
        /\ Len(stack) # 1 => RootInOrder(opened, stack[1].seen, stack[1].fixed)
    BY <1>0, <2>1, <2>2, <2>3, OrderAnywhere
  <2>5. Field.sub \in DOMAIN Schema /\ Target \in Seq(Nat)
    BY <1>0, <2>1, FieldFacts, TargetFacts DEF PlacesInv
  <2>6. 0 \notin FixedScalars /\ 0 \in Nat
    BY TrackedIs
  <2>7. QED
    BY <1>0, <2>1, <2>4, <2>5, <2>6, RootOpenSized
<1>7. CASE OpenPacked
  <2>1. /\ Known /\ IsItem /\ ~LeavesFixed
        /\ OpenSized(Top.msg, Top.path, Tag, dest, Counted)
    BY <1>7 DEF OpenPacked, IsStatic, AtKnown, Packed
  <2>2. \A t \in FixedScalars \cup RequiredScalars : Elsewhere(t) => SameAt(dest, Counted, t)
    BY <1>0, <2>1, CountedSame
  <2>3. Len(stack) = 1 => /\ Tag \in RequiredScalars => <<Tag>> \in DOMAIN Counted
                          /\ Tag \in FixedScalars => ArrayInOrder(Counted, Tag, Tag)
    BY <1>0, <2>1, CountInOrder
  <2>4. /\ Len(stack) = 1 => \A n : RootInOrder(Counted, After(n, Tag).seen, After(n, Tag).fixed)
        /\ Len(stack) # 1 => RootInOrder(Counted, stack[1].seen, stack[1].fixed)
    BY <1>0, <2>1, <2>2, <2>3, OrderAnywhere
  <2>5. Top.msg \in DOMAIN Schema /\ Top.path \in Seq(Nat) /\ Top.packed = 0
    BY <1>0, <2>1, PathPlaced
  <2>6. Top.path = <<>> => Len(stack) = 1
    BY <2>5, RootTop
  <2>7. ASSUME Top.path = <<>>, Tag \in FixedScalars, NEW n PROVE After(n, Tag).fixed = Tag
    <3>1. Top.msg = Root
      BY <1>0, <2>1, <2>6, <2>7, AtRoot
    <3>2. QED
      BY <1>0, <2>7, <3>1, AfterSeen DEF FixedScalars
  <2>8. QED
    BY <1>0, <2>1, <2>4, <2>5, <2>6, <2>7, RootOpenSized
<1>8. QED
  BY <1>1, <1>2, <1>3, <1>4, <1>5, <1>6, <1>7

(* An item of a packed array of the whole message is stored.               *)
LEMMA PackedInOrder ==
    ASSUME RootInv, Running, Top.packed # 0, PackedField.atype = "static", ~PackedFull,
           NEW t \in FixedScalars, Top.path = <<>>, Top.packed = t, NEW n, n = Count(dest, PackedPath) + 1,
           NEW v, NEW e, e = Put(Put(dest, Append(PackedPath, n), v), Append(PackedPath, 0), n),
           CountsTyped(e)
    PROVE  ArrayInOrder(e, stack[1].fixed, t)
<1>1. /\ PlacesInv /\ StreamInv /\ CountsTyped(dest) /\ Top.msg \in DOMAIN Schema
      /\ Location(Top.path) = Spot("message", Top.msg, 0) /\ t \in Nat \ {0} /\ Len(stack) \in Nat \ {0}
  BY RootTop, TopPlaced, TrackedIs
<1>2. PackedPath = <<t>> /\ PackedField = Schema[Root][t]
  <2>1. Append(<<>>, t) = <<t>>
    BY <1>1, PairIs
  <2>2. Top.msg = Root
    BY <1>1, LocationRoot, SpotFields
  <2>3. QED
    BY <2>1, <2>2 DEF PackedPath, PackedField
<1>3. stack[1].fixed = t
  <2>1. Len(stack) > 1
    BY <1>1, PackedPlaced
  <2>2. Len(stack) \in 2..Len(stack)
    BY <1>1, <2>1
  <2>3. QED
    BY <2>2, RootNow DEF NotedAt, Top
<1> DEFINE c == Count(dest, <<t>>)
<1>4. c \in Nat /\ n = c + 1 /\ c + 1 # 0 /\ c + 1 \in Nat /\ c + 1 <= Schema[Root][t].max
  <2>1. c \in Nat /\ Schema[Root][t].max \in Nat
    BY <1>1, <1>2, PackedPlaced
  <2>2. ~(c >= Schema[Root][t].max)
    BY <1>2 DEF PackedFull
  <2>3. n = c + 1
    BY <1>2
  <2> HIDE DEF c
  <2>4. QED
    BY <2>1, <2>2, <2>3
<1>5. \A j \in Nat : Append(PackedPath, j) = <<t, j>>
  BY <1>1, <1>2, PairIs
<1>6. e = Put(Put(dest, <<t, c + 1>>, v), <<t, 0>>, c + 1)
  BY <1>4, <1>5
<1>7. \A i \in Nat : \A k \in Nat : <<t, i>> = <<t, k>> => i = k
  OBVIOUS
<1>8. c = Count(dest, <<t>>)
  OBVIOUS
<1> HIDE DEF c
<1>9. DOMAIN e = DOMAIN dest \cup {<<t, 0>>, <<t, c + 1>>} /\ e[<<t, 0>>] = c + 1
  BY <1>6 DEF Put
<1>10. Count(e, <<t>>) = c + 1
  <2>1. Append(<<t>>, 0) = <<t, 0>>
    BY <1>1, PairIs
  <2>2. QED
    BY <1>9, <2>1 DEF Count, At
<1>11. \A i \in Nat \ {0} : <<t, i>> \in DOMAIN e <=> <<t, i>> \in DOMAIN dest \/ i = c + 1
  BY <1>4, <1>7, <1>9
<1>12. ArrayInOrder(dest, stack[1].fixed, t)
  BY RootNow DEF RootInOrder
<1>13. QED
  BY <1>1, <1>3, <1>4, <1>8, <1>10, <1>11, <1>12, ArrayGrows

LEMMA PackedKeepsRoot ==
    ASSUME RootInv, PlacesInv', PbInv', DecodePacked \/ ClosePacked \/ PackedOverflow
    PROVE  RootInv'
<1>0. /\ Running /\ Top.packed # 0 /\ PackedField.atype = "static"
      /\ PlacesInv /\ StreamInv /\ CountsTyped(dest)
  BY RootTop DEF DecodePacked, ClosePacked, PackedOverflow, InPacked
<1>a. Len(stack) > 1 /\ Len(stack) # 1
  <2>1. Len(stack) > 1 /\ Len(stack) \in Nat
    BY <1>0, PackedPlaced, RootTop
  <2>2. QED
    BY <2>1
<1>1. CASE DecodePacked
  <2> DEFINE n == Count(dest, PackedPath) + 1
             r == Decoded(PackedField, Rest)
             d == IF r.stored THEN Put(dest, Append(PackedPath, n), r.value) ELSE dest
             g == Put(dest, Append(PackedPath, n), r.value)
             e == Put(g, Append(PackedPath, 0), n)
  <2>1. r.ok => r.len \in 0..Top.left /\ r.stored
    BY <1>0, RestFacts, DecodedFacts, FixedStored
  <2>2. IF r.ok THEN Proceed(r.len, 0, Put(d, Append(PackedPath, 0), n)) ELSE Fail(d)
    BY <1>1 DEF DecodePacked
  <2>3. CASE r.ok
    <3>1. Proceed(r.len, 0, e) /\ r.len \in 0..Top.left
      BY <2>1, <2>2, <2>3
    <3>2. /\ PackedPath \in Seq(Nat) /\ Count(dest, PackedPath) \in Nat /\ Top.path \in Seq(Nat)
          /\ Top.packed \in Nat \ {0} /\ Location(Top.path).kind = "message"
      BY <1>0, PackedPlaced, TopKind
    <3>3. n \in Nat \ {0} /\ n = Count(dest, PackedPath) + 1
      BY <3>2
    <3> HIDE DEF r, n
    <3>4. CountsTyped(g)
      BY <1>0, <3>2, <3>3, PutValue
    <3>5. CountsTyped(e)
      BY <3>2, <3>3, <3>4, PutCount
    <3>6. ASSUME NEW t \in FixedScalars \cup RequiredScalars, Top.path # <<>> \/ Top.packed # t
          PROVE  SameAt(dest, e, t)
      <4> DEFINE x == Top.packed
                 p == Top.path
      <4>a. p \in Seq(Nat) /\ Location(p).kind = "message" /\ x \in Nat /\ n \in Nat /\ 0 \in Nat
        BY <3>2, <3>3
      <4>b. p # <<>> \/ x # t
        BY <3>6
      <4>c. PackedPath = Append(p, x)
        BY DEF PackedPath
      <4> HIDE DEF x, p
      <4>d. \A y \in Nat : \A k \in Nat : Append(Append(p, x), y) # <<t, k>>
        BY <4>a, <4>b, FarPaths
      <4>1. \A k \in Nat : Append(PackedPath, n) # <<t, k>> /\ Append(PackedPath, 0) # <<t, k>>
        BY <4>a, <4>c, <4>d
      <4>2. SameAt(dest, g, t)
        BY <1>0, <3>4, <4>1, SamePut, TrackedIs
      <4>3. SameAt(g, e, t)
        BY <3>4, <3>5, <4>1, SamePut, TrackedIs
      <4>4. QED
        BY <4>2, <4>3, SameChain
    <3>7. RootInOrder(dest, stack[1].seen, stack[1].fixed)
      BY <1>0, RootNow
    <3>8. ASSUME NEW t \in stack[1].seen \cap RequiredScalars PROVE <<t>> \in DOMAIN e
      <4>1. <<t>> \in DOMAIN dest
        BY <3>7 DEF RootInOrder
      <4>2. QED
        BY <4>1 DEF Put
    <3>9. ASSUME NEW t \in FixedScalars PROVE ArrayInOrder(e, stack[1].fixed, t)
      <4>1. CASE Top.path = <<>> /\ Top.packed = t
        <5>1. ~PackedFull
          BY <1>1 DEF DecodePacked
        <5>2. QED
          BY <1>0, <3>3, <3>5, <4>1, <5>1, PackedInOrder
      <4>2. CASE Top.path # <<>> \/ Top.packed # t
        BY <3>6, <3>7, <4>2, OrderKept DEF RootInOrder
      <4>3. QED
        BY <4>1, <4>2
    <3> HIDE DEF g, e
    <3>10. RootInOrder(e, stack[1].seen, stack[1].fixed) /\ 0 \in Nat
      BY <3>8, <3>9 DEF RootInOrder
    <3>11. QED
      BY <1>0, <1>a, <3>1, <3>10, RootProceed
  <2>4. CASE ~r.ok
    <3> HIDE DEF r, d
    <3>1. Fail(d)
      BY <2>2, <2>4
    <3>2. QED
      BY <3>1, RootFail
  <2>5. QED
    BY <2>3, <2>4
<1>2. CASE ClosePacked
  <2>1. stack' = SubSeq(stack, 1, Len(stack) - 1) /\ dest' = dest /\ ret' = ret
    BY <1>2 DEF ClosePacked, Close
  <2>2. QED
    BY <1>0, <1>a, <2>1, RootClose
<1>3. CASE PackedOverflow
  BY <1>3, RootFail DEF PackedOverflow
<1>4. QED
  BY <1>1, <1>2, <1>3

LEMMA CallbackKeepsRoot ==
    ASSUME RootInv, PlacesInv', PbInv',
           \/ OpenCallback \/ CallbackReads \/ CallbackDone \/ CallbackFails
           \/ CallbackScalar \/ CallbackUnread
    PROVE  RootInv'
<1>0. /\ Running /\ PlacesInv /\ StreamInv /\ CountsTyped(dest)
      /\ RootInOrder(dest, stack[1].seen, stack[1].fixed)
  <2>1. Running
    BY DEF OpenCallback, CallbackReads, CallbackDone, CallbackFails, CallbackScalar, CallbackUnread,
           IsCallback, InCallback, AtKnown, AtField
  <2>2. QED
    BY <2>1, RootTop, RootNow
<1>1. CASE OpenCallback
  <2>1. /\ AtField /\ Known /\ Field.atype = "callback" /\ ~LeavesFixed
        /\ OpenSized(Top.msg, Top.path, Tag, Counted, Counted)
    BY <1>1 DEF OpenCallback, IsCallback, AtKnown
  <2>2. \A t \in FixedScalars \cup RequiredScalars : Elsewhere(t) => SameAt(dest, Counted, t)
    BY <1>0, <2>1, CountedSame
  <2>3. Len(stack) = 1 => Tag \notin FixedScalars \cup RequiredScalars
    BY <2>1, CallbackElsewhere
  <2>4. /\ Len(stack) = 1 => \A n : RootInOrder(Counted, After(n, Tag).seen, After(n, Tag).fixed)
        /\ Len(stack) # 1 => RootInOrder(Counted, stack[1].seen, stack[1].fixed)
    BY <2>1, <2>2, <2>3, OrderAnywhere
  <2>5. Top.msg \in DOMAIN Schema /\ Top.path \in Seq(Nat) /\ Top.packed = 0 /\ Tag \in Nat
    BY <1>0, <2>1, PathPlaced
  <2>6. ~(Top.path = <<>> /\ Tag \in FixedScalars)
    BY <2>3, <2>5, RootTop
  <2>7. QED
    BY <2>1, <2>4, <2>5, <2>6, RootOpenSized
<1>2. CASE CallbackReads
  <2> DEFINE v(n) == dest[PackedPath] \o SubSeq(Rest, 1, n)
             e(n) == Put(dest, PackedPath, v(n))
  <2>1. PICK n \in 1..Top.left : Proceed(n, 0, e(n))
    BY <1>2 DEF CallbackReads
  <2>2. /\ Top.packed \in Nat \ {0} /\ Top.path \in Seq(Nat) /\ Location(Top.path).kind = "message"
        /\ Len(stack) # 1
    <3>1. Top.packed # 0
      BY <1>2 DEF CallbackReads, InCallback
    <3>2. Len(stack) > 1 /\ Len(stack) \in Nat
      BY <1>0, <3>1, PackedPlaced, RootTop
    <3>3. Len(stack) # 1
      <4>1. \A k \in Nat : k > 1 => k # 1
        OBVIOUS
      <4>2. QED
        BY <3>2, <4>1
    <3>4. QED
      BY <1>0, <3>1, <3>3, PackedPlaced, TopKind
  <2>3. PackedPath = Append(Top.path, Top.packed)
    BY DEF PackedPath
  <2> HIDE DEF v
  <2>4. CountsTyped(e(n))
    BY <1>0, <2>2, <2>3, PutValue
  <2>5. ASSUME NEW t \in FixedScalars \cup RequiredScalars PROVE SameAt(dest, e(n), t)
    <3>1. \A k \in Nat : PackedPath # <<t, k>>
      BY <2>2, <2>3, FarPaths
    <3>2. QED
      BY <1>0, <2>4, <3>1, SamePut, TrackedIs
  <2> HIDE DEF e
  <2>6. RootInOrder(e(n), stack[1].seen, stack[1].fixed)
    BY <1>0, <2>5, OrderElsewhere
  <2>7. n \in 0..Top.left /\ 0 \in Nat
    OBVIOUS
  <2>8. QED
    BY <1>0, <2>1, <2>2, <2>6, <2>7, RootProceed
<1>3. CASE CallbackDone
  <2>1. stack' = SubSeq(stack, 1, Len(stack) - 1) /\ dest' = dest /\ ret' = ret
    BY <1>3 DEF CallbackDone, Close
  <2>2. Len(stack) > 1
    BY <1>0, <1>3, PackedPlaced DEF CallbackDone, InCallback
  <2>3. QED
    BY <1>0, <2>1, <2>2, RootClose
<1>4. CASE CallbackFails
  BY <1>4, RootFail DEF CallbackFails
<1>5. CASE CallbackScalar
  <2> DEFINE v(n) == dest[Path] \o SubSeq(Rest, 1, n)
             e(n) == Put(Counted, Path, v(n))
  <2>1. PICK n \in Raw(Rest) : Proceed(n, Tag, e(n))
    BY <1>5 DEF CallbackScalar
  <2>2. AtField /\ Known /\ Field.atype = "callback" /\ ~LeavesFixed
    BY <1>5 DEF CallbackScalar, IsCallback, AtKnown
  <2>3. /\ Tag \in Nat \ {0} /\ Top.path \in Seq(Nat) /\ Location(Top.path).kind = "message"
        /\ Path = Append(Top.path, Tag) /\ n \in 0..Top.left /\ CountsTyped(Counted)
    BY <1>0, <2>2, PathPlaced, TopKind, RawFacts, TargetFacts DEF Path, PlacesInv
  <2> HIDE DEF v
  <2>4. CountsTyped(e(n))
    BY <2>3, PutValue
  <2>5. ASSUME NEW t \in FixedScalars \cup RequiredScalars, Elsewhere(t) PROVE SameAt(dest, e(n), t)
    <3>1. \A k \in Nat : Path # <<t, k>>
      BY <2>3, FarPaths
    <3>2. SameAt(dest, Counted, t)
      BY <1>0, <2>2, <2>5, CountedSame
    <3>3. SameAt(Counted, e(n), t)
      BY <2>3, <2>4, <3>1, SamePut, TrackedIs
    <3>4. QED
      BY <3>2, <3>3, SameChain
  <2> HIDE DEF e
  <2>6. Len(stack) = 1 => Tag \notin FixedScalars \cup RequiredScalars
    BY <2>2, CallbackElsewhere
  <2>7. /\ Len(stack) = 1 => \A k : RootInOrder(e(n), After(k, Tag).seen, After(k, Tag).fixed)
        /\ Len(stack) # 1 => RootInOrder(e(n), stack[1].seen, stack[1].fixed)
    BY <2>2, <2>5, <2>6, OrderAnywhere
  <2>8. QED
    BY <1>0, <2>1, <2>3, <2>7, RootProceed
<1>6. CASE CallbackUnread
  BY <1>6, RootFail DEF CallbackUnread
<1>7. QED
  BY <1>1, <1>2, <1>3, <1>4, <1>5, <1>6

LEMMA StartRoot ==
    ASSUME NEW b \in Seq(Byte), Started(b)
    PROVE  RootInv
<1>1. PlacesInv
  BY StartPlaces
<1> DEFINE f == Frame(Root, <<>>, Len(b), 0, 0)
<1>3. stack = <<f>> /\ dest = Empty /\ ret = "running"
  BY DEF Started
<1>4. f.path = <<>> /\ f.seen = {} /\ f.fixed = 0
  BY DEF Frame
<1> HIDE DEF f
<1>5. Len(stack) = 1 /\ stack[1] = f
  BY <1>3
<1>6. ASSUME NEW t \in FixedScalars PROVE ItemsOf(dest, t) = {} /\ t # 0
  <2>1. CountsTyped(dest) /\ t \in Nat \ {0} /\ Location(<<t>>) = Spot("field", Root, t)
        /\ StaticArray(Schema[Root][t]) /\ ~StaticMessage(Schema[Root][t])
        /\ Root \in DOMAIN Schema /\ t \in DOMAIN Schema[Root]
    BY <1>1, TrackedIs, RootTop, SchemaAssumption
       DEF PlacesInv, PbInv, FixedScalars, FixedCount, RootScalar, StaticArray, StaticMessage
  <2>2. ASSUME NEW n \in Nat \ {0} PROVE <<t, n>> \notin DOMAIN dest
    <3>1. <<t, n>> = Append(<<t>>, n) /\ <<t>> \in Seq(Nat)
      BY <2>1, PairIs
    <3>2. Location(Append(<<t>>, n)) = ArraySpot(Root, t, n)
      BY <2>1, <3>1, FieldSpots
    <3>3. Location(<<t, n>>) = Spot("item", Root, t)
      BY <2>1, <3>1, <3>2 DEF ArraySpot
    <3>4. Location(<<t, n>>).kind # "field"
      BY <3>3, SpotFields
    <3>5. <<t, n>> \notin Callbacks
      BY <3>4, CallbackPlaces
    <3>6. QED
      BY <1>3, <3>5 DEF Empty
  <2>3. \A n : n \notin ItemsOf(dest, t)
    BY <2>1, <2>2, ItemsAre
  <2>4. QED
    BY <2>1, <2>3
<1>7. RootInOrder(dest, stack[1].seen, stack[1].fixed)
  BY <1>4, <1>5, <1>6 DEF RootInOrder, ArrayInOrder
<1>8. \A i \in 2..Len(stack) : FALSE
  BY <1>5
<1>9. QED
  BY <1>1, <1>3, <1>4, <1>5, <1>7, <1>8 DEF RootInv

LEMMA RootInit == PbInit => RootInv
BY StartRoot, InputsAssumption DEF PbInit

LEMMA RootStep ==
    ASSUME RootInv, [PbNext]_pbVars
    PROVE  RootInv'
<1>1. CASE PbNext
  <2>1. PlacesInv' /\ PbInv'
    BY <1>1, PlacesStep DEF RootInv, PlacesInv
  <2>2. QED
    BY <1>1, <2>1, MessageKeepsRoot, FieldKeepsRoot, PackedKeepsRoot, CallbackKeepsRoot DEF PbNext
<1>2. CASE UNCHANGED pbVars
  <2>1. PlacesInv'
    BY PlacesStep DEF RootInv
  <2>2. stack' = stack /\ dest' = dest /\ ret' = ret
    BY <1>2 DEF pbVars
  <2>3. QED
    BY <2>1, <2>2 DEF RootInv, RootInOrder, ArrayInOrder, ItemsOf, FixedFull
<1>3. QED
  BY <1>1, <1>2

(* While a message is decoded, the required fields met so far are stored   *)
(* and its arrays of fixed count are absent, complete or the one at hand.  *)
THEOREM RootInvariant == PbSpec => []RootInv
<1>1. RootInv /\ [PbNext]_pbVars => RootInv'
  BY RootStep
<1>2. QED
  BY <1>1, RootInit, PTL DEF PbSpec

(* A message with no more than PB_MAX_REQUIRED_FIELDS required fields -    *)
(* the only ones the generator lets compile - has all of them tracked.     *)
LEMMA AllTracked ==
    ASSUME NEW m \in DOMAIN Schema, Cardinality(Required(m)) <= PB_MAX_REQUIRED_FIELDS
    PROVE  Tracked(m) = Required(m)
<1>1. IsFiniteSet(Required(m)) /\ \A t \in Required(m) : t \in Nat
  <2>1. Required(m) \subseteq 1..(Huge \div 8 - 1)
    BY SchemaAssumption DEF Required
  <2>2. Huge \div 8 - 1 \in Int
    BY DEF Huge
  <2>3. PICK h \in Int : h = Huge \div 8 - 1
    BY <2>2
  <2>4. IsFiniteSet(1..h)
    BY FS_Interval
  <2>5. Required(m) \subseteq 1..h
    BY <2>1, <2>3
  <2>6. QED
    BY <2>4, <2>5, FS_Subset
<1>2. ASSUME NEW t \in Required(m) PROVE required_field_index(m, t) < PB_MAX_REQUIRED_FIELDS
  <2> DEFINE before == {u \in Required(m) : u < t}
  <2>1. before \subseteq Required(m) /\ before # Required(m)
    BY <1>1
  <2>2. /\ Cardinality(before) \in Nat /\ Cardinality(Required(m)) \in Nat
        /\ Cardinality(before) <= Cardinality(Required(m))
        /\ Cardinality(before) # Cardinality(Required(m))
    <3>1. before \in SUBSET Required(m) /\ before # Required(m)
      BY <2>1
    <3> HIDE DEF before
    <3>2. IsFiniteSet(before) /\ Cardinality(before) <= Cardinality(Required(m))
      BY <1>1, <3>1, FS_Subset
    <3>3. Cardinality(before) # Cardinality(Required(m))
      BY <1>1, <3>1, FS_Subset
    <3>4. QED
      BY <1>1, <3>2, <3>3, FS_CardinalityType
  <2>3. Cardinality(before) < Cardinality(Required(m))
    <3> HIDE DEF before
    <3> QED BY <2>2
  <2>4. PICK k \in Nat : k = Cardinality(before)
    BY <2>2
  <2>5. required_field_index(m, t) = k
    BY <2>4 DEF required_field_index
  <2>6. QED
    BY <2>2, <2>3, <2>4, <2>5, MaxRequiredAssumption
<1>3. QED
  BY <1>2 DEF Tracked

(* When pb_decode returns true, the required fields of the message have    *)
(* been stored, up to the PB_MAX_REQUIRED_FIELDS that fields_seen has bits *)
(* for (pb_decode.c:988 sets them, the check behind its loop reads them).  *)
THEOREM RequiredAlwaysStored == PbSpec => []RequiredStored
<1>1. ASSUME RootInv, ret = "ok", NEW t \in Required(Root), Schema[Root][t].ltype # "submessage",
             Schema[Root][t].atype = "static",
             required_field_index(Root, t) < PB_MAX_REQUIRED_FIELDS
      PROVE  <<t>> \in DOMAIN dest
  <2>1. t \in Tracked(Root) /\ t \in RequiredScalars
    BY <1>1 DEF Tracked, RequiredScalars, RootScalar
  <2>2. t \in stack[1].seen /\ RootInOrder(dest, stack[1].seen, stack[1].fixed)
    BY <1>1, <2>1 DEF RootInv
  <2>3. QED
    BY <2>1, <2>2 DEF RootInOrder
<1>2. RootInv => RequiredStored
  BY <1>1 DEF RequiredStored
<1>3. QED
  BY <1>2, RootInvariant, PTL

(* The same without the limit, for a message that keeps to it: success     *)
(* means that no required field is missing.                                *)
THEOREM NoRequiredMissing ==
    ASSUME Cardinality(Required(Root)) <= PB_MAX_REQUIRED_FIELDS
    PROVE  PbSpec => [](ret = "ok" =>
               \A t \in Required(Root) : RootScalar(t) => <<t>> \in DOMAIN dest)
<1>1. RequiredStored => (ret = "ok" => \A t \in Required(Root) : RootScalar(t) => <<t>> \in DOMAIN dest)
  <2>1. Tracked(Root) = Required(Root)
    BY AllTracked, SchemaAssumption
  <2>2. \A t \in Required(Root) : required_field_index(Root, t) < PB_MAX_REQUIRED_FIELDS
    BY <2>1 DEF Tracked
  <2>3. QED
    BY <2>2 DEF RequiredStored, RootScalar
<1>2. QED
  BY <1>1, RequiredAlwaysStored, PTL

(* When pb_decode returns true, an array of fixed count of the message is  *)
(* absent or complete, each item in its place.                             *)
THEOREM FixedCountsAlwaysFull == PbSpec => []FixedCountsFull
<1> DEFINE items(t) == {q \in DOMAIN dest : Len(q) = 2 /\ q[1] = t /\ q[2] > 0}
<1>1. ASSUME RootInv, ret = "ok", NEW t \in DOMAIN Schema[Root], FixedCount(Schema[Root][t]),
             Schema[Root][t].atype = "static", Schema[Root][t].ltype # "submessage", items(t) # {}
      PROVE  items(t) = {<<t, n>> : n \in 1..Schema[Root][t].max}
  <2> DEFINE max == Schema[Root][t].max
  <2>1. t \in FixedScalars
    BY <1>1 DEF FixedScalars, RootScalar
  <2>2. /\ CountsTyped(dest) /\ t \in Nat \ {0} /\ max \in Nat
        /\ stack[1].path = <<>> /\ stack[1].msg = Root
        /\ FixedFull(stack[1]) /\ RootInOrder(dest, stack[1].seen, stack[1].fixed)
    BY <1>1, <2>1, TrackedIs, FieldAt, SchemaAssumption, RootTop DEF RootInv
  <2>3. stack[1].fixed = t => Count(dest, <<t>>) = max
    <3>1. Append(<<>>, t) = <<t>>
      BY <2>2, PairIs
    <3>2. QED
      BY <2>2, <3>1 DEF FixedFull
  <2>4. ItemsOf(dest, t) = {q[2] : q \in items(t)}
    BY DEF ItemsOf
  <2>5. ItemsOf(dest, t) # {}
    BY <1>1, <2>4
  <2>6. ItemsOf(dest, t) = 1..max
    BY <2>1, <2>2, <2>3, <2>5 DEF RootInOrder, ArrayInOrder
  <2>7. \A q \in items(t) : q \in Seq(Nat) /\ Len(q) = 2
    BY <2>2 DEF CountsTyped
  <2>8. ASSUME NEW q \in items(t) PROVE q = <<t, q[2]>> /\ q[2] \in 1..max
    <3>1. q \in Seq(Nat) /\ Len(q) = 2 /\ q[1] = t
      BY <2>7
    <3>2. q = <<q[1], q[2]>>
      BY <3>1
    <3>3. QED
      BY <2>4, <2>6, <3>1, <3>2
  <2>9. ASSUME NEW n \in 1..max PROVE <<t, n>> \in items(t)
    <3>1. n \in Nat \ {0} /\ <<t, n>> \in DOMAIN dest
      BY <2>2, <2>6, ItemsAre
    <3>2. Len(<<t, n>>) = 2 /\ <<t, n>>[1] = t /\ <<t, n>>[2] = n
      OBVIOUS
    <3>3. QED
      BY <3>1, <3>2
  <2> HIDE DEF items, max
  <2>10. items(t) = {<<t, n>> : n \in 1..max}
    BY <2>8, <2>9
  <2>11. QED
    BY <2>10 DEF max
<1>2. RootInv => FixedCountsFull
  BY <1>1 DEF FixedCountsFull
<1>3. QED
  BY <1>2, RootInvariant, PTL

----------------------------------------------------------------------------
(* The unions.  A value that is no which_ leaves every choice as it was.   *)
LEMMA PutKeepsChosen ==
    ASSUME NEW d, NEW p \in Seq(Nat), NEW x \in Nat, x # 0 \/ Location(p).kind # "message", NEW v,
           NEW q \in Seq(Nat), NEW ms, Chosen(d, q, ms)
    PROVE  Chosen(Put(d, Append(p, x), v), q, ms)
<1> DEFINE w == Append(p, x)
           e == Put(d, w, v)
<1>1. ASSUME NEW r \in Seq(Nat), Location(r).kind = "message" PROVE Which(e, r) = Which(d, r)
  <2>1. Append(r, 0) # w
    BY <1>1, AppendInjective
  <2> HIDE DEF w
  <2>2. QED
    BY <2>1 DEF Which, At, Put
<1> HIDE DEF e
<1>2. ASSUME NEW k \in 0..(Len(q) - 1), Location(SubSeq(q, 1, k)).kind = "message"
      PROVE  Which(e, SubSeq(q, 1, k)) = Which(d, SubSeq(q, 1, k))
  <2>1. k \in 0..Len(q)
    OBVIOUS
  <2>2. SubSeq(q, 1, k) \in Seq(Nat)
    BY <2>1, PrefixType
  <2>3. QED
    BY <1>1, <1>2, <2>2
<1>3. Chosen(e, q, ms)
  BY <1>2, ChosenSame
<1>4. QED
  BY <1>3 DEF e, w

LEMMA PutUnions ==
    ASSUME NEW d, CountsTyped(d), NEW p \in Seq(Nat), NEW x \in Nat,
           x # 0 \/ Location(p).kind # "message", NEW v, NEW ms, UnionsTyped(d, ms),
           Append(p, x) \in DOMAIN d \/ Chosen(d, Append(p, x), ms)
    PROVE  UnionsTyped(Put(d, Append(p, x), v), ms)
<1> DEFINE w == Append(p, x)
           e == Put(d, w, v)
<1>1. w \in Seq(Nat) /\ \A q \in DOMAIN d : q \in Seq(Nat)
  BY AppendProperties DEF CountsTyped
<1>2. DOMAIN e = DOMAIN d \cup {w}
  BY DEF Put
<1>3. \A q \in Seq(Nat) : Chosen(d, q, ms) => Chosen(e, q, ms)
  BY PutKeepsChosen
<1>4. w \in DOMAIN d \/ Chosen(d, w, ms)
  OBVIOUS
<1> HIDE DEF w, e
<1>5. ASSUME NEW q \in DOMAIN e \ Callbacks PROVE Chosen(e, q, ms)
  <2>1. q \in Seq(Nat) /\ Chosen(d, q, ms)
    BY <1>1, <1>2, <1>4, <1>5 DEF UnionsTyped
  <2>2. QED
    BY <1>3, <2>1
<1>6. UnionsTyped(e, ms)
  BY <1>5 DEF UnionsTyped
<1>7. QED
  BY <1>6 DEF e, w

(* Nor does it matter when all that is below a place is cleared.           *)
LEMMA PartUnions ==
    ASSUME NEW d, CountsTyped(d), NEW ms, UnionsTyped(d, ms), NEW S \in SUBSET DOMAIN d,
           NEW X \in SUBSET Seq(Nat), \A x \in X : \A r \in Seq(Nat) : x # Append(r, 0),
           \A q \in DOMAIN d \ S : \E x \in X : Below(x, q),
           \A q \in S \ Callbacks : \A x \in X : ~Below(x, q)
    PROVE  UnionsTyped([q \in S |-> d[q]], ms)
<1> DEFINE e == [q \in S |-> d[q]]
<1>1. DOMAIN e = S /\ \A q \in S : e[q] = d[q]
  OBVIOUS
<1> HIDE DEF e
<1>2. ASSUME NEW q \in S \ Callbacks PROVE Chosen(e, q, ms)
  <2>1. q \in Seq(Nat) /\ Chosen(d, q, ms)
    BY <1>2 DEF CountsTyped, UnionsTyped
  <2>2. ASSUME NEW k \in 0..(Len(q) - 1) PROVE Which(e, SubSeq(q, 1, k)) = Which(d, SubSeq(q, 1, k))
    <3> DEFINE r == SubSeq(q, 1, k)
    <3>1. k \in 0..Len(q)
      BY <2>1
    <3>2. r \in Seq(Nat)
      BY <2>1, <3>1, PrefixType
    <3>3. ASSUME NEW x \in X PROVE ~Below(x, r) /\ x \in Seq(Nat)
      <4>1. ~Below(x, q) /\ x \in Seq(Nat)
        BY <1>2
      <4>2. QED
        BY <2>1, <3>1, <4>1, BelowPrefix
    <3> HIDE DEF r
    <3>a. ASSUME NEW x \in X PROVE ~Below(x, Append(r, 0))
      <4>1. x # Append(r, 0) /\ 0 \in Nat
        BY <3>2
      <4>2. QED
        BY <3>2, <3>3, <4>1, BelowAppend
    <3>4. Append(r, 0) \in DOMAIN d => Append(r, 0) \in S
      BY <3>a
    <3>5. Which(e, r) = Which(d, r)
      BY <1>1, <3>4 DEF Which, At
    <3>6. QED
      BY <3>5 DEF r
  <2>3. QED
    BY <2>1, <2>2, ChosenSame
<1>3. UnionsTyped(e, ms)
  BY <1>1, <1>2 DEF UnionsTyped
<1>4. QED
  BY <1>3 DEF e

LEMMA LastMatters ==
    ASSUME NEW p \in Seq(Nat), NEW u \in Nat \ {0}
    PROVE  Append(p, u) \in Seq(Nat) /\ \A r \in Seq(Nat) : Append(p, u) # Append(r, 0)
BY AppendInjective, AppendProperties

LEMMA NoUnionUnions ==
    ASSUME NEW d, CountsTyped(d), NEW ms, UnionsTyped(d, ms), NEW p \in Seq(Nat), NEW m \in DOMAIN Schema
    PROVE  /\ UnionsTyped(NoUnion(d, m, p), ms)
           /\ \A q \in DOMAIN NoUnion(d, m, p) : \A u \in OneofTags(m) : ~Below(Append(p, u), q)
<1> DEFINE S == {q \in DOMAIN d : \A u \in OneofTags(m) : ~Below(Append(p, u), q)}
           X == {Append(p, u) : u \in OneofTags(m)}
<1>1. NoUnion(d, m, p) = [q \in S |-> d[q]] /\ S \in SUBSET DOMAIN d
  BY DEF NoUnion
<1>2. \A u \in OneofTags(m) : u \in Nat \ {0}
  BY FieldAt DEF OneofTags
<1>3. X \in SUBSET Seq(Nat) /\ \A x \in X : \A r \in Seq(Nat) : x # Append(r, 0)
  BY <1>2, LastMatters, ZenonT(30)
<1>4. /\ \A q \in DOMAIN d \ S : \E x \in X : Below(x, q)
      /\ \A q \in S : \A x \in X : ~Below(x, q)
  OBVIOUS
<1>5. \A q \in S : \A u \in OneofTags(m) : ~Below(Append(p, u), q)
  OBVIOUS
<1> HIDE DEF S, X
<1>6. UnionsTyped([q \in S |-> d[q]], ms)
  <2>1. \A q \in S \ Callbacks : \A x \in X : ~Below(x, q)
    BY <1>4
  <2>2. QED
    BY <1>1, <1>3, <1>4, <2>1, PartUnions
<1>7. DOMAIN NoUnion(d, m, p) = S
  BY <1>1
<1>8. QED
  BY <1>1, <1>5, <1>6, <1>7

LEMMA DefaultsUnions ==
    ASSUME NEW d, CountsTyped(d), NEW ms, UnionsTyped(d, ms), NEW p \in Seq(Nat), NEW n \in Nat \ {0}
    PROVE  UnionsTyped(Defaults(d, Append(p, n)), ms)
<1> DEFINE t == Append(p, n)
           S == {q \in DOMAIN d : Below(t, q) => q \in Callbacks}
<1>1. t \in Seq(Nat) /\ \A r \in Seq(Nat) : t # Append(r, 0)
  BY LastMatters
<1> HIDE DEF t
<1>2. Defaults(d, t) = [q \in S |-> d[q]] /\ S \in SUBSET DOMAIN d
  BY DEF Defaults
<1> DEFINE X == {t}
<1>3. /\ X \in SUBSET Seq(Nat) /\ \A x \in X : \A r \in Seq(Nat) : x # Append(r, 0)
      /\ \A q \in DOMAIN d \ S : \E x \in X : Below(x, q)
      /\ \A q \in S \ Callbacks : \A x \in X : ~Below(x, q)
  BY <1>1
<1> HIDE DEF S, X
<1>4. UnionsTyped([q \in S |-> d[q]], ms)
  BY <1>2, <1>3, PartUnions
<1>5. UnionsTyped(Defaults(d, t), ms)
  BY <1>2, <1>4
<1>6. QED
  BY <1>5 DEF t

(* which_ is set: the members of the union have been cleared, or nobody    *)
(* looks at this union.                                                    *)
LEMMA WhichUnions ==
    ASSUME NEW d, CountsTyped(d), NEW ms, UnionsTyped(d, ms), NEW p \in Seq(Nat), NEW m \in DOMAIN Schema,
           Location(p) = Spot("message", m, 0), Chosen(d, p, ms), NEW t \in Nat,
           \/ m \notin ms
           \/ \A q \in DOMAIN d : \A u \in OneofTags(m) : ~Below(Append(p, u), q)
    PROVE  UnionsTyped(Put(d, Append(p, 0), t), ms)
<1> DEFINE w == Append(p, 0)
           e == Put(d, w, t)
<1>1. w \in Seq(Nat) /\ \A q \in DOMAIN d : q \in Seq(Nat)
  BY AppendProperties DEF CountsTyped
<1>2. DOMAIN e = DOMAIN d \cup {w}
  BY DEF Put
<1>3. ASSUME NEW r \in Seq(Nat), r # p PROVE Which(e, r) = Which(d, r)
  <2>1. Append(r, 0) # w
    BY <1>3, AppendInjective
  <2> HIDE DEF w
  <2>2. QED
    BY <2>1 DEF Which, At, Put
<1> HIDE DEF e
<1>4. ASSUME NEW q \in Seq(Nat), Chosen(d, q, ms),
             m \notin ms \/ \A u \in OneofTags(m) : ~Below(Append(p, u), q)
      PROVE  Chosen(e, q, ms)
  <2>1. ASSUME NEW k \in 0..(Len(q) - 1),
               Location(SubSeq(q, 1, k)).msg \in ms, q[k + 1] \in OneofTags(Location(SubSeq(q, 1, k)).msg)
        PROVE  Which(e, SubSeq(q, 1, k)) = Which(d, SubSeq(q, 1, k))
    <3> DEFINE r == SubSeq(q, 1, k)
    <3>1. k \in 0..Len(q) /\ k < Len(q) /\ k + 1 \in 0..Len(q)
      OBVIOUS
    <3>2. r \in Seq(Nat)
      BY <3>1, PrefixType
    <3>3. r # p
      <4> SUFFICES ASSUME r = p PROVE FALSE
        OBVIOUS
      <4>a. Location(SubSeq(q, 1, k)).msg = m
        <5>1. SubSeq(q, 1, k) = p
          OBVIOUS
        <5>2. Location(p).msg = m
          BY SpotFields
        <5>3. QED
          BY <5>1, <5>2, Zenon
      <4>1. m \in ms /\ q[k + 1] \in OneofTags(m)
        BY <2>1, <4>a
      <4>2. Append(p, q[k + 1]) = SubSeq(q, 1, k + 1)
        BY <3>1, NextPrefix
      <4>3. Below(SubSeq(q, 1, k + 1), q)
        <5>1. SubSeq(q, 1, k + 1) \in Seq(Nat)
          BY <3>1, PrefixType
        <5>2. QED
          BY <3>1, <5>1, BelowItself, BelowPrefix
      <4>4. QED
        BY <1>4, <4>1, <4>2, <4>3
    <3> HIDE DEF r
    <3>4. Which(e, r) = Which(d, r)
      BY <1>3, <3>2, <3>3
    <3>5. QED
      BY <3>4 DEF r
  <2>2. QED
    BY <1>4, <2>1, ChosenSame
<1>5. Chosen(e, w, ms)
  <2>1. \A u \in OneofTags(m) : ~Below(Append(p, u), p)
    <3> SUFFICES ASSUME NEW u \in OneofTags(m), Below(Append(p, u), p) PROVE FALSE
      OBVIOUS
    <3>1. u \in Nat
      BY FieldAt DEF OneofTags
    <3>2. Append(p, u) \in Seq(Nat) /\ Len(Append(p, u)) = Len(p) + 1
      BY <3>1, AppendProperties
    <3>3. Len(Append(p, u)) <= Len(p) /\ Len(p) \in Nat
      BY <3>2, BelowLength
    <3>4. QED
      BY <3>2, <3>3
  <2>2. Chosen(e, p, ms)
    BY <1>4, <2>1
  <2>3. 0 \notin OneofTags(m) /\ Location(p).msg = m
    BY FieldAt, SpotFields DEF OneofTags
  <2>4. QED
    BY <2>2, <2>3, ChosenAppend DEF w
<1>6. ASSUME NEW q \in DOMAIN e \ Callbacks PROVE Chosen(e, q, ms)
  <2>1. CASE q = w
    BY <1>5, <2>1
  <2>2. CASE q # w
    <3>1. q \in DOMAIN d \ Callbacks /\ q \in Seq(Nat)
      BY <1>1, <1>2, <1>6, <2>2
    <3>2. QED
      BY <1>4, <3>1 DEF UnionsTyped
  <2>3. QED
    BY <2>1, <2>2
<1>7. UnionsTyped(e, ms)
  BY <1>6 DEF UnionsTyped
<1>8. QED
  BY <1>7 DEF e, w

(* The structures d and e are the same as far as n steps lead.             *)
Shallow(d, e, n) ==
    \A w \in Seq(Nat) :
        Len(w) <= n => /\ w \in DOMAIN d <=> w \in DOMAIN e
                       /\ w \in DOMAIN d => d[w] = e[w]

LEMMA ShallowItself ==
    ASSUME NEW d, NEW n
    PROVE  Shallow(d, d, n)
BY DEF Shallow

LEMMA ShallowChain ==
    ASSUME NEW d, NEW e, NEW g, NEW n, Shallow(d, e, n), Shallow(e, g, n)
    PROVE  Shallow(d, g, n)
BY DEF Shallow

LEMMA ShallowPut ==
    ASSUME NEW d, NEW w, NEW v, NEW n \in Nat, Len(w) \in Nat, Len(w) > n
    PROVE  Shallow(d, Put(d, w, v), n)
<1>1. \A x \in Seq(Nat) : Len(x) <= n => x # w
  OBVIOUS
<1>2. QED
  BY <1>1 DEF Shallow, Put

LEMMA ShallowPart ==
    ASSUME NEW d, CountsTyped(d), NEW S \in SUBSET DOMAIN d, NEW n \in Nat,
           \A q \in DOMAIN d \ S : Len(q) > n
    PROVE  Shallow(d, [q \in S |-> d[q]], n)
<1>1. \A q \in Seq(Nat) : Len(q) \in Nat
  BY LenProperties
<1>2. \A q \in DOMAIN d : Len(q) <= n => q \in S
  BY <1>1 DEF CountsTyped
<1>3. QED
  BY <1>2 DEF Shallow

LEMMA ShallowChosen ==
    ASSUME NEW d, NEW e, NEW n \in Nat, Shallow(d, e, n), NEW q \in Seq(Nat), Len(q) <= n, NEW ms,
           Chosen(d, q, ms)
    PROVE  Chosen(e, q, ms)
<1>1. ASSUME NEW k \in 0..(Len(q) - 1) PROVE Which(e, SubSeq(q, 1, k)) = Which(d, SubSeq(q, 1, k))
  <2> DEFINE r == SubSeq(q, 1, k)
             w == Append(r, 0)
  <2>1. k \in 0..Len(q) /\ k + 1 <= n
    OBVIOUS
  <2>2. r \in Seq(Nat) /\ Len(r) = k
    BY <2>1, PrefixType
  <2> HIDE DEF r
  <2>3. w \in Seq(Nat) /\ Len(w) = k + 1
    BY <2>2, AppendProperties
  <2>4. Len(w) <= n
    BY <2>1, <2>3
  <2>5. Which(d, r) = At(d, w, 0) /\ Which(e, r) = At(e, w, 0)
    BY DEF Which
  <2> HIDE DEF w
  <2>6. Which(e, r) = Which(d, r)
    BY <2>3, <2>4, <2>5 DEF Shallow, At
  <2>7. QED
    BY <2>6 DEF r
<1>2. QED
  BY <1>1, ChosenSame

LEMMA PathLengths ==
    ASSUME NEW p \in Seq(Nat), NEW x \in Nat, NEW y \in Nat
    PROVE  /\ Len(p) \in Nat
           /\ Append(p, x) \in Seq(Nat) /\ Len(Append(p, x)) \in Nat /\ Len(Append(p, x)) > Len(p)
           /\ Append(Append(p, x), y) \in Seq(Nat) /\ Len(Append(Append(p, x), y)) \in Nat
           /\ Len(Append(Append(p, x), y)) > Len(p)
<1> DEFINE q == Append(p, x)
           r == Append(q, y)
<1>1. Len(p) \in Nat /\ q \in Seq(Nat) /\ Len(q) = Len(p) + 1
  BY AppendProperties, LenProperties
<1> HIDE DEF q
<1>2. r \in Seq(Nat) /\ Len(r) = Len(q) + 1
  BY <1>1, AppendProperties
<1> HIDE DEF r
<1>3. Len(q) \in Nat /\ Len(q) > Len(p) /\ Len(r) \in Nat /\ Len(r) > Len(p)
  BY <1>1, <1>2
<1>4. QED
  BY <1>1, <1>2, <1>3 DEF q, r

LEMMA ShallowNoUnion ==
    ASSUME NEW d, CountsTyped(d), NEW p \in Seq(Nat), NEW m \in DOMAIN Schema
    PROVE  Shallow(d, NoUnion(d, m, p), Len(p))
<1> DEFINE S == {q \in DOMAIN d : \A u \in OneofTags(m) : ~Below(Append(p, u), q)}
<1>1. NoUnion(d, m, p) = [q \in S |-> d[q]] /\ S \in SUBSET DOMAIN d
  BY DEF NoUnion
<1>2. Len(p) \in Nat
  BY LenProperties
<1>3. ASSUME NEW q \in DOMAIN d \ S PROVE Len(q) > Len(p)
  <2>1. PICK u \in OneofTags(m) : Below(Append(p, u), q)
    OBVIOUS
  <2>2. u \in Nat /\ q \in Seq(Nat)
    BY <1>3, FieldAt DEF OneofTags, CountsTyped
  <2> DEFINE w == Append(p, u)
  <2>3. w \in Seq(Nat) /\ Len(w) > Len(p) /\ Len(w) \in Nat
    BY <2>2, PathLengths
  <2> HIDE DEF w
  <2>4. Len(w) <= Len(q) /\ Len(q) \in Nat
    <3>1. Below(w, q)
      BY <2>1 DEF w
    <3>2. QED
      BY <2>2, <2>3, <3>1, BelowLength
  <2>5. QED
    BY <1>2, <2>3, <2>4
<1> HIDE DEF S
<1>4. QED
  BY <1>1, <1>2, <1>3, ShallowPart

LEMMA ShallowDefaults ==
    ASSUME NEW d, CountsTyped(d), NEW t \in Seq(Nat), NEW n \in Nat, Len(t) > n
    PROVE  Shallow(d, Defaults(d, t), n)
<1> DEFINE S == {q \in DOMAIN d : Below(t, q) => q \in Callbacks}
<1>1. Defaults(d, t) = [q \in S |-> d[q]] /\ S \in SUBSET DOMAIN d
  BY DEF Defaults
<1>2. ASSUME NEW q \in DOMAIN d \ S PROVE Len(q) > n
  <2>1. Below(t, q) /\ q \in Seq(Nat)
    BY <1>2 DEF CountsTyped
  <2>2. Len(t) <= Len(q) /\ Len(q) \in Nat /\ Len(t) \in Nat
    BY <2>1, BelowLength
  <2>3. QED
    BY <2>2
<1> HIDE DEF S
<1>3. QED
  BY <1>1, <1>2, ShallowPart

(* What holds of the unions while decoding goes on.                        *)
LEMMA UnionsNow ==
    ASSUME UnionsInv
    PROVE  /\ PlacesInv /\ PbInv /\ StreamInv /\ CountsTyped(dest)
           /\ Top.path \in Seq(Nat) /\ Len(Top.path) \in Nat
           /\ Chosen(dest, Top.path, DOMAIN Schema)
           /\ Running => UnionsTyped(dest, DOMAIN Schema)
<1>1. PlacesInv /\ PbInv /\ StreamInv /\ CountsTyped(dest) /\ Top.path \in Seq(Nat)
  BY TopPlaced DEF UnionsInv, PlacesInv
<1>2. Chosen(dest, Top.path, DOMAIN Schema)
  BY <1>1, LengthOne DEF UnionsInv, FrameChosen, Top
<1>3. Considered(FALSE) = DOMAIN Schema
  BY DEF Considered
<1>4. Running => UnionsTyped(dest, DOMAIN Schema)
  BY <1>3 DEF UnionsInv, Running
<1>5. QED
  BY <1>1, <1>2, <1>4, LenProperties

LEMMA FewerUnions ==
    ASSUME NEW d, UnionsTyped(d, DOMAIN Schema), NEW failed
    PROVE  UnionsTyped(d, Considered(failed))
<1>1. Considered(failed) \in SUBSET DOMAIN Schema
  BY DEF Considered
<1>2. QED
  BY <1>1, ChosenFewer DEF UnionsTyped

(* The way to the field at hand, when nothing on it has changed.           *)
LEMMA PathChosen ==
    ASSUME UnionsInv, AtField, Known, NEW d, Shallow(dest, d, Len(Top.path)),
           Field.htype = "oneof" => Which(d, Top.path) = Tag
    PROVE  /\ Chosen(d, Top.path, DOMAIN Schema) /\ Chosen(d, Path, DOMAIN Schema)
           /\ IsItem \/ Field.atype = "callback" => \A n \in Nat : Chosen(d, Append(Path, n), DOMAIN Schema)
           /\ \A n \in Nat : Chosen(d, Append(Append(Top.path, 0), n), DOMAIN Schema)
<1>1. /\ PlacesInv /\ Top.path \in Seq(Nat) /\ Len(Top.path) \in Nat
      /\ Chosen(dest, Top.path, DOMAIN Schema)
  BY UnionsNow
<1>2. /\ Tag \in Nat \ {0} /\ Tag \in DOMAIN Schema[Top.msg] /\ Top.msg \in DOMAIN Schema
      /\ Path \in Seq(Nat)
      /\ Location(Top.path) = Spot("message", Top.msg, 0)
      /\ Location(Append(Top.path, 0)) = Spot("none", Top.msg, 0)
  BY <1>1, PathPlaced
<1>3. Chosen(d, Top.path, DOMAIN Schema)
  BY <1>1, ShallowChosen
<1>4. Location(Top.path).msg = Top.msg
  BY <1>2, SpotFields
<1>5. Chosen(d, Path, DOMAIN Schema)
  <2>1. Tag \in OneofTags(Top.msg) => Field.htype = "oneof"
    BY DEF OneofTags, Field
  <2>2. QED
    BY <1>1, <1>2, <1>3, <1>4, <2>1, ChosenAppend DEF Path
<1>6. ASSUME IsItem \/ Field.atype = "callback", NEW n \in Nat
      PROVE  Chosen(d, Append(Path, n), DOMAIN Schema)
  <2>1. Location(Path).kind # "message"
    BY <1>1, <1>6, FieldPlaced, SpotFields
  <2>2. QED
    BY <1>2, <1>5, <2>1, ChosenAppend
<1>7. ASSUME NEW n \in Nat PROVE Chosen(d, Append(Append(Top.path, 0), n), DOMAIN Schema)
  <2>1. 0 \notin OneofTags(Top.msg)
    BY <1>2, FieldAt DEF OneofTags
  <2>2. Append(Top.path, 0) \in Seq(Nat) /\ Chosen(d, Append(Top.path, 0), DOMAIN Schema)
    BY <1>1, <1>3, <1>4, <2>1, ChosenAppend, AppendProperties
  <2>3. Location(Append(Top.path, 0)).kind # "message"
    BY <1>2, SpotFields
  <2>4. QED
    BY <2>2, <2>3, ChosenAppend
<1>8. QED
  BY <1>3, <1>5, <1>6, <1>7

(* The structure after a count has been set.                               *)
LEMMA CountUnions ==
    ASSUME UnionsInv, AtField, Known, IsItem \/ Field.atype = "callback", NEW v,
           Field.htype = "oneof" => Which(dest, Top.path) = Tag
    PROVE  /\ UnionsTyped(Put(dest, Append(Path, 0), v), DOMAIN Schema)
           /\ Shallow(dest, Put(dest, Append(Path, 0), v), Len(Top.path))
<1>1. /\ PlacesInv /\ Top.path \in Seq(Nat) /\ Len(Top.path) \in Nat /\ CountsTyped(dest)
      /\ UnionsTyped(dest, DOMAIN Schema)
  BY UnionsNow DEF AtField
<1>2. Tag \in Nat /\ Path \in Seq(Nat) /\ Path = Append(Top.path, Tag)
  BY <1>1, PathPlaced DEF Path
<1>3. Chosen(dest, Append(Path, 0), DOMAIN Schema)
  BY PathChosen, ShallowItself
<1>4. Location(Path).kind # "message"
  BY <1>1, FieldPlaced, SpotFields
<1>5. Len(Append(Path, 0)) \in Nat /\ Len(Append(Path, 0)) > Len(Top.path)
  BY <1>1, <1>2, PathLengths
<1>6. QED
  BY <1>1, <1>2, <1>3, <1>4, <1>5, PutUnions, ShallowPut

LEMMA CountedUnions ==
    ASSUME UnionsInv, AtField, Known, IsItem \/ Field.atype = "callback"
    PROVE  UnionsTyped(Counted, DOMAIN Schema) /\ Shallow(dest, Counted, Len(Top.path))
<1>1. CASE FixedCount(Field)
  <2>1. IsItem
    BY <1>1 DEF FixedCount, IsItem
  <2>2. Counted = Put(dest, Append(Path, 0), ItemCount)
    BY <1>1 DEF Counted
  <2>3. QED
    BY <2>1, <2>2, CountUnions DEF IsItem
<1>2. CASE ~FixedCount(Field)
  BY <1>2, UnionsNow, ShallowItself DEF Counted, AtField
<1>3. QED
  BY <1>1, <1>2

(* The structure after a member of a union has been selected.              *)
LEMMA SelectUnions ==
    ASSUME UnionsInv, AtField, Known, NEW t \in Nat
    PROVE  /\ UnionsTyped(Select(dest, Top.msg, Top.path, t), DOMAIN Schema)
           /\ CountsTyped(Select(dest, Top.msg, Top.path, t))
           /\ Shallow(dest, Select(dest, Top.msg, Top.path, t), Len(Top.path))
           /\ Which(Select(dest, Top.msg, Top.path, t), Top.path) = t
<1> DEFINE p == Top.path
           m == Top.msg
           d == NoUnion(dest, m, p)
<1>1. /\ PlacesInv /\ p \in Seq(Nat) /\ Len(p) \in Nat /\ CountsTyped(dest)
      /\ Chosen(dest, p, DOMAIN Schema) /\ UnionsTyped(dest, DOMAIN Schema)
      /\ m \in DOMAIN Schema /\ Location(p) = Spot("message", m, 0)
  BY UnionsNow, PathPlaced DEF AtField
<1>2. Select(dest, m, p, t) = Put(d, Append(p, 0), t)
  BY DEF Select
<1> HIDE DEF p, m
<1>3. /\ UnionsTyped(d, DOMAIN Schema) /\ CountsTyped(d) /\ Shallow(dest, d, Len(p))
      /\ \A q \in DOMAIN d : \A u \in OneofTags(m) : ~Below(Append(p, u), q)
  BY <1>1, NoUnionUnions, UnionCounts, ShallowNoUnion
<1> HIDE DEF d
<1>4. Chosen(d, p, DOMAIN Schema)
  BY <1>1, <1>3, ShallowChosen
<1>5. UnionsTyped(Put(d, Append(p, 0), t), DOMAIN Schema)
  BY <1>1, <1>3, <1>4, WhichUnions
<1>6. CountsTyped(Put(d, Append(p, 0), t))
  BY <1>1, <1>3, PutCount
<1>7. Shallow(dest, Put(d, Append(p, 0), t), Len(p))
  <2>1. Len(Append(p, 0)) \in Nat /\ Len(Append(p, 0)) > Len(p)
    BY <1>1, PathLengths
  <2>2. Shallow(d, Put(d, Append(p, 0), t), Len(p))
    BY <1>1, <2>1, ShallowPut
  <2>3. QED
    BY <1>3, <2>2, ShallowChain
<1>8. Which(Put(d, Append(p, 0), t), p) = t
  BY DEF Which, At, Put
<1>9. QED
  BY <1>2, <1>5, <1>6, <1>7, <1>8 DEF p, m

(* The structure after the flag, count or which_ of the field was set: a   *)
(* union with other members than messages is not considered any more when  *)
(* decoding fails here, with the bytes of the old member behind which_.    *)
LEMMA FlaggedUnions ==
    ASSUME UnionsInv, AtField, Known, Field.atype = "static"
    PROVE  /\ CountsTyped(Flagged) /\ Shallow(dest, Flagged, Len(Top.path))
           /\ UnionsTyped(Flagged, Considered(TRUE))
           /\ Field.htype # "oneof" \/ Field.ltype = "submessage" => UnionsTyped(Flagged, DOMAIN Schema)
           /\ Field.htype = "oneof" => Which(Flagged, Top.path) = Tag
<1>1. /\ PlacesInv /\ PbInv /\ Top.path \in Seq(Nat) /\ Len(Top.path) \in Nat /\ CountsTyped(dest)
      /\ UnionsTyped(dest, DOMAIN Schema) /\ Chosen(dest, Top.path, DOMAIN Schema)
  BY UnionsNow DEF AtField
<1>2. /\ Tag \in Nat \ {0} /\ Tag \in DOMAIN Schema[Top.msg] /\ Top.msg \in DOMAIN Schema
      /\ Path \in Seq(Nat) /\ Location(Top.path) = Spot("message", Top.msg, 0)
      /\ Location(Append(Top.path, 0)) = Spot("none", Top.msg, 0)
      /\ Field.htype \in {"required", "optional", "repeated", "oneof"}
  BY <1>1, PathPlaced, FieldAt DEF Field
<1>3. CountsTyped(Flagged)
  BY <1>1, FlaggedFacts
<1>4. CASE IsItem
  <2>1. Flagged = Put(dest, Append(Path, 0), ItemCount + 1) /\ Field.htype # "oneof"
    BY <1>4 DEF Flagged, IsItem
  <2>2. UnionsTyped(Flagged, DOMAIN Schema) /\ Shallow(dest, Flagged, Len(Top.path))
    BY <1>4, <2>1, CountUnions
  <2>3. QED
    BY <1>3, <2>1, <2>2, FewerUnions
<1>5. CASE Field.htype = "oneof" /\ Field.ltype = "submessage"
  <2>1. Flagged = Select(dest, Top.msg, Top.path, Tag)
    BY <1>5 DEF Flagged, IsItem
  <2>2. /\ UnionsTyped(Flagged, DOMAIN Schema) /\ Shallow(dest, Flagged, Len(Top.path))
        /\ Which(Flagged, Top.path) = Tag
    BY <1>2, <2>1, SelectUnions
  <2>3. QED
    BY <1>3, <2>2, FewerUnions
<1>6. CASE Field.htype = "oneof" /\ Field.ltype # "submessage"
  <2>1. Flagged = Put(dest, Append(Top.path, 0), Tag)
    BY <1>6 DEF Flagged, IsItem
  <2>2. Top.msg \notin Considered(TRUE)
    BY <1>2, <1>6 DEF Considered, UnionOfMessages, OneofTags, Field
  <2>3. Considered(TRUE) \in SUBSET DOMAIN Schema
    BY DEF Considered
  <2>4. UnionsTyped(dest, Considered(TRUE)) /\ Chosen(dest, Top.path, Considered(TRUE))
    BY <1>1, <2>3, FewerUnions, ChosenFewer
  <2>5. UnionsTyped(Flagged, Considered(TRUE))
    BY <1>1, <1>2, <2>1, <2>2, <2>4, WhichUnions
  <2>6. Shallow(dest, Flagged, Len(Top.path))
    <3>1. Len(Append(Top.path, 0)) \in Nat /\ Len(Append(Top.path, 0)) > Len(Top.path)
      BY <1>1, PathLengths
    <3>2. QED
      BY <1>1, <2>1, <3>1, ShallowPut
  <2>7. Which(Flagged, Top.path) = Tag
    BY <2>1 DEF Which, At, Put
  <2>8. QED
    BY <1>3, <1>6, <2>5, <2>6, <2>7
<1>7. CASE Field.htype \in {"required", "optional"}
  <2> DEFINE w == Append(Append(Top.path, 0), Tag)
  <2>1. Flagged = IF Field.has \/ Field.ext THEN Put(dest, HasAt(Top.path, Tag), TRUE) ELSE dest
    BY <1>7 DEF Flagged, IsItem
  <2>2. HasAt(Top.path, Tag) = w
    BY <1>1, <1>2, HasAtIs
  <2>3. Append(Top.path, 0) \in Seq(Nat) /\ Len(w) \in Nat /\ Len(w) > Len(Top.path)
    BY <1>1, <1>2, PathLengths
  <2>4. Chosen(dest, w, DOMAIN Schema)
    BY <1>2, <1>7, PathChosen, ShallowItself
  <2>5. UnionsTyped(Put(dest, w, TRUE), DOMAIN Schema)
    BY <1>1, <1>2, <2>3, <2>4, PutUnions
  <2> HIDE DEF w
  <2>6. Shallow(dest, Put(dest, w, TRUE), Len(Top.path))
    BY <1>1, <2>3, ShallowPut
  <2>7. UnionsTyped(Flagged, DOMAIN Schema) /\ Shallow(dest, Flagged, Len(Top.path))
    BY <1>1, <2>1, <2>2, <2>5, <2>6, ShallowItself
  <2>8. QED
    BY <1>3, <1>7, <2>7, FewerUnions
<1>8. QED
  BY <1>2, <1>4, <1>5, <1>6, <1>7 DEF IsItem

(* Clearing a union and setting its which_ can change places.              *)
LEMMA NoUnionAfterWhich ==
    ASSUME NEW d, NEW p \in Seq(Nat), NEW m \in DOMAIN Schema, NEW t
    PROVE  NoUnion(Put(d, Append(p, 0), t), m, p) = Put(NoUnion(d, m, p), Append(p, 0), t)
<1> DEFINE w == Append(p, 0)
           Clear(q) == \A u \in OneofTags(m) : ~Below(Append(p, u), q)
           e == Put(d, w, t)
           g == NoUnion(d, m, p)
<1>1. Clear(w)
  <2> SUFFICES ASSUME NEW u \in OneofTags(m), Below(Append(p, u), w) PROVE FALSE
    OBVIOUS
  <2>1. u \in Nat \ {0}
    BY FieldAt DEF OneofTags
  <2>2. /\ Append(p, u) \in Seq(Nat) /\ Append(p, u) # w
        /\ Len(Append(p, u)) > Len(p) /\ Len(Append(p, u)) \in Nat /\ Len(p) \in Nat
    BY <2>1, PathLengths, LastMatters
  <2>3. Below(Append(p, u), p)
    BY <2>2, BelowAppend
  <2>4. Len(Append(p, u)) <= Len(p)
    BY <2>2, <2>3, BelowLength
  <2>5. QED
    BY <2>2, <2>4
<1> HIDE DEF w
<1>2. NoUnion(e, m, p) = [q \in {q \in DOMAIN e : Clear(q)} |-> e[q]]
  BY DEF NoUnion
<1>3. g = [q \in {q \in DOMAIN d : Clear(q)} |-> d[q]]
  BY DEF NoUnion
<1>4. DOMAIN e = DOMAIN d \cup {w} /\ \A q \in DOMAIN e : e[q] = IF q = w THEN t ELSE d[q]
  BY DEF Put
<1> HIDE DEF e, g, Clear
<1>5. {q \in DOMAIN e : Clear(q)} = {q \in DOMAIN d : Clear(q)} \cup {w}
  BY <1>1, <1>4
<1>6. DOMAIN g = {q \in DOMAIN d : Clear(q)} /\ \A q \in DOMAIN g : g[q] = d[q]
  BY <1>3
<1>7. Put(g, w, t) = [q \in {q \in DOMAIN d : Clear(q)} \cup {w} |-> IF q = w THEN t ELSE d[q]]
  <2>1. Put(g, w, t) = [q \in DOMAIN g \cup {w} |-> IF q = w THEN t ELSE g[q]]
    BY DEF Put
  <2>2. \A q \in DOMAIN g \cup {w} :
           (IF q = w THEN t ELSE g[q]) = (IF q = w THEN t ELSE d[q])
    BY <1>6
  <2>3. QED
    BY <1>6, <2>1, <2>2
<1>8. NoUnion(e, m, p) = [q \in {q \in DOMAIN d : Clear(q)} \cup {w} |-> IF q = w THEN t ELSE d[q]]
  BY <1>2, <1>4, <1>5
<1>9. NoUnion(e, m, p) = Put(g, w, t)
  BY <1>7, <1>8
<1>10. QED
  BY <1>9 DEF e, g, w

LEMMA StoredUnions ==
    ASSUME UnionsInv, AtField, Known, Field.atype = "static", Field.ltype # "submessage", NEW v
    PROVE  /\ UnionsTyped(Stored(Flagged, v), DOMAIN Schema)
           /\ Shallow(dest, Stored(Flagged, v), Len(Top.path))
<1>1. /\ PlacesInv /\ Top.path \in Seq(Nat) /\ Len(Top.path) \in Nat /\ CountsTyped(dest)
      /\ Tag \in Nat \ {0} /\ Top.msg \in DOMAIN Schema /\ Path \in Seq(Nat) /\ ItemCount \in Nat
      /\ Path = Append(Top.path, Tag)
  BY UnionsNow, PathPlaced DEF Path
<1>2. CASE Field.htype = "oneof"
  <2> DEFINE g == Select(dest, Top.msg, Top.path, Tag)
  <2>1. /\ UnionsTyped(g, DOMAIN Schema) /\ CountsTyped(g) /\ Shallow(dest, g, Len(Top.path))
        /\ Which(g, Top.path) = Tag
    BY <1>1, SelectUnions
  <2>2. Stored(Flagged, v) = Put(g, Path, v)
    <3>1. Flagged = Put(dest, Append(Top.path, 0), Tag)
      BY <1>2 DEF Flagged, IsItem
    <3>2. NoUnion(Flagged, Top.msg, Top.path) = g
      BY <1>1, <3>1, NoUnionAfterWhich DEF Select
    <3>3. Target = Path
      BY <1>2 DEF Target, IsItem
    <3>4. QED
      BY <1>2, <3>2, <3>3 DEF Stored
  <2> HIDE DEF g
  <2>3. Chosen(g, Path, DOMAIN Schema)
    BY <2>1, PathChosen
  <2>4. UnionsTyped(Put(g, Path, v), DOMAIN Schema)
    BY <1>1, <2>1, <2>3, PutUnions
  <2>5. Shallow(g, Put(g, Path, v), Len(Top.path))
    BY <1>1, PathLengths, ShallowPut
  <2>6. QED
    BY <2>1, <2>2, <2>4, <2>5, ShallowChain
<1>3. CASE Field.htype # "oneof"
  <2>1. /\ UnionsTyped(Flagged, DOMAIN Schema) /\ CountsTyped(Flagged)
        /\ Shallow(dest, Flagged, Len(Top.path))
    BY <1>3, FlaggedUnions
  <2>2. Stored(Flagged, v) = Put(Flagged, Target, v)
    BY <1>3 DEF Stored
  <2>3. CASE IsItem
    <3> DEFINE n == ItemCount + 1
    <3>1. n \in Nat \ {0} /\ Target = Append(Path, n)
      BY <1>1, <2>3 DEF Target
    <3> HIDE DEF n
    <3>2. Chosen(Flagged, Append(Path, n), DOMAIN Schema)
      BY <1>3, <2>1, <2>3, <3>1, PathChosen
    <3>3. UnionsTyped(Put(Flagged, Append(Path, n), v), DOMAIN Schema)
      BY <1>1, <2>1, <3>1, <3>2, PutUnions
    <3>4. Len(Append(Path, n)) \in Nat /\ Len(Append(Path, n)) > Len(Top.path)
      BY <1>1, <3>1, PathLengths
    <3>5. Shallow(Flagged, Put(Flagged, Append(Path, n), v), Len(Top.path))
      BY <1>1, <3>4, ShallowPut
    <3>6. QED
      BY <2>1, <2>2, <3>1, <3>3, <3>5, ShallowChain
  <2>4. CASE ~IsItem
    <3>1. Target = Path
      BY <2>4 DEF Target
    <3>2. Chosen(Flagged, Path, DOMAIN Schema)
      BY <1>3, <2>1, PathChosen
    <3>3. UnionsTyped(Put(Flagged, Path, v), DOMAIN Schema)
      BY <1>1, <2>1, <3>2, PutUnions
    <3>4. Shallow(Flagged, Put(Flagged, Path, v), Len(Top.path))
      BY <1>1, PathLengths, ShallowPut
    <3>5. QED
      BY <2>1, <2>2, <3>1, <3>3, <3>4, ShallowChain
  <2>5. QED
    BY <2>3, <2>4
<1>4. QED
  BY <1>2, <1>3

(* A submessage is opened where it was selected.                           *)
LEMMA OpenedUnions ==
    ASSUME UnionsInv, AtField, Known, Field.atype = "static", Field.ltype = "submessage", NEW opened,
           opened = IF IsItem THEN Defaults(Flagged, Target) ELSE Flagged
    PROVE  /\ UnionsTyped(opened, DOMAIN Schema) /\ Shallow(dest, opened, Len(Top.path))
           /\ Chosen(opened, Target, DOMAIN Schema)
           /\ Len(Top.path) <= Len(Target)
<1>1. /\ PlacesInv /\ Top.path \in Seq(Nat) /\ Len(Top.path) \in Nat /\ CountsTyped(dest)
      /\ Tag \in Nat \ {0} /\ Path \in Seq(Nat) /\ ItemCount \in Nat
      /\ Path = Append(Top.path, Tag)
  BY UnionsNow, PathPlaced DEF Path
<1>2. /\ UnionsTyped(Flagged, DOMAIN Schema) /\ CountsTyped(Flagged)
      /\ Shallow(dest, Flagged, Len(Top.path))
      /\ Field.htype = "oneof" => Which(Flagged, Top.path) = Tag
  BY FlaggedUnions
<1>3. CASE IsItem
  <2> DEFINE n == ItemCount + 1
             t == Append(Path, n)
  <2>1. n \in Nat \ {0} /\ Target = t /\ Field.htype # "oneof" /\ opened = Defaults(Flagged, t)
    BY <1>1, <1>3 DEF Target, IsItem
  <2> HIDE DEF n
  <2>2. t \in Seq(Nat) /\ Len(t) \in Nat /\ Len(t) > Len(Top.path)
    BY <1>1, <2>1, PathLengths
  <2>3. UnionsTyped(opened, DOMAIN Schema)
    BY <1>1, <1>2, <2>1, DefaultsUnions
  <2>4. Shallow(dest, opened, Len(Top.path))
    <3>1. Shallow(Flagged, opened, Len(Top.path))
      BY <1>1, <1>2, <2>1, <2>2, ShallowDefaults
    <3>2. QED
      BY <1>2, <3>1, ShallowChain
  <2>5. Chosen(opened, t, DOMAIN Schema)
    BY <1>3, <2>1, <2>4, PathChosen
  <2>6. QED
    BY <1>1, <2>1, <2>2, <2>3, <2>4, <2>5
<1>4. CASE ~IsItem
  <2>1. Target = Path /\ opened = Flagged
    BY <1>4 DEF Target
  <2>2. Chosen(Flagged, Path, DOMAIN Schema)
    BY <1>2, PathChosen
  <2>3. Len(Path) > Len(Top.path) /\ Len(Path) \in Nat
    BY <1>1, PathLengths
  <2>4. QED
    BY <1>1, <1>2, <2>1, <2>2, <2>3
<1>5. QED
  BY <1>3, <1>4

----------------------------------------------------------------------------
(* The second invariant, shape by shape of the steps.                      *)
SamePlace(f, g) == f.msg = g.msg /\ f.path = g.path /\ f.packed = g.packed

IsCallbackFrame(f) == f.packed # 0 /\ Schema[f.msg][f.packed].atype = "callback"

(* The frames that were there, in the structure d.                         *)
LEMMA OldFrames ==
    ASSUME UnionsInv, NEW d, Shallow(dest, d, Len(Top.path)),
           IsCallbackFrame(Top) => PackedPath \in DOMAIN d, NEW i \in 1..Len(stack)
    PROVE  /\ Chosen(d, stack[i].path, DOMAIN Schema)
           /\ stack[i].path \in Seq(Nat) /\ Len(stack[i].path) \in Nat
           /\ Len(stack[i].path) <= Len(Top.path)
           /\ \A j \in i..Len(stack) : Len(stack[i].path) <= Len(stack[j].path)
           /\ IsCallbackFrame(stack[i]) => Append(stack[i].path, stack[i].packed) \in DOMAIN d
<1>1. /\ StreamInv /\ PlacesInv /\ Len(Top.path) \in Nat /\ Len(stack) \in Nat
      /\ stack[i] \in FrameType
  BY UnionsNow, LengthOne, ElementOfSeq DEF StreamInv
<1>2. FrameChosen(i)
  BY DEF UnionsInv
<1>3. stack[i].path \in Seq(Nat) /\ Len(stack[i].path) \in Nat
  BY <1>1, LenProperties DEF FrameType
<1>4. Len(stack[i].path) <= Len(Top.path)
  <2>1. Len(stack) \in i..Len(stack)
    BY <1>1
  <2>2. QED
    BY <1>2, <2>1 DEF FrameChosen, Top
<1>5. Chosen(d, stack[i].path, DOMAIN Schema)
  BY <1>1, <1>2, <1>3, <1>4, ShallowChosen DEF FrameChosen
<1>6. IsCallbackFrame(stack[i]) => Append(stack[i].path, stack[i].packed) \in DOMAIN d
  <2>1. CASE i = Len(stack)
    BY <2>1 DEF PackedPath, Top
  <2>2. CASE i # Len(stack)
    <3>1. i < Len(stack)
      BY <1>1, <2>2
    <3>2. QED
      BY <1>1, <3>1 DEF PlacesInv, StackPlaced, IsCallbackFrame
  <2>3. QED
    BY <2>1, <2>2
<1>7. QED
  BY <1>2, <1>3, <1>4, <1>5, <1>6 DEF FrameChosen

LEMMA UnionsNext ==
    ASSUME PlacesInv', NEW d, dest' = d, UnionsTyped(d, Considered(ret' = "failed")),
           \A i \in 1..Len(stack') :
              /\ Chosen(d, stack'[i].path, DOMAIN Schema)
              /\ \A j \in i..Len(stack') : Len(stack'[i].path) <= Len(stack'[j].path)
              /\ IsCallbackFrame(stack'[i]) => Append(stack'[i].path, stack'[i].packed) \in DOMAIN d
    PROVE  UnionsInv'
<1>1. UnionsTyped(dest', Considered(ret' = "failed"))
  OBVIOUS
<1>2. \A i \in 1..Len(stack') : FrameChosen(i)'
  BY DEF FrameChosen, IsCallbackFrame
<1>3. QED
  BY <1>1, <1>2 DEF UnionsInv

(* No frame comes or goes.                                                 *)
LEMMA UnionsStay ==
    ASSUME UnionsInv, PlacesInv', NEW d, dest' = d, UnionsTyped(d, Considered(ret' = "failed")),
           Shallow(dest, d, Len(Top.path)), IsCallbackFrame(Top) => PackedPath \in DOMAIN d,
           Len(stack') = Len(stack), \A i \in 1..Len(stack) : SamePlace(stack'[i], stack[i])
    PROVE  UnionsInv'
<1>1. ASSUME NEW i \in 1..Len(stack')
      PROVE  /\ Chosen(d, stack'[i].path, DOMAIN Schema)
             /\ \A j \in i..Len(stack') : Len(stack'[i].path) <= Len(stack'[j].path)
             /\ IsCallbackFrame(stack'[i]) => Append(stack'[i].path, stack'[i].packed) \in DOMAIN d
  <2>1. i \in 1..Len(stack) /\ SamePlace(stack'[i], stack[i])
    OBVIOUS
  <2>2. /\ Chosen(d, stack[i].path, DOMAIN Schema)
        /\ \A j \in i..Len(stack) : Len(stack[i].path) <= Len(stack[j].path)
        /\ IsCallbackFrame(stack[i]) => Append(stack[i].path, stack[i].packed) \in DOMAIN d
    BY <2>1, OldFrames
  <2>3. \A j \in i..Len(stack) : stack'[j].path = stack[j].path
    <3>1. \A j \in i..Len(stack) : j \in 1..Len(stack)
      BY UnionsNow, LengthOne
    <3>2. QED
      BY <3>1 DEF SamePlace
  <2>4. QED
    BY <2>1, <2>2, <2>3 DEF SamePlace, IsCallbackFrame
<1>2. QED
  BY <1>1, UnionsNext

LEMMA UnionsRead ==
    ASSUME UnionsInv, PlacesInv', NEW d, dest' = d, UnionsTyped(d, Considered(ret' = "failed")),
           Shallow(dest, d, Len(Top.path)), IsCallbackFrame(Top) => PackedPath \in DOMAIN d,
           NEW f \in FrameType, stack' = [stack EXCEPT ![Len(stack)] = f], SamePlace(f, Top)
    PROVE  UnionsInv'
<1>1. /\ Len(stack') = Len(stack)
      /\ \A i \in 1..Len(stack) : stack'[i] = IF i = Len(stack) THEN f ELSE stack[i]
  BY UnionsNow, ReadStack
<1>2. \A i \in 1..Len(stack) : SamePlace(stack'[i], stack[i])
  BY <1>1 DEF SamePlace, Top
<1>3. QED
  BY <1>1, <1>2, UnionsStay

LEMMA UnionsFail ==
    ASSUME UnionsInv, PlacesInv', NEW d, Fail(d), UnionsTyped(d, Considered(TRUE)),
           Shallow(dest, d, Len(Top.path)), IsCallbackFrame(Top) => PackedPath \in DOMAIN d
    PROVE  UnionsInv'
<1>1. stack' = stack /\ dest' = d /\ ret' = "failed"
  BY DEF Fail
<1>2. UnionsTyped(d, Considered(ret' = "failed"))
  BY <1>1
<1>3. \A i \in 1..Len(stack) : SamePlace(stack'[i], stack[i])
  BY <1>1 DEF SamePlace
<1>4. QED
  BY <1>1, <1>2, <1>3, UnionsStay

(* A failure that leaves the structure as it is.                           *)
LEMMA KeptCallback ==
    ASSUME UnionsInv
    PROVE  IsCallbackFrame(Top) => PackedPath \in DOMAIN dest
<1>1. Len(stack) \in 1..Len(stack)
  BY UnionsNow, LengthOne
<1>2. FrameChosen(Len(stack))
  BY <1>1 DEF UnionsInv
<1>3. QED
  BY <1>2 DEF FrameChosen, IsCallbackFrame, PackedPath, Top

LEMMA UnionsFailHere ==
    ASSUME UnionsInv, Running, PlacesInv', Fail(dest)
    PROVE  UnionsInv'
BY UnionsNow, FewerUnions, ShallowItself, KeptCallback, UnionsFail

LEMMA UnionsProceed ==
    ASSUME UnionsInv, Running, PlacesInv', NEW n \in 0..Top.left, NEW t \in Nat, NEW d, Proceed(n, t, d),
           UnionsTyped(d, DOMAIN Schema), Shallow(dest, d, Len(Top.path)),
           IsCallbackFrame(Top) => PackedPath \in DOMAIN d
    PROVE  UnionsInv'
<1> DEFINE f == After(n, t)
<1>1. StreamInv
  BY UnionsNow
<1>2. /\ f \in FrameType /\ SamePlace(f, Top)
      /\ stack' = [stack EXCEPT ![Len(stack)] = f] /\ dest' = d
  BY <1>1, AfterFacts, AfterPlace DEF Proceed, SamePlace
<1> HIDE DEF f
<1>3. UnionsTyped(d, Considered(ret' = "failed"))
  BY FewerUnions
<1>4. QED
  BY <1>2, <1>3, UnionsRead

LEMMA UnionsClose ==
    ASSUME UnionsInv, Running, PlacesInv', Len(stack) > 1,
           stack' = SubSeq(stack, 1, Len(stack) - 1), dest' = dest, ret' = ret
    PROVE  UnionsInv'
<1>1. StreamInv /\ Len(stack) \in Nat
  BY UnionsNow, LengthOne
<1>2. /\ Len(stack') = Len(stack) - 1
      /\ \A i \in 1..(Len(stack) - 1) : stack'[i] = stack[i]
  BY <1>1, PoppedStack
<1>3. ASSUME NEW i \in 1..Len(stack')
      PROVE  /\ Chosen(dest, stack'[i].path, DOMAIN Schema)
             /\ \A j \in i..Len(stack') : Len(stack'[i].path) <= Len(stack'[j].path)
             /\ IsCallbackFrame(stack'[i]) => Append(stack'[i].path, stack'[i].packed) \in DOMAIN dest
  <2>1. /\ i \in 1..Len(stack) /\ stack'[i] = stack[i]
        /\ \A j \in i..Len(stack') : j \in i..Len(stack) /\ stack'[j] = stack[j]
    BY <1>1, <1>2
  <2>2. /\ Chosen(dest, stack[i].path, DOMAIN Schema)
        /\ \A j \in i..Len(stack) : Len(stack[i].path) <= Len(stack[j].path)
        /\ IsCallbackFrame(stack[i]) => Append(stack[i].path, stack[i].packed) \in DOMAIN dest
    BY <2>1, OldFrames, ShallowItself, KeptCallback
  <2>3. QED
    BY <2>1, <2>2
<1>4. UnionsTyped(dest, Considered(ret' = "failed"))
  BY UnionsNow, FewerUnions
<1>5. QED
  BY <1>3, <1>4, UnionsNext

LEMMA UnionsOpenSized ==
    ASSUME UnionsInv, PlacesInv', AtField,
           NEW m \in DOMAIN Schema, NEW p \in Seq(Nat), NEW packed \in Nat,
           NEW d, NEW opened, OpenSized(m, p, packed, d, opened),
           UnionsTyped(d, Considered(TRUE)), Shallow(dest, d, Len(Top.path)),
           UnionsTyped(opened, DOMAIN Schema), Shallow(dest, opened, Len(Top.path)),
           Chosen(opened, p, DOMAIN Schema), Len(Top.path) <= Len(p),
           (packed # 0 /\ Schema[m][packed].atype = "callback") => Append(p, packed) \in DOMAIN opened
    PROVE  UnionsInv'
<1>1. StreamInv /\ Running /\ Len(stack) \in Nat \ {0} /\ Len(Top.path) \in Nat /\ Len(p) \in Nat
  BY UnionsNow, LengthOne, LenProperties DEF AtField
<1>2. ~IsCallbackFrame(Top)
  BY UnionsNow, TopPlaced DEF AtField, IsCallbackFrame
<1>3. CASE Fail(d)
  BY <1>2, <1>3, UnionsFail
<1>4. CASE ~Fail(d)
  <2>0. PICK n \in Nat : Opened(n, Tag, m, p, packed) /\ dest' = opened /\ ret' = ret
    BY <1>1, <1>4, OpenSizedCases
  <2>1. PICK below, child \in FrameType :
           /\ stack' = Append([stack EXCEPT ![Len(stack)] = below], child)
           /\ below.msg = Top.msg /\ below.path = Top.path /\ below.packed = Top.packed
           /\ child.msg = m /\ child.path = p /\ child.packed = packed
           /\ dest' = opened /\ ret' = ret
    BY <2>0 DEF Opened
  <2> DEFINE s == [stack EXCEPT ![Len(stack)] = below]
  <2>2. /\ s \in Seq(FrameType) /\ Len(s) = Len(stack)
        /\ \A i \in 1..Len(stack) : s[i] = IF i = Len(stack) THEN below ELSE stack[i]
    BY <1>1, ExceptSeq DEF StreamInv
  <2> HIDE DEF s
  <2>3. /\ Len(stack') = Len(stack) + 1
        /\ \A i \in 1..Len(stack) : stack'[i] = IF i = Len(stack) THEN below ELSE stack[i]
        /\ stack'[Len(stack) + 1] = child
    <3>1. stack' = Append(s, child)
      BY <2>1 DEF s
    <3>2. QED
      BY <2>1, <2>2, <3>1, AppendProperties
  <2>4. \A i \in 1..Len(stack) : SamePlace(stack'[i], stack[i])
    BY <2>1, <2>3 DEF SamePlace, Top
  <2>5. \A i \in 1..Len(stack') : \A j \in i..Len(stack') :
           /\ i \in 1..Len(stack) \/ (i = Len(stack) + 1 /\ j = i)
           /\ j \in i..Len(stack) \/ j = Len(stack) + 1
           /\ j \in 1..Len(stack) \/ j = Len(stack) + 1
    <3>1. \A k \in Nat : \A i \in 1..(k + 1) : \A j \in i..(k + 1) :
             /\ i \in 1..k \/ (i = k + 1 /\ j = i)
             /\ j \in i..k \/ j = k + 1
             /\ j \in 1..k \/ j = k + 1
      OBVIOUS
    <3>2. QED
      BY <1>1, <2>3, <3>1
  <2>6. ASSUME NEW i \in 1..Len(stack')
        PROVE  /\ Chosen(opened, stack'[i].path, DOMAIN Schema)
               /\ \A j \in i..Len(stack') : Len(stack'[i].path) <= Len(stack'[j].path)
               /\ IsCallbackFrame(stack'[i]) => Append(stack'[i].path, stack'[i].packed) \in DOMAIN opened
    <3>1. CASE i \in 1..Len(stack)
      <4>1. SamePlace(stack'[i], stack[i])
        BY <2>4, <3>1
      <4>2. /\ Chosen(opened, stack[i].path, DOMAIN Schema)
            /\ Len(stack[i].path) \in Nat /\ Len(stack[i].path) <= Len(Top.path)
            /\ \A j \in i..Len(stack) : Len(stack[i].path) <= Len(stack[j].path)
            /\ IsCallbackFrame(stack[i]) => Append(stack[i].path, stack[i].packed) \in DOMAIN opened
        BY <1>2, <3>1, OldFrames
      <4>3. ASSUME NEW j \in i..Len(stack') PROVE Len(stack'[i].path) <= Len(stack'[j].path)
        <5>1. CASE j \in i..Len(stack) /\ j \in 1..Len(stack)
          BY <2>4, <4>1, <4>2, <5>1 DEF SamePlace
        <5>2. CASE j = Len(stack) + 1
          <6>1. stack'[j].path = p
            BY <2>1, <2>3, <5>2
          <6>2. Len(stack[i].path) <= Len(p)
            BY <1>1, <4>2
          <6>3. QED
            BY <4>1, <6>1, <6>2 DEF SamePlace
        <5>3. QED
          BY <2>5, <5>1, <5>2
      <4>4. QED
        BY <4>1, <4>2, <4>3 DEF SamePlace, IsCallbackFrame
    <3>2. CASE i = Len(stack) + 1
      <4>1. stack'[i] = child
        BY <2>3, <3>2
      <4>2. \A j \in i..Len(stack') : j = i
        <5>1. \A k \in Nat : \A j \in (k + 1)..(k + 1) : j = k + 1
          OBVIOUS
        <5>2. QED
          BY <1>1, <2>3, <3>2, <5>1
      <4>3. QED
        BY <1>1, <2>1, <4>1, <4>2 DEF IsCallbackFrame
    <3>3. QED
      <4>1. i \in 1..Len(stack) \/ i = Len(stack) + 1
        BY <1>1, <2>3
      <4>2. QED
        BY <3>1, <3>2, <4>1
  <2>7. UnionsTyped(opened, Considered(ret' = "failed"))
    BY FewerUnions
  <2>8. QED
    BY <2>1, <2>6, <2>7, UnionsNext
<1>5. QED
  BY <1>3, <1>4

LEMMA MessageKeepsUnions ==
    ASSUME UnionsInv, PlacesInv', ReadTag \/ BadTag \/ EndMessage \/ MissingRequired
    PROVE  UnionsInv'
<1>0. Running /\ StreamInv /\ UnionsTyped(dest, DOMAIN Schema)
  <2>1. Running
    BY DEF ReadTag, BadTag, EndMessage, NoMoreFields, MissingRequired, AtTag
  <2>2. QED
    BY <2>1, UnionsNow
<1>1. CASE ReadTag
  <2> DEFINE temp == Varint32(Rest)
             f == [Top EXCEPT !.left = Top.left - temp.len]
  <2>1. temp.len \in 0..Top.left /\ Top \in FrameType /\ Top.left \in Nat
    BY <1>0, RestFacts, TopFacts, Varint32Type
  <2> HIDE DEF temp
  <2>2. Top.left - temp.len \in Nat
    BY <2>1
  <2>3. f \in FrameType /\ SamePlace(f, Top)
    BY <2>1, <2>2 DEF FrameType, SamePlace
  <2>4. stack' = [stack EXCEPT ![Len(stack)].left = @ - temp.len] /\ dest' = dest
    BY <1>1 DEF ReadTag, AtTag, temp
  <2>5. stack' = [stack EXCEPT ![Len(stack)] = f]
    BY <2>4 DEF Top
  <2> HIDE DEF f
  <2>6. UnionsTyped(dest, Considered(ret' = "failed"))
    BY <1>0, FewerUnions
  <2>7. QED
    BY <2>3, <2>4, <2>5, <2>6, ShallowItself, KeptCallback, UnionsRead
<1>2. CASE BadTag
  BY <1>0, <1>2, UnionsFailHere DEF BadTag
<1>3. CASE EndMessage
  <2>1. CASE Len(stack) > 1
    <3>1. stack' = SubSeq(stack, 1, Len(stack) - 1) /\ dest' = dest /\ ret' = ret
      BY <1>3, <2>1 DEF EndMessage, Close
    <3>2. QED
      BY <1>0, <2>1, <3>1, UnionsClose
  <2>2. CASE ~(Len(stack) > 1)
    <3>1. stack' = stack /\ dest' = dest
      BY <1>3, <2>2 DEF EndMessage
    <3>2. \A i \in 1..Len(stack) : SamePlace(stack'[i], stack[i])
      BY <3>1 DEF SamePlace
    <3>3. UnionsTyped(dest, Considered(ret' = "failed"))
      BY <1>0, FewerUnions
    <3>4. QED
      BY <3>1, <3>2, <3>3, ShallowItself, KeptCallback, UnionsStay
  <2>3. QED
    BY <2>1, <2>2
<1>4. CASE MissingRequired
  BY <1>0, <1>4, UnionsFailHere DEF MissingRequired
<1>5. QED
  BY <1>1, <1>2, <1>3, <1>4

LEMMA FieldKeepsUnions ==
    ASSUME UnionsInv, PlacesInv',
           \/ WrongFixedCount \/ SkipField \/ CannotSkip
           \/ ArrayOverflow \/ DecodeScalar \/ DecodeSubmessage \/ OpenPacked
    PROVE  UnionsInv'
<1>0. /\ AtField /\ Running /\ PlacesInv /\ PbInv /\ StreamInv /\ Tag \in Nat
      /\ UnionsTyped(dest, DOMAIN Schema) /\ ~IsCallbackFrame(Top)
  <2>1. AtField
    BY DEF WrongFixedCount, SkipField, CannotSkip, Skippable, ArrayOverflow, DecodeScalar,
           DecodeSubmessage, OpenPacked, IsStatic, AtKnown
  <2>2. Running
    BY <2>1 DEF AtField
  <2>3. QED
    BY <2>1, <2>2, UnionsNow, FieldFacts, TopPlaced DEF AtField, IsCallbackFrame
<1>1. CASE WrongFixedCount
  BY <1>0, <1>1, UnionsFailHere DEF WrongFixedCount
<1>2. CASE SkipField
  <2> DEFINE d == IF Known THEN Counted ELSE dest
  <2>1. PICK n \in Lengths : Proceed(n, Tag, d)
    BY <1>2 DEF SkipField
  <2>2. n \in 0..Top.left
    BY <1>0, SkippedFacts
  <2>3. Known => Field.atype = "callback"
    BY <1>2 DEF SkipField, Skippable
  <2>4. UnionsTyped(d, DOMAIN Schema) /\ Shallow(dest, d, Len(Top.path))
    BY <1>0, <2>3, CountedUnions, ShallowItself
  <2> HIDE DEF d
  <2>5. QED
    BY <1>0, <2>1, <2>2, <2>4, UnionsProceed
<1>3. CASE CannotSkip
  BY <1>0, <1>3, UnionsFailHere DEF CannotSkip
<1>4. CASE ArrayOverflow
  <2>1. Known /\ Field.atype = "static" /\ Fail(Flagged)
    BY <1>4 DEF ArrayOverflow, IsStatic, AtKnown
  <2>2. UnionsTyped(Flagged, Considered(TRUE)) /\ Shallow(dest, Flagged, Len(Top.path))
    BY <1>0, <2>1, FlaggedUnions
  <2>3. QED
    BY <1>0, <2>1, <2>2, UnionsFail
<1>5. CASE DecodeScalar
  <2> DEFINE r == Decoded(Field, Rest)
             d == IF r.stored THEN Stored(Flagged, r.value) ELSE Flagged
  <2>1. Known /\ Field.atype = "static" /\ Field.ltype # "submessage"
    BY <1>5 DEF DecodeScalar, IsStatic, AtKnown
  <2>2. r.ok => r.len \in 0..Top.left /\ r.stored
    BY <1>0, RestFacts, DecodedFacts, FixedStored
  <2>3. IF r.ok THEN Proceed(r.len, Tag, d) ELSE Fail(d)
    BY <1>5 DEF DecodeScalar
  <2> HIDE DEF r
  <2>4. r.stored => UnionsTyped(d, DOMAIN Schema)
    BY <1>0, <2>1, StoredUnions
  <2>5. UnionsTyped(d, Considered(TRUE)) /\ Shallow(dest, d, Len(Top.path))
    <3>1. CASE r.stored
      <4>1. UnionsTyped(d, Considered(TRUE))
        BY <2>4, <3>1, FewerUnions
      <4>2. QED
        BY <1>0, <2>1, <3>1, <4>1, StoredUnions
    <3>2. CASE ~r.stored
      BY <1>0, <2>1, <3>2, FlaggedUnions
    <3>3. QED
      BY <3>1, <3>2
  <2> HIDE DEF d
  <2>6. CASE r.ok
    BY <1>0, <2>2, <2>3, <2>4, <2>5, <2>6, UnionsProceed
  <2>7. CASE ~r.ok
    BY <1>0, <2>3, <2>5, <2>7, UnionsFail
  <2>8. QED
    BY <2>6, <2>7
<1>6. CASE DecodeSubmessage
  <2> DEFINE opened == IF IsItem THEN Defaults(Flagged, Target) ELSE Flagged
  <2>1. /\ Known /\ Field.ltype = "submessage" /\ Field.atype = "static"
        /\ OpenSized(Field.sub, Target, 0, Flagged, opened)
    BY <1>6 DEF DecodeSubmessage, IsStatic, AtKnown
  <2>2. UnionsTyped(Flagged, Considered(TRUE)) /\ Shallow(dest, Flagged, Len(Top.path))
    BY <1>0, <2>1, FlaggedUnions
  <2>3. /\ UnionsTyped(opened, DOMAIN Schema) /\ Shallow(dest, opened, Len(Top.path))
        /\ Chosen(opened, Target, DOMAIN Schema) /\ Len(Top.path) <= Len(Target)
    BY <1>0, <2>1, OpenedUnions
  <2> HIDE DEF opened
  <2>4. Field.sub \in DOMAIN Schema /\ Target \in Seq(Nat) /\ 0 \in Nat
    BY <1>0, <2>1, FieldFacts, TargetFacts
  <2>5. QED
    BY <1>0, <2>1, <2>2, <2>3, <2>4, UnionsOpenSized
<1>7. CASE OpenPacked
  <2>1. /\ Known /\ IsItem /\ Field.atype = "static"
        /\ OpenSized(Top.msg, Top.path, Tag, dest, Counted)
    BY <1>7 DEF OpenPacked, IsStatic, AtKnown, Packed
  <2>2. /\ UnionsTyped(dest, Considered(TRUE)) /\ Shallow(dest, dest, Len(Top.path))
        /\ UnionsTyped(Counted, DOMAIN Schema) /\ Shallow(dest, Counted, Len(Top.path))
    BY <1>0, <2>1, FewerUnions, ShallowItself, CountedUnions
  <2>3. Top.msg \in DOMAIN Schema /\ Top.path \in Seq(Nat) /\ Len(Top.path) <= Len(Top.path)
    <3>1. Len(Top.path) \in Nat
      BY UnionsNow
    <3>2. QED
      BY <1>0, <2>1, <3>1, PathPlaced
  <2>4. Chosen(Counted, Top.path, DOMAIN Schema)
    BY <2>2, <2>3, UnionsNow, ShallowChosen
  <2>5. Schema[Top.msg][Tag].atype # "callback"
    BY <2>1 DEF Field
  <2>6. QED
    BY <1>0, <2>1, <2>2, <2>3, <2>4, <2>5, UnionsOpenSized
<1>8. QED
  BY <1>1, <1>2, <1>3, <1>4, <1>5, <1>6, <1>7

LEMMA PackedKeepsUnions ==
    ASSUME UnionsInv, PlacesInv', DecodePacked \/ ClosePacked \/ PackedOverflow
    PROVE  UnionsInv'
<1>0. /\ Running /\ Top.packed # 0 /\ PackedField.atype = "static" /\ ~IsCallbackFrame(Top)
      /\ PlacesInv /\ StreamInv /\ CountsTyped(dest) /\ UnionsTyped(dest, DOMAIN Schema)
      /\ Top.path \in Seq(Nat) /\ Len(Top.path) \in Nat /\ Chosen(dest, Top.path, DOMAIN Schema)
  <2>1. Running /\ Top.packed # 0 /\ PackedField.atype = "static"
    BY DEF DecodePacked, ClosePacked, PackedOverflow, InPacked
  <2>2. QED
    BY <2>1, UnionsNow DEF IsCallbackFrame, PackedField
<1>1. CASE DecodePacked
  <2> DEFINE n == Count(dest, PackedPath) + 1
             r == Decoded(PackedField, Rest)
             g == Put(dest, Append(PackedPath, n), r.value)
             d == IF r.stored THEN g ELSE dest
             e == Put(d, Append(PackedPath, 0), n)
  <2>1. r.ok => r.len \in 0..Top.left
    BY <1>0, RestFacts, DecodedFacts
  <2>2. IF r.ok THEN Proceed(r.len, 0, e) ELSE Fail(d)
    BY <1>1 DEF DecodePacked
  <2>3. /\ PackedPath \in Seq(Nat) /\ Count(dest, PackedPath) \in Nat /\ Top.packed \in Nat \ {0}
        /\ Top.packed \in DOMAIN Schema[Top.msg] /\ Location(Top.path).msg = Top.msg
        /\ Location(PackedPath).kind # "message"
    BY <1>0, PackedPlaced, SpotFields
  <2>4. n \in Nat \ {0}
    BY <2>3
  <2> HIDE DEF n, r
  <2>5. Top.packed \notin OneofTags(Top.msg)
    BY <1>0, PackedPlaced DEF OneofTags, StaticArray, PackedField
  <2>6. Chosen(dest, PackedPath, DOMAIN Schema)
    BY <1>0, <2>3, <2>5, ChosenAppend DEF PackedPath
  <2>7. \A k \in Nat : Chosen(dest, Append(PackedPath, k), DOMAIN Schema)
    BY <2>3, <2>6, ChosenAppend
  <2>8. CountsTyped(g) /\ UnionsTyped(g, DOMAIN Schema)
    BY <1>0, <2>3, <2>4, <2>7, PutValue, PutUnions
  <2>9. \A k \in Nat : Len(Append(PackedPath, k)) \in Nat /\ Len(Append(PackedPath, k)) > Len(Top.path)
    BY <1>0, <2>3, PathLengths DEF PackedPath
  <2>10. Shallow(dest, g, Len(Top.path))
    BY <1>0, <2>4, <2>9, ShallowPut
  <2>11. Chosen(g, Append(PackedPath, 0), DOMAIN Schema)
    <3>1. Append(PackedPath, 0) \in Seq(Nat)
      BY <2>3, AppendProperties
    <3>2. QED
      BY <2>3, <2>4, <2>7, <3>1, PutKeepsChosen
  <2> HIDE DEF g
  <2>12. /\ CountsTyped(d) /\ UnionsTyped(d, DOMAIN Schema) /\ Shallow(dest, d, Len(Top.path))
         /\ Chosen(d, Append(PackedPath, 0), DOMAIN Schema)
    BY <1>0, <2>7, <2>8, <2>10, <2>11, ShallowItself
  <2> HIDE DEF d
  <2>13. UnionsTyped(e, DOMAIN Schema)
    BY <2>3, <2>12, PutUnions
  <2>14. Shallow(dest, e, Len(Top.path))
    <3>1. Shallow(d, e, Len(Top.path))
      BY <1>0, <2>9, ShallowPut
    <3>2. QED
      BY <2>12, <3>1, ShallowChain
  <2> HIDE DEF e
  <2>15. CASE r.ok
    <3>1. 0 \in Nat
      OBVIOUS
    <3>2. QED
      BY <1>0, <2>1, <2>2, <2>13, <2>14, <2>15, <3>1, UnionsProceed
  <2>16. CASE ~r.ok
    <3>1. UnionsTyped(d, Considered(TRUE))
      BY <2>12, FewerUnions
    <3>2. QED
      BY <1>0, <2>2, <2>12, <2>16, <3>1, UnionsFail
  <2>17. QED
    BY <2>15, <2>16
<1>2. CASE ClosePacked
  <2>1. stack' = SubSeq(stack, 1, Len(stack) - 1) /\ dest' = dest /\ ret' = ret
    BY <1>2 DEF ClosePacked, Close
  <2>2. Len(stack) > 1
    BY <1>0, PackedPlaced
  <2>3. QED
    BY <1>0, <2>1, <2>2, UnionsClose
<1>3. CASE PackedOverflow
  BY <1>0, <1>3, UnionsFailHere DEF PackedOverflow
<1>4. QED
  BY <1>1, <1>2, <1>3

LEMMA CallbackKeepsUnions ==
    ASSUME UnionsInv, PlacesInv',
           \/ OpenCallback \/ CallbackReads \/ CallbackDone \/ CallbackFails
           \/ CallbackScalar \/ CallbackUnread
    PROVE  UnionsInv'
<1>0. /\ Running /\ PlacesInv /\ PbInv /\ StreamInv /\ CountsTyped(dest)
      /\ UnionsTyped(dest, DOMAIN Schema)
      /\ Top.path \in Seq(Nat) /\ Len(Top.path) \in Nat /\ Chosen(dest, Top.path, DOMAIN Schema)
  <2>1. Running
    BY DEF OpenCallback, CallbackReads, CallbackDone, CallbackFails, CallbackScalar, CallbackUnread,
           IsCallback, InCallback, AtKnown, AtField
  <2>2. QED
    BY <2>1, UnionsNow
<1>1. CASE OpenCallback
  <2>1. /\ AtField /\ Known /\ Field.atype = "callback" /\ IsSet
        /\ OpenSized(Top.msg, Top.path, Tag, Counted, Counted)
    BY <1>1 DEF OpenCallback, IsCallback, AtKnown
  <2>2. /\ UnionsTyped(Counted, DOMAIN Schema) /\ Shallow(dest, Counted, Len(Top.path))
        /\ UnionsTyped(Counted, Considered(TRUE))
    BY <2>1, CountedUnions, FewerUnions
  <2>3. Top.msg \in DOMAIN Schema /\ Tag \in Nat /\ Len(Top.path) <= Len(Top.path)
    BY <1>0, <2>1, PathPlaced
  <2>4. Chosen(Counted, Top.path, DOMAIN Schema)
    BY <1>0, <2>2, <2>3, ShallowChosen
  <2>5. Append(Top.path, Tag) \in DOMAIN Counted
    BY <2>1 DEF IsSet, Path, Counted, Put
  <2>6. QED
    BY <1>0, <2>1, <2>2, <2>3, <2>4, <2>5, UnionsOpenSized
<1>2. CASE CallbackReads
  <2> DEFINE v(n) == dest[PackedPath] \o SubSeq(Rest, 1, n)
             e(n) == Put(dest, PackedPath, v(n))
  <2>1. PICK n \in 1..Top.left : Proceed(n, 0, e(n))
    BY <1>2 DEF CallbackReads
  <2>2. IsCallbackFrame(Top) /\ Top.packed # 0
    BY <1>2 DEF CallbackReads, InCallback, IsCallbackFrame, PackedField
  <2>3. Top.packed \in Nat \ {0} /\ PackedPath = Append(Top.path, Top.packed) /\ PackedPath \in DOMAIN dest
    BY <1>0, <2>2, PackedPlaced, KeptCallback DEF PackedPath
  <2> HIDE DEF v
  <2>4. UnionsTyped(e(n), DOMAIN Schema)
    BY <1>0, <2>3, PutUnions
  <2>5. Shallow(dest, e(n), Len(Top.path))
    <3>1. Len(PackedPath) \in Nat /\ Len(PackedPath) > Len(Top.path)
      BY <1>0, <2>3, PathLengths
    <3>2. QED
      BY <1>0, <3>1, ShallowPut
  <2>6. PackedPath \in DOMAIN e(n)
    BY DEF Put
  <2> HIDE DEF e
  <2>7. n \in 0..Top.left /\ 0 \in Nat
    OBVIOUS
  <2>8. QED
    BY <1>0, <2>1, <2>4, <2>5, <2>6, <2>7, UnionsProceed
<1>3. CASE CallbackDone
  <2>1. stack' = SubSeq(stack, 1, Len(stack) - 1) /\ dest' = dest /\ ret' = ret
    BY <1>3 DEF CallbackDone, Close
  <2>2. Len(stack) > 1
    BY <1>0, <1>3, PackedPlaced DEF CallbackDone, InCallback
  <2>3. QED
    BY <1>0, <2>1, <2>2, UnionsClose
<1>4. CASE CallbackFails
  BY <1>0, <1>4, UnionsFailHere DEF CallbackFails
<1>5. CASE CallbackScalar
  <2> DEFINE v(n) == dest[Path] \o SubSeq(Rest, 1, n)
             e(n) == Put(Counted, Path, v(n))
  <2>1. PICK n \in Raw(Rest) : Proceed(n, Tag, e(n))
    BY <1>5 DEF CallbackScalar
  <2>2. AtField /\ Known /\ Field.atype = "callback" /\ IsSet
    BY <1>5 DEF CallbackScalar, IsCallback, AtKnown
  <2>3. /\ Tag \in Nat \ {0} /\ Path = Append(Top.path, Tag) /\ n \in 0..Top.left
        /\ CountsTyped(Counted) /\ UnionsTyped(Counted, DOMAIN Schema)
        /\ Shallow(dest, Counted, Len(Top.path)) /\ ~IsCallbackFrame(Top)
    BY <1>0, <2>2, PathPlaced, RawFacts, TargetFacts, CountedUnions DEF Path, IsCallbackFrame
  <2>4. Path \in DOMAIN Counted
    BY <2>2 DEF IsSet, Counted, Put
  <2> HIDE DEF v
  <2>5. UnionsTyped(e(n), DOMAIN Schema)
    BY <1>0, <2>3, <2>4, PutUnions
  <2>6. Shallow(dest, e(n), Len(Top.path))
    <3>1. Len(Path) \in Nat /\ Len(Path) > Len(Top.path)
      BY <1>0, <2>3, PathLengths
    <3>2. Shallow(Counted, e(n), Len(Top.path))
      BY <1>0, <3>1, ShallowPut
    <3>3. QED
      BY <2>3, <3>2, ShallowChain
  <2> HIDE DEF e
  <2>7. QED
    BY <1>0, <2>1, <2>3, <2>5, <2>6, UnionsProceed
<1>6. CASE CallbackUnread
  BY <1>0, <1>6, UnionsFailHere DEF CallbackUnread
<1>7. QED
  BY <1>1, <1>2, <1>3, <1>4, <1>5, <1>6

LEMMA StartUnions ==
    ASSUME NEW b \in Seq(Byte), Started(b)
    PROVE  UnionsInv
<1>1. PlacesInv
  BY StartPlaces
<1> DEFINE f == Frame(Root, <<>>, Len(b), 0, 0)
<1>3. stack = <<f>> /\ dest = Empty
  BY DEF Started
<1>4. f.path = <<>> /\ f.packed = 0
  BY DEF Frame
<1> HIDE DEF f
<1>5. Len(stack) = 1 /\ stack[1] = f
  BY <1>3
<1>6. ASSUME NEW i \in 1..Len(stack) PROVE FrameChosen(i)
  <2>1. i = 1 /\ \A j \in i..Len(stack) : j = 1
    BY <1>5
  <2>2. Len(f.path) <= Len(f.path)
    BY <1>4
  <2>3. Chosen(dest, f.path, DOMAIN Schema)
    BY <1>4, ChosenRoot
  <2>4. QED
    BY <1>4, <1>5, <2>1, <2>2, <2>3 DEF FrameChosen
<1>7. UnionsTyped(dest, Considered(ret = "failed"))
  BY <1>3 DEF UnionsTyped, Empty
<1>8. QED
  BY <1>1, <1>6, <1>7 DEF UnionsInv

LEMMA UnionsInit == PbInit => UnionsInv
BY StartUnions, InputsAssumption DEF PbInit

LEMMA UnionsStep ==
    ASSUME UnionsInv, [PbNext]_pbVars
    PROVE  UnionsInv'
<1>1. PlacesInv'
  BY PlacesStep DEF UnionsInv
<1>2. CASE PbNext
  BY <1>1, <1>2, MessageKeepsUnions, FieldKeepsUnions, PackedKeepsUnions, CallbackKeepsUnions DEF PbNext
<1>3. CASE UNCHANGED pbVars
  <2>1. stack' = stack /\ dest' = dest /\ ret' = ret
    BY <1>3 DEF pbVars
  <2>2. UnionsTyped(dest, Considered(ret' = "failed"))
    BY <2>1 DEF UnionsInv
  <2>3. \A i \in 1..Len(stack) : SamePlace(stack'[i], stack[i])
    BY <2>1 DEF SamePlace
  <2>4. QED
    BY <1>1, <2>1, <2>2, <2>3, ShallowItself, KeptCallback, UnionsStay
<1>4. QED
  BY <1>2, <1>3

(* While a message is decoded, every member of a oneof that leads to data  *)
(* or to an open message is the one that its which_ names.                 *)
THEOREM UnionsInvariant == PbSpec => []UnionsInv
<1>1. UnionsInv /\ [PbNext]_pbVars => UnionsInv'
  BY UnionsStep
<1>2. QED
  BY <1>1, UnionsInit, PTL DEF PbSpec

(* What is below a member is decided by that member's message.             *)
LEMMA BelowMember ==
    ASSUME NEW p \in Seq(Nat), NEW t \in Nat, NEW q \in Seq(Nat), Below(Append(p, t), q)
    PROVE  Len(p) \in 0..(Len(q) - 1) /\ SubSeq(q, 1, Len(p)) = p /\ q[Len(p) + 1] = t
<1> DEFINE w == Append(p, t)
           k == Len(p)
<1>1. w \in Seq(Nat) /\ Len(w) = k + 1 /\ k \in Nat
  BY AppendProperties, LenProperties
<1> HIDE DEF w, k
<1>2. Below(w, q)
  BY DEF w
<1>3. k + 1 <= Len(q) /\ Len(q) \in Nat /\ SubSeq(q, 1, k + 1) = w
  BY <1>1, <1>2, BelowLength DEF Below
<1>4. k \in 0..Len(q) /\ k < Len(q) /\ k \in 0..(Len(q) - 1)
  BY <1>1, <1>3
<1>5. /\ SubSeq(q, 1, k + 1) = Append(SubSeq(q, 1, k), q[k + 1]) /\ q[k + 1] \in Nat
      /\ SubSeq(q, 1, k) \in Seq(Nat)
  BY <1>4, NextPrefix, PrefixType
<1>6. SubSeq(q, 1, k) = p /\ q[k + 1] = t
  <2> DEFINE r == SubSeq(q, 1, k)
             x == q[k + 1]
  <2>1. r \in Seq(Nat) /\ x \in Nat /\ Append(r, x) = Append(p, t)
    BY <1>3, <1>5 DEF w
  <2> HIDE DEF r, x
  <2>2. r = p /\ x = t
    BY <2>1, AppendInjective
  <2>3. QED
    BY <2>2 DEF r, x
<1>7. QED
  BY <1>4, <1>6 DEF k

LEMMA UnionsAgree == UnionsInv => UnionConsistent
<1>1. ASSUME UnionsInv, NEW i \in 1..Len(stack), NEW t \in OneofTags(stack[i].msg),
             NEW q \in DOMAIN dest \ Callbacks, Below(Append(stack[i].path, t), q),
             ret = "failed" => \A u \in OneofTags(stack[i].msg) : Schema[stack[i].msg][u].ltype = "submessage"
      PROVE  Which(dest, stack[i].path) = t
  <2> DEFINE m == stack[i].msg
             p == stack[i].path
             k == Len(p)
  <2>1. /\ StreamInv /\ CountsTyped(dest) /\ PlacesInv /\ stack[i] \in FrameType
    BY <1>1, UnionsNow, LengthOne, ElementOfSeq DEF StreamInv
  <2>2. /\ m \in DOMAIN Schema /\ p \in Seq(Nat) /\ q \in Seq(Nat)
        /\ Location(p) = Spot("message", m, 0)
    BY <1>1, <2>1 DEF FrameType, CountsTyped, PlacesInv, StackPlaced, FramePlaced
  <2>3. t \in Nat
    BY <2>2, FieldAt DEF OneofTags
  <2>4. k \in 0..(Len(q) - 1) /\ SubSeq(q, 1, k) = p /\ q[k + 1] = t
    BY <1>1, <2>2, <2>3, BelowMember
  <2>5. m \in Considered(ret = "failed")
    BY <1>1, <2>2 DEF Considered, UnionOfMessages
  <2>6. Chosen(dest, q, Considered(ret = "failed"))
    BY <1>1 DEF UnionsInv, UnionsTyped
  <2>7. Location(p).kind = "message" /\ Location(p).msg = m
    BY <2>2, SpotFields
  <2>8. t \in OneofTags(m)
    OBVIOUS
  <2> HIDE DEF m, p, k
  <2>9. Which(dest, p) = t
    BY <2>4, <2>5, <2>6, <2>7, <2>8 DEF Chosen
  <2>10. QED
    BY <2>9 DEF p
<1>2. QED
  BY <1>1 DEF UnionConsistent

(* which_ names the only member of a oneof that holds data (rpc.c reads    *)
(* the unions even after a failure).                                       *)
THEOREM UnionsAlwaysConsistent == PbSpec => []UnionConsistent
BY UnionsAgree, UnionsInvariant, PTL

(* A new call of pb_decode establishes them, whatever the one before left. *)
LEMMA StartStruct ==
    ASSUME NEW b \in Seq(Byte)
    PROVE  PbStart(b) => StructInv'
<1>1. Started(b) => StructInv
  BY StartUnions, StartRoot DEF StructInv
<1>2. Started(b)' => StructInv'
  BY <1>1, PTL
<1>3. PbStart(b) => Started(b)'
  BY DEF PbStart, Started
<1>4. QED
  BY <1>2, <1>3

LEMMA StructStep == StructInv /\ [PbNext]_pbVars => StructInv'
BY UnionsStep, RootStep DEF StructInv

(* The invariants of the structure together.                               *)
THEOREM StructInvariant == PbSpec => []StructInv
BY UnionsInvariant, RootInvariant, PTL DEF StructInv
=============================================================================
