------------------------- MODULE PbFieldIter_proofs -------------------------
(***************************************************************************)
(* Proofs about PbFieldIter, for every set of structures: any number of    *)
(* fields, of any size, in any layout.  IterInv needs nothing of where the *)
(* fields are; that the pointers are right needs NoFullGap besides.        *)
(***************************************************************************)
EXTENDS PbFieldIter, FiniteSetTheorems, SequenceTheorems, TLAPS

(* What StructAssumption says of a field of the structure.                 *)
LEMMA FieldShape ==
    ASSUME s \in Structs, NEW i \in 1..Len(s)
    PROVE  /\ Len(s) \in Nat
           /\ s[i] \in FieldType
           /\ s[i].size = PrevSize(s[i])
           /\ i = 1 => ~s[i].inner
           /\ i > 1 => Follows(s[i - 1], s[i])
<1>1. s \in Seq(FieldType)
  BY StructAssumption
<1>2. s[i] \in FieldType
  BY <1>1
<1>3. s[i].size = PrevSize(s[i])
  <2>1. s[i].atype \in {"static", "pointer", "callback"}
    BY <1>2 DEF FieldType
  <2>2. s[i].size = IF s[i].atype = "pointer" THEN 4
                    ELSE IF s[i].atype = "static" /\ s[i].htype = "repeated"
                    THEN s[i].item * s[i].max ELSE s[i].item
    BY StructAssumption
  <2>3. QED
    BY <2>1, <2>2 DEF PrevSize
<1>4. QED
  BY <1>1, <1>2, <1>3, StructAssumption

LEMMA FieldNumbers ==
    ASSUME NEW f \in FieldType
    PROVE  f.size \in Int /\ f.offset \in Int /\ f.aux \in Int
  BY DEF FieldType

LEMMA EmptyLength ==
    ASSUME s \in Structs
    PROVE  Len(s) \in Nat /\ (s = <<>> <=> Len(s) = 0)
<1>1. s \in Seq(FieldType)
  BY StructAssumption
<1>2. QED
  BY <1>1, EmptySeq

(* The number of required fields among the first p + 1.                    *)
LEMMA CountOneMore ==
    ASSUME NEW p \in Nat
    PROVE  /\ Cardinality(RequiredIn(p)) \in Nat
           /\ Cardinality(RequiredIn(p + 1)) =
                  Cardinality(RequiredIn(p)) + (IF s[p + 1].htype = "required" THEN 1 ELSE 0)
<1>1. IsFiniteSet(RequiredIn(p)) /\ Cardinality(RequiredIn(p)) \in Nat
  <2>1. IsFiniteSet(1..p)
    BY FS_Interval
  <2>2. RequiredIn(p) \in SUBSET (1..p)
    BY DEF RequiredIn
  <2>3. IsFiniteSet(RequiredIn(p))
    BY <2>1, <2>2, FS_Subset
  <2>4. QED
    BY <2>3, FS_CardinalityType
<1>2. CASE s[p + 1].htype = "required"
  <2>1. RequiredIn(p + 1) = RequiredIn(p) \cup {p + 1}
    BY <1>2 DEF RequiredIn
  <2>2. p + 1 \notin RequiredIn(p)
    BY DEF RequiredIn
  <2>3. Cardinality(RequiredIn(p) \cup {p + 1}) = Cardinality(RequiredIn(p)) + 1
    BY <1>1, <2>2, FS_AddElement
  <2>4. QED
    BY <1>1, <1>2, <2>1, <2>3
<1>3. CASE s[p + 1].htype # "required"
  <2>1. RequiredIn(p + 1) = RequiredIn(p)
    BY <1>3 DEF RequiredIn
  <2>2. QED
    BY <1>1, <1>3, <2>1
<1>4. QED
  BY <1>2, <1>3

LEMMA CountNone == Cardinality(RequiredIn(0)) = 0
<1>1. RequiredIn(0) = {}
  BY DEF RequiredIn
<1>2. QED
  BY <1>1, FS_EmptySet

----------------------------------------------------------------------------
(* The iterator at the first field.                                        *)
LEMMA BeginRight ==
    ASSUME s \in Structs
    PROVE  /\ Begin \in [pos : Nat, required_field_index : Nat, pData : Int, pSize : Int]
           /\ Begin.pos = 1
           /\ Begin.required_field_index = 0
           /\ s # <<>> => /\ 1 \in 1..Len(s)
                          /\ Begin.pData = s[1].offset
                          /\ Begin.pSize = s[1].aux
<1>1. CASE s = <<>>
  BY <1>1 DEF Begin
<1>2. CASE s # <<>>
  <2>1. 1 \in 1..Len(s)
    BY <1>2, EmptyLength
  <2>2. s[1].offset \in Int /\ s[1].aux \in Int
    BY <2>1, FieldShape DEF FieldType
  <2>3. QED
    BY <1>2, <2>1, <2>2 DEF Begin, DataOffset, SizeOffset
<1>3. QED
  BY <1>1, <1>2

(* Where Advanced is.                                                      *)
LEMMA AdvancedPlace ==
    ASSUME IterTypeOK, IndexRight, s # <<>>
    PROVE  /\ Advanced \in [pos : Nat, required_field_index : Nat, pData : Int, pSize : Int]
           /\ Advanced.pos = IF AtEnd THEN 1 ELSE iter.pos + 1
           /\ Advanced.pos \in 1..Len(s)
           /\ Advanced.required_field_index = Cardinality(RequiredIn(Advanced.pos - 1))
<1> USE DEF IterTypeOK
<1>1. Len(s) \in Nat /\ Len(s) # 0 /\ iter.pos \in 1..Len(s)
  BY EmptyLength
<1>2. CASE AtEnd
  <2>1. Advanced = Begin
    BY <1>2 DEF Advanced
  <2>2. QED
    BY <1>1, <1>2, <2>1, BeginRight, CountNone
<1>3. CASE ~AtEnd
  <2>1. iter.pos + 1 \in 1..Len(s)
    BY <1>1, <1>3 DEF AtEnd
  <2>2. s[iter.pos] \in FieldType /\ s[iter.pos + 1] \in FieldType
    BY <1>1, <2>1, FieldShape
  <2>3. iter.required_field_index = Cardinality(RequiredIn(iter.pos - 1))
    BY DEF IndexRight
  <2>4. Cardinality(RequiredIn(iter.pos)) =
            iter.required_field_index + (IF s[iter.pos].htype = "required" THEN 1 ELSE 0)
    <3>1. iter.pos - 1 \in Nat /\ iter.pos - 1 + 1 = iter.pos
      BY <1>1
    <3>2. QED
      BY <2>3, <3>1, CountOneMore
  <2>5. CASE InUnion(iter.pos)
    <3>1. Advanced = [iter EXCEPT !.pos = iter.pos + 1]
      BY <1>3, <2>5 DEF Advanced
    <3>2. s[iter.pos].htype # "required"
      BY <2>5 DEF InUnion
    <3>3. QED
      BY <1>1, <1>3, <2>1, <2>4, <3>1, <3>2
  <2>6. CASE ~InUnion(iter.pos)
    <3> DEFINE pData == iter.pData + PrevSize(s[iter.pos]) + DataOffset(iter.pos + 1)
    <3>1. Advanced =
            [pos |-> iter.pos + 1, pData |-> pData, pSize |-> pData + SizeOffset(iter.pos + 1),
             required_field_index |->
                 iter.required_field_index + (IF s[iter.pos].htype = "required" THEN 1 ELSE 0)]
      BY <1>3, <2>6 DEF Advanced
    <3>2. PrevSize(s[iter.pos]) \in Int /\ DataOffset(iter.pos + 1) \in Int
      <4>1. PrevSize(s[iter.pos]) = s[iter.pos].size
        BY <1>1, FieldShape
      <4>2. s[iter.pos].size \in Int /\ s[iter.pos].offset \in Int /\ s[iter.pos + 1].offset \in Int
        BY <2>2, FieldNumbers
      <4>3. iter.pos + 1 # 1 /\ (iter.pos + 1) - 1 = iter.pos
        BY <1>1
      <4>4. QED
        BY <4>1, <4>2, <4>3 DEF DataOffset, PB_SIZE_MAX
    <3>3. SizeOffset(iter.pos + 1) \in Int
      BY <2>2, FieldNumbers DEF SizeOffset
    <3>4. pData \in Int /\ pData + SizeOffset(iter.pos + 1) \in Int
      BY <3>2, <3>3
    <3> HIDE DEF pData
    <3>5. Advanced.pos = iter.pos + 1 /\ Advanced.pos - 1 = iter.pos
      BY <1>1, <3>1
    <3>6. Advanced.required_field_index = Cardinality(RequiredIn(iter.pos))
      BY <2>4, <3>1
    <3>7. iter.required_field_index + (IF s[iter.pos].htype = "required" THEN 1 ELSE 0) \in Nat
      OBVIOUS
    <3>8. Advanced \in [pos : Nat, required_field_index : Nat, pData : Int, pSize : Int]
      BY <2>1, <3>1, <3>4, <3>7
    <3>9. QED
      BY <1>3, <2>1, <3>5, <3>6, <3>8
  <2>7. QED
    BY <2>5, <2>6
<1>4. QED
  BY <1>2, <1>3

(* The pointers of Advanced.                                               *)
LEMMA AdvancedPointers ==
    ASSUME IterTypeOK, IndexRight, PointersRight, NoFullGap, s # <<>>
    PROVE  /\ Advanced.pData = s[Advanced.pos].offset
           /\ Advanced.pSize = s[Advanced.pos].aux
<1> USE DEF IterTypeOK
<1>1. Len(s) \in Nat /\ Len(s) # 0 /\ iter.pos \in 1..Len(s)
  BY EmptyLength
<1>2. CASE AtEnd
  <2>1. Advanced = Begin
    BY <1>2 DEF Advanced
  <2>2. QED
    BY <2>1, BeginRight
<1>3. CASE ~AtEnd
  <2> DEFINE f == s[iter.pos]
             g == s[iter.pos + 1]
  <2>1. iter.pos \in 1..Len(s) /\ iter.pos + 1 \in 1..Len(s)
    BY <1>1, <1>3 DEF AtEnd
  <2>2. f \in FieldType /\ g \in FieldType /\ f.size = PrevSize(f)
    BY <2>1, FieldShape
  <2>3. Follows(f, g)
    <3>1. iter.pos + 1 > 1 /\ (iter.pos + 1) - 1 = iter.pos
      BY <2>1
    <3>2. Follows(s[(iter.pos + 1) - 1], s[iter.pos + 1])
      BY <2>1, <3>1, FieldShape
    <3>3. QED
      BY <3>1, <3>2
  <2>4. iter.pData = f.offset /\ iter.pSize = f.aux
    BY DEF PointersRight
  <2>5. DataOffset(iter.pos + 1) = IF g.inner THEN PB_SIZE_MAX ELSE g.offset - f.offset - f.size
    <3>1. iter.pos + 1 # 1 /\ (iter.pos + 1) - 1 = iter.pos
      BY <2>1
    <3>2. QED
      BY <3>1 DEF DataOffset
  <2>6. CASE g.inner
    <3>1. f.htype = "oneof" /\ g.htype = "oneof" /\ g.offset = f.offset /\ g.aux = f.aux
      BY <2>3, <2>6 DEF Follows
    <3>2. InUnion(iter.pos)
      BY <2>5, <2>6, <3>1 DEF InUnion
    <3>3. Advanced = [iter EXCEPT !.pos = iter.pos + 1]
      BY <1>3, <3>2 DEF Advanced
    <3>4. Advanced.pos = iter.pos + 1 /\ Advanced.pData = iter.pData /\ Advanced.pSize = iter.pSize
      BY <3>3
    <3>5. QED
      BY <2>4, <3>1, <3>4
  <2>7. CASE ~g.inner
    <3>1. DataOffset(iter.pos + 1) = g.offset - f.offset - f.size
      BY <2>5, <2>7
    <3>2. ~InUnion(iter.pos)
      <4>1. iter.pos + 1 \in 2..Len(s) /\ (iter.pos + 1) - 1 = iter.pos
        BY <2>1
      <4>2. (f.htype = "oneof" /\ g.htype = "oneof") => g.offset - f.offset - f.size # PB_SIZE_MAX
        BY <2>7, <4>1 DEF NoFullGap
      <4>3. QED
        BY <3>1, <4>2 DEF InUnion
    <3> DEFINE pData == iter.pData + PrevSize(f) + DataOffset(iter.pos + 1)
    <3>3. /\ Advanced.pos = iter.pos + 1
          /\ Advanced.pData = pData
          /\ Advanced.pSize = pData + SizeOffset(iter.pos + 1)
      BY <1>3, <3>2 DEF Advanced
    <3>4. f.offset \in Int /\ f.size \in Int /\ g.offset \in Int /\ g.aux \in Int
      BY <2>2, FieldNumbers
    <3>5. pData = g.offset
      BY <2>2, <2>4, <3>1, <3>4
    <3>6. pData + SizeOffset(iter.pos + 1) = g.aux
      BY <3>4, <3>5 DEF SizeOffset
    <3>7. QED
      BY <3>3, <3>5, <3>6
  <2>8. QED
    BY <2>6, <2>7
<1>4. QED
  BY <1>2, <1>3

----------------------------------------------------------------------------
(* The steps.                                                              *)

LEMMA EmptyStays == ASSUME IterTypeOK, s = <<>> PROVE Advanced = iter
  BY DEF IterTypeOK, Advanced

LEMMA IterInit == Init => IterInv
<1> SUFFICES ASSUME Init PROVE IterInv
  OBVIOUS
<1> USE DEF Init, Idle
<1>1. s \in Structs /\ iter = Begin
  OBVIOUS
<1>2. IterTypeOK
  BY <1>1, BeginRight DEF IterTypeOK
<1>3. IndexRight
  <2>1. iter.pos - 1 = 0 /\ iter.required_field_index = 0
    BY <1>1, BeginRight
  <2>2. QED
    BY <2>1, CountNone DEF IndexRight
<1>4. SearchInv /\ SearchesComplete /\ RequiredCounted
  BY DEF SearchInv, Running, SearchesComplete, RequiredCounted
<1>5. QED
  BY <1>2, <1>3, <1>4 DEF IterInv

(* A step that moves the iterator leaves it at a field of the structure.   *)
LEMMA AdvanceTyped ==
    ASSUME IterTypeOK, IndexRight, iter' = Advanced, UNCHANGED s
    PROVE  /\ iter' \in [pos : Nat, required_field_index : Nat, pData : Int, pSize : Int]
           /\ s = <<>> => iter' = Begin'
           /\ s # <<>> => iter'.pos \in 1..Len(s)
           /\ IndexRight'
<1>1. CASE s = <<>>
  <2>1. iter' = iter /\ s' = s
    BY <1>1, EmptyStays
  <2>2. iter = Begin /\ Begin' = Begin
    BY <1>1, <2>1 DEF IterTypeOK, Begin
  <2>3. iter \in [pos : Nat, required_field_index : Nat, pData : Int, pSize : Int]
    BY DEF IterTypeOK
  <2>4. IndexRight'
    BY <1>1, <2>1 DEF IndexRight
  <2>5. QED
    BY <1>1, <2>1, <2>2, <2>3, <2>4
<1>2. CASE s # <<>>
  <2>1. /\ Advanced \in [pos : Nat, required_field_index : Nat, pData : Int, pSize : Int]
        /\ Advanced.pos \in 1..Len(s)
        /\ Advanced.required_field_index = Cardinality(RequiredIn(Advanced.pos - 1))
    BY <1>2, AdvancedPlace
  <2>2. ASSUME NEW p PROVE RequiredIn(p)' = RequiredIn(p)
    BY DEF RequiredIn
  <2>3. IndexRight'
    BY <2>1, <2>2 DEF IndexRight
  <2>4. QED
    BY <1>2, <2>1, <2>3
<1>3. QED
  BY <1>1, <1>2

LEMMA IterStart ==
    ASSUME IterInv, NEW op \in {"find", "extension", "count"}, NEW tag \in Nat, Start(op, tag)
    PROVE  IterInv'
<1> USE DEF IterInv, Start
<1>1. /\ s' = s /\ iter' = iter
      /\ call' = [op |-> op, state |-> "running", tag |-> tag, start |-> iter.pos, count |-> 0]
  OBVIOUS
<1>2. IterTypeOK'
  <2>1. iter.pos \in Nat
    BY DEF IterTypeOK
  <2>2. call' \in [op : {"none", "find", "extension", "count"}, tag : Nat, start : Nat, count : Nat,
                   state : {"idle", "running", "found", "missed", "counted"}]
    BY <1>1, <2>1
  <2>3. Begin' = Begin
    BY <1>1 DEF Begin, DataOffset, SizeOffset
  <2>4. QED
    BY <1>1, <2>2, <2>3 DEF IterTypeOK
<1>3. IndexRight'
  <2>1. ASSUME NEW p PROVE RequiredIn(p)' = RequiredIn(p)
    BY <1>1 DEF RequiredIn
  <2>2. QED
    BY <1>1, <2>1 DEF IndexRight
<1>4. SearchInv'
  <2>1. Visited' = {}
    BY <1>1 DEF Visited, IterTypeOK
  <2>2. call'.start \in 1..Len(s) \/ (s = <<>> /\ call'.start = iter.pos)
    BY <1>1 DEF IterTypeOK
  <2>3. QED
    BY <1>1, <2>1, <2>2 DEF SearchInv
<1>5. SearchesComplete' /\ RequiredCounted'
  BY <1>1 DEF SearchesComplete, RequiredCounted
<1>6. QED
  BY <1>2, <1>3, <1>4, <1>5

LEMMA IterFound == ASSUME IterInv, Found PROVE IterInv'
<1> USE DEF IterInv, Found
<1>1. s' = s /\ iter' = iter /\ call' = [call EXCEPT !.state = "found"]
  OBVIOUS
<1>2. IterTypeOK'
  <2>1. Begin' = Begin
    BY <1>1 DEF Begin, DataOffset, SizeOffset
  <2>2. QED
    BY <1>1, <2>1 DEF IterTypeOK
<1>3. call \in [op : {"none", "find", "extension", "count"}, tag : Nat, start : Nat, count : Nat,
                state : {"idle", "running", "found", "missed", "counted"}]
  BY DEF IterTypeOK
<1>4. call'.state = "found" /\ call'.op = call.op /\ call'.tag = call.tag
  BY <1>1, <1>3
<1>5. IndexRight'
  <2>1. ASSUME NEW p PROVE RequiredIn(p)' = RequiredIn(p)
    BY <1>1 DEF RequiredIn
  <2>2. QED
    BY <1>1, <2>1 DEF IndexRight
<1>6. SearchInv' /\ RequiredCounted'
  BY <1>4 DEF SearchInv, Running, RequiredCounted
<1>7. SearchesComplete'
  <2>1. Matches(iter.pos)'
    BY <1>1, <1>4 DEF Matches
  <2>2. QED
    BY <1>4, <2>1 DEF SearchesComplete
<1>8. QED
  BY <1>2, <1>5, <1>6, <1>7

(* A search that misses has been at every field.                           *)
LEMMA IterSearch == ASSUME IterInv, Search PROVE IterInv'
<1> USE DEF IterInv
<1>1. /\ s' = s /\ iter' = Advanced /\ ~Matches(iter.pos)
      /\ call' = [call EXCEPT !.state = IF Advanced.pos = call.start THEN "missed" ELSE @]
      /\ call.op \in {"find", "extension"} /\ call.state = "running"
  BY DEF Search, Running
<1>2. call \in [op : {"none", "find", "extension", "count"}, tag : Nat, start : Nat, count : Nat,
                state : {"idle", "running", "found", "missed", "counted"}]
  BY DEF IterTypeOK
<1>3. /\ call'.op = call.op /\ call'.tag = call.tag /\ call'.start = call.start
      /\ call'.state = IF Advanced.pos = call.start THEN "missed" ELSE "running"
      /\ call' \in [op : {"none", "find", "extension", "count"}, tag : Nat, start : Nat, count : Nat,
                   state : {"idle", "running", "found", "missed", "counted"}]
  BY <1>1, <1>2
<1>4. IterTypeOK' /\ IndexRight'
  <2>1. /\ iter' \in [pos : Nat, required_field_index : Nat, pData : Int, pSize : Int]
        /\ s = <<>> => iter' = Begin'
        /\ s # <<>> => iter'.pos \in 1..Len(s)
        /\ IndexRight'
    BY <1>1, AdvanceTyped
  <2>2. s' \in Structs
    BY <1>1 DEF IterTypeOK
  <2>3. QED
    BY <1>1, <1>3, <2>1, <2>2 DEF IterTypeOK
<1>5. RequiredCounted'
  BY <1>3 DEF RequiredCounted
<1>6. ASSUME NEW i PROVE Matches(i)' <=> Matches(i)
  BY <1>1, <1>3 DEF Matches
<1>7. /\ call.start \in 1..Len(s) \/ (s = <<>> /\ call.start = iter.pos)
      /\ \A i \in Visited : ~Matches(i)
  BY <1>1 DEF SearchInv, Running
<1>8. CASE s = <<>>
  <2>1. Advanced = iter /\ call.start = iter.pos /\ Len(s) = 0
    BY <1>7, <1>8, EmptyStays, EmptyLength DEF IterTypeOK
  <2>2. call'.state = "missed" /\ iter'.pos = call'.start
    BY <1>1, <1>3, <2>1
  <2>3. SearchInv'
    BY <2>2 DEF SearchInv, Running
  <2>4. SearchesComplete'
    BY <1>1, <2>1, <2>2 DEF SearchesComplete
  <2>5. QED
    BY <1>4, <1>5, <2>3, <2>4
<1>9. CASE s # <<>>
  <2>1. /\ Len(s) \in Nat /\ iter.pos \in 1..Len(s) /\ call.start \in 1..Len(s)
        /\ iter'.pos = IF iter.pos >= Len(s) THEN 1 ELSE iter.pos + 1
        /\ Advanced.pos = iter'.pos
    BY <1>1, <1>7, <1>9, EmptyLength, AdvancedPlace DEF IterTypeOK, AtEnd
  <2>2. CASE iter'.pos = call.start
    <3>1. call'.state = "missed" /\ iter'.pos = call'.start
      BY <1>3, <2>1, <2>2
    <3>2. ASSUME NEW i \in 1..Len(s) PROVE ~Matches(i)
      <4>1. i = iter.pos \/ i \in Visited
        BY <2>1, <2>2 DEF Visited
      <4>2. QED
        BY <1>1, <1>7, <4>1
    <3>3. SearchInv'
      BY <3>1 DEF SearchInv, Running
    <3>4. SearchesComplete'
      BY <1>1, <1>6, <3>1, <3>2 DEF SearchesComplete
    <3>5. QED
      BY <1>4, <1>5, <3>3, <3>4
  <2>3. CASE iter'.pos # call.start
    <3>1. call'.state = "running"
      BY <1>3, <2>1, <2>3
    <3>2. ASSUME NEW i \in Visited' PROVE ~Matches(i)
      <4>1. i = iter.pos \/ i \in Visited
        BY <1>1, <1>3, <2>1, <2>3, <3>2 DEF Visited
      <4>2. QED
        BY <1>1, <1>7, <4>1
    <3>3. SearchInv'
      BY <1>1, <1>3, <1>6, <2>1, <3>2 DEF SearchInv
    <3>4. SearchesComplete'
      BY <3>1 DEF SearchesComplete
    <3>5. QED
      BY <1>4, <1>5, <3>3, <3>4
  <2>4. QED
    BY <2>2, <2>3
<1>10. QED
  BY <1>8, <1>9

(* At the last field all required fields but that one have been counted.   *)
LEMMA IterCount == ASSUME IterInv, Count PROVE IterInv'
<1> USE DEF IterInv
<1>1. /\ s' = s /\ iter' = Advanced /\ call.op = "count" /\ call.state = "running"
      /\ call' = IF AtEnd THEN [call EXCEPT !.state = "counted",
                                            !.count = iter.required_field_index + LastRequired]
                 ELSE call
  BY DEF Count, Running
<1>2. /\ call \in [op : {"none", "find", "extension", "count"}, tag : Nat, start : Nat, count : Nat,
                   state : {"idle", "running", "found", "missed", "counted"}]
      /\ iter.required_field_index + LastRequired \in Nat
  BY DEF IterTypeOK, LastRequired
<1>3. /\ call'.op = "count"
      /\ call'.state = IF AtEnd THEN "counted" ELSE "running"
      /\ AtEnd => call'.count = iter.required_field_index + LastRequired
      /\ call' \in [op : {"none", "find", "extension", "count"}, tag : Nat, start : Nat, count : Nat,
                    state : {"idle", "running", "found", "missed", "counted"}]
  BY <1>1, <1>2
<1>4. IterTypeOK' /\ IndexRight'
  <2>1. /\ iter' \in [pos : Nat, required_field_index : Nat, pData : Int, pSize : Int]
        /\ s = <<>> => iter' = Begin'
        /\ s # <<>> => iter'.pos \in 1..Len(s)
        /\ IndexRight'
    BY <1>1, AdvanceTyped
  <2>2. s' \in Structs
    BY <1>1 DEF IterTypeOK
  <2>3. QED
    BY <1>1, <1>3, <2>1, <2>2 DEF IterTypeOK
<1>5. SearchInv' /\ SearchesComplete'
  BY <1>3 DEF SearchInv, Running, SearchesComplete
<1>6. RequiredCounted'
  <2>1. ASSUME AtEnd PROVE iter.required_field_index + LastRequired = Cardinality(RequiredIn(Len(s)))
    <3>1. CASE s = <<>>
      <4>1. Len(s) = 0 /\ iter.required_field_index = 0 /\ LastRequired = 0
        BY <3>1, EmptyLength, BeginRight DEF IterTypeOK, LastRequired
      <4>2. QED
        BY <4>1, CountNone
    <3>2. CASE s # <<>>
      <4>1. Len(s) \in Nat /\ iter.pos = Len(s) /\ iter.pos - 1 \in Nat /\ (iter.pos - 1) + 1 = iter.pos
        BY <2>1, <3>2, EmptyLength DEF IterTypeOK, AtEnd
      <4>2. iter.required_field_index = Cardinality(RequiredIn(iter.pos - 1))
        BY <3>2 DEF IndexRight
      <4>3. Cardinality(RequiredIn(iter.pos)) = Cardinality(RequiredIn(iter.pos - 1)) +
                (IF s[iter.pos].htype = "required" THEN 1 ELSE 0)
        BY <4>1, CountOneMore
      <4>4. QED
        BY <3>2, <4>1, <4>2, <4>3 DEF LastRequired
    <3>3. QED
      BY <3>1, <3>2
  <2>2. ASSUME NEW p PROVE RequiredIn(p)' = RequiredIn(p)
    BY <1>1 DEF RequiredIn
  <2>3. QED
    BY <1>1, <1>3, <2>1, <2>2 DEF RequiredCounted
<1>7. QED
  BY <1>4, <1>5, <1>6

LEMMA IterStutter == ASSUME IterInv, UNCHANGED vars PROVE IterInv'
  BY DEF IterInv, vars, IterTypeOK, IndexRight, SearchInv, SearchesComplete, RequiredCounted,
         Begin, DataOffset, SizeOffset, RequiredIn, Running, Visited, Matches

LEMMA IterStep == IterInv /\ [Next]_vars => IterInv'
<1> SUFFICES ASSUME IterInv, [Next]_vars PROVE IterInv'
  OBVIOUS
<1>1. ASSUME NEW tag \in 0..(Len(s) + 1), Start("find", tag) PROVE IterInv'
  <2>1. tag \in Nat
    BY EmptyLength DEF IterInv, IterTypeOK
  <2>2. QED
    BY <1>1, <2>1, IterStart
<1>2. CASE Start("extension", 0)
  BY <1>2, IterStart
<1>3. CASE Start("count", 0)
  BY <1>3, IterStart
<1>4. CASE Found
  BY <1>4, IterFound
<1>5. CASE Search
  BY <1>5, IterSearch
<1>6. CASE Count
  BY <1>6, IterCount
<1>7. CASE UNCHANGED vars
  BY <1>7, IterStutter
<1>8. QED
  BY <1>1, <1>2, <1>3, <1>4, <1>5, <1>6, <1>7 DEF Next

----------------------------------------------------------------------------
(* Theorems.                                                               *)

(* pb_common.c and its users: IterInv is inductive.                        *)
THEOREM IterInvariant == Spec => []IterInv
<1>1. QED
  BY IterInit, IterStep, PTL DEF Spec

(* pb_common.c:78-94, pb_decode.c:798-809: whatever the structure and      *)
(* wherever the last search left the iterator, a search finds its field if *)
(* there is one.                                                           *)
THEOREM SearchesAlwaysComplete == Spec => []SearchesComplete
<1>1. IterInv => SearchesComplete
  BY DEF IterInv
<1>2. QED
  BY <1>1, IterInvariant, PTL

(* pb_decode.c:1012-1022: the number of required fields is right, for any  *)
(* number of fields.                                                       *)
THEOREM RequiredAlwaysCounted == Spec => []RequiredCounted
<1>1. IterInv => RequiredCounted
  BY DEF IterInv
<1>2. QED
  BY <1>1, IterInvariant, PTL

LEMMA PointersInit == Init => PointersRight
<1> SUFFICES ASSUME Init, s # <<>> PROVE PointersRight
  BY DEF PointersRight
<1>1. s \in Structs /\ iter = Begin
  BY DEF Init
<1>2. iter.pos = 1 /\ iter.pos - 1 = 0
  BY <1>1, BeginRight
<1>3. QED
  BY <1>1, <1>2, BeginRight, CountNone DEF PointersRight

LEMMA PointersStep ==
    ASSUME NoFullGap, IterInv, IterInv', PointersRight, [Next]_vars
    PROVE  PointersRight'
<1> SUFFICES ASSUME s # <<>> PROVE PointersRight'
  BY DEF PointersRight, Next, vars, Start, Found, Search, Count
<1>1. s' = s /\ (iter' = iter \/ iter' = Advanced)
  BY DEF Next, vars, Start, Found, Search, Count
<1>2. iter'.pData = s[iter'.pos].offset /\ iter'.pSize = s[iter'.pos].aux
  <2>1. CASE iter' = iter
    BY <2>1 DEF PointersRight
  <2>2. CASE iter' = Advanced
    BY <2>2, AdvancedPointers DEF IterInv
  <2>3. QED
    BY <1>1, <2>1, <2>2
<1>3. iter'.pos \in 1..Len(s) /\ IndexRight'
  BY <1>1 DEF IterInv, IterTypeOK
<1>4. QED
  BY <1>1, <1>2, <1>3 DEF PointersRight, IndexRight

(* pb_common.c:41-73: the pointers of the iterator are those of its field, *)
(* for every structure in which no union has a gap of 255 bytes to the     *)
(* next, padding and the rest of a larger member included.                 *)
THEOREM PointersAlwaysRight == NoFullGap => (Spec => []PointersRight)
<1> SUFFICES ASSUME NoFullGap PROVE Spec => []PointersRight
  OBVIOUS
<1>1. Init => PointersRight
  BY PointersInit
<1>2. IterInv /\ IterInv' /\ PointersRight /\ [Next]_vars => PointersRight'
  BY PointersStep
<1>3. QED
  BY <1>1, <1>2, IterInvariant, PTL DEF Spec
=============================================================================
