----------------------------- MODULE PbFieldIter -----------------------------
(***************************************************************************)
(* The field iterator of nanopb, components/nanopb/pb_common.c, and how    *)
(* pb_decode.c walks with it: it goes round the fields of a structure and  *)
(* adds up what pb.h says of each to find out where in memory it is.       *)
(* PbDecode and PbEncode take for granted that it does.                    *)
(***************************************************************************)
EXTENDS Integers, Sequences, FiniteSets

CONSTANT Structs  \* the structures that are walked through

PB_SIZE_MAX == 255  \* pb_size_t is a uint_least8_t

(* A structure is the sequence of its fields, as generator and compiler    *)
(* have placed them: offset is offsetof the member, size its sizeof, item  *)
(* that of one item or of what it points to, max the number of items; aux  *)
(* is the offset of its has_ flag, _count or which_, or that of the field  *)
(* itself; inner marks a member of a union that is not the first one.      *)
Follows(f, g) ==
    IF g.inner THEN f.htype = "oneof" /\ g.htype = "oneof" /\ g.offset = f.offset /\ g.aux = f.aux
    ELSE g.offset - f.offset - f.size \in 0..PB_SIZE_MAX

FieldType ==
    [tag : Nat \ {0}, extension : BOOLEAN, inner : BOOLEAN,
     htype : {"required", "optional", "repeated", "oneof"},
     atype : {"static", "pointer", "callback"},
     offset : Nat, size : Nat, item : Nat, max : Nat, aux : Int]

ASSUME StructAssumption == \A t \in Structs :
    /\ t \in Seq(FieldType)
    /\ \A i \in 1..Len(t) :
          /\ t[i].size = IF t[i].atype = "pointer" THEN 4
                         ELSE IF t[i].atype = "static" /\ t[i].htype = "repeated"
                         THEN t[i].item * t[i].max ELSE t[i].item
          /\ i = 1 => ~t[i].inner
          /\ i > 1 => Follows(t[i - 1], t[i])

VARIABLES
    s,     \* the structure
    iter,  \* pb_field_iter_t; addresses count from the start of the structure
    call   \* the function that is using it

vars == <<s, iter, call>>

----------------------------------------------------------------------------
(* PB_DATAOFFSET_FIRST, _OTHER and _UNION of pb.h.                         *)
DataOffset(i) ==
    IF i = 1 THEN s[i].offset
    ELSE IF s[i].inner THEN PB_SIZE_MAX
    ELSE s[i].offset - s[i - 1].offset - s[i - 1].size

SizeOffset(i) == s[i].aux - s[i].offset

(* pb_field_iter_begin; in an empty message pos is the terminator.         *)
Begin ==
    [pos |-> 1, required_field_index |-> 0,
     pData |-> IF s = <<>> THEN 0 ELSE DataOffset(1),
     pSize |-> IF s = <<>> THEN 0 ELSE DataOffset(1) + SizeOffset(1)]

AtEnd == iter.pos >= Len(s)

\* Mutant: only one item of an array is stepped over.
PrevSizeOfItem(f) == IF f.atype = "pointer" THEN 4 ELSE f.item

PrevSize(f) ==
    IF f.atype = "static" /\ f.htype = "repeated" THEN f.item * f.max
    ELSE IF f.atype = "pointer" THEN 4
    ELSE f.item

(* Pointers are not advanced inside unions, and pSize is not set.          *)
InUnion(i) == s[i].htype = "oneof" /\ s[i + 1].htype = "oneof" /\ DataOffset(i + 1) = PB_SIZE_MAX

(* pb_field_iter_next: the iterator after it; it returns ~AtEnd.           *)
Advanced ==
    IF s = <<>> THEN iter
    ELSE IF AtEnd THEN Begin
    ELSE IF InUnion(iter.pos) THEN [iter EXCEPT !.pos = @ + 1]
    ELSE LET pData == iter.pData + PrevSize(s[iter.pos]) + DataOffset(iter.pos + 1)
         IN  [pos |-> iter.pos + 1,
              pData |-> pData,
              pSize |-> pData + SizeOffset(iter.pos + 1),
              required_field_index |->
                  iter.required_field_index + (IF s[iter.pos].htype = "required" THEN 1 ELSE 0)]

----------------------------------------------------------------------------
Idle == [op |-> "none", state |-> "idle", tag |-> 0, start |-> 0, count |-> 0]

Init ==
    /\ s \in Structs
    /\ iter = Begin
    /\ call = Idle

Running(ops) == call.op \in ops /\ call.state = "running"

(* The tag of the terminator is zero: an empty message has a field 0.      *)
Matches(i) ==
    IF call.op = "find"
    THEN IF s = <<>> THEN call.tag = 0 ELSE s[i].tag = call.tag /\ ~s[i].extension
    ELSE s # <<>> /\ s[i].extension

(* pb_field_iter_find for a tag that was read from the stream,             *)
(* find_extension_field, and the end of pb_decode_noinit, on the iterator  *)
(* as the call before left it.                                             *)
Start(op, tag) ==
    /\ call.state # "running"
    /\ call' = [op |-> op, state |-> "running", tag |-> tag, start |-> iter.pos, count |-> 0]
    /\ UNCHANGED <<s, iter>>

Found ==
    /\ Running({"find", "extension"})
    /\ Matches(iter.pos)
    /\ call' = [call EXCEPT !.state = "found"]
    /\ UNCHANGED <<s, iter>>

\* Mutant: the search ends at the end of the field list.
SearchToEnd ==
    /\ Running({"find", "extension"})
    /\ ~Matches(iter.pos)
    /\ iter' = Advanced
    /\ call' = [call EXCEPT !.state = IF AtEnd THEN "missed" ELSE @]
    /\ UNCHANGED s

(* Their loop: all the way round to where it began.                        *)
Search ==
    /\ Running({"find", "extension"})
    /\ ~Matches(iter.pos)
    /\ iter' = Advanced
    /\ call' = [call EXCEPT !.state = IF Advanced.pos = call.start THEN "missed" ELSE @]
    /\ UNCHANGED s

LastRequired == IF s # <<>> /\ s[iter.pos].htype = "required" THEN 1 ELSE 0

\* Mutant: a required field at the end of the list is left out.
CountWithoutLast ==
    /\ Running({"count"})
    /\ iter' = Advanced
    /\ call' = IF AtEnd THEN [call EXCEPT !.state = "counted", !.count = iter.required_field_index]
               ELSE call
    /\ UNCHANGED s

(* The end of pb_decode_noinit seeks to the last field for the number of   *)
(* the required ones.  The terminator is none: its type is zero and its    *)
(* tag is looked at.                                                       *)
Count ==
    /\ Running({"count"})
    /\ iter' = Advanced
    /\ call' = IF AtEnd THEN [call EXCEPT !.state = "counted",
                                          !.count = iter.required_field_index + LastRequired]
               ELSE call
    /\ UNCHANGED s

Next ==
    \/ \E tag \in 0..(Len(s) + 1) : Start("find", tag)
    \/ Start("extension", 0)
    \/ Start("count", 0)
    \/ Found
    \/ Search
    \/ Count

Spec == Init /\ [][Next]_vars

----------------------------------------------------------------------------
(* Properties.                                                             *)

RequiredIn(p) == {i \in 1..p : s[i].htype = "required"}

(* pb_common.c:41-73: the pointers, added up step by step over padding,    *)
(* arrays and unions and around the end of the list, are those of the      *)
(* field the iterator is at, and its index among the required fields tells *)
(* them apart.                                                             *)
PointersRight ==
    s # <<>> =>
        /\ iter.pos \in 1..Len(s)
        /\ iter.pData = s[iter.pos].offset
        /\ iter.pSize = s[iter.pos].aux
        /\ iter.required_field_index = Cardinality(RequiredIn(iter.pos - 1))

(* pb_common.c:78-94 and pb_decode.c:798-809: a search finds the field if  *)
(* there is one, wherever the last one left the iterator, and else leaves  *)
(* it there.                                                               *)
SearchesComplete ==
    /\ call.state = "found"  => Matches(iter.pos)
    /\ call.state = "missed" => /\ iter.pos = call.start
                                /\ \A i \in 1..Len(s) : ~Matches(i)

(* pb_decode.c:1012-1022: the number of fields pb_decode_noinit compares   *)
(* its bits with is that of the required fields, wherever it starts to     *)
(* count and whatever the last field is.                                   *)
RequiredCounted ==
    call.state = "counted" => call.count = Cardinality(RequiredIn(Len(s)))
----------------------------------------------------------------------------
(* The inductive invariant behind them.                                    *)

(* The generator sees to it that no field has an offset of more than       *)
(* PB_SIZE_MAX; this says that a union never has just that one behind      *)
(* another.                                                                *)
NoFullGap ==
    \A t \in Structs : \A i \in 2..Len(t) :
        (t[i - 1].htype = "oneof" /\ t[i].htype = "oneof" /\ ~t[i].inner) =>
            t[i].offset - t[i - 1].offset - t[i - 1].size # PB_SIZE_MAX

IterTypeOK ==
    /\ s \in Structs
    /\ iter \in [pos : Nat, required_field_index : Nat, pData : Int, pSize : Int]
    /\ s = <<>> => iter = Begin
    /\ s # <<>> => iter.pos \in 1..Len(s)
    /\ call \in [op : {"none", "find", "extension", "count"}, tag : Nat, start : Nat, count : Nat,
                 state : {"idle", "running", "found", "missed", "counted"}]

IndexRight == s # <<>> => iter.required_field_index = Cardinality(RequiredIn(iter.pos - 1))

(* The fields a search has looked at.                                      *)
Visited ==
    IF call.start < iter.pos THEN call.start..(iter.pos - 1)
    ELSE IF iter.pos < call.start THEN call.start..Len(s) \cup 1..(iter.pos - 1)
    ELSE {}

SearchInv ==
    Running({"find", "extension"}) =>
        /\ call.start \in 1..Len(s) \/ (s = <<>> /\ call.start = iter.pos)
        /\ \A i \in Visited : ~Matches(i)

IterInv == IterTypeOK /\ IndexRight /\ SearchInv /\ SearchesComplete /\ RequiredCounted
=============================================================================
