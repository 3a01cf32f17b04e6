---------------------------- MODULE MCPbFieldIter ----------------------------
(* Structures of up to MaxFields fields of every kind, laid out like a     *)
(* compiler does that aligns words to four bytes and bytes to one.         *)
EXTENDS PbFieldIter

CONSTANT MaxFields

Kind(htype, atype, item, max, flag) ==
    [htype |-> htype, atype |-> atype, item |-> item, max |-> max, flag |-> flag,
     extension |-> FALSE, inner |-> FALSE]

\* flag: the size of the has_, _count or which_ in front of the member.
Kinds == {
    Kind("required", "static", 4, 0, 0), Kind("required", "static", 1, 0, 0),
    Kind("optional", "static", 4, 0, 1), Kind("repeated", "static", 2, 3, 1),
    Kind("repeated", "static", 4, 2, 0), Kind("repeated", "pointer", 8, 0, 1),
    Kind("oneof", "static", 1, 0, 1), Kind("oneof", "static", 8, 0, 1),
    [Kind("oneof", "static", 8, 0, 1) EXCEPT !.inner = TRUE],
    [Kind("optional", "callback", 4, 0, 0) EXCEPT !.extension = TRUE]}

SizeOf(k) == CASE k.atype = "pointer" -> 4
               [] k.atype = "static" /\ k.htype = "repeated" -> k.item * k.max
               [] OTHER -> k.item
Align(n, k) == IF k.atype = "static" /\ k.item \in {1, 2, 255} THEN n ELSE 4 * ((n + 3) \div 4)

\* Member k of number i behind the field before, which ends the union at top.
Placed(k, i, before, top) ==
    LET offset == IF k.inner THEN before.offset ELSE Align(top + k.flag, k)
    IN  [tag |-> i, extension |-> k.extension, inner |-> k.inner, htype |-> k.htype,
         atype |-> k.atype, item |-> k.item, max |-> k.max, size |-> SizeOf(k), offset |-> offset,
         aux |-> IF k.inner THEN before.aux ELSE IF k.flag > 0 THEN top ELSE offset]

End(f) == f.offset + f.size
Larger(a, b) == IF a > b THEN a ELSE b

\* The layout of the kinds in ks: its fields and where it ends.
Layout(ks) ==
    LET Nowhere == Placed(Kind("required", "static", 0, 0, 0), 0, 0, 0)
        To[i \in 0..Len(ks)] ==
            IF i = 0 THEN [fields |-> <<>>, top |-> 0]
            ELSE LET so  == To[i - 1]
                     f   == Placed(ks[i], i, IF i = 1 THEN Nowhere ELSE so.fields[i - 1], so.top)
                 IN  [fields |-> Append(so.fields, f), top |-> Larger(so.top, End(f))]
    IN  To[Len(ks)].fields

IsStruct(ks) == \A i \in 1..Len(ks) : ks[i].inner => i > 1 /\ ks[i - 1].htype = "oneof"

MCStructs == {Layout(ks) : ks \in {ks \in UNION {[1..n -> Kinds] : n \in 0..MaxFields} : IsStruct(ks)}}

\* A union of 255 bytes whose last member is a byte, and another union.
Byte(inner) == [Kind("oneof", "static", 1, 0, 1) EXCEPT !.inner = inner]
LargeUnion  == Layout(<<Kind("oneof", "static", 255, 0, 1), Byte(TRUE), Byte(FALSE)>>)
FullGap     == {LargeUnion}
=============================================================================
