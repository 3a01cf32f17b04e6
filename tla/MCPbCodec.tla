----------------------------- MODULE MCPbCodec ------------------------------
(* Messages in messages in messages, of every kind of field.  A structure  *)
(* is any Few of the parts, with the flags and counts that go with them.   *)
EXTENDS PbCodec, FiniteSets

CONSTANT Few

Plain == [ltype |-> "uvarint", htype |-> "optional", atype |-> "static", has |-> FALSE,
          size |-> 4, max |-> 0, sub |-> "", ext |-> FALSE]
Scalar(ltype, size) == [Plain EXCEPT !.ltype = ltype, !.size = size]
Sub(m)              == [Plain EXCEPT !.ltype = "submessage", !.sub = m]
Array(f, max)       == [f EXCEPT !.htype = "repeated", !.max = max]
Callback            == [Plain EXCEPT !.ltype = "string", !.atype = "callback", !.size = 0]
Flag(f)             == [f EXCEPT !.has = TRUE]
Rule(f, htype)      == [f EXCEPT !.htype = htype]

MCSchema == [
    Outer |-> <<Rule(Scalar("uvarint", 4), "required"), Sub("Middle"),
                Rule(Sub("Inner"), "oneof"), Rule(Scalar("svarint", 8), "oneof"),
                Flag(Array(Scalar("svarint", 4), 2)), Flag(Array(Sub("Inner"), 2)), Callback,
                Flag(Array(Scalar("fixed64", 8), 1)), Flag(Scalar("bytes", 3)),
                [Rule(Scalar("fixed32", 4), "required") EXCEPT !.ext = TRUE]>>,
    Middle |-> <<Array(Scalar("uvarint", 1), 2), Flag(Sub("Inner")), Callback>>,
    Inner |-> <<Scalar("varint", 4), Flag(Array(Scalar("string", 4), 2)),
                Scalar("bytes", 3), Scalar("fixed_length_bytes", 2)>>]

MCCallbacks == {<<7>>, <<2, 3>>}

Minus1 == [i \in 1..10 |-> Ones(i)]
Parts == {
    {<<<<1>>, Digits(300)>>, <<<<10>>, <<1, 0, 0, 2>>>>},
    {<<<<2, 1, 1>>, Digits(200)>>, <<<<2, 1, 2>>, Digits(1)>>}, {<<<<2, 1, 2>>, Digits(1)>>},
    {<<<<2, 0, 2>>, TRUE>>, <<<<2, 2, 1>>, Minus1>>},
    {<<<<0>>, 3>>, <<<<3, 3>>, <<5, 6>>>>, <<<<3, 4>>, <<7, 0>>>>},
    {<<<<0>>, 4>>, <<<<4>>, Minus1>>},
    {<<<<5, 0>>, 2>>, <<<<5, 1>>, Digits(64)>>, <<<<5, 2>>, Minus1>>},
    {<<<<6, 0>>, 2>>, <<<<6, 1, 2, 0>>, 2>>, <<<<6, 1, 2, 1>>, <<65, 0, 66>>>>, <<<<6, 2, 1>>, Digits(9)>>},
    {<<<<8, 0>>, 1>>, <<<<8, 1>>, <<1, 2, 3, 4, 5, 6, 7, 8>>>>, <<<<0, 9>>, TRUE>>, <<<<9>>, <<1, 2>>>>},
    {<<<<0, 9>>, TRUE>>, <<<<9>>, <<1, 2, 3>>>>},  \* bytes size exceeded
    {<<<<5, 0>>, 3>>}}                             \* array max size exceeded

Payload == {x \in {<<<<7>>, <<1>>>>, <<<<2, 3>>, <<1, 2>>>>} : x[1] \in Callbacks}
Structure(pairs) == [q \in {x[1] : x \in pairs} |-> (CHOOSE x \in pairs : x[1] = q)[2]]
Compatible(S)    == \A a, b \in S : a = b \/ \A x \in a, y \in b : x[1] # y[1]
MCSources == {Structure(Payload \cup UNION S) :
                 S \in {S \in SUBSET Parts : Cardinality(S) <= Few /\ Compatible(S)}}
=============================================================================
