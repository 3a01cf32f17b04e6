----------------------------- MODULE MCPbDecode -----------------------------
(* A message type with every kind of field, decoded from every buffer of   *)
(* up to MaxLen bytes over the headers, lengths and values of one topic,   *)
(* alone and behind the required field, and from a few longer messages.    *)
(* Of the two required fields one is checked, PB_MAX_REQUIRED_FIELDS.      *)
EXTENDS PbDecode

CONSTANT MaxLen

Field0 == [ltype |-> "uvarint", htype |-> "optional", atype |-> "static", has |-> FALSE,
           size |-> 4, max |-> 0, sub |-> "", ext |-> FALSE]
Scalar(ltype, size) == [Field0 EXCEPT !.ltype = ltype, !.size = size]
Sub(m)              == [Field0 EXCEPT !.ltype = "submessage", !.sub = m]
Array(f, max)       == [f EXCEPT !.htype = "repeated", !.max = max]
Callback(f)         == [f EXCEPT !.atype = "callback"]
Flag(f)             == [f EXCEPT !.has = TRUE]
Rule(f, htype)      == [f EXCEPT !.htype = htype]

MCSchema == [
    Outer |-> <<Rule(Scalar("uvarint", 4), "required"), Rule(Sub("Inner"), "oneof"),
                Rule(Scalar("uvarint", 4), "oneof"), Rule(Scalar("string", 3), "oneof"),
                Flag(Array(Scalar("uvarint", 1), 2)), Array(Scalar("svarint", 2), 2),
                Flag(Scalar("bytes", 3)), Flag(Array(Sub("Inner"), 2)),
                Array(Callback(Scalar("uvarint", 4)), 0), Array(Scalar("fixed64", 8), 1),
                [Rule(Scalar("fixed32", 4), "required") EXCEPT !.ext = TRUE],
                Callback(Scalar("string", 0)), Scalar("fixed_length_bytes", 2),
                Flag(Scalar("svarint", 4)), Scalar("varint", 1),
                Rule(Scalar("uvarint", 4), "required")>>,
    Inner |-> <<Rule(Scalar("uvarint", 4), "required"), Callback(Scalar("bytes", 0)), Sub("None")>>,
    None |-> <<>>]

\* 9 and a callback in the first Inner item; 12 and that of 2 are not set.
MCCallbacks == {<<9>>, <<2, 2>>, <<8, 1, 2>>}

\* 0, 1, 2 and the headers 1:varint, 2:string, 3:varint, 4:string, 5:varint,
\* 5:string, 6:varint, 6:string, 7:string and so on; 18, 26 are also Inner's.
Topics == {
    {0, 1, 2, 18, 24, 34},       \* the oneof
    {0, 1, 2, 40, 42, 128},      \* an array
    {0, 1, 2, 48, 50, 72},       \* an array of fixed count, a repeated callback
    {0, 1, 2, 8, 18, 66},        \* items that are messages
    {0, 2, 3, 18, 72, 74, 98},   \* callbacks
    {0, 1, 2, 58, 106, 34},      \* sizes
    {1, 8, 120, 112, 128, 255}}  \* ranges

Encodings == {
    <<8, 5, 18, 2, 8, 1, 24, 3>>,                \* one member, then another
    <<8, 5, 18, 4, 8, 1, 0, 9, 24, 3>>,          \* a tag of zero in a submessage
    <<8, 5, 24, 3, 18, 2, 8, 1, 18, 2, 8, 7>>,   \* a member after another, twice
    <<8, 5, 18, 6, 18, 1, 1, 26, 0, 8>>,         \* a callback zeroed, a number too short
    <<8, 5, 66, 5, 18, 1, 1, 8, 1, 66, 5, 8, 1, 18, 1, 1>>,
    <<8, 5, 66, 2, 8, 1, 66, 2, 8, 1, 66, 2, 8, 1>>, \* an item too many
    <<8, 5, 42, 3, 1, 1, 1>>, <<8, 5, 42, 1, 1, 40, 1, 40, 1>>,
    <<8, 5, 50, 2, 2, 4, 48, 2>>, <<8, 5, 48, 2, 82, 8, 1, 1, 1, 1, 1, 1, 1, 1, 48, 2>>,
    <<8, 5, 82, 8, 1, 1, 1, 1, 1, 1, 1, 1, 81, 1, 1, 1, 1, 1, 1, 1, 1>>,
    <<8, 5, 81, 1, 1, 1, 1, 1, 1, 1, 1, 48, 2, 48, 2>>, <<8, 5, 81, 1, 1, 1>>,
    <<8, 255, 255, 255, 255, 15>>,               \* the largest uint32
    <<8, 255, 255, 255, 255, 31>>,               \* one bit too many
    <<8, 5, 120, 255, 255, 255, 255, 255, 255, 255, 255, 255, 1>>,
    <<8, 5, 112, 255, 255, 255, 255, 15, 112, 128, 128, 128, 128, 16>>,
    <<93, 1, 2, 3, 4, 8, 5, 136, 1, 9>>, <<128, 1, 9, 8, 5>>, <<128, 1, 9>>, <<8, 5, 93, 1, 2>>,
    <<8, 5, 73, 1, 1, 1, 1, 1, 1, 1, 1, 77, 1, 1, 1, 1, 75>>,
    <<8, 5, 74, 4, 1, 2, 3, 4, 72, 9>>, <<8, 5, 34, 2, 1, 2, 58, 2, 1, 2, 106, 2, 1, 2>>,
    <<8, 5, 34, 3, 1, 2, 3>>, <<8, 5, 58, 3, 1, 2, 3>>, <<8, 5, 58, 2, 1>>, <<8, 5, 99, 0>>, <<8, 5, 101, 1, 1, 1, 1, 97, 1>>}

Sequences(S) == UNION {[1..n -> S] : n \in 0..MaxLen}
MCInputs == UNION {Sequences(S) \cup {<<8, 5>> \o s : s \in Sequences(S)} : S \in Topics}
            \cup Encodings
=============================================================================
