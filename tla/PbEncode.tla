------------------------------ MODULE PbEncode ------------------------------
(***************************************************************************)
(* pb_encode of nanopb, components/nanopb/pb_encode.c: one step encodes    *)
(* one field or array item, or begins or ends a submessage, a packed array *)
(* or one of the two passes over them.                                     *)
(*                                                                         *)
(* The C stack of pb_encode calls and their streams is the variable        *)
(* frames.  A length comes first on the wire: what has one is encoded to a *)
(* stream without a callback, which only counts, and then a second time.   *)
(***************************************************************************)
EXTENDS PbFields, FiniteSets

CONSTANTS
    Sources,         \* the structures that are encoded
    BufSizes,        \* the sizes of the buffers they are encoded to
    Modes,           \* how: "encode", "delimited", "nullterminated", "size"
    CallbackMayVary  \* whether a callback may write something else each time

(* A path without zeros is that of a value, which is a number or bytes.    *)
ASSUME SourcesAssumption ==
    \A d \in Sources :
        /\ CountsTyped(d)
        /\ \A q \in DOMAIN d : (\A i \in 1..Len(q) : q[i] # 0) => d[q] \in Seq(Byte)
ASSUME EncodeAssumption ==
    /\ BufSizes \subseteq Nat
    /\ Modes \subseteq {"encode", "delimited", "nullterminated", "size"}
    /\ CallbackMayVary \in BOOLEAN

VARIABLES
    src,     \* the structure
    room,    \* the size of the buffer
    mode,    \* the function that was called
    out,     \* what has been written to the buffer
    frames,  \* the pb_encode calls, each with its stream
    outcome, \* "running", "ok" or the error
    varied   \* not in the code: whether a callback wrote something else than src has

encVars == <<src, room, mode, out, frames, outcome, varied>>

(* A call: the message and where it is in src; at is the field encoded     *)
(* last, item the next item of the field after that; sizing tells that the *)
(* stream has no callback; written is bytes_written, max is max_size;      *)
(* packed is the field whose packed items it encodes, 0 for a message.     *)
(* from is not in the code: where in out the stream begins.                *)
Call(m, p, sizing, from, max, packed) ==
    [msg |-> m, path |-> p, at |-> 0, item |-> 1, sizing |-> sizing,
     from |-> from, written |-> 0, max |-> max, packed |-> packed]

Cur    == frames[Len(frames)]
Parent == frames[Len(frames) - 1]
Callers == SubSeq(frames, 1, Len(frames) - 1)

(* pb_encode_delimited encodes the root as if it were a submessage.        *)
EncInit ==
    /\ src \in Sources
    /\ room \in BufSizes
    /\ mode \in Modes
    /\ out = <<>>
    /\ frames = IF mode = "delimited"
                THEN <<[Call(Root, <<>>, FALSE, 0, room, 0) EXCEPT !.at = Huge],
                       Call(Root, <<>>, TRUE, 0, 0, 0)>>
                ELSE <<Call(Root, <<>>, mode = "size", 0, room, 0)>>
    /\ outcome = "running"
    /\ varied = FALSE

----------------------------------------------------------------------------
(* What is not there.                                                      *)

ZeroOf(f) ==
    CASE f.ltype \in {"varint", "uvarint", "svarint"} -> Zero
      [] f.ltype = "fixed32" -> Zeros(4)
      [] f.ltype = "fixed64" -> Zeros(8)
      [] f.ltype = "fixed_length_bytes" -> Zeros(f.size)
      [] f.ltype \in {"bytes", "string"} -> <<>>

(* The value of a scalar field of the structure d.                         *)
Datum(d, f, q) == At(d, q, ZeroOf(f))

(* The first byte of a value in memory; of a bytes array that is its size. *)
FirstByteZero(f, v) ==
    CASE f.ltype \in {"varint", "uvarint", "svarint"} -> v[1] = 0 /\ v[2] % 2 = 0
      [] f.ltype = "bytes" -> v = <<>>
      [] OTHER -> v = <<>> \/ v[1] = 0

EmptyValue(f, v) ==
    CASE f.ltype = "bytes" -> v = <<>>
      [] f.ltype = "string" -> v = <<>> \/ v[1] = 0
      [] f.ltype = "fixed_length_bytes" -> f.size = 0
      [] OTHER -> v = ZeroOf(f)

(* pb_check_proto3_default_value of field t of the message m at path p of  *)
(* d.  An array of fixed count has no count: the first byte of its data is *)
(* taken for one.  (No structure here has a submessage that holds a        *)
(* repeated callback or a fixed number of submessages, where that byte is  *)
(* part of an address or of another field.)                                *)
IsDefault(d) ==
    LET Default[m \in DOMAIN Schema, p \in Seq(Nat), t \in Nat] ==
            LET f == Schema[m][t]
                q == Append(p, t)
            IN  CASE f.htype = "required" -> FALSE
                  [] f.htype = "repeated" /\ f.has  -> Count(d, q) = 0
                  [] f.htype = "repeated" /\ ~f.has -> FirstByteZero(f, Datum(d, f, Append(q, 1)))
                  [] f.htype = "oneof" -> Which(d, p) = 0
                  [] f.htype = "optional" /\ f.has -> ~At(d, HasAt(p, t), FALSE)
                  [] f.htype = "optional" /\ ~f.has /\ f.atype = "callback" -> q \notin DOMAIN d
                  [] f.htype = "optional" /\ ~f.has /\ f.atype = "static" ->
                        IF f.ltype = "submessage"
                        THEN \A u \in DOMAIN Schema[f.sub] : Default[f.sub, q, u]
                        ELSE EmptyValue(f, Datum(d, f, q))
    IN  Default

(* The items of a repeated field.                                          *)
Items(d, f, q) == IF f.has THEN Count(d, q) ELSE f.max

(* Whether encode_field has something to encode.                           *)
Present(d, m, p, t) ==
    LET f == Schema[m][t]
        q == Append(p, t)
    IN  IF f.atype = "callback" THEN q \in DOMAIN d
        ELSE CASE f.htype = "required" -> TRUE
               [] f.htype = "repeated" -> Items(d, f, q) # 0
               [] f.htype = "oneof"    -> Which(d, p) = t
               [] f.htype = "optional" ->
                     IF f.has THEN At(d, HasAt(p, t), FALSE) ELSE ~IsDefault(d)[m, p, t]

----------------------------------------------------------------------------
(* pb_write: all of the bytes or, in a stream that has a callback, none of *)
(* them when they do not fit.                                              *)
Fits(f, n) == f.sizing \/ f.written + n <= f.max
Output(f, bytes) == IF f.sizing THEN out ELSE out \o bytes

Stop(bytes, why) ==
    /\ outcome' = why
    /\ out' = Output(Cur, bytes)
    /\ UNCHANGED <<src, room, mode, frames>>

(* Up to three pb_write calls, for a tag, a length and data; after them    *)
(* the calls are below followed by the current one, next, and by opened.   *)
Emit(a, b, c, next, opened) ==
    LET n == Len(a) + Len(b) + Len(c)
    IN  IF Fits(Cur, n)
        THEN /\ out' = Output(Cur, a \o b \o c)
             /\ frames' = Callers \o <<[next EXCEPT !.written = @ + n]>> \o opened
             /\ UNCHANGED <<src, room, mode, outcome>>
        ELSE Stop(IF ~Fits(Cur, Len(a)) THEN <<>>
                  ELSE IF ~Fits(Cur, Len(a) + Len(b)) THEN a ELSE a \o b, "stream full")

----------------------------------------------------------------------------
(* The loop of pb_encode, over the fields that have something to encode;   *)
(* Due is the next one.                                                    *)
Encoding == outcome = "running"
Todo     == {t \in DOMAIN Schema[Cur.msg] : t > Cur.at /\ Present(src, Cur.msg, Cur.path, t)}
Due      == IF Encoding /\ Cur.packed = 0
            THEN LET todo == Todo IN {t \in todo : \A u \in todo : t <= u}
            ELSE {}
Desc(t)  == Schema[Cur.msg][t]
Place(t) == Append(Cur.path, t)

TagBytes(t, wire) == EncodeVarint(Digits(8 * t + wire))
LengthBytes(n)    == EncodeVarint(Digits(n))

IsArray(f)  == f.htype = "repeated"
IsPacked(f) == IsArray(f) /\ f.ltype \in Packable
CountOf(t)  == Items(src, Desc(t), Place(t))
TooMany(t)  == IsArray(Desc(t)) /\ CountOf(t) > Desc(t).max
IsBasic(t)  == Desc(t).atype = "static" /\ ~TooMany(t)

(* Where the value is, and the call after it has been encoded.             *)
Here(t) == IF IsArray(Desc(t)) THEN Append(Place(t), Cur.item) ELSE Place(t)
Following(t) ==
    IF IsArray(Desc(t)) /\ Cur.item < CountOf(t)
    THEN [Cur EXCEPT !.item = @ + 1] ELSE [Cur EXCEPT !.at = t, !.item = 1]

(* pb_enc_string takes what is before the first zero, or all.              *)
Terminated(v, max) ==
    SubSeq(v, 1, Cardinality({n \in 1..Len(v) : n <= max /\ \A j \in 1..n : v[j] # 0}))

(* The data of a value, without its length.                                *)
Data(f, v) ==
    CASE f.ltype \in {"varint", "uvarint"} -> EncodeVarint(v)
      [] f.ltype = "svarint" -> EncodeVarint(Zigzag(v))
      [] f.ltype = "string"  -> Terminated(v, f.size)
      [] OTHER -> v

HasLength(f) == f.ltype \in {"bytes", "string", "fixed_length_bytes"}

ArrayTooLong(t) ==
    /\ Desc(t).atype = "static" /\ TooMany(t)
    /\ Stop(<<>>, "array max size exceeded")
    /\ UNCHANGED varied

(* The tag of a bytes field is out before its size is looked at.           *)
BytesTooLong(t) == Desc(t).ltype = "bytes" /\ BytesAllocSize(Len(Datum(src, Desc(t), Here(t)))) > Desc(t).size

EncodeScalar(t) ==
    /\ IsBasic(t) /\ ~IsPacked(Desc(t))
    /\ Desc(t).ltype # "submessage"
    /\ ~BytesTooLong(t)
    /\ \E data \in {Data(Desc(t), Datum(src, Desc(t), Here(t)))} :
          Emit(TagBytes(t, WireOf(Desc(t))),
               IF HasLength(Desc(t)) THEN LengthBytes(Len(data)) ELSE <<>>,
               data, Following(t), <<>>)
    /\ UNCHANGED varied

BytesExceeded(t) ==
    /\ IsBasic(t)
    /\ BytesTooLong(t)
    /\ IF Fits(Cur, Len(TagBytes(t, 2))) THEN Stop(TagBytes(t, 2), "bytes size exceeded")
                                         ELSE Stop(<<>>, "stream full")
    /\ UNCHANGED varied

(* pb_encode_submessage: the tag, then a stream that only counts.          *)
EncodeSubmessage(t) ==
    /\ IsBasic(t)
    /\ Desc(t).ltype = "submessage"
    /\ Emit(TagBytes(t, 2), <<>>, <<>>, Following(t), <<Call(Desc(t).sub, Here(t), TRUE, 0, 0, 0)>>)
    /\ UNCHANGED varied

(* encode_array.  The items of a packed array go to the same stream as its *)
(* length, here to a call of their own that may fill what is left of that  *)
(* stream.  What they take is counted, or known when all take the same.    *)
EncodePacked(t) ==
    /\ IsBasic(t) /\ IsPacked(Desc(t))
    /\ Desc(t).ltype \notin {"fixed32", "fixed64"}
    /\ Emit(TagBytes(t, 2), <<>>, <<>>, [Cur EXCEPT !.at = t],
            <<Call(Cur.msg, Cur.path, TRUE, 0, 0, t)>>)
    /\ UNCHANGED varied

EncodePackedFixed(t) ==
    /\ IsBasic(t) /\ IsPacked(Desc(t))
    /\ Desc(t).ltype \in {"fixed32", "fixed64"}
    /\ \E size \in {(IF Desc(t).ltype = "fixed32" THEN 4 ELSE 8) * CountOf(t)} :
          IF Cur.sizing
          THEN Emit(TagBytes(t, 2), LengthBytes(size), Zeros(size), [Cur EXCEPT !.at = t], <<>>)
          ELSE LET n == Len(TagBytes(t, 2)) + Len(LengthBytes(size))
               IN  Emit(TagBytes(t, 2), LengthBytes(size), <<>>, [Cur EXCEPT !.at = t],
                        <<Call(Cur.msg, Cur.path, FALSE, Len(out) + n, Cur.max - Cur.written - n, t)>>)
    /\ UNCHANGED varied

PackedDesc  == Schema[Cur.msg][Cur.packed]
PackedPlace == Append(Cur.path, Cur.packed)
ItemsDone   == Cur.item > Items(src, PackedDesc, PackedPlace)

EncodeItem ==
    /\ Encoding /\ Cur.packed # 0
    /\ ~ItemsDone
    /\ LET v == Datum(src, PackedDesc, Append(PackedPlace, Cur.item))
       IN  Emit(Data(PackedDesc, v), <<>>, <<>>, [Cur EXCEPT !.item = @ + 1], <<>>)
    /\ UNCHANGED varied

----------------------------------------------------------------------------
(* encode_callback_field.  The callback writes a tag, a length and data    *)
(* with pb_encode_tag_for_field and pb_encode_string, or returns false.    *)
CallbackWrites(t) ==
    /\ Desc(t).atype = "callback"
    /\ \E more \in IF CallbackMayVary THEN {<<>>, <<0>>} ELSE {<<>>} :
          /\ LET data == src[Place(t)] \o more
             IN  Emit(TagBytes(t, 2), LengthBytes(Len(data)), data, [Cur EXCEPT !.at = t], <<>>)
          /\ varied' = (varied \/ more # <<>>)

CallbackRefuses(t) ==
    /\ CallbackMayFail
    /\ Desc(t).atype = "callback"
    /\ Stop(<<>>, "callback error")
    /\ UNCHANGED varied

----------------------------------------------------------------------------
(* The end of a call.                                                      *)
CallDone == Encoding /\ (IF Cur.packed # 0 THEN ItemsDone ELSE Todo = {})
Return(parent, opened) == frames' = SubSeq(frames, 1, Len(frames) - 2) \o <<parent>> \o opened

\* Mutant: the size is not compared with what is left of the buffer.
SizeKnownUnchecked ==
    /\ CallDone /\ Len(frames) > 1
    /\ Cur.sizing
    /\ LET len  == LengthBytes(Cur.written)
           next == [Parent EXCEPT !.written = @ + Len(len)]
       IN  IF Parent.sizing
           THEN /\ Return([next EXCEPT !.written = @ + Cur.written], <<>>)
                /\ UNCHANGED <<out, outcome>>
           ELSE IF ~Fits(Parent, Len(len))
           THEN /\ outcome' = "stream full" /\ UNCHANGED <<out, frames>>
           ELSE /\ out' = out \o len
                /\ Return(next, <<Call(Cur.msg, Cur.path, FALSE, Len(out) + Len(len), Cur.written, Cur.packed)>>)
                /\ UNCHANGED outcome
    /\ UNCHANGED <<src, room, mode, varied>>

\* Mutant: a counting pass does not count the lengths of what is in it.
SizeKnownUncounted ==
    /\ CallDone /\ Len(frames) > 1
    /\ Cur.sizing
    /\ LET len  == LengthBytes(Cur.written)
           next == [Parent EXCEPT !.written = @ + Len(len)]
           max  == IF Cur.packed # 0 THEN next.max - next.written ELSE Cur.written
       IN  IF Parent.sizing
           THEN /\ Return([Parent EXCEPT !.written = @ + Cur.written], <<>>)
                /\ UNCHANGED <<out, outcome>>
           ELSE IF ~Fits(Parent, Len(len)) \/ (Cur.packed = 0 /\ ~Fits(next, Cur.written))
           THEN /\ outcome' = "stream full" /\ UNCHANGED <<out, frames>>
           ELSE /\ out' = out \o len
                /\ Return(next, <<Call(Cur.msg, Cur.path, FALSE, Len(out) + Len(len), max, Cur.packed)>>)
                /\ UNCHANGED outcome
    /\ UNCHANGED <<src, room, mode, varied>>

(* The size is known: it is written, and then the same again - unless this *)
(* is part of a counting pass itself.  A submessage may not take more than *)
(* it did the first time; the items of an array cannot.                    *)
SizeKnown ==
    /\ CallDone /\ Len(frames) > 1
    /\ Cur.sizing
    /\ LET len  == LengthBytes(Cur.written)
           next == [Parent EXCEPT !.written = @ + Len(len)]
           max  == IF Cur.packed # 0 THEN next.max - next.written ELSE Cur.written
       IN  IF Parent.sizing
           THEN /\ Return([next EXCEPT !.written = @ + Cur.written], <<>>)
                /\ UNCHANGED <<out, outcome>>
           ELSE IF ~Fits(Parent, Len(len))
           THEN /\ outcome' = "stream full" /\ UNCHANGED <<out, frames>>
           ELSE IF Cur.packed = 0 /\ ~Fits(next, Cur.written)
           THEN /\ outcome' = "stream full" /\ out' = out \o len /\ UNCHANGED frames
           ELSE /\ out' = out \o len
                /\ Return(next, <<Call(Cur.msg, Cur.path, FALSE, Len(out) + Len(len), max, Cur.packed)>>)
                /\ UNCHANGED outcome
    /\ UNCHANGED <<src, room, mode, varied>>

\* Mutant: what a callback left out the second time is not noticed.
SizeChangeUnnoticed ==
    /\ CallDone /\ Len(frames) > 1
    /\ ~Cur.sizing
    /\ Return([Parent EXCEPT !.written = @ + Cur.written], <<>>)
    /\ UNCHANGED <<src, room, mode, out, outcome, varied>>

SecondPassDone ==
    /\ CallDone /\ Len(frames) > 1
    /\ ~Cur.sizing
    /\ IF Cur.packed = 0 /\ Cur.written # Cur.max
       THEN outcome' = "submsg size changed" /\ UNCHANGED frames
       ELSE Return([Parent EXCEPT !.written = @ + Cur.written], <<>>) /\ UNCHANGED outcome
    /\ UNCHANGED <<src, room, mode, out, varied>>

(* pb_encode_nullterminated appends a tag of zero.                         *)
EncodeDone ==
    /\ CallDone /\ Len(frames) = 1
    /\ IF mode # "nullterminated" THEN outcome' = "ok" /\ UNCHANGED <<out, frames>>
       ELSE IF Fits(Cur, 1)
       THEN outcome' = "ok" /\ out' = out \o <<0>> /\ frames' = <<[Cur EXCEPT !.written = @ + 1]>>
       ELSE outcome' = "stream full" /\ UNCHANGED <<out, frames>>
    /\ UNCHANGED <<src, room, mode, varied>>

EncNext ==
    \/ \E t \in Due :
          \/ ArrayTooLong(t) \/ EncodeScalar(t) \/ BytesExceeded(t) \/ EncodeSubmessage(t)
          \/ EncodePacked(t) \/ EncodePackedFixed(t)
          \/ CallbackWrites(t) \/ CallbackRefuses(t)
    \/ EncodeItem \/ SizeKnown \/ SecondPassDone \/ EncodeDone

EncSpec == EncInit /\ [][EncNext]_encVars /\ WF_encVars(EncNext)

----------------------------------------------------------------------------
(* Properties.                                                             *)

(* docs/security.rst:53: "Nanopb will never write more than max_size bytes *)
(* to pb_ostream_t".  The buffer has what the innermost stream that writes *)
(* has written behind where it begins, and that begins where its parent    *)
(* has got to: no byte is lost or counted twice, and together it is never  *)
(* more than there is room for.                                            *)
OutContained ==
    /\ Len(out) <= room
    /\ Encoding => \A i \in 1..Len(frames) : ~frames[i].sizing =>
          IF i < Len(frames) /\ ~frames[i + 1].sizing
          THEN frames[i + 1].from = frames[i].from + frames[i].written
          ELSE Len(out) = frames[i].from + frames[i].written

----------------------------------------------------------------------------
(* The inductive invariant behind it: a stream that writes has one below   *)
(* it that writes too, and is part of the room that that one has left.     *)

CallType ==
    {f \in [msg : DOMAIN Schema, path : Seq(Nat \ {0}), at : Nat, item : Nat \ {0},
            sizing : BOOLEAN, from : Nat, written : Nat, max : Nat, packed : Nat] :
        f.packed # 0 => f.packed \in DOMAIN Schema[f.msg] /\ IsPacked(Schema[f.msg][f.packed])}

Streams(fs, n) ==
    \A i \in 1..Len(fs) : ~fs[i].sizing =>
        /\ fs[i].written <= fs[i].max
        /\ fs[i].from + fs[i].max <= room
        /\ \A j \in 1..(i - 1) : ~fs[j].sizing
        /\ IF i < Len(fs) /\ ~fs[i + 1].sizing
           THEN /\ fs[i + 1].from = fs[i].from + fs[i].written
                /\ fs[i + 1].max <= fs[i].max - fs[i].written
           ELSE n = fs[i].from + fs[i].written

EncInv ==
    /\ src \in Sources
    /\ room \in Nat
    /\ frames \in Seq(CallType) /\ frames # <<>>
    /\ mode # "size" => ~frames[1].sizing
    /\ Len(out) <= room
    /\ Encoding => Streams(frames, Len(out))
=============================================================================
