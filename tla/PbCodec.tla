------------------------------ MODULE PbCodec -------------------------------
(***************************************************************************)
(* Encoder and decoder of nanopb together: a structure is encoded, and the *)
(* outcome of that is decoded.                                             *)
(***************************************************************************)
EXTENDS PbEncode, PbDecode, SequencesExt

(* The C structures of submessages lie inside each other: none in itself.  *)
Nested(m) == {Schema[m][t].sub : t \in {t \in DOMAIN Schema[m] : StaticMessage(Schema[m][t])}}
ASSUME NestingAssumption ==
    /\ IsFiniteSet(DOMAIN Schema)
    /\ \E depth \in [DOMAIN Schema -> 1..Cardinality(DOMAIN Schema)] :
          \A m \in DOMAIN Schema : \A s \in Nested(m) : depth[s] < depth[m]

(* Numbers have 64 bits, those of a fixed size four or eight bytes.        *)
ASSUME ValuesAssumption ==
    \A d \in Sources : \A q \in DOMAIN d :
        LET l == Location(q)
            f == Schema[l.msg][l.tag]
        IN  (l.kind \in {"field", "item"} /\ f.atype = "static") =>
                /\ f.ltype \in {"varint", "uvarint", "svarint"} => d[q] \in Uint64
                /\ f.ltype = "fixed32" => Len(d[q]) = 4
                /\ f.ltype = "fixed64" => Len(d[q]) = 8

VARIABLE phase  \* "encode" or "decode"

codecVars == <<encVars, pbVars, phase>>

Init ==
    /\ EncInit
    /\ Started(<<>>)
    /\ phase = "encode"

Encode ==
    /\ phase = "encode"
    /\ EncNext
    /\ UNCHANGED <<pbVars, phase>>

(* pb_decode, pb_decode_nullterminated, or pb_decode_delimited, which      *)
(* makes a substream of the length in front.                               *)
Deliver ==
    /\ phase = "encode"
    /\ outcome = "ok"
    /\ mode # "size"
    /\ LET size == Varint32(out)
       IN  IF mode # "delimited" THEN PbStart(out)
           ELSE /\ size.ok /\ Num(size.value) <= Len(out) - size.len
                /\ PbStart(SubSeq(out, size.len + 1, size.len + Num(size.value)))
    /\ phase' = "decode"
    /\ UNCHANGED encVars

Decode ==
    /\ phase = "decode"
    /\ PbNext
    /\ UNCHANGED <<encVars, phase>>

Next == Encode \/ Deliver \/ Decode

Spec == Init /\ [][Next]_codecVars /\ WF_codecVars(Next)

----------------------------------------------------------------------------
(* What the encoding of a structure is, in one pass.                       *)

WithLength(bytes) == LengthBytes(Len(bytes)) \o bytes

(* A value, where sub[m][p] is the encoding of the message m at path p.    *)
ValueBytes(sub, d, f, q) ==
    CASE f.ltype = "submessage" -> WithLength(sub[f.sub][q])
      [] HasLength(f) -> WithLength(Data(f, Datum(d, f, q)))
      [] OTHER -> Data(f, Datum(d, f, q))

TaggedBytes(sub, d, t, f, q) == TagBytes(t, WireOf(f)) \o ValueBytes(sub, d, f, q)

(* The items of the array f at q; only the packed ones are without a tag.  *)
ItemBytes(sub, d, t, f, q) ==
    [n \in 1..Items(d, f, q) |->
        IF IsPacked(f) THEN ValueBytes(sub, d, f, Append(q, n)) ELSE TaggedBytes(sub, d, t, f, Append(q, n))]

FieldBytes(sub, d, t, f, q) ==
    CASE f.atype = "callback" -> TagBytes(t, 2) \o WithLength(d[q])
      [] f.atype # "callback" /\ IsPacked(f) ->
            TagBytes(t, 2) \o WithLength(FlattenSeq(ItemBytes(sub, d, t, f, q)))
      [] f.atype # "callback" /\ IsArray(f) /\ ~IsPacked(f) -> FlattenSeq(ItemBytes(sub, d, t, f, q))
      [] OTHER -> TaggedBytes(sub, d, t, f, q)

MessageBytes(sub, d, m, p) ==
    [t \in 1..Max(DOMAIN Schema[m] \cup {0}) |->
        IF t \in DOMAIN Schema[m] /\ Present(d, m, p, t)
        THEN FieldBytes(sub, d, t, Schema[m][t], Append(p, t)) ELSE <<>>]

Encodings(d) ==
    LET message[m \in DOMAIN Schema] == [p \in Seq(Nat) |-> FlattenSeq(MessageBytes(message, d, m, p))]
    IN  message

Wire(d) == Encodings(d)[Root][<<>>]

Expected(d) ==
    CASE mode = "delimited"      -> WithLength(Wire(d))
      [] mode = "nullterminated" -> Wire(d) \o <<0>>
      [] OTHER                   -> Wire(d)

----------------------------------------------------------------------------
(* Properties.                                                             *)

(* pb_encode.c:682-730: a submessage is counted, then written, and inside  *)
(* both passes its submessages again.  The outcome is that of one pass:    *)
(* every length is right, pb_get_encoded_size (:533) gives the size of the *)
(* encoding, and "stream full" means that it really does not fit - as long *)
(* as the callbacks write the same each time.                              *)
PassesAgree ==
    ~varied =>
        /\ outcome = "ok" =>
              IF mode = "size" THEN out = <<>> /\ Cur.written = Len(Wire(src))
                               ELSE out = Expected(src)
        /\ outcome = "stream full" => Len(Expected(src)) > room
        /\ outcome # "submsg size changed"

(* docs/security.rst:62-64: "After pb_encode() returns successfully, the   *)
(* resulting message is a valid protocol buffers message", even if a       *)
(* callback writes something else the second time: the decoder accepts it  *)
(* (unless one of its callbacks does not), and what it has stored would be *)
(* encoded to the same bytes again.                                        *)
CallbackFailed ==
    IF header = <<>> THEN Top.packed # 0 /\ PackedField.atype = "callback"
                     ELSE Known /\ Field.atype = "callback"
RoundTrip ==
    phase = "decode" =>
        /\ ret = "failed" => CallbackFailed
        /\ ret = "ok" => Expected(dest) = out

(* Both return for every structure and every buffer.                       *)
BothReturn ==
    <>(outcome # "running" /\ ((outcome = "ok" /\ mode # "size") => (phase = "decode" /\ ret # "running")))

(* pb_encode.c:213-214: "In proto3, all fields are optional and are only   *)
(* encoded if their value is non-zero".  A value that is not zero in an    *)
(* array of a submessage gets to the other side.                           *)
NonZeroEncoded ==
    (phase = "decode" /\ ret = "ok") =>
        \A t \in DOMAIN Schema[Root] :
            LET f == Schema[Root][t]
            IN  (f.ltype = "submessage" /\ f.htype = "optional" /\ ~f.has) =>
                    \A u \in DOMAIN Schema[f.sub] :
                        LET g == Schema[f.sub][u]
                        IN  (FixedCount(g) /\ g.atype = "static" /\ g.ltype # "submessage") =>
                                \A n \in 1..g.max :
                                    Datum(dest, g, <<t, u, n>>) = Datum(src, g, <<t, u, n>>)
----------------------------------------------------------------------------
(* The inductive invariant behind PassesAgree: with what the calls above a *)
(* call will still give it, its stream has what one pass would have        *)
(* written of d up to the field and the item where the call f is.          *)

Waiting(d, f)     == {t \in DOMAIN Schema[f.msg] : t > f.at /\ Present(d, f.msg, f.path, t)}
FieldsIn(d, f)    == MessageBytes(Encodings(d), d, f.msg, f.path)
ItemsIn(d, f, t)  == ItemBytes(Encodings(d), d, t, Schema[f.msg][t], Append(f.path, t))
First(s, n)       == FlattenSeq(SubSeq(s, 1, n))
NumberOf(d, f, t) == Items(d, Schema[f.msg][t], Append(f.path, t))

(* All that a call writes, and what it has come to.  With Huge it is that  *)
(* of pb_encode_delimited.                                                 *)
Whole(d, f) ==
    IF f.packed # 0 THEN FlattenSeq(ItemsIn(d, f, f.packed))
    ELSE IF f.at = Huge THEN WithLength(Wire(d)) ELSE Encodings(d)[f.msg][f.path]

Reached(d, f) ==
    IF f.packed # 0 THEN First(ItemsIn(d, f, f.packed), f.item - 1)
    ELSE IF f.at = Huge THEN Whole(d, f)
    ELSE First(FieldsIn(d, f), f.at) \o
            (IF f.item = 1 THEN <<>> ELSE First(ItemsIn(d, f, Min(Waiting(d, f))), f.item - 1))

(* What the stream of the i-th call gets when the call above returns.      *)
Ahead(d, fs, i) ==
    IF i = Len(fs) THEN <<>>
    ELSE IF fs[i + 1].sizing THEN WithLength(Whole(d, fs[i + 1])) ELSE Whole(d, fs[i + 1])

CallPlaced(d, f) ==
    /\ Location(f.path) = Spot("message", f.msg, 0)
    /\ f.packed # 0 => /\ Schema[f.msg][f.packed].atype = "static"
                       /\ f.item <= NumberOf(d, f, f.packed) + 1
    /\ (f.packed = 0 /\ f.at # Huge) => f.at <= Len(FieldsIn(d, f))
    /\ (f.packed = 0 /\ f.item # 1) =>
          /\ f.at # Huge /\ Waiting(d, f) # {}
          /\ LET t == Min(Waiting(d, f))
             IN  /\ StaticArray(Schema[f.msg][t]) /\ ~IsPacked(Schema[f.msg][t])
                 /\ f.item <= NumberOf(d, f, t)

(* The i-th call of fs, where o has been written.                          *)
InStep(d, fs, o, i) ==
    LET f == fs[i] IN
    /\ CallPlaced(d, f)
    /\ i < Len(fs) => f.packed = 0
    /\ Len(Reached(d, f)) = f.written + Len(Ahead(d, fs, i))
    /\ ~f.sizing => /\ f.from + f.written <= Len(o)
                    /\ SubSeq(o, f.from + 1, f.from + f.written) \o Ahead(d, fs, i) = Reached(d, f)
    /\ (i > 1 /\ f.packed = 0) => f.at # Huge /\ (~f.sizing => f.max = Len(Whole(d, f)))
    /\ (i > 1 /\ f.packed # 0 /\ ~f.sizing) => f.max = fs[i - 1].max - fs[i - 1].written

BottomCall(f) ==
    /\ f.msg = Root /\ f.path = <<>> /\ f.packed = 0 /\ f.from = 0
    /\ f.sizing <=> mode = "size"
    /\ f.at = Huge <=> mode = "delimited"
    /\ IF f.sizing THEN out = <<>> ELSE f.max = room

AllInStep ==
    /\ BottomCall(frames[1])
    /\ out \in Seq(Nat)
    /\ \A i \in 1..Len(frames) : InStep(src, frames, out, i)

PassesInv == EncInv /\ IF Encoding THEN ~varied => AllInStep ELSE PassesAgree
=============================================================================
