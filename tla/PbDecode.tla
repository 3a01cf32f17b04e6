------------------------------ MODULE PbDecode ------------------------------
(***************************************************************************)
(* pb_decode of nanopb, components/nanopb/pb_decode.c: one step decodes    *)
(* one field, opens or closes one substream, or ends one message.          *)
(*                                                                         *)
(* The C stack of pb_decode_noinit calls and their substreams is the       *)
(* variable stack; the structure that is filled is dest.  The build is one *)
(* without PB_ENABLE_MALLOC, with every kind of field that this has.       *)
(***************************************************************************)
EXTENDS PbFields

CONSTANT Inputs  \* the buffers pb_decode is called with

ASSUME InputsAssumption == Inputs \subseteq Seq(Byte)

VARIABLES
    buf,    \* the buffer behind the stream
    pos,    \* how many bytes have been read from it
    stack,  \* the open substreams, the whole stream first
    header, \* the number and wire type of the field at pos, <<>> before its tag
    dest,   \* the structure
    ret     \* what pb_decode returns, or "running"

pbVars == <<buf, pos, stack, header, dest, ret>>

(* A substream: the message decoded from it and where that lives in dest;  *)
(* left is bytes_left; seen are the required fields met; fixed is          *)
(* fixed_count_field, whose fixed_count_size is where dest has the count   *)
(* of another array; packed is the field whose packed items or callback    *)
(* data it holds, 0 for a message.  end is not in the code: the position   *)
(* in buf where the substream ends.                                        *)
Frame(m, p, size, from, tag) ==
    [msg |-> m, path |-> p, left |-> size, seen |-> {}, fixed |-> 0,
     packed |-> tag, end |-> from + size]

Top  == stack[Len(stack)]
Rest == SubSeq(buf, pos + 1, pos + Top.left)

----------------------------------------------------------------------------
(* The state pb_decode starts in for buffer b.                             *)
Started(b) ==
    /\ buf = b
    /\ pos = 0
    /\ stack = <<Frame(Root, <<>>, Len(b), 0, 0)>>
    /\ header = <<>>
    /\ dest = Empty
    /\ ret = "running"

(* A new call of pb_decode, for the modules that make one.                 *)
PbStart(b) ==
    /\ buf' = b
    /\ pos' = 0
    /\ stack' = <<Frame(Root, <<>>, Len(b), 0, 0)>>
    /\ header' = <<>>
    /\ dest' = Empty
    /\ ret' = "running"

PbInit == \E b \in Inputs : Started(b)

(* pb_decode returns false: every pb_decode_noinit on the stack does.      *)
(* What has been stored in dest stays there.                               *)
Fail(d) == ret' = "failed" /\ dest' = d /\ UNCHANGED <<buf, pos, stack, header>>

(* n bytes are read; field t is noted if it is tracked or of fixed count.  *)
After(n, t) ==
    [Top EXCEPT !.left = @ - n,
                !.seen = IF t \in Tracked(Top.msg) THEN @ \cup {t} ELSE @,
                !.fixed = IF t \in DOMAIN Schema[Top.msg] /\ FixedCount(Schema[Top.msg][t])
                          THEN t ELSE @]

Proceed(n, t, d) ==
    /\ pos' = pos + n
    /\ stack' = [stack EXCEPT ![Len(stack)] = After(n, t)]
    /\ header' = <<>>
    /\ dest' = d
    /\ UNCHANGED <<buf, ret>>

(* pb_make_string_substream: n bytes up to and with the length are read,   *)
(* and the parent gives size bytes away.                                   *)
Open(n, t, m, p, size, packed, d) ==
    /\ pos' = pos + n
    /\ stack' = Append([stack EXCEPT ![Len(stack)] = [After(n, t) EXCEPT !.left = @ - size]],
                       Frame(m, p, size, pos + n, packed))
    /\ header' = <<>>
    /\ dest' = d
    /\ UNCHANGED <<buf, ret>>

\* Mutant: the parent resumes where the submessage stopped reading.
CloseAtPos ==
    /\ stack' = SubSeq(stack, 1, Len(stack) - 1)
    /\ UNCHANGED <<buf, pos, header, dest, ret>>

(* pb_close_string_substream: what is left of the substream is skipped.    *)
Close ==
    /\ pos' = pos + Top.left
    /\ stack' = SubSeq(stack, 1, Len(stack) - 1)
    /\ UNCHANGED <<buf, header, dest, ret>>

----------------------------------------------------------------------------
(* The loop of pb_decode_noinit: first the tag.                            *)
Running == ret = "running"
AtTag   == Running /\ Top.packed = 0 /\ header = <<>>

(* pb_decode_tag.  A tag of zero ends the message like the end of stream.  *)
ReadTag ==
    /\ AtTag
    /\ Top.left > 0
    /\ LET temp == Varint32(Rest)
       IN  /\ temp.ok
           /\ temp.value # Zero
           /\ pos' = pos + temp.len
           /\ stack' = [stack EXCEPT ![Len(stack)].left = @ - temp.len]
           /\ header' = <<Num(temp.value) \div 8, temp.value[1] % 8>>
    /\ UNCHANGED <<buf, dest, ret>>

BadTag ==
    /\ AtTag
    /\ Top.left > 0
    /\ ~Varint32(Rest).ok
    /\ Fail(dest)

\* Mutant: only a tag of zero ends a message.
NoMoreFieldsAtZero ==
    /\ AtTag
    /\ Varint32(Rest).ok /\ Varint32(Rest).value = Zero

NoMoreFields ==
    /\ AtTag
    /\ \/ Top.left = 0
       \/ Varint32(Rest).ok /\ Varint32(Rest).value = Zero

\* Mutant: an array of fixed count that was begun passes for complete.
FixedBegun(f) ==
    f.fixed # 0 => Count(dest, Append(f.path, f.fixed)) > 0

(* The last array of fixed count has all its items.                        *)
FixedFull(f) ==
    f.fixed # 0 => Count(dest, Append(f.path, f.fixed)) = Schema[f.msg][f.fixed].max

\* Mutant: required fields are checked at the end of a submessage only.
EndMessageUnchecked ==
    /\ NoMoreFields
    /\ FixedFull(Top)
    /\ IF Len(stack) > 1 THEN Close
       ELSE ret' = "ok" /\ UNCHANGED <<buf, pos, stack, header, dest>>

EndMessage ==
    /\ NoMoreFields
    /\ FixedFull(Top)
    /\ Tracked(Top.msg) \subseteq Top.seen
    /\ IF Len(stack) > 1 THEN Close
       ELSE ret' = "ok" /\ UNCHANGED <<buf, pos, stack, header, dest>>

(* A missing required field or array item is an error, even if the rest    *)
(* was fine.                                                               *)
MissingRequired ==
    /\ NoMoreFields
    /\ ~FixedFull(Top) \/ ~(Tracked(Top.msg) \subseteq Top.seen)
    /\ Fail(dest)

----------------------------------------------------------------------------
(* Then the field.  An extension is found like any other field: its number *)
(* is not that of a field, and not below that of the extension range.      *)
AtField  == Running /\ header # <<>>
Tag      == header[1]
WireType == header[2]
Known    == Tag \in DOMAIN Schema[Top.msg]
Field    == Schema[Top.msg][Tag]
Path     == Append(Top.path, Tag)

(* A callback can be in the structure and not be set; a submessage that is *)
(* a member of a oneof has lost it to a memset.                            *)
IsSet == Path \in DOMAIN dest

(* pb_skip_field: how many bytes of s a value of this wire type takes; no  *)
(* number at all when s is too short or there is no such wire type.        *)
Skipped(s) ==
    CASE WireType = 0 -> {VarintLen(s)} \ {0}
      [] WireType = 1 -> {8} \cap 0..Len(s)
      [] WireType = 2 -> LET size == Varint32(s)
                         IN  IF size.ok THEN {size.len + Num(size.value)} \cap 0..Len(s) ELSE {}
      [] WireType = 5 -> {4} \cap 0..Len(s)
      [] OTHER        -> {}

(* A fixed count array may not be left for another before it is complete.  *)
LeavesFixed == FixedCount(Field) /\ Top.fixed # Tag /\ ~FixedFull(Top)

WrongFixedCount ==
    /\ AtField /\ Known
    /\ LeavesFixed
    /\ Fail(dest)

AtKnown == AtField /\ Known /\ ~LeavesFixed

(* An unknown field, or one with a callback that is not set, is skipped.   *)
(* A message type without fields is an exception: asked for field 0 it     *)
(* finds its own terminator, and pb_dec_varint refuses to store that.      *)
Skippable ==
    \/ AtField /\ ~Known
    \/ AtKnown /\ Field.atype = "callback" /\ ~IsSet
Lengths == IF Tag = 0 /\ DOMAIN Schema[Top.msg] = {} THEN {} ELSE Skipped(Rest)

(* A repeated callback counts as an array of fixed count: its count starts *)
(* at zero, where it stays and what it has to be in the end.               *)
ItemCount == IF FixedCount(Field) /\ Top.fixed # Tag THEN 0 ELSE Count(dest, Path)
Counted   == IF FixedCount(Field) THEN Put(dest, Append(Path, 0), ItemCount) ELSE dest

SkipField ==
    /\ Skippable
    /\ \E n \in Lengths : Proceed(n, Tag, IF Known THEN Counted ELSE dest)

CannotSkip ==
    /\ Skippable
    /\ Lengths = {}
    /\ Fail(dest)

----------------------------------------------------------------------------
(* The decoders of single values: whether func succeeds on s, how many     *)
(* bytes it reads then, whether it has stored a value, and which.          *)
Result(ok, len, stored, value) == [ok |-> ok, len |-> len, stored |-> stored, value |-> value]

\* Mutant: uint32 fields are cut to 32 bits before they are checked.
NumberUnsigned(f, v) ==
    CASE f.ltype = "varint"  -> IF f.size = 8 THEN v ELSE Cast(v, 4, TRUE)
      [] f.ltype = "uvarint" -> IF f.size = 8 THEN v ELSE Cast(v, 4, FALSE)
      [] f.ltype = "svarint" -> Unzigzag(v)

(* An int32 is cut to 32 bits before anything is checked, since a negative *)
(* one comes as an int64 or not.                                           *)
Number(f, v) ==
    CASE f.ltype = "varint"  -> IF f.size = 8 THEN v ELSE Cast(v, 4, TRUE)
      [] f.ltype = "uvarint" -> v
      [] f.ltype = "svarint" -> Unzigzag(v)

(* pb_dec_varint, pb_dec_uvarint, pb_dec_svarint: a number too large for   *)
(* its field is stored, cut to the field's size, and then refused.  The    *)
(* wire type of the field is not looked at.                                *)
Integer(f, s) ==
    LET v == Varint64(s)
        stored == Cast(Number(f, v.value), f.size, f.ltype # "uvarint")
    IN  Result(v.ok /\ stored = Number(f, v.value), v.len, v.ok, stored)

(* pb_dec_fixed32 and pb_dec_fixed64; the value is its bytes.              *)
Fixed(n, s) ==
    LET here == n <= Len(s)
    IN  Result(here, n, here, IF here THEN SubSeq(s, 1, n) ELSE <<>>)

\* Mutant: the size of the array is compared, without its size field.
BytesFitUncounted(f, n) == n <= PB_SIZE_MAX /\ n <= f.size

BytesFit(f, n) == n <= PB_SIZE_MAX /\ BytesAllocSize(n) <= f.size

StringFits(f, n)      == n + 1 <= f.size
FixedLengthFits(f, n) == n = f.size /\ n <= PB_SIZE_MAX

(* pb_dec_bytes, pb_dec_string and pb_dec_fixed_length_bytes.  The size of *)
(* a bytes field is set before its bytes are read.  (Those that do not     *)
(* come are zero here; in the code they are what lay in the field before.  *)
(* Decoding fails then, and no property tells.)  A string has room for its *)
(* terminator, which is written even if nothing is read before it.  An     *)
(* empty fixed length array is zero.                                       *)
Sized(f, s) ==
    LET size == Varint32(s)
        n == Num(size.value)
        fits == CASE f.ltype = "bytes"  -> BytesFit(f, n)
                  [] f.ltype = "string" -> StringFits(f, n)
                  [] f.ltype = "fixed_length_bytes" -> FixedLengthFits(f, n)
        empty == f.ltype = "fixed_length_bytes" /\ n = 0
        here == size.len + n <= Len(s)
        read == size.ok /\ (fits \/ empty) /\ here
    IN  Result(read, size.len + n, read \/ (size.ok /\ fits /\ f.ltype = "bytes"),
               IF empty THEN Zeros(f.size)
               ELSE IF here THEN SubSeq(s, size.len + 1, size.len + n) ELSE Zeros(n))

Decoded(f, s) ==
    CASE f.ltype \in {"varint", "uvarint", "svarint"} -> Integer(f, s)
      [] f.ltype = "fixed32" -> Fixed(4, s)
      [] f.ltype = "fixed64" -> Fixed(8, s)
      [] OTHER -> Sized(f, s)

----------------------------------------------------------------------------
(* decode_static_field: first the flag or count or which_ of the field is  *)
(* set, then its value is decoded.                                         *)
IsItem == Field.htype = "repeated"
Target == IF IsItem THEN Append(Path, ItemCount + 1) ELSE Path

\* Mutant: the members of a union that is selected keep their data.
SelectKeeps(d, m, p, t) == Put(d, Append(p, 0), t)

(* which_ is set; then a submessage is zeroed and with it the members that *)
(* share its memory, other members are overwritten when there is a value.  *)
Select(d, m, p, t) == Put(NoUnion(d, m, p), Append(p, 0), t)

Flagged ==
    CASE IsItem -> Put(dest, Append(Path, 0), ItemCount + 1)
      [] Field.htype = "oneof" /\ Field.ltype = "submessage" -> Select(dest, Top.msg, Top.path, Tag)
      [] Field.htype = "oneof" /\ Field.ltype # "submessage" -> Put(dest, Append(Top.path, 0), Tag)
      [] Field.htype \in {"required", "optional"} ->
            IF Field.has \/ Field.ext THEN Put(dest, HasAt(Top.path, Tag), TRUE) ELSE dest

(* The value v in the structure d; in a union it takes the place of what   *)
(* was there.                                                              *)
Stored(d, v) == Put(IF Field.htype = "oneof" THEN NoUnion(d, Top.msg, Top.path) ELSE d, Target, v)

IsStatic == AtKnown /\ Field.atype = "static"
Packed   == IsItem /\ WireType = 2 /\ Field.ltype \in Packable
Overfull == IsItem /\ ItemCount >= Field.max

(* The count of an array is raised before it is compared with its size.    *)
ArrayOverflow ==
    /\ IsStatic /\ ~Packed
    /\ Overfull
    /\ Fail(Flagged)

DecodeScalar ==
    /\ IsStatic /\ ~Packed /\ ~Overfull
    /\ Field.ltype # "submessage"
    /\ LET r == Decoded(Field, Rest)
           d == IF r.stored THEN Stored(Flagged, r.value) ELSE Flagged
       IN  IF r.ok THEN Proceed(r.len, Tag, d) ELSE Fail(d)

\* Mutant: the length is not compared with what is left.
OpenUnsized(m, p, packed, d, opened) ==
    LET size == Varint32(Rest)
    IN  IF size.ok THEN Open(size.len, Tag, m, p, Num(size.value), packed, opened) ELSE Fail(d)

(* Open a substream for message m at path p, or for a packed array; d and  *)
(* opened are the structure before and after.                              *)
OpenSized(m, p, packed, d, opened) ==
    LET size == Varint32(Rest)
        fits == size.ok /\ Num(size.value) <= Top.left - size.len
    IN  IF fits THEN Open(size.len, Tag, m, p, Num(size.value), packed, opened) ELSE Fail(d)

(* pb_dec_submessage: a new array item is initialised, others have been.   *)
DecodeSubmessage ==
    /\ IsStatic /\ ~Overfull
    /\ Field.ltype = "submessage"
    /\ OpenSized(Field.sub, Target, 0, Flagged, IF IsItem THEN Defaults(Flagged, Target) ELSE Flagged)

(* A packed array is a substream of values without tags.                   *)
OpenPacked ==
    /\ IsStatic /\ Packed
    /\ OpenSized(Top.msg, Top.path, Tag, dest, Counted)

PackedField == Schema[Top.msg][Top.packed]
PackedPath  == Append(Top.path, Top.packed)
InPacked    == Running /\ Top.packed # 0 /\ PackedField.atype = "static"

\* Mutant: one item too many.
PackedOverfull == Count(dest, PackedPath) > PackedField.max

PackedFull == Count(dest, PackedPath) >= PackedField.max

DecodePacked ==
    /\ InPacked
    /\ Top.left > 0
    /\ ~PackedFull
    /\ LET n == Count(dest, PackedPath) + 1
           r == Decoded(PackedField, Rest)
           d == IF r.stored THEN Put(dest, Append(PackedPath, n), r.value) ELSE dest
       IN  IF r.ok THEN Proceed(r.len, 0, Put(d, Append(PackedPath, 0), n)) ELSE Fail(d)

ClosePacked ==
    /\ InPacked
    /\ Top.left = 0
    /\ Close

PackedOverflow ==
    /\ InPacked
    /\ Top.left > 0
    /\ PackedFull
    /\ Fail(dest)

----------------------------------------------------------------------------
(* decode_callback_field.  The callback gets the substream of a field with *)
(* a length again and again, at least once, until nothing is left; it      *)
(* reads from it each time or returns false.  dest has what it was given.  *)
IsCallback == AtKnown /\ Field.atype = "callback" /\ IsSet
InCallback == Running /\ Top.packed # 0 /\ PackedField.atype = "callback"

(* read_raw_value: a value without a length is read first, a varint of up  *)
(* to ten bytes.                                                           *)
Raw(s) == IF WireType = 0 THEN {VarintLen(s)} \cap 1..10
          ELSE IF WireType \in {1, 5} THEN Skipped(s) ELSE {}

OpenCallback ==
    /\ IsCallback /\ WireType = 2
    /\ OpenSized(Top.msg, Top.path, Tag, Counted, Counted)

CallbackReads ==
    /\ InCallback
    /\ \E n \in 1..Top.left :
          Proceed(n, 0, Put(dest, PackedPath, dest[PackedPath] \o SubSeq(Rest, 1, n)))

CallbackDone ==
    /\ InCallback
    /\ Top.left = 0
    /\ Close

CallbackFails ==
    /\ CallbackMayFail
    /\ InCallback \/ (IsCallback /\ WireType # 2 /\ Raw(Rest) # {})
    /\ Fail(dest)

CallbackScalar ==
    /\ IsCallback /\ WireType # 2
    /\ \E n \in Raw(Rest) : Proceed(n, Tag, Put(Counted, Path, dest[Path] \o SubSeq(Rest, 1, n)))

CallbackUnread ==
    /\ IsCallback /\ WireType # 2
    /\ Raw(Rest) = {}
    /\ Fail(dest)

PbNext ==
    \/ ReadTag \/ BadTag \/ EndMessage \/ MissingRequired
    \/ WrongFixedCount \/ SkipField \/ CannotSkip
    \/ ArrayOverflow \/ DecodeScalar \/ DecodeSubmessage
    \/ OpenPacked \/ DecodePacked \/ ClosePacked \/ PackedOverflow
    \/ OpenCallback \/ CallbackReads \/ CallbackDone \/ CallbackFails
    \/ CallbackScalar \/ CallbackUnread

PbSpec == PbInit /\ [][PbNext]_pbVars /\ WF_pbVars(PbNext)

----------------------------------------------------------------------------
(* Properties.                                                             *)

FrameType ==
    [msg : DOMAIN Schema, path : Seq(Nat), left : Nat, seen : SUBSET Nat, fixed : Nat,
     packed : Nat, end : Nat]

PbTypeOK ==
    /\ buf \in Seq(Byte)
    /\ pos \in 0..Len(buf)
    /\ stack \in Seq(FrameType) /\ stack # <<>>
    /\ header \in {<<>>} \cup (Nat \X Nat)
    /\ CountsTyped(dest)
    /\ ret \in {"running", "ok", "failed"}

(* docs/security.rst:52: "Nanopb will never read more than bytes_left      *)
(* bytes".  The bytes the open substreams still have are those of buf from *)
(* pos on, each counted for one stream: a substream ends within its parent *)
(* and the parent resumes where it ends, whatever lengths buf claims.      *)
StreamContained ==
    /\ pos + Top.left = Top.end
    /\ stack[1].end = Len(buf)
    /\ \A i \in 1..(Len(stack) - 1) : stack[i + 1].end + stack[i].left = stack[i].end

(* docs/security.rst:58: "the _count fields of arrays will not exceed the  *)
(* array size" - unless decoding fails, when a count one too large stays   *)
(* in dest; no item is ever stored behind the array, even then.            *)
CountsInBounds ==
    \A i \in 1..Len(stack) : \A t \in DOMAIN Schema[stack[i].msg] :
        LET f == Schema[stack[i].msg][t]
            p == Append(stack[i].path, t)
        IN  (f.htype = "repeated" /\ f.atype = "static") =>
                /\ Count(dest, p) <= f.max + (IF ret = "failed" THEN 1 ELSE 0)
                /\ \A n \in (f.max + 1)..(f.max + 2) : Append(p, n) \notin DOMAIN dest

(* docs/security.rst:59-60: "The size field of bytes will not exceed the   *)
(* allocated size" and "All string fields will have null terminator", of   *)
(* whatever was decoded, even where decoding failed.                       *)
SizesInBounds ==
    \A i \in 1..Len(stack) : \A t \in DOMAIN Schema[stack[i].msg] :
        LET f == Schema[stack[i].msg][t]
            p == Append(stack[i].path, t)
            IsValue(q) == IF f.htype = "repeated"
                          THEN Len(q) = Len(p) + 1 /\ Below(p, q) /\ q # Append(p, 0)
                          ELSE q = p
        IN  (f.ltype \in {"bytes", "string"} /\ f.atype = "static") =>
                \A q \in DOMAIN dest : IsValue(q) => Len(dest[q]) < f.size

(* docs/security.rst:56, "internally consistent", for the unions, which    *)
(* rpc.c reads even after a failure: which_ names the only member that     *)
(* holds data, so data decoded as one type is never read as another. (A    *)
(* failed string or number leaves the old bytes behind its own which_.)    *)
UnionConsistent ==
    \A i \in 1..Len(stack) : LET f == stack[i] IN
        \A t \in OneofTags(f.msg) : \A q \in DOMAIN dest \ Callbacks :
            (/\ f.packed = 0 /\ Below(Append(f.path, t), q)
             /\ ret = "failed" => \A u \in OneofTags(f.msg) : Schema[f.msg][u].ltype = "submessage")
                => Which(dest, f.path) = t

(* docs/reference.rst:28, "Maximum number of required fields to check for  *)
(* presence": success means that of the required fields of the message the *)
(* first PB_MAX_REQUIRED_FIELDS were stored.                               *)
RequiredStored ==
    ret = "ok" =>
        \A t \in Required(Root) :
            (/\ required_field_index(Root, t) < PB_MAX_REQUIRED_FIELDS
             /\ Schema[Root][t].ltype # "submessage" /\ Schema[Root][t].atype = "static") =>
                <<t>> \in DOMAIN dest

(* An array of fixed count has no count the user could look at: after      *)
(* success the array was absent or is complete, each item in its place.    *)
FixedCountsFull ==
    ret = "ok" =>
        \A t \in DOMAIN Schema[Root] :
            LET f == Schema[Root][t]
                items == {q \in DOMAIN dest : Len(q) = 2 /\ q[1] = t /\ q[2] > 0}
            IN  (FixedCount(f) /\ f.atype = "static" /\ f.ltype # "submessage" /\ items # {}) =>
                    items = {<<t, n>> : n \in 1..f.max}

(* pb_decode returns for every input: each round of its loops reads at     *)
(* least one byte or leaves a message.                                     *)
Terminates == <>(ret # "running")

----------------------------------------------------------------------------
(* The inductive invariant behind PbTypeOK and StreamContained: no open    *)
(* substream ends behind the buffer, and the first one is a message, so    *)
(* that a packed array always has a stream to return to.                   *)
StreamInv ==
    /\ buf \in Seq(Byte)
    /\ pos \in Nat
    /\ stack \in Seq(FrameType) /\ stack # <<>>
    /\ header \in {<<>>} \cup (Nat \X Nat)
    /\ ret \in {"running", "ok", "failed"}
    /\ StreamContained
    /\ stack[1].packed = 0
    /\ \A i \in 1..Len(stack) : stack[i].end <= Len(buf)

(* A path ends in an item's number, which comes from the count in dest.    *)
PbInv == StreamInv /\ CountsTyped(dest)

(* The inductive invariants behind the other properties, in three parts.   *)
(* The first one: the structure is what the schema says, wherever a path   *)
(* leads, open message or not.  What is stored is a value that fits:       *)
(* counts (but for one that is over), items and sizes are in bounds.       *)
ValueFits(q, v, over) ==
    LET l == Location(q)
        f == Schema[l.msg][l.tag]
    IN  /\ l.kind # "message"
        /\ l.kind = "count" => v <= f.max \/ (over /\ v = f.max + 1)
        /\ l.kind = "item" => q[Len(q)] <= f.max
        /\ (l.kind \in {"field", "item"} /\ f.atype = "static" /\ f.ltype \in {"bytes", "string"})
              => Len(v) < f.size

StructTyped(d, over) == \A q \in DOMAIN d : ValueFits(q, d[q], over)

(* The open messages, each in its place, and on top of them at most a      *)
(* packed array or a callback.                                             *)
FramePlaced(f) ==
    LET field == Schema[f.msg][f.packed] IN
    /\ Location(f.path) = Spot("message", f.msg, 0)
    /\ f.packed # 0 =>
          /\ f.packed \in DOMAIN Schema[f.msg]
          /\ field.atype = "static" => field.htype = "repeated" /\ field.ltype \in Packable

StackPlaced ==
    \A i \in 1..Len(stack) :
        /\ FramePlaced(stack[i])
        /\ i > 1 => stack[i].packed # 0 \/ stack[i].path # <<>>
        /\ i < Len(stack) \/ header # <<>> => stack[i].packed = 0

PlacesInv ==
    /\ PbInv
    /\ StructTyped(dest, ret = "failed")
    /\ StackPlaced

(* The second one, for the unions: every member on the way to q, of the    *)
(* messages ms, is the one that is selected.                               *)
Chosen(d, q, ms) ==
    \A k \in 0..(Len(q) - 1) :
        LET l == Location(SubSeq(q, 1, k))
        IN  (l.kind = "message" /\ l.msg \in ms /\ q[k + 1] \in OneofTags(l.msg))
                => Which(d, SubSeq(q, 1, k)) = q[k + 1]

(* After a failure only unions that have no other members than messages.   *)
UnionOfMessages(m) == \A u \in OneofTags(m) : Schema[m][u].ltype = "submessage"
Considered(failed) == {m \in DOMAIN Schema : failed => UnionOfMessages(m)}
UnionsTyped(d, ms) == \A q \in DOMAIN d \ Callbacks : Chosen(d, q, ms)

FrameChosen(i) ==
    LET f == stack[i] IN
    /\ Chosen(dest, f.path, DOMAIN Schema)
    /\ \A j \in i..Len(stack) : Len(f.path) <= Len(stack[j].path)
    /\ (f.packed # 0 /\ Schema[f.msg][f.packed].atype = "callback")
          => Append(f.path, f.packed) \in DOMAIN dest

UnionsInv ==
    /\ PlacesInv
    /\ UnionsTyped(dest, Considered(ret = "failed"))
    /\ \A i \in 1..Len(stack) : FrameChosen(i)

(* The third one, for the whole message: the required fields met so far    *)
(* are there, and of an array of fixed count nothing, everything or, while *)
(* it is fixed_count_field, as many items as have been counted.            *)
RootScalar(t)    == Schema[Root][t].ltype # "submessage" /\ Schema[Root][t].atype = "static"
FixedScalars     == {t \in DOMAIN Schema[Root] : RootScalar(t) /\ FixedCount(Schema[Root][t])}
RequiredScalars  == {t \in Tracked(Root) : RootScalar(t)}
ItemsOf(d, t)    == {q[2] : q \in {q \in DOMAIN d : Len(q) = 2 /\ q[1] = t /\ q[2] > 0}}

ArrayInOrder(d, fixed, t) ==
    \/ ItemsOf(d, t) = 1..Schema[Root][t].max
    \/ ItemsOf(d, t) = {} /\ fixed # t
    \/ ItemsOf(d, t) = 1..Count(d, <<t>>) /\ fixed = t

RootInOrder(d, seen, fixed) ==
    /\ \A t \in seen \cap RequiredScalars : <<t>> \in DOMAIN d
    /\ \A t \in FixedScalars : ArrayInOrder(d, fixed, t)

RootInv ==
    /\ PlacesInv
    /\ stack[1].path = <<>>
    /\ ret # "failed" =>
          /\ RootInOrder(dest, stack[1].seen, stack[1].fixed)
          /\ \A i \in 2..Len(stack) :
                (stack[i].path = <<>> /\ stack[i].packed \in FixedScalars)
                    => stack[1].fixed = stack[i].packed
    /\ ret = "ok" => FixedFull(stack[1]) /\ Tracked(Root) \subseteq stack[1].seen

StructInv == UnionsInv /\ RootInv
=============================================================================
