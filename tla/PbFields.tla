------------------------------ MODULE PbFields ------------------------------
(***************************************************************************)
(* The field descriptions of nanopb (pb_field_t, components/nanopb/pb.h)   *)
(* and the C structures they describe, as decoder and encoder see them.    *)
(***************************************************************************)
EXTENDS PbVarint, FiniteSets

CONSTANTS
    Schema,    \* Schema[m][tag] describes field tag of message m
    Root,      \* the message the library is called for
    Callbacks, \* the callback fields of the structure whose function is set
    CallbackMayFail, \* whether a callback may return false
    PB_MAX_REQUIRED_FIELDS \* how many required fields are checked

PB_SIZE_MAX == 255  \* pb_size_t is a uint_least8_t

(* A build option; 64 unless it is set.  pb.h:134 refuses less; nothing    *)
(* here depends on that, and runs may have a smaller one to get to it.     *)
ASSUME MaxRequiredAssumption ==
    PB_MAX_REQUIRED_FIELDS \in Nat

(* Scalars that can be packed, and what has a length on the wire.          *)
Packable == {"varint", "uvarint", "svarint", "fixed32", "fixed64"}
LType    == Packable \cup {"bytes", "string", "fixed_length_bytes", "submessage"}

(* A field: its type; its rule; its allocation; has tells of a has_ flag   *)
(* or of a _count beside an array (proto3 fields and arrays of fixed count *)
(* have none); size is the data_size of one item, max the array_size; sub  *)
(* the message type of a submessage; ext marks an extension, whose rule is *)
(* "required" so that it has no has_ flag and is always written.           *)
ASSUME SchemaAssumption ==
    /\ Root \in DOMAIN Schema
    /\ \A m \in DOMAIN Schema : \A t \in DOMAIN Schema[m] :
          LET f == Schema[m][t] IN
          /\ t \in 1..(Huge \div 8 - 1)
          /\ f.ltype \in LType
          /\ f.htype \in {"required", "optional", "repeated", "oneof"}
          /\ f.atype \in {"static", "callback"}
          /\ f.has \in BOOLEAN /\ f.ext \in BOOLEAN
          /\ f.size \in Nat /\ f.max \in Nat
          /\ f.ltype = "submessage" => f.sub \in DOMAIN Schema
          /\ f.ltype \in {"varint", "uvarint", "svarint"} => f.size \in {1, 2, 4, 8}
          /\ f.ext => f.htype = "required"
ASSUME CallbacksAssumption ==
    /\ CallbackMayFail \in BOOLEAN
    /\ Callbacks \subseteq Seq(Nat)
    /\ \A q \in Callbacks : q # <<>> /\ q[Len(q)] # 0

(* The arrays whose count nothing in the structure tells - also a repeated *)
(* callback, whose pSize is its pData like that of a fixed count array.    *)
FixedCount(f) == f.htype = "repeated" /\ ~f.has

Required(m)  == {t \in DOMAIN Schema[m] : Schema[m][t].htype = "required" /\ ~Schema[m][t].ext}

(* How many required fields precede t; field lists are sorted by number.   *)
required_field_index(m, t) == Cardinality({u \in Required(m) : u < t})

(* The required fields that have a bit in fields_seen.  The generator      *)
(* refuses to compile a message that has more (nanopb_generator.py:1348).  *)
Tracked(m) == {t \in Required(m) : required_field_index(m, t) < PB_MAX_REQUIRED_FIELDS}

OneofTags(m) == {t \in DOMAIN Schema[m] : Schema[m][t].htype = "oneof"}

(* pb_encode_tag_for_field.                                                *)
WireOf(f) ==
    CASE f.ltype \in {"varint", "uvarint", "svarint"} -> 0
      [] f.ltype = "fixed64" -> 1
      [] f.ltype = "fixed32" -> 5
      [] OTHER -> 2

----------------------------------------------------------------------------
(* A structure is a function from paths to values; what is not there is    *)
(* zero.  Field t of the message at path p is at Append(p, t), item i of   *)
(* an array at p \o <<t, i>>, its count at p \o <<t, 0>>; which_ of the    *)
(* oneof is at Append(p, 0), the has_ or found flag of t at p \o <<0, t>>. *)
(* A message type has one oneof at most.                                   *)
Put(d, p, v) == [q \in DOMAIN d \cup {p} |-> IF q = p THEN v ELSE d[q]]
At(d, p, default) == IF p \in DOMAIN d THEN d[p] ELSE default
Count(d, p)  == At(d, Append(p, 0), 0)
Which(d, p)  == At(d, Append(p, 0), 0)
HasAt(p, t)  == p \o <<0, t>>

Below(p, q) == Len(p) <= Len(q) /\ SubSeq(q, 1, Len(p)) = p

(* memset of the union of m at path p.                                     *)
NoUnion(d, m, p) ==
    [q \in {q \in DOMAIN d : \A u \in OneofTags(m) : ~Below(Append(p, u), q)} |-> d[q]]

(* pb_message_set_to_defaults of the message at path p: all but its        *)
(* callbacks becomes zero.  No field has a default value.  (The code does  *)
(* not touch the items of an array: behind a count of zero nobody sees     *)
(* them, and those of an array of fixed count, of which it zeroes the      *)
(* first byte only, are taken for cleared here.)                           *)
Defaults(d, p) == [q \in {q \in DOMAIN d : Below(p, q) => q \in Callbacks} |-> d[q]]

(* The structure as its user hands it to pb_decode, and as pb_decode       *)
(* starts with it: the callbacks that are set, with nothing delivered yet. *)
Empty == [q \in Callbacks |-> <<>>]

(* Counts, and the tags in a which_, are numbers.                          *)
CountsTyped(d) ==
    \A q \in DOMAIN d : q \in Seq(Nat) /\ q # <<>> /\ (q[Len(q)] = 0 => d[q] \in Nat)

(* PB_BYTES_ARRAY_T_ALLOCSIZE: the array has its size in front.            *)
BytesAllocSize(n) == n + 1

Zeros(n) == [i \in 1..n |-> 0]

----------------------------------------------------------------------------
(* What a path leads to: a message, one of its fields, or the count or an  *)
(* item of an array.  A which_ and a flag are none of these.               *)
Spot(kind, m, t) == [kind |-> kind, msg |-> m, tag |-> t]

StaticArray(f)   == f.htype = "repeated" /\ f.atype = "static"
StaticMessage(f) == f.ltype = "submessage" /\ f.atype = "static"

FieldSpot(m, t) ==
    IF StaticMessage(Schema[m][t]) /\ Schema[m][t].htype # "repeated"
    THEN Spot("message", Schema[m][t].sub, 0) ELSE Spot("field", m, t)

ArraySpot(m, t, n) ==
    CASE n = 0 -> Spot("count", m, t)
      [] n # 0 /\ StaticMessage(Schema[m][t]) -> Spot("message", Schema[m][t].sub, 0)
      [] n # 0 /\ ~StaticMessage(Schema[m][t]) -> Spot("item", m, t)

Inside(l, x) ==
    CASE l.kind = "message" /\ x \in DOMAIN Schema[l.msg] -> FieldSpot(l.msg, x)
      [] l.kind = "field" /\ StaticArray(Schema[l.msg][l.tag]) -> ArraySpot(l.msg, l.tag, x)
      [] OTHER -> Spot("none", l.msg, 0)

Location(p) ==
    LET spot[i \in 0..Len(p)] == IF i = 0 THEN Spot("message", Root, 0) ELSE Inside(spot[i - 1], p[i])
    IN  spot[Len(p)]

(* Callbacks are where the structure has callback fields.                  *)
ASSUME CallbackPlaces ==
    \A q \in Callbacks : LET l == Location(q) IN
        l.kind = "field" /\ l.tag \in DOMAIN Schema[l.msg] /\ Schema[l.msg][l.tag].atype = "callback"
=============================================================================
