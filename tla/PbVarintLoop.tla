---------------------------- MODULE PbVarintLoop ----------------------------
(***************************************************************************)
(* The loops of pb_decode_varint32_eof and pb_decode_varint, one byte per  *)
(* step, both fed the same stream, so that they can be compared with the   *)
(* closed forms of PbVarint, with each other and with their documentation. *)
(***************************************************************************)
EXTENDS PbVarint

CONSTANT Bytes  \* Bytes[i] are the bytes tried at position i of the stream

MaxBytes == Len(Bytes)

ASSUME BytesAssumption == Bytes \in Seq(SUBSET Byte)

VARIABLES
    bytes,  \* what the stream has delivered so far
    ended,  \* whether the stream has ended
    r32,    \* the reader in pb_decode_varint32_eof
    r64     \* the reader in pb_decode_varint

vars == <<bytes, ended, r32, r64>>

Idle(n) == [state |-> "reading", read |-> 0, digits |-> [i \in 1..n |-> 0]]

Init ==
    /\ bytes = <<>>
    /\ ended = FALSE
    /\ r32 = Idle(5)
    /\ r64 = Idle(10)

bitpos(r) == 7 * r.read

Beyond(r)   == bitpos(r) >= 32
Negative(r) == r.digits[5] >= 8

\* Mutants: no sign extension; a fifth byte of any size; anything behind it.
OverflowOnSign(r, b) ==
    \/ Beyond(r) /\ Group(b) # 0
    \/ bitpos(r) + 7 = 35 /\ b \in 16..127

OverflowBehindFifth(r, b) == Beyond(r) /\ Group(b) # 0 /\ (~Negative(r) \/ b # 255)

OverflowAtFifth(r, b) == bitpos(r) + 7 = 35 /\ b \in 16..127

(* A byte beyond bit 31 must be padding or sign extension; the top bits of *)
(* a fifth byte are refused only if the varint ends there.                 *)
Overflow(r, b) ==
    \/ Beyond(r) /\ Group(b) # 0 /\ (~Negative(r) \/ b # IF bitpos(r) < 63 THEN 255 ELSE 1)
    \/ bitpos(r) + 7 = 35 /\ b \in 16..127

(* One round of the loop at pb_decode.c:206-230, and the check behind it.  *)
Read32(r, b) ==
    LET stored == IF bitpos(r) = 28 THEN Group(b) % 16 ELSE Group(b)
    IN  [state  |-> IF Overflow(r, b) THEN "failed" ELSE IF More(b) THEN "reading" ELSE "ok",
         read   |-> r.read + 1,
         digits |-> IF Beyond(r) THEN r.digits ELSE [r.digits EXCEPT ![r.read + 1] = stored]]

(* One round of the loop at pb_decode.c:256-266: the limit is checked      *)
(* before the byte is read, and the shift drops what is above bit 63.      *)
Read64(r, b) ==
    IF bitpos(r) >= 64
    THEN [r EXCEPT !.state = "failed"]
    ELSE [state  |-> IF More(b) THEN "reading" ELSE "ok",
          read   |-> r.read + 1,
          digits |-> [r.digits EXCEPT ![r.read + 1] =
                        IF bitpos(r) = 63 THEN Group(b) % 2 ELSE Group(b)]]

Reading(r) == r.state = "reading"

NextByte ==
    /\ ~ended
    /\ Len(bytes) < MaxBytes
    /\ Reading(r32) \/ Reading(r64)
    /\ \E b \in Bytes[Len(bytes) + 1] :
          /\ bytes' = Append(bytes, b)
          /\ r32' = IF Reading(r32) THEN Read32(r32, b) ELSE r32
          /\ r64' = IF Reading(r64) THEN Read64(r64, b) ELSE r64
    /\ UNCHANGED ended

(* pb_readbyte fails at the end of the stream.                             *)
EndOfStream ==
    /\ ~ended
    /\ Reading(r32) \/ Reading(r64)
    /\ ended' = TRUE
    /\ r32' = IF Reading(r32) THEN [r32 EXCEPT !.state = "failed"] ELSE r32
    /\ r64' = IF Reading(r64) THEN [r64 EXCEPT !.state = "failed"] ELSE r64
    /\ UNCHANGED bytes

Next == NextByte \/ EndOfStream

Spec == Init /\ [][Next]_vars

----------------------------------------------------------------------------
Stopped == ~Reading(r32) /\ ~Reading(r64)

(* The loops compute the closed forms every other module uses.             *)
LoopsMatch ==
    Stopped =>
        /\ (r32.state = "ok") = Varint32(bytes).ok
        /\ r32.state = "ok" => /\ r32.digits = SubSeq(Varint32(bytes).value, 1, 5)
                               /\ r32.read = Varint32(bytes).len
        /\ (r64.state = "ok") = Varint64(bytes).ok
        /\ r64.state = "ok" => /\ r64.digits = Varint64(bytes).value
                               /\ r64.read = Varint64(bytes).len

(* A varint of at most five bytes means the same to both readers: what     *)
(* pb_decode_varint32 accepts is the value, and it refuses exactly the     *)
(* values that need more than 32 bits.                                     *)
ShortVarintsAgree ==
    (Stopped /\ r64.state = "ok" /\ r64.read <= 5) =>
        /\ (r32.state = "ok") = (r64.digits[5] < 16)
        /\ r32.state = "ok" => \A i \in 1..5 : r32.digits[i] = r64.digits[i]

(* A number of 32 bits, as an unsigned one or with its sign extended.      *)
Is32(v) == v = Cast(v, 4, FALSE) \/ v = Cast(v, 4, TRUE)

Is35(v) == \A i \in 6..10 : v[i] = 0

(* What the 32-bit reader makes of a number of 64 bits whose tenth byte, if *)
(* there is one, has no bits to shift out.  It accepts every number of 32  *)
(* bits, however padded.  Whatever it accepts becomes its low 32 bits; if  *)
(* bit 31 is not set, that loses at most bits 32 to 34, those of a fifth   *)
(* byte.  And it does lose them: pb_decode.c:228 shifts them out before    *)
(* line 233 looks for them, and it looks only if the fifth byte is the     *)
(* last, so that any number of 35 bits is accepted in six bytes or more.   *)
Reads32Bits ==
    (Stopped /\ r64.state = "ok") =>
        /\ (/\ Is32(r64.digits) \/ (Is35(r64.digits) /\ r64.read > 5)
            /\ r64.read = 10 => bytes[10] <= 1) => r32.state = "ok"
        /\ r32.state = "ok" =>
              /\ \A i \in 1..4 : r32.digits[i] = r64.digits[i]
              /\ r32.digits[5] = r64.digits[5] % 16
              /\ r32.digits[5] < 8 => Is35(r64.digits)

(* pb_encode_varint and pb_decode_varint are inverses: what was read is    *)
(* written in the same bytes, or in fewer where these were padded or had   *)
(* bits that were shifted out; and zigzag loses nothing.                   *)
EncodesBack ==
    (Stopped /\ r64.state = "ok") =>
        LET e == EncodeVarint(r64.digits) IN
        /\ Varint64(e).ok /\ Varint64(e).value = r64.digits /\ Varint64(e).len = Len(e)
        /\ Len(e) <= r64.read
        /\ (r64.read < 10 /\ (bytes[r64.read] # 0 \/ r64.read = 1)) => e = SubSeq(bytes, 1, r64.read)
        /\ Unzigzag(Zigzag(r64.digits)) = r64.digits
----------------------------------------------------------------------------
(* What the loops know between two rounds: of what was read every byte but *)
(* the last has a successor, and the digits are those of these bytes.      *)
LoopTypeOK ==
    LET Reader(n) == [state : {"reading", "ok", "failed"}, read : Nat, digits : [1..n -> 0..127]]
    IN  bytes \in Seq(Byte) /\ ended \in BOOLEAN /\ r32 \in Reader(5) /\ r64 \in Reader(10)

Unended(n) == \A j \in 1..n : More(bytes[j])

Padding(i) ==
    \/ Group(bytes[i]) = 0
    \/ Group(bytes[5]) % 16 >= 8 /\ bytes[i] = IF i <= 9 THEN 255 ELSE 1

Low32(s, n) == [i \in 1..5 |-> Digit(s, n, i) % (IF i = 5 THEN 16 ELSE 128)]

InStep(r) ==
    /\ r.state # "failed" => r.read = Len(bytes) /\ Unended(Len(bytes) - 1)
    /\ r.state = "reading" => ~ended /\ Unended(Len(bytes))
    /\ r.state = "ok" => Len(bytes) > 0 /\ ~More(bytes[Len(bytes)])

(* A reader gives up at the end of the stream, the one for 32 bits at the  *)
(* first byte that does not fit, the one for 64 bits behind the tenth.     *)
Loop32Inv ==
    /\ r32.state # "failed" => /\ r32.digits = Low32(bytes, Len(bytes))
                               /\ \A i \in 6..Len(bytes) : Padding(i)
    /\ r32.state = "ok" => (Len(bytes) = 5 => bytes[5] < 16)
    /\ r32.state = "failed" =>
          \/ ended /\ Unended(Len(bytes))
          \/ \E i \in 5..Len(bytes) : /\ Unended(i - 1)
                                      /\ i = 5 => bytes[5] \in 16..127
                                      /\ i > 5 => ~Padding(i)

Loop64Inv ==
    /\ r64.state # "failed" => r64.digits = Low64(bytes, Len(bytes)) /\ Len(bytes) <= 10
    /\ r64.state = "failed" =>
          (ended /\ Unended(Len(bytes))) \/ (Len(bytes) > 10 /\ Unended(10))

LoopInv == LoopTypeOK /\ InStep(r32) /\ InStep(r64) /\ Loop32Inv /\ Loop64Inv
=============================================================================
