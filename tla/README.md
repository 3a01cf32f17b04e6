# A TLA+ model of RoombaBrain

RoombaBrain is ESP32 firmware: a CoAP server on Wi-Fi that decodes protobuf
requests with nanopb and writes the commands in them to a Roomba's serial port.
This directory holds TLA+ specifications of the firmware, TLC configurations
that check them on small instances, and proofs checked by TLAPS.

## The system

| Part | Code | State | Operations |
|---|---|---|---|
| Boot | `main/main.c` | the NVS partition, how far `app_main` is | initialise (erase and try again when full), UART, Wi-Fi, create the task |
| Wi-Fi station | `main/wifi.c` | event group with `WIFI_CONNECTED_BIT`; driver and event queue behind it | `wifi_init_sta`, `wifi_event_handler`, `wifi_wait_active` |
| CoAP endpoint | `main/endpoint.c` | context, socket, position of the task | `endpoint_task`, the GET and the POST handler |
| RPC dispatch | `main/rpc.c`, `rpc/*.proto` | the decoded request on the stack, the response | `perform_rpc_request`, `handle_rpc_*` |
| Roomba commands | `main/roomba.c` | UART FIFO; the robot at its other end | `roomba_init`, `send_roomba_cmd` |
| Decoder | `components/nanopb/pb_decode.c` | stream, substreams, structure | `pb_decode` and what it calls |
| Encoder | `components/nanopb/pb_encode.c` | stream, structure | `pb_encode` and its variants, and what they call |
| Field iterator | `components/nanopb/pb_common.c`, `pb.h` | position, pointers, index among the required fields | begin, next, find, and the searches of `pb_decode.c` |

Three threads of control share state. `app_main` sets everything up and
returns. The event loop calls `wifi_event_handler` for one event at a time,
while the driver goes on posting. `endpoint_task` waits for the connected bit,
then serves requests, one at a time, with handlers called from `coap_read`.
The bit is the only thing the event loop and the task share. UDP and a client
that retransmits are outside, as are the robot and its serial parser.

What is hard about it: the bit is cleared after reconnecting has begun;
`esp_wifi_connect` is never looked at and nothing retries on a timer; the event
queue is bounded; contexts are allocated anew after every failure of the
socket; no message ids are kept, so a copy is executed like the original; the
chip restarts on every panic, in the middle of whatever it was doing; payloads
are measured with `strlen`; a structure that failed to decode is used all the
same; the robot and the firmware have to agree on the length of every frame.
In nanopb it is the nesting: substreams within substreams whose lengths come
from the wire, a length that is known only after what it is the length of has
been encoded once, user callbacks in between, counts and sizes that share
memory with other things, addresses that are sums of differences.
`PROJECT.json` lists these hazards by line with the properties that cover them, or
the reason why none does.

## Modules

    WifiStation ------------> RoombaBrain ==implements==> CommandRelay

    PbVarint --> PbFields --> PbDecode --> PbCodec
        |            |  \---> PbEncode ------^
        |            |        PbDecode --> PerformRpc
        |            \------> RoombaRpc -----^
        \--> PbVarintLoop
    PbFieldIter

`PerformRpc` is one POST in detail (every field decoded, every byte on the
UART); `RoombaBrain` is the whole program around it, where a request is one
step that sends one command. They are two levels of one system; they are not
composed into one module, which TLC could not exhaust.

**WifiStation** (`main/wifi.c`). `boot` is the program counter of
`wifi_init_sta`; `station` is what the driver and the access point do;
`events` the bounded system event queue, where an event without a slot is
lost; `handler` is "clearing" between `esp_wifi_connect` (line 30) and
`xEventGroupClearBits` (line 31), which is where driver and handler
interleave; `bit` is `WIFI_CONNECTED_BIT`. One action per case of the handler,
one per thing the driver can report, one for a restart. `LOST_IP` falls through
to the default case, as it does in the code.

**RoombaBrain** (all of `main/`). Extends `WifiStation`, so both run at once.
`main` and `nvs` are `app_main`, with the erase and the second initialisation
as steps a restart can come between; `task`, `contexts`, `socket`, `current`
are `endpoint_task`, one action per call that can fail or that the world can
see; `sent` is what was written to the robot, in that order. The client makes
one request after the other, sends each up to `MaxCopies` times and then gives
up; the network loses, delays and reorders. A restart wipes everything except
the flash, the client and what is on its way.

**CommandRelay** is what the user is promised: only issued commands are
performed, an answered command has been performed - possibly more than once,
for that is what the code does with a retransmission.

**PerformRpc** (`endpoint.c`, `rpc.c`, `roomba.c` with `pb_decode` inside). `Post`
takes a payload and the memory behind it and cuts them where `strlen` does;
`Decode` runs the steps of `PbDecode`; `Dispatch` follows whatever the decoder
returned; `Respond` allocates and encodes; `RobotReceives` is the robot's
parser, which counts argument bytes by opcode and goes deaf when BAUD chooses
a rate that UART 1 does not have. `handled`, `replies` and `executed` record
what happened, for the properties.

**RoombaRpc** (`rpc.c`, `roomba.c`, `request.proto`) has the pure part: the
message types as nanopb fields, every `switch`, `HI` and `LO`, the variadic
`send_roomba_cmd`, the encoding of the response.

**PbFields** (`pb.h`) has what decoder and encoder share: what a field list says
of a field, and the structures. A structure is a function from paths of field
numbers to values; a path that ends in 0 is a count or a `which_`, one with 0
before its end a `has_` flag; what is not there is zero. An extension is a field
of its message, with the rule "required" as `PB_OPTEXT_STATIC` has it. `Location`
says what a path leads to, by walking the schema along it; `CallbackPlaces` is
the assumption that callbacks are set where the schema has callback fields.

**PbDecode** (`pb_decode.c`). A step reads a tag, decodes or skips one field,
opens or closes a substream, calls a callback, or ends a message. The recursion
of `pb_decode_noinit` through `pb_dec_submessage` is the variable `stack`; the
structure is `dest`. What the code writes before it fails stays written: the
selected oneof, the raised count, the cut integer, the size of bytes that do not
come. The one counter for all arrays of fixed count is `fixed` in the frame.
A callback reads any number of bytes at a time, but some, or returns false; what
it was given is kept in `dest`. `end`, in a frame of the stack, is a history
variable.

**PbEncode** (`pb_encode.c`). The recursion through `pb_encode_submessage` and
`encode_array` is `frames`, each with its stream: `sizing` for one without a
callback, `written` and `max` for `bytes_written` and `max_size`. `SizeKnown` is
the end of a counting pass and the beginning of the second one, `SecondPassDone`
the comparison behind that. A callback writes what its field has in `src`, or,
with `CallbackMayVary`, one byte more or not, each time it is asked; `varied`
records that. `from` is a history variable.

**PbCodec** puts the two together: what was encoded - plain, delimited or
null-terminated - is decoded with the same field list. `Wire` is the reference: the
encoding of a structure in one pass, a function of the message and of its place in
the structure (`Encodings`), with every length taken from what it is the length
of. That it is defined is what `NestingAssumption` says: the C structure of a
message does not contain itself. `PassesInv` relates the calls of `PbEncode` to
it; only the proofs use it.

**PbFieldIter** (`pb_common.c`) is below all that: the iterator that `PbDecode` and
`PbEncode` take for granted when they look up a field by its number. A structure
is a sequence of members with their offsets and sizes; the field list is
derived from it as the macros of `pb.h` do, and the pointers are added up again from
that list. `call` is the function that walks: a search by number, the search
for the extension field, or the count of the required fields, each on the
iterator as the one before has left it.

**PbVarint** has the two varint readers and the writer in closed form, zigzag, and
the casts to 8, 16, 32 and 64 bits; **PbVarintLoop** has the loops of the readers
byte by byte. A number is its sequence of base-128 digits, so every width
is exact: a cast to 32 bits cuts the fifth digit to four bits, and fills the
rest with the sign.

## Runs

| Run | Question | Bounds |
|---|---|---|
| `wifi` | Does the bit settle on the truth? Does the event queue hold? Is every lost link retried, and a lasting one announced? | 4 slots (one more than needed, so that overflow would show), 3 restarts; `esp_wifi_connect` does not refuse |
| `varint` | Do the loops compute the closed forms, agree where they should and differ in known bits elsewhere, and read what the writer writes? | 12 bytes, at each position the bytes at which a reader changes its mind |
| `pb_decode` | Does the decoder stay within buffer and structure, and return? | every buffer of up to 3 bytes over the headers, lengths and values of one of 7 topics, alone and behind the required field, and 29 longer encodings; a schema of 16 fields with every kind of field, two of them required and `PB_MAX_REQUIRED_FIELDS` 1, arrays of 1 and 2, three levels of messages, three callbacks that are set and two that are not |
| `pb_codec` | Do the passes of the encoder agree, within the buffer, and does the decoder accept the outcome? | every structure made of up to two of 11 parts, in a schema of three levels with every kind of field; buffers of 3, 20 and 200 bytes; all four entry points; a callback in the root and one in a submessage, which may fail and may vary |
| `pb_iter` | Are the iterator's pointers right, its searches complete? | every structure of up to 3 fields out of 10 kinds, 860 in all, and any sequence of calls |
| `perform_rpc` | Does the robot do what was meant, or nothing? | 2 POSTs out of 15 payloads, 2 kinds of memory behind them, malloc failure, 1 restart |
| `brain` | Does the program implement `CommandRelay`? What may retransmission do? | 2 commands, 2 copies of each, 1 restart, allocation failures, a driver that may refuse, 3 queue slots |
| `brain_live` | Does the server come back, and does the socket drain? | a POST and a GET, 1 copy each, 1 restart, no allocation failure |

Two requests are enough for an older one to come after a newer one, two copies
for a retransmission to be late, one restart for it to fall between any two
steps. In `pb_decode`, three bytes behind the required field reach an opened
submessage with something in it, a full array, or a callback; what takes longer
(a member that replaces another, an array in two parts, items that are
messages, integers one bit too large) is in the longer encodings. The build
has `PB_MAX_REQUIRED_FIELDS` at 64; with a limit of 1 a short message has a required
field that is looked for and one that is not. In `pb_codec`,
two parts are enough for a field to be written behind a submessage in a
submessage; of the buffers, the first is full within the first fields, the second
in the second pass of something, the third never. In `pb_iter`, three fields are
one with something before and behind it; the proofs below are for any number. In
`perform_rpc`, the payloads are those a protobuf client encodes, id first and
zeros left out, a few that write a zero or put the id last, and one with a
ten-byte negative number; the properties about `strlen` are about these. The `varint` run stops
at twelve bytes because both readers have decided or repeat themselves by then.

TLC is told not to report deadlock where the modelled thing ends: a decoder or
an encoder that has returned, a station whose connect was refused for good, a
chip that panicked after its last restart. `wifi`, `brain_live` and `pb_iter` check
for deadlock.

What the properties mean, beyond their comments in the modules:

- `BitSettles` and `LinkAnnounced` are about `wifi.c:30-31`. The order is wrong
  at first sight, connect before clear; it is harmless because the GOT_IP of
  the new link is handled after the clearing, by the same event loop.
- `ConnectsFromIdle`, `RetryPending` and `NoEventLost` say why ignoring the
  result of `esp_wifi_connect` and having no timer is enough: at most one
  trigger is ever queued, and it is queued exactly when the station is idle.
  `RetryPending` needs `esp_wifi_connect` not to refuse an idle station; when
  it does, the station stays off for good.
- `StaleNeedsRetransmission` and `OncePerCopy` say how far the missing message
  ids can go: a command is executed once per copy, and an older command only
  undoes a newer one when it was sent more than once. The second needs a client
  that may retransmit (`MaxCopies > 1`; CoAP's default is four times): one that
  gives up on its only copy and goes on to the next request can be overtaken by
  that copy, as TLC shows with `MaxCopies = 1`.
- `OnlyIntended` holds although `rpc.c` dispatches after a failed decode: what
  `strlen` leaves of a request is never another command. For a payload whose
  terminator is missing, or with an integer that needs more than 32 bits,
  nothing is claimed (`Sound`): the second is the run `failed_decode`.
- `PassesAgree` says that encoding twice is worth it: every length is that of
  what follows, at every depth. It is about callbacks that write the same each
  time; with those that do not, `RoundTrip` still has every accepted encoding
  decoded again, since a size that changed is an error.
- `CountsInBounds` and `UnionConsistent` hold even where `pb_decode` returns
  false, with the exceptions they name - which matters because `rpc.c` goes on
  with the structure then.
- `AllExecuted` excludes a robot made deaf by BAUD, and `RobotAligned` a frame
  cut by a restart: there the code leaves the robot out of step.

### Disagreements with the documentation

Four runs expect a violation.

- `requested_command`: `rpc.c:161` ends the payload at its first zero byte, so
  mode SAFE, START, POWER and other requests whose encoding has a zero byte are
  answered but never sent to the robot, although `request.proto` and `rpc.c`
  have them. The size `coap_get_data` returns is there, unused.
- `failed_decode`: nanopb's manual says not to trust the structure after a
  failure; `rpc.c:162` does. A negative velocity in the ten bytes of an int32 is
  stored, refused, and sent to the robot without the radius that follows it.
- `nonzero_encoded`: `pb_encode.c:228` takes the byte at `size_offset` for a count,
  which for an array of fixed count is the first byte of its data. A proto3
  submessage with nothing but such an array, first item zero, is not encoded.
- `full_gap`: the iterator knows a member of a union by its `data_offset` of 255.
  A oneof that begins 255 bytes behind the last member of the oneof before it has
  that offset too, and its members are decoded into the memory of the first.

Three more, which the models have as the code has them: `CHANGELOG.txt:6` says that
the overflow checks of `pb_decode_varint32` are exact, where the bits of a fifth byte
beyond the 32nd are shifted out (`pb_decode.c:228`) before line 233 looks for them, and
it looks only if the varint ends there - 2^32 written in six bytes is accepted as 0,
2^35-1 as 2^32-1 (`Reads32Bits`); `docs/reference.rst:768` says substream lengths are
read by `pb_decode_varint`, where `pb_decode_varint32` is called (`Varint32`;
`ShortVarintsAgree` and `Reads32Bits` say when the two agree, and how far they differ);
`docs/reference.rst:722` says `pb_decode_varint` refuses what exceeds 64 bits, where six
bits of a tenth byte are shifted out (`Low64`).

### Fairness

`WifiLiveSpec` and `LiveSpec` assume that FreeRTOS runs `app_main`, the event
loop and `endpoint_task` when they are ready (weak fairness; no task spins at a
higher priority without blocking), that an access point tried again and again
accepts and hands out an address (strong fairness of `Associate` and
`ObtainIp`: without it there is no link to serve on), that
`xEventGroupSetBits` releases a waiting task even if the bit is cleared at once
(strong fairness of `WaitActive`), and that a context whose allocation is tried
again and again is allocated (strong fairness of `NewContext`, for the loop at
`endpoint.c:73-84` that has no other way out). The
decoder and the encoder are sequential: they are only assumed to go on (weak
fairness of `PbNext` and `EncNext`), and a callback to read or to fail.
Nothing is assumed of the client,
of the network, of `select` failing, or of restarts, which are finitely many.

## Proofs

| Module | Theorem | What it shows for every value of the constants |
|---|---|---|
| `WifiStation_proofs` | `WifiInvariant` and five theorems from it | `WifiTypeOK`, `BitSettles`, `NoEventLost`, `ConnectsFromIdle`, `RetryPending` |
| `PbVarint_proofs` | `VarintRoundTrip`, `ZigzagLossless` | every 64-bit number is read back as it was written; the lemmas have the types of the closed forms, and that a varint is no longer than what is left |
| `PbVarintLoop_proofs` | `LoopInvariant`, `LoopsAlwaysMatch`, `ShortVarintsAlwaysAgree`, `AlwaysReads32Bits`, `AlwaysEncodesBack` | the loops of the readers compute the closed forms, agree where they should and differ in known bits elsewhere, for every stream of any length |
| `PbDecode_proofs` | `PbInvariant`, `PbTypeCorrect`, `StreamAlwaysContained` | the decoder stays within its buffer, for every schema and every input |
| | `PlacesInvariant`, `CountsAlwaysInBounds`, `SizesAlwaysInBounds` | what it stores fits, in every message, whether decoding succeeds or not |
| | `RootInvariant`, `RequiredAlwaysStored`, `NoRequiredMissing`, `FixedCountsAlwaysFull` | success means that the first `PB_MAX_REQUIRED_FIELDS` required fields are there - all of them, in a message that has no more - and that no array of fixed count is half full |
| | `UnionsInvariant`, `UnionsAlwaysConsistent`, `StructInvariant` | no data of a oneof outlives its selection |
| `PbCodec_proofs` | `OutAlwaysContained`, `CodecContained` | the encoder stays within its buffer and its streams within each other, for every schema and every structure, whatever callbacks write; by itself and with the decoder behind it |
| | `PassesInvariant`, `PassesAlwaysAgree` | counting first and writing then comes to what one pass would have written, `Wire`: every length, the size returned without a buffer, and when the stream is full, as long as callbacks write the same each time |
| `PbFieldIter_proofs` | `IterInvariant`, `PointersAlwaysRight`, `SearchesAlwaysComplete`, `RequiredAlwaysCounted` | the iterator is right, for every list of fields; the pointers under `NoFullGap` |
| `PerformRpc_proofs` | `UartInvariant`, `RobotStaysAligned`, `DispatchedIsExecuted`, `OnlyDispatchedIsExecuted` | the robot reads the frames as they were written, for every payload and any number of POSTs and restarts |
| | `RequestInvariant`, `RequestAlwaysConsistent` | what is proved of the decoder holds of the one `rpc.c` calls, and of the structure it dispatches on |
| `RoombaBrain_proofs` | `BrainRunsWifi`, `BrainInvariant`, `TypeCorrect`, `AlwaysOneContext`, `BootAlwaysInOrder`, `BrainImplementsRelay` | the whole program keeps `OneContext` and `BootOrder` and implements `CommandRelay` |
| | `CopiesAlwaysConserved`, `ExecutedOncePerCopy`, `OvertakenOnlyWhenRetransmitted` | a command is executed once per copy, and overtaken only when it has several (the last for `MaxCopies > 1`) |

*Wi-Fi.* `WifiInv` strengthens the properties. The bit alone says nothing while
events are queued, so `BitOwed` says who still has to set it (a GOT_IP in the
queue) and who still has to clear it (a DISCONNECTED at its end, or the handler
between its two calls). `Room` bounds the queue by what the station can have
reported since the last trigger was handled, and `QueueShape` has a trigger
only at the end of the queue and only while the station is idle. From that
`NoEventLost` follows with three slots, the assumption on `QueueLen`.

*Decoder.* `PbInv` has every substream end within the buffer and within its
parent, and the first frame hold a message, so that a packed array has a frame
to return to. The proof has one lemma for the steps that read (`ReadKeepsInv`),
one for opening and one for closing a substream, and per action the bound on
the bytes it takes, from the varint lemmas. `CountsTyped` is part of the
invariant because paths are built from counts. The assumptions are those the
schema states: field numbers of 25 bits, integers of 1, 2, 4 or 8 bytes,
well-formed buffers.

*Structure.* The properties of `dest` speak of the messages that are open when
the decoder stops, but a step stores through paths of any depth, and a message
that is opened was reached by such a path. So the invariants are about every path in
`dest`, and about the path of every frame; they come in layers.
`PlacesInv` adds to `PbInv` that every path of the structure leads where the
schema says (`Location`) and that what is stored there fits (`ValueFits`), a count
that is one over only once decoding has failed; `CountsInBounds` and `SizesInBounds`
are what it says of the open messages. It needs `CallbackPlaces`: there are
function pointers only where the field list has callback fields. `UnionsInv` adds that every member of a oneof on the way to a
path is the one its `which_` names, for the messages of the stack as well, which
closing a frame and clearing a union both depend on. After a failure that is true of
unions of messages only, hence `Considered`. `RootInv` adds, for the message
that was called for, that the required fields in `seen` are stored (those that `Tracked` lets into it: the first
`PB_MAX_REQUIRED_FIELDS`), and that each array
of fixed count is absent, full, or the one that `fixed` counts and as long as its
count. The three steps that clear part of a structure (a default, a
union, a submessage that is opened) are where the work is: that they leave
the count and the `which_` of what remains alone follows from where paths lead, not
from how long they are.

*Varint loops.* `LoopInv` relates the digits a loop has put together to the bytes
it has read, with the condition on every byte beyond the fifth. A reader
that has stopped before the other can only have failed (`OthersFailed`), and what it
failed for remains true of the longer stream. For `AlwaysReads32Bits`, a number of 32 bits
has only zeros or only sign behind its fifth digit (`Is32Digits`), which makes every
byte there padding (`Is32Padded`).

*Encoder.* `EncInv` has the streams that write at the bottom of the stack, each
where the one below it has got to and no larger than what that one has left
(`Streams`). Every action replaces the top of the stack by a call that goes on
and at most one that it opens, and `StreamsRebuilt` says when the invariant
survives that; `EmitKeeps` is the case of a call that writes, `ReturnKeeps` that of
one that ends. The assumptions are those on the schema, and that the structures
hold bytes and counts where they should.

*Both passes.* A length is written before what it is the length of, by a call that has
by then only counted, inside others that may be counting too. What is true in the
middle of that is `PassesInv`, over the whole stack: `Reached` is what one pass over
the message would have written up to the field and the item where a call is, and
`Ahead` what the call above will still give it, a length in front of it if that one
is counting. A stream has what was reached less what is ahead: exactly those bytes
when it writes, their number when it counts. The stream of a submessage in its second
pass has room for `Whole`, neither more nor less, and that of a packed array for what
its message has left, so `TooLong` can follow a full stream down to the buffer. Per
step there are two parts. One is about `Wire` alone: what the next field or item adds
to what was reached (`FieldStep`, `ValueStep`, `ItemStep`), which needs that the
fields between two that are present add nothing. The other is about the stack:
`RebuiltInStep` says when a top replaced by a call that goes on and one that it opens
is in step again, `EmitAgrees` is the case of a call that writes and `ReturnAgrees`
that of one that ends. Two more assumptions are needed. `NestingAssumption` makes
`Wire` a function: that is shown by induction on the depth of nesting.
`ValuesAssumption` has numbers of 64 bits, and four or eight bytes in what has a fixed
size, as the C types do; of packed items of fixed size the length is written unseen
(`EncodePackedFixed`). Once a callback has written something else (`varied`) nothing
is claimed of the bytes; `OutContained` still holds.

*Field iterator.* `IterInv` has the index equal to the number of required fields
behind the iterator, and the fields a search has visited, around the end
of the list, without a match; when it is back where it began these are all.
`PointersAlwaysRight` needs `NoFullGap`, an assumption on the structures that the
generator does not guarantee: the run `full_gap` is what happens without it.

*Whole program.* `BrainInv` joins the shape of the boot sequence, the position
of the task, and two facts about messages: whatever is on its way to the robot
was issued (`DatagramsIssued`), and whatever is on its way back answers
something done (`AnswersEarned`). Those two are the two obligations of the
refinement; every step maps to `Issue`, `Perform`, `Answer` or a stutter.
`CopyInv` adds that each copy of a request the client has sent is in at most one place:
on its way, in the socket, in the hands of the task, or done. `OrderInv` adds that
the client has one request at a time, so that one with a single copy and no
answer can only be the newest.

*From the dispatch to the robot.* `UartInv` says that the bytes the robot has read of a
frame, followed by those in the FIFO, are the frames of the last commands
dispatched, with at most one of them begun; until a restart cuts a frame in two. That
every frame is as long as the robot's parser expects is proved for every structure
the decoder may leave behind, whatever the payload: the length of a frame is
decided by the opcode `send_roomba_cmd` is called with. `RequestInvariant` has the
invariants of the decoder hold through every POST and restart, since each starts
`pb_decode` anew on a sequence of bytes. What a robot made deaf by BAUD does
not read is why `AllExecuted` leaves it out.

The inductive invariants were checked by TLC on the instances of the runs
before they were proved.

Induction over numbers, which the proofs about sequences need (`Location`,
`FlattenSeq`), is done with sets: `SetInduction` in `PbVarint_proofs` says that a set that
contains 0 and, with each number, the next one, contains all of them.

Only model-checked:

- the liveness properties (`Reconnects`, `LinkAnnounced`, `Serves`, `SocketDrains`,
  `Terminates`, `BothReturn`), because TLAPS does not prove liveness under fairness or
  reason about `ENABLED`;
- `RoundTrip`: the encoder's half of it is `PassesAlwaysAgree`, that what is decoded is
  `Wire` of the structure. The other half, that the decoder run on `Wire` stores that
  structure, would relate its frames, `header` and `dest` to a position in the
  structure at every step, for every kind of field; and it covers
  callbacks that varied, of whose bytes `Wire` says nothing;
- `OnlyIntended`, `ZeroFreeObeyed` and `ReplyMatches`, which compare the decoder with
  `Meaning`, the table of what the payloads of the run stand for. They hold of
  that table and not of an arbitrary one, so there is nothing to prove for every value.

## What is not modelled

- In nanopb: pointer fields, which need `PB_ENABLE_MALLOC`; the build does not set
  it (`pb.h:14`), so `allocate_field`, `decode_pointer_field` and `pb_release` are not
  compiled. Nor is what `PB_BUFFER_ONLY`, `PB_WITHOUT_64BIT` and
  `PB_OLD_CALLBACK_STYLE` select.
- Streams other than memory buffers, and with them "io error".
- Handlers of an extension's own (`extension->type->decode`), and the order of the
  extensions of a message: they are encoded by number here.
- Callback fields in a oneof; default values other than zero; more than one
  oneof in a message.
- Bytes nobody looks at: of a string or of bytes that end too early the missing part is
  zero (`Sized`), where the code leaves what was there; a default clears the items of
  an array (`Defaults`), where `pb_field_set_to_default` sets the count to zero
  only, which in one of fixed count is the first byte of its data.
- A submessage without a `has_` flag that holds a repeated callback or an array
  of submessages of fixed count: what `pb_check_proto3_default_value` reads there
  is a byte of an address or of padding.
- `roomba_uart_task` is never created: `roomba.c:110` is commented out.
- libcoap's parsing, deduplication and options; the contents of log messages.
- The generator, its tests and examples, the Ruby client and the build files.

The event queue overflows only with an event source other than the station;
the firmware has none. The loss-of-address timer is assumed to fire when the
event loop is idle (it runs for minutes).

## Plan

The core logic of the firmware and of the library is modelled. What would come
next, in this order:

1. `RoundTrip` for callbacks that do not vary: an invariant of the decoder that has
   what is left of each open stream equal to what `Wire` has from the position it is at,
   and `dest` equal to the structure up to there. `PassesAlwaysAgree`, `VarintRoundTrip`
   and the lemmas about `FlattenSeq` are what it would start from.
2. The build with `PB_ENABLE_MALLOC`, should the firmware come to use it: what
   `pb_release` frees after each failure.
