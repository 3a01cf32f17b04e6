----------------------------- MODULE RoombaRpc -----------------------------
(***************************************************************************)
(* What RoombaBrain makes of a decoded request: main/rpc.c from            *)
(* handle_rpc_request down to send_roomba_cmd of main/roomba.c, as         *)
(* functions of the structure pb_decode filled (dest of PbDecode).  A      *)
(* result is the sequence of frames written to the UART: none or one.      *)
(***************************************************************************)
EXTENDS PbFields

(* The message types of rpc/request.proto that can reach rpc.c.  Numbers   *)
(* and enums are unsigned varints without a has_ flag, as in proto3; a     *)
(* oneof of submessages is a static union in the generated structures; a   *)
(* string and a repeated Note are callbacks nobody sets.                   *)
FieldOf(ltype, htype, atype, sub) ==
    [ltype |-> ltype, htype |-> htype, atype |-> atype, has |-> FALSE,
     size |-> 4, max |-> 0, sub |-> sub, ext |-> FALSE]
UInt32         == FieldOf("uvarint", "optional", "static", "")
Numbers(n)     == [t \in 1..n |-> UInt32]
OneOf(m)       == FieldOf("submessage", "oneof", "static", m)
Members(ms)    == [t \in 1..Len(ms) |-> OneOf(ms[t])]
Parts(n, m)    == [t \in 1..n |-> FieldOf("submessage", "optional", "static", m)]
Notes          == FieldOf("submessage", "repeated", "callback", "Pair")

RpcSchema == [
    Request |-> <<UInt32, OneOf("Roomba"), OneOf("Actuator")>>,
    Roomba |-> Members(<<"Empty", "Enum", "Enum", "Enum", "Schedule", "SetTime", "Empty">>),
    Actuator |-> Members(<<"Pair", "Pair", "Pair", "Motors", "MotorsPWM", "LEDs", "ScheduleLEDs",
                           "DigitLEDs", "Ascii", "Buttons", "Song", "Enum">>),
    Empty |-> <<>>,            \* StartRequest, PowerRequest
    Enum |-> Numbers(1),       \* BaudRequest, ModeRequest, CleanRequest, PlayRequest
    Pair |-> Numbers(2),       \* DriveRequest, DriveDirectRequest, DrivePWMRequest, Day
    Schedule |-> Parts(7, "Pair"),
    SetTime |-> Numbers(3),
    Motors |-> Numbers(5),
    MotorsPWM |-> Numbers(3),
    LEDs |-> Numbers(6),
    ScheduleLEDs |-> Numbers(12),
    DigitLEDs |-> Parts(4, "Segment"),
    Segment |-> Numbers(7),
    Ascii |-> <<FieldOf("string", "optional", "callback", "")>>,
    Buttons |-> Numbers(8),
    Song |-> <<UInt32, Notes>>]

----------------------------------------------------------------------------
(* The entries of opcodes[] in roomba.c that rpc.c uses.                   *)
Opcode == [START |-> 128, BAUD |-> 129, SAFE |-> 131, FULL |-> 132, POWER |-> 133, SPOT |-> 134,
           CLEAN |-> 135, MAX |-> 136, DRIVE |-> 137, PLAY |-> 141, SEEK_DOCK |-> 143]
Nargs  == [START |-> 0, BAUD |-> 1, SAFE |-> 0, FULL |-> 0, POWER |-> 0, SPOT |-> 0,
           CLEAN |-> 0, MAX |-> 0, DRIVE |-> 4, PLAY |-> 1, SEEK_DOCK |-> 0]

(* send_roomba_cmd: the opcode and as many arguments as the caller says,   *)
(* each cut to a char; nargs of the table is not consulted.                *)
SendRoombaCmd(op, args) == <<<<Opcode[op]>> \o [i \in 1..Len(args) |-> args[i] % 256]>>
Nothing == <<>>

\* Mutant: shifted by a group of a varint instead of a byte.
HIOfGroup(v) == ((v[1] + 128 * v[2] + 128 * 128 * v[3]) \div 128) % 256

(* HI and LO of a uint32_t, after the cut to a char.                       *)
HI(v) == ((v[1] + 128 * v[2] + 128 * 128 * v[3]) \div 256) % 256
LO(v) == (v[1] + 128 * v[2]) % 256

(* The structure was zeroed before decoding: what is not there is zero.    *)
Value(d, p) == At(d, p, Zero)

(* A switch over enum constants without a default.                         *)
Switch(v, ops) == IF Num(v) + 1 \in 1..Len(ops) THEN SendRoombaCmd(ops[Num(v) + 1], <<>>) ELSE Nothing

HandleMode(v)  == Switch(v, <<"SAFE", "FULL">>)
HandleClean(v) == Switch(v, <<"CLEAN", "MAX", "SPOT", "SEEK_DOCK">>)

\* Mutant: any rate will do.
HandleAnyBaud(v) == SendRoombaCmd("BAUD", <<Num(v)>>)

HandleBaud(v) == IF Num(v) \in 0..11 THEN SendRoombaCmd("BAUD", <<Num(v)>>) ELSE Nothing

(* schedule and set_time have no case: they are "unhandled".               *)
HandleRoomba(d) ==
    CASE Which(d, <<2>>) = 1 -> SendRoombaCmd("START", <<>>)
      [] Which(d, <<2>>) = 2 -> HandleBaud(Value(d, <<2, 2, 1>>))
      [] Which(d, <<2>>) = 3 -> HandleMode(Value(d, <<2, 3, 1>>))
      [] Which(d, <<2>>) = 4 -> HandleClean(Value(d, <<2, 4, 1>>))
      [] Which(d, <<2>>) = 7 -> SendRoombaCmd("POWER", <<>>)
      [] OTHER -> Nothing

\* Mutant: DRIVE without its radius.
HandleActuatorVelocity(d) ==
    LET velocity == Value(d, <<3, 1, 1>>)
    IN  IF Which(d, <<3>>) = 1
        THEN SendRoombaCmd("DRIVE", <<HI(velocity), LO(velocity)>>)
        ELSE Nothing

(* Of the actuators only drive and play have a command behind them.        *)
HandleActuator(d) ==
    CASE Which(d, <<3>>) = 1 ->
            LET velocity == Value(d, <<3, 1, 1>>)
                radius   == Value(d, <<3, 1, 2>>)
            IN  SendRoombaCmd("DRIVE", <<HI(velocity), LO(velocity), HI(radius), LO(radius)>>)
      [] Which(d, <<3>>) = 12 ->
            LET song == Value(d, <<3, 12, 1>>) IN SendRoombaCmd("PLAY", <<LO(song)>>)
      [] OTHER -> Nothing

HandleRequest(d) ==
    CASE Which(d, <<>>) = 2 -> HandleRoomba(d)
      [] Which(d, <<>>) = 3 -> HandleActuator(d)
      [] OTHER -> Nothing

(* pb_encode of an RPC_Response: its id, which proto3 leaves out when it   *)
(* is zero; the result string is a callback nobody sets.                   *)
EncodeResponse(id) == IF id = Zero THEN <<>> ELSE <<8>> \o EncodeVarint(id)
=============================================================================
