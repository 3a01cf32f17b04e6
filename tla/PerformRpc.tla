----------------------------- MODULE PerformRpc -----------------------------
(***************************************************************************)
(* One POST after the other through the whole stack: hnd_roomba_cmd_post   *)
(* of main/endpoint.c, perform_rpc_request of main/rpc.c with pb_decode    *)
(* inside, the dispatch of RoombaRpc, the UART, and the command parser of  *)
(* the robot at its other end (external).                                  *)
(***************************************************************************)
EXTENDS PbDecode, RoombaRpc, SequencesExt

CONSTANTS
    Payloads,     \* the payloads that are posted
    Meaning,      \* what a client means by them: Meaning[d] has the frames the
                  \* robot should get, the response body the client expects, and
                  \* whether its integers need no more than their 32 bits
    Tails,        \* what may lie in memory behind a payload, up to a zero byte
    HeapMayFail,  \* whether malloc may return NULL
    MaxRequests,  \* bound on the requests of a run
    MaxCrashes    \* bound on the restarts of the chip

ASSUME PayloadsAssumption == Payloads \subseteq Seq(Byte)
ASSUME TailsAssumption ==
    Tails \subseteq Seq(Byte) /\ \A s \in Tails : s # <<>> /\ s[Len(s)] = 0
ASSUME BoundsAssumption ==
    HeapMayFail \in BOOLEAN /\ MaxRequests \in Nat /\ MaxCrashes \in Nat

VARIABLES
    phase,    \* where the handler is: "idle", "decode", "dispatch", "respond", "panic"
    data,     \* the payload of the request at hand, <<>> if it has none
    behind,   \* the memory behind it
    fifo,     \* bytes on their way to the robot
    robot,    \* the robot: the command it is reading, and whether it hears us
    handled,  \* the requests dispatched so far, with the frames each sent
    replies,  \* the responses handed to CoAP, one for each request that got one
    executed, \* the frames the robot has executed
    crashes,  \* restarts so far
    cut       \* whether a restart has cut a frame short

rpcVars == <<phase, data, behind, fifo, robot, handled, replies, executed, crashes, cut>>
vars    == <<pbVars, rpcVars>>

----------------------------------------------------------------------------
(* The memory from the payload on, as strlen sees it.                      *)
CString(s) ==
    LET zeros == {i \in 1..Len(s) : s[i] = 0}
    IN  SubSeq(s, 1, (CHOOSE i \in zeros : \A j \in zeros : i <= j) - 1)

Init ==
    /\ Started(<<>>)
    /\ phase = "idle"
    /\ data = <<>>
    /\ behind = <<0>>
    /\ fifo = <<>>
    /\ robot = [frame |-> <<>>, deaf |-> FALSE]
    /\ handled = <<>>
    /\ replies = <<>>
    /\ executed = <<>>
    /\ crashes = 0
    /\ cut = FALSE

(* coap_get_data finds the payload; its size is not used.  Without a       *)
(* payload data is NULL, and strlen reads from it.                         *)
Post(d, tail) ==
    /\ phase = "idle"
    /\ Len(handled) < MaxRequests
    /\ data' = d
    /\ behind' = tail
    /\ IF d = <<>>
       THEN phase' = "panic" /\ UNCHANGED pbVars
       ELSE phase' = "decode" /\ PbStart(CString(d \o tail))
    /\ UNCHANGED <<fifo, robot, handled, replies, executed, crashes, cut>>

Decode ==
    /\ phase = "decode"
    /\ PbNext
    /\ phase' = IF ret' = "running" THEN "decode" ELSE "dispatch"
    /\ UNCHANGED <<data, behind, fifo, robot, handled, replies, executed, crashes, cut>>

\* Mutant: a frame takes the place of what is still in the FIFO.
DispatchOverwrites ==
    /\ phase = "dispatch"
    /\ LET frames == HandleRequest(dest)
       IN  /\ fifo' = IF frames = Nothing THEN fifo ELSE frames[1]
           /\ handled' = Append(handled, [data |-> data, behind |-> behind, decoded |-> ret, frames |-> frames])
    /\ phase' = "respond"
    /\ UNCHANGED <<pbVars, data, behind, robot, replies, executed, crashes, cut>>

(* handle_rpc_request, whatever pb_decode returned; uart_write_bytes puts  *)
(* the whole frame into the FIFO.                                          *)
Dispatch ==
    /\ phase = "dispatch"
    /\ LET frames == HandleRequest(dest)
       IN  /\ fifo' = IF frames = Nothing THEN fifo ELSE fifo \o frames[1]
           /\ handled' = Append(handled, [data |-> data, behind |-> behind, decoded |-> ret, frames |-> frames])
    /\ phase' = "respond"
    /\ UNCHANGED <<pbVars, data, behind, robot, replies, executed, crashes, cut>>

(* malloc, pb_encode, coap_add_data.  Without memory the encoder writes    *)
(* through NULL, unless there is nothing to write.                         *)
Respond ==
    /\ phase = "respond"
    /\ LET response == EncodeResponse(Value(dest, <<1>>))
       IN  \/ /\ phase' = "idle"
              /\ replies' = Append(replies, [data |-> data, behind |-> behind, body |-> response])
           \/ /\ HeapMayFail /\ response # <<>>
              /\ phase' = "panic"
              /\ UNCHANGED replies
    /\ UNCHANGED <<pbVars, data, behind, fifo, robot, handled, executed, crashes, cut>>

(* A panic, or a reset at any time, restarts the chip; the UART stops in   *)
(* the middle of whatever it was sending.                                  *)
Restart ==
    /\ crashes < MaxCrashes
    /\ crashes' = crashes + 1
    /\ cut' = (cut \/ (fifo # <<>> /\ robot.frame # <<>>))
    /\ PbStart(<<>>)
    /\ phase' = "idle"
    /\ data' = <<>>
    /\ behind' = <<0>>
    /\ fifo' = <<>>
    /\ UNCHANGED <<robot, handled, replies, executed>>

----------------------------------------------------------------------------
(* The robot: an opcode, then as many bytes as that opcode takes.  After a *)
(* BAUD command for another rate than ours it understands nothing more.    *)
OpOf(b) == {op \in DOMAIN Opcode : Opcode[op] = b}
Complete(f) == \E op \in OpOf(f[1]) : Len(f) = 1 + Nargs[op]
ChangesRate(f) == f[1] = Opcode["BAUD"] /\ f[2] # 11

RobotReceives ==
    /\ fifo # <<>>
    /\ fifo' = Tail(fifo)
    /\ LET f == Append(robot.frame, Head(fifo))
       IN  IF robot.deaf \/ OpOf(f[1]) = {}
           THEN UNCHANGED <<robot, executed>>
           ELSE IF Complete(f)
                THEN /\ robot' = [frame |-> <<>>, deaf |-> ChangesRate(f)]
                     /\ executed' = Append(executed, f)
                ELSE robot' = [robot EXCEPT !.frame = f] /\ UNCHANGED executed
    /\ UNCHANGED <<pbVars, phase, data, behind, handled, replies, crashes, cut>>

Next ==
    \/ \E d \in Payloads, tail \in Tails : Post(d, tail)
    \/ Decode \/ Dispatch \/ Respond \/ Restart
    \/ RobotReceives

Spec == Init /\ [][Next]_vars

----------------------------------------------------------------------------
(* Properties.                                                             *)

(* strlen finds the end of the payload: a zero byte in it or right behind  *)
(* it.  Otherwise the decoder is given whatever lies in memory.            *)
Terminated(r) == (\E i \in 1..Len(r.data) : r.data[i] = 0) \/ r.behind = <<0>>
ZeroFree(d)   == \A i \in 1..Len(d) : d[i] # 0
Sound(r)      == Terminated(r) /\ Meaning[r.data].fits

(* strlen (rpc.c:161) cuts a payload with a zero byte short, and the       *)
(* failure of pb_decode is ignored (rpc.c:162): what is left of a request  *)
(* never makes the robot do something else, it does nothing or what was    *)
(* meant - as long as no integer of the request is too large.              *)
OnlyIntended ==
    \A i \in 1..Len(handled) :
        Sound(handled[i]) => handled[i].frames \in {Nothing, Meaning[handled[i].data].frames}

(* A payload without zero bytes is obeyed to the letter, whatever was      *)
(* decoded before it.                                                      *)
ZeroFreeObeyed ==
    \A i \in 1..Len(handled) :
        (Sound(handled[i]) /\ ZeroFree(handled[i].data)) =>
            handled[i].frames = Meaning[handled[i].data].frames

(* Every response carries the id of its request - even of one that was cut *)
(* short behind its id (rpc.c:161) or that is "unhandled".                 *)
ReplyMatches ==
    \A i \in 1..Len(replies) :
        Terminated(replies[i]) => replies[i].body = Meaning[replies[i].data].reply

(* The caller of send_roomba_cmd says how many arguments there are, the    *)
(* robot goes by the opcode: they agree, so with the FIFO empty the robot  *)
(* waits for an opcode - unless a restart cut a frame in two.              *)
RobotAligned == (fifo = <<>> /\ ~cut) => robot.frame = <<>>

(* As long as the chip does not restart and nobody changes the baud rate   *)
(* the robot executes what was dispatched, all of it and in order.         *)
AllExecuted ==
    (fifo = <<>> /\ crashes = 0 /\ ~robot.deaf) =>
        executed = FlattenSeq([i \in 1..Len(handled) |-> handled[i].frames])

(* Nothing the robot executes was not dispatched, restarts or not, until   *)
(* one cuts a frame in two.                                                *)
NothingInvented ==
    ~cut => \A i \in 1..Len(executed) :
                \E j \in 1..Len(handled) : handled[j].frames = <<executed[i]>>

(* rpc/request.proto:76-84 and main.c:3: "wraps most roomba 760 opcodes".  *)
(* A request for an opcode rpc.c has a case for reaches the robot.         *)
RequestedCommandSent ==
    \A i \in 1..Len(handled) :
        (handled[i].behind = <<0>> /\ Sound(handled[i])) =>
            handled[i].frames = Meaning[handled[i].data].frames

(* components/nanopb/docs/reference.rst:630: "If pb_decode returns false,  *)
(* you cannot trust any of the data in the structure."  No command is made *)
(* of it.                                                                  *)
FailedIsNotDispatched ==
    \A i \in 1..Len(handled) :
        (handled[i].behind = <<0>> /\ handled[i].decoded = "failed") =>
            handled[i].frames = Nothing

----------------------------------------------------------------------------
(* The inductive invariant behind RobotAligned, AllExecuted and            *)
(* NothingInvented: what the robot has read of a command, and what is      *)
(* still in the FIFO, are together the commands dispatched last.           *)
IsSequence(s) == s \in Seq({s[i] : i \in DOMAIN s})

(* A frame that is one command, and what a request may be made into.       *)
IsCommand(f) ==
    IsSequence(f) /\ f # <<>> /\ \E op \in OpOf(f[1]) : Len(f) = 1 + Nargs[op]
IsResult(frames) == frames = Nothing \/ (frames = <<frames[1]>> /\ IsCommand(frames[1]))

Dispatched == FlattenSeq([i \in 1..Len(handled) |-> handled[i].frames])

(* The robot is done with the first k commands.                            *)
DoneWith(k) ==
    /\ robot.frame \o fifo = FlattenSeq(SubSeq(Dispatched, k + 1, Len(Dispatched)))
    /\ robot.frame # <<>> => k < Len(Dispatched) /\ Len(robot.frame) < Len(Dispatched[k + 1])
    /\ crashes = 0 => executed = SubSeq(Dispatched, 1, k)

UartTypeOK ==
    /\ IsSequence(fifo) /\ IsSequence(handled) /\ IsSequence(executed)
    /\ IsSequence(robot.frame) /\ robot.deaf \in BOOLEAN
    /\ robot = [frame |-> robot.frame, deaf |-> robot.deaf]
    /\ cut \in BOOLEAN /\ crashes \in Nat
    /\ \A i \in 1..Len(handled) : IsResult(handled[i].frames)

UartInv ==
    /\ UartTypeOK
    /\ cut => crashes > 0
    /\ ~cut => /\ NothingInvented
               /\ robot.deaf => robot.frame = <<>>
               /\ ~robot.deaf => \E k \in 0..Len(Dispatched) : DoneWith(k)
=============================================================================
