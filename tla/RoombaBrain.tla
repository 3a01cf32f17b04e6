---------------------------- MODULE RoombaBrain ----------------------------
(***************************************************************************)
(* The whole program: app_main of main/main.c, the Wi-Fi station of        *)
(* WifiStation, endpoint_task of main/endpoint.c with its CoAP context,    *)
(* and - external - a CoAP client that retransmits, over a network that    *)
(* loses, delays and reorders datagrams.  What a request does once it is   *)
(* read is the subject of PerformRpc; here a POST is one command.          *)
(***************************************************************************)
EXTENDS WifiStation, FiniteSets

CONSTANTS
    NumRequests,  \* requests 1..NumRequests are made one after the other
    Gets,         \* those that are a GET
    MaxCopies,    \* how often the client sends a request before it gives up
    HeapMayFail   \* whether an allocation may fail

Requests == 1..NumRequests

ASSUME ClientAssumption ==
    NumRequests \in Nat /\ Gets \subseteq Requests /\ MaxCopies \in Nat \ {0}
ASSUME HeapAssumption == HeapMayFail \in BOOLEAN

VARIABLES
    main,     \* the next step of app_main
    nvs,      \* the flash partition, which outlives a restart
    task,     \* where endpoint_task is
    contexts, \* CoAP contexts allocated and not freed
    socket,   \* datagrams received and not yet read
    current,  \* the request coap_read has read, 0 if none
    sent,     \* commands sent to the robot, in that order
    waiting,  \* the request the client waits for, 0 if none
    copies,   \* how often each request has been sent
    network,  \* how many copies of each are on their way
    acks,     \* responses on their way
    acked     \* requests the client has the response to

appVars    == <<main, nvs>>
serverVars == <<task, contexts, socket, current>>
clientVars == <<waiting, copies, acked>>
netVars    == <<network, acks>>
vars       == <<wifiVars, appVars, serverVars, sent, clientVars, netVars>>

Serving == {"new_resource", "select", "read", "dispatch", "respond", "free"}

BrainTypeOK ==
    /\ main \in {"nvs", "nvs_erase", "nvs_again", "roomba_init", "wifi_init", "done"}
    /\ nvs \in {"ok", "full"}
    /\ task \in Serving \cup {"none", "wait", "new_context", "panic"}
    /\ contexts \in Nat
    /\ socket \in Seq(Requests)
    /\ current \in Requests \cup {0}
    /\ sent \in Seq(Requests)
    /\ waiting \in Requests \cup {0}
    /\ copies \in [Requests -> 0..MaxCopies]
    /\ network \in [Requests -> 0..MaxCopies]
    /\ acks \subseteq Requests
    /\ acked \subseteq Requests

TypeOK == WifiTypeOK /\ BrainTypeOK

Init ==
    /\ WifiInit
    /\ main = "nvs" /\ nvs \in {"ok", "full"}
    /\ task = "none" /\ contexts = 0 /\ socket = <<>> /\ current = 0
    /\ sent = <<>>
    /\ waiting = 0 /\ copies = [r \in Requests |-> 0] /\ acked = {}
    /\ network = [r \in Requests |-> 0] /\ acks = {}

----------------------------------------------------------------------------
(* app_main.                                                               *)
Main(from, to) == main = from /\ main' = to

MainOnly == UNCHANGED <<wifiVars, serverVars, sent, clientVars, netVars>>

NvsInit ==
    /\ Main("nvs", IF nvs = "ok" THEN "roomba_init" ELSE "nvs_erase")
    /\ UNCHANGED nvs
    /\ MainOnly

NvsErase ==
    /\ Main("nvs_erase", "nvs_again")
    /\ nvs' = "ok"
    /\ MainOnly

NvsAgain ==
    /\ Main("nvs_again", "roomba_init")
    /\ UNCHANGED nvs
    /\ MainOnly

RoombaInit ==
    /\ Main("roomba_init", "wifi_init")
    /\ UNCHANGED nvs
    /\ MainOnly

WifiInitSta ==
    /\ main = "wifi_init"
    /\ BootNext
    /\ UNCHANGED <<appVars, serverVars, sent, clientVars, netVars>>

\* Mutant: the task is created before Wi-Fi is up.
CreateTaskEarly ==
    /\ Main("wifi_init", "done")
    /\ task' = "wait"
    /\ UNCHANGED <<wifiVars, nvs, contexts, socket, current, sent, clientVars, netVars>>

(* xTaskCreate, whose result is ignored.                                   *)
CreateTask ==
    /\ boot = "done"
    /\ Main("wifi_init", "done")
    /\ \/ task' = "wait"
       \/ HeapMayFail /\ UNCHANGED task
    /\ UNCHANGED <<wifiVars, nvs, contexts, socket, current, sent, clientVars, netVars>>

----------------------------------------------------------------------------
(* The driver and the event loop run beside everything else.               *)
WifiRuns ==
    /\ DriverNext \/ EventLoop
    /\ UNCHANGED <<appVars, serverVars, sent, clientVars, netVars>>

----------------------------------------------------------------------------
(* endpoint_task.                                                          *)
Task(from, to) == task = from /\ task' = to

TaskOnly == UNCHANGED <<wifiVars, appVars, sent, clientVars, netVars>>

WaitActive ==
    /\ bit
    /\ Task("wait", "new_context")
    /\ UNCHANGED <<contexts, socket, current>>
    /\ TaskOnly

NewContext ==
    /\ Task("new_context", "new_resource")
    /\ contexts' = contexts + 1
    /\ UNCHANGED <<socket, current>>
    /\ TaskOnly

\* Mutants: a context that was not allocated is freed; the task gives up.
NewContextFailsFrees ==
    /\ Task("new_context", "wait")
    /\ contexts' = contexts - 1
    /\ UNCHANGED <<socket, current>>
    /\ TaskOnly

NewContextFailsReturns ==
    /\ Task("new_context", "none")
    /\ UNCHANGED <<contexts, socket, current>>
    /\ TaskOnly

(* No context: back to wifi_wait_active, which may return at once.         *)
NewContextFails ==
    /\ Task("new_context", "wait")
    /\ UNCHANGED <<contexts, socket, current>>
    /\ TaskOnly

(* The resource is used (endpoint.c:92-94) before it is compared with NULL *)
(* (endpoint.c:96).                                                        *)
NewResource ==
    /\ \/ Task("new_resource", "select")
       \/ HeapMayFail /\ Task("new_resource", "panic")
    /\ UNCHANGED <<contexts, socket, current>>
    /\ TaskOnly

\* Mutant: result > 1, with one descriptor in the set.
SelectReadyTwo ==
    /\ FALSE
    /\ Task("select", "read")
    /\ UNCHANGED <<contexts, socket, current>>
    /\ TaskOnly

(* select returns a positive number; while it returns 0 the loop goes on.  *)
SelectReady ==
    /\ socket # <<>>
    /\ Task("select", "read")
    /\ UNCHANGED <<contexts, socket, current>>
    /\ TaskOnly

\* Mutant: the outer loop goes on without coap_free_context.
SelectFailsLeaks ==
    /\ Task("select", "wait")
    /\ UNCHANGED <<contexts, socket, current>>
    /\ TaskOnly

SelectFails ==
    /\ Task("select", "free")
    /\ UNCHANGED <<contexts, socket, current>>
    /\ TaskOnly

FreeContext ==
    /\ Task("free", "wait")
    /\ contexts' = contexts - 1
    /\ socket' = <<>>
    /\ UNCHANGED current
    /\ TaskOnly

\* Mutants: the datagram stays in the socket; it is answered before it is done.
CoapPeek ==
    /\ Task("read", "dispatch")
    /\ current' = Head(socket)
    /\ Len(sent) < NumRequests * MaxCopies + 1
    /\ UNCHANGED <<contexts, socket>>
    /\ TaskOnly

CoapReadAnswers ==
    /\ Task("read", "dispatch")
    /\ current' = Head(socket)
    /\ socket' = Tail(socket)
    /\ acks' = acks \cup {Head(socket)}
    /\ UNCHANGED <<wifiVars, appVars, contexts, sent, clientVars, network>>

CoapRead ==
    /\ Task("read", "dispatch")
    /\ current' = Head(socket)
    /\ socket' = Tail(socket)
    /\ UNCHANGED contexts
    /\ TaskOnly

(* The handlers: a POST sends its command, a GET sends nothing.            *)
Dispatch ==
    /\ Task("dispatch", "respond")
    /\ sent' = IF current \in Gets THEN sent ELSE Append(sent, current)
    /\ UNCHANGED <<wifiVars, appVars, contexts, socket, current, clientVars, netVars>>

\* Mutant: the datagram is queued again, as if it were not yet done.
RespondRequeues ==
    /\ Task("respond", "select")
    /\ acks' = IF station = "online" THEN acks \cup {current} ELSE acks
    /\ socket' = Append(socket, current)
    /\ current' = 0
    /\ UNCHANGED <<wifiVars, appVars, contexts, sent, clientVars, network>>

(* The response: without an address it goes nowhere; a POST without memory *)
(* for it is a panic, after its command has been sent.                     *)
Respond ==
    /\ \/ /\ Task("respond", "select")
          /\ acks' = IF station = "online" THEN acks \cup {current} ELSE acks
       \/ /\ HeapMayFail /\ current \notin Gets
          /\ Task("respond", "panic")
          /\ UNCHANGED acks
    /\ current' = 0
    /\ UNCHANGED <<wifiVars, appVars, contexts, socket, sent, clientVars, network>>

----------------------------------------------------------------------------
(* The client - external - makes its requests one after the other and      *)
(* sends each again until it has the response or gives up.                 *)
ClientOnly == UNCHANGED <<wifiVars, appVars, serverVars, sent>>

Send(r) ==
    /\ copies[r] < MaxCopies
    /\ copies' = [copies EXCEPT ![r] = @ + 1]
    /\ network' = [network EXCEPT ![r] = @ + 1]

Submit ==
    /\ waiting = 0
    /\ \E r \in Requests :
          /\ copies[r] = 0
          /\ \A q \in 1..(r - 1) : copies[q] > 0
          /\ Send(r)
          /\ waiting' = r
    /\ UNCHANGED <<acks, acked>>
    /\ ClientOnly

Retransmit ==
    /\ waiting # 0
    /\ Send(waiting)
    /\ UNCHANGED <<waiting, acks, acked>>
    /\ ClientOnly

GiveUp ==
    /\ waiting # 0
    /\ copies[waiting] = MaxCopies
    /\ waiting' = 0
    /\ UNCHANGED <<copies, acked, netVars>>
    /\ ClientOnly

ReceiveAck ==
    \E r \in acks :
        /\ acks' = acks \ {r}
        /\ acked' = acked \cup {r}
        /\ waiting' = IF waiting = r THEN 0 ELSE waiting
        /\ UNCHANGED <<copies, network>>
        /\ ClientOnly

----------------------------------------------------------------------------
(* The network - external - loses, delays and reorders; what was sent      *)
(* twice may arrive twice.                                                 *)
NetOnly == UNCHANGED <<wifiVars, appVars, task, contexts, current, sent, clientVars>>

DeliverRequest ==
    /\ station = "online" /\ contexts > 0
    /\ \E r \in Requests :
          /\ network[r] > 0
          /\ network' = [network EXCEPT ![r] = @ - 1]
          /\ socket' = Append(socket, r)
    /\ UNCHANGED acks
    /\ NetOnly

LoseRequest ==
    /\ \E r \in Requests :
          /\ network[r] > 0
          /\ network' = [network EXCEPT ![r] = @ - 1]
    /\ UNCHANGED <<socket, acks>>
    /\ NetOnly

LoseAck ==
    /\ \E r \in acks : acks' = acks \ {r}
    /\ UNCHANGED <<socket, network>>
    /\ NetOnly

----------------------------------------------------------------------------
(* The chip starts over: the flash, the client and what is on its way      *)
(* remain, and what the robot was sent cannot be taken back.               *)
Restart ==
    /\ WifiRestart
    /\ main' = "nvs"
    /\ task' = "none" /\ contexts' = 0 /\ socket' = <<>> /\ current' = 0
    /\ UNCHANGED <<nvs, sent, clientVars, netVars>>

----------------------------------------------------------------------------
AppMain == NvsInit \/ NvsErase \/ NvsAgain \/ RoombaInit \/ WifiInitSta \/ CreateTask

(* endpoint_task goes its way, unless an allocation or select fails.       *)
TaskProceeds ==
    \/ WaitActive \/ NewContext \/ NewResource
    \/ SelectReady \/ FreeContext
    \/ CoapRead \/ Dispatch \/ Respond

EndpointTask == TaskProceeds \/ NewContextFails \/ SelectFails

Client  == Submit \/ Retransmit \/ GiveUp \/ ReceiveAck
Network == DeliverRequest \/ LoseRequest \/ LoseAck

Next == AppMain \/ WifiRuns \/ EndpointTask \/ Client \/ Network \/ Restart

Spec == Init /\ [][Next]_vars

(* FreeRTOS runs every ready task; xEventGroupSetBits releases a task that *)
(* waits even if the bit is cleared at once, and memory for a context that *)
(* is missing now is found when the allocation is tried often enough.      *)
Fairness ==
    /\ WF_vars(AppMain)
    /\ WF_vars(EventLoop /\ WifiRuns)
    /\ SF_vars(Associate /\ WifiRuns)
    /\ SF_vars(ObtainIp /\ WifiRuns)
    /\ SF_vars(WaitActive)
    /\ SF_vars(NewContext)
    /\ WF_vars(TaskProceeds)

LiveSpec == Spec /\ Fairness

----------------------------------------------------------------------------
(* Properties.                                                             *)

(* What the user is promised in spite of retransmission, reordering, lost  *)
(* links and restarts: every command the robot was sent had been issued,   *)
(* and an answered POST was sent to the robot before its answer.           *)
Relay == INSTANCE CommandRelay WITH
    issued    <- {r \in Requests : copies[r] > 0},
    performed <- sent,
    answered  <- acked

RelaySpec == Relay!Spec

(* A command is sent to the robot at most once for each copy of it the     *)
(* client sent: neither a restart nor a freed context replays a datagram.  *)
Places(s, r) == {i \in 1..Len(s) : s[i] = r}
Executions(r) == Places(sent, r)

OncePerCopy == \A r \in Requests : Cardinality(Executions(r)) <= copies[r]

(* An older command is only sent to the robot after a newer one when the   *)
(* client sent the older one more than once: endpoint.c and rpc.c keep no  *)
(* message ids, but a client that retransmits before it gives up, and      *)
(* never retransmits what is answered, keeps the commands in order.        *)
StaleNeedsRetransmission ==
    \A i, j \in 1..Len(sent) : (i < j /\ sent[j] < sent[i]) => copies[sent[j]] > 1

(* endpoint_task has exactly one CoAP context while it serves and none     *)
(* while it waits: every path out of the loop frees what was allocated.    *)
OneContext == contexts = IF task \in Serving \cup {"panic"} THEN 1 ELSE 0

(* Wi-Fi starts on a flash partition that works, and no task serves        *)
(* requests before the UART and Wi-Fi are up (main.c:39-53), restart or    *)
(* not.                                                                    *)
BootOrder ==
    /\ boot # "create_group" => nvs = "ok" /\ main \in {"wifi_init", "done"}
    /\ task # "none" => boot = "done" /\ main = "done"

(* The server comes back: with memory to allocate from, endpoint_task      *)
(* waits for requests again and again, however often the link is lost.     *)
Serves == []<>(task = "select")

(* No datagram stays in a socket for good: it is read, or its context is   *)
(* freed.                                                                  *)
SocketDrains == []<>(socket = <<>>)

----------------------------------------------------------------------------
(* The inductive invariant behind OneContext, BootOrder and RelaySpec.     *)

(* The steps of app_main before xTaskCreate, and what each relies on.      *)
BootShape ==
    /\ main \in {"nvs_again", "roomba_init", "wifi_init", "done"} => nvs = "ok"
    /\ main = "done" => boot = "done"

TaskShape ==
    /\ task = "read" => socket # <<>>
    /\ task = "dispatch" => current \in Requests

(* Whatever is on its way to the robot comes from the client.              *)
DatagramsIssued ==
    /\ \A r \in Requests : network[r] <= copies[r]
    /\ \A i \in 1..Len(socket) : copies[socket[i]] > 0
    /\ current # 0 => copies[current] > 0
    /\ \A i \in 1..Len(sent) : copies[sent[i]] > 0 /\ sent[i] \notin Gets

(* Whatever is on its way back answers something that was done.            *)
Answerable(r) == copies[r] > 0 /\ (r \in Gets \/ \E i \in 1..Len(sent) : sent[i] = r)

AnswersEarned ==
    /\ task = "respond" => current \in Requests /\ Answerable(current)
    /\ \A r \in acks \cup acked : Answerable(r)

BrainInv ==
    /\ BrainTypeOK /\ OneContext /\ BootOrder /\ BootShape
    /\ TaskShape /\ DatagramsIssued /\ AnswersEarned

(* What OncePerCopy adds: each copy the client sent is lost, on its way,   *)
(* in the socket, being handled or done, and never two of these.           *)
Handling(r) == IF task = "dispatch" /\ current = r THEN 1 ELSE 0

CopiesConserved ==
    \A r \in Requests :
        network[r] + Cardinality(Places(socket, r)) + Handling(r) + Cardinality(Executions(r))
            <= copies[r]

CopyInv == BrainInv /\ CopiesConserved

(* What StaleNeedsRetransmission adds: the client has issued every request *)
(* before its newest, waits for no other, and left none with a single copy *)
(* and no answer behind.                                                   *)
OneAtATime ==
    /\ \A r \in Requests : \A q \in 1..(r - 1) : copies[r] > 0 => copies[q] > 0
    /\ waiting # 0 => copies[waiting] > 0 /\ \A r \in Requests : r > waiting => copies[r] = 0
    /\ \A r \in Requests : copies[r] = 1 /\ r # waiting => r \in acked

OrderInv == CopyInv /\ OneAtATime /\ StaleNeedsRetransmission
=============================================================================
