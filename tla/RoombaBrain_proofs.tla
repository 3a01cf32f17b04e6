------------------------ MODULE RoombaBrain_proofs -------------------------
(***************************************************************************)
(* Proofs about RoombaBrain, for any number of requests, copies and        *)
(* restarts: the program implements CommandRelay, and it runs WifiStation, *)
(* so that everything proved about that holds here too.                    *)
(***************************************************************************)
EXTENDS RoombaBrain, WifiStation_proofs, FiniteSetTheorems

----------------------------------------------------------------------------
(* RoombaBrain runs WifiStation: each of its steps is one of WifiStation   *)
(* or leaves the station alone.                                            *)
THEOREM BrainRunsWifi == Spec => WifiSpec
<1>1. Init => WifiInit
  BY DEF Init
<1>2. [Next]_vars => [WifiNext]_wifiVars
  <2> SUFFICES ASSUME [Next]_vars PROVE [WifiNext]_wifiVars
    OBVIOUS
  <2>1. CASE AppMain
    <3>1. CASE WifiInitSta
      BY <3>1 DEF WifiInitSta, WifiNext
    <3>2. CASE ~WifiInitSta
      BY <2>1, <3>2 DEF AppMain, NvsInit, NvsErase, NvsAgain, RoombaInit, CreateTask, MainOnly
    <3>3. QED
      BY <3>1, <3>2
  <2>2. CASE WifiRuns
    BY <2>2 DEF WifiRuns, WifiNext
  <2>3. CASE EndpointTask
    BY <2>3 DEF EndpointTask, TaskProceeds, WaitActive, NewContext, NewContextFails, NewResource, SelectReady,
                SelectFails, FreeContext, CoapRead, Dispatch, Respond, TaskOnly
  <2>4. CASE Client
    BY <2>4 DEF Client, Submit, Retransmit, GiveUp, ReceiveAck, ClientOnly
  <2>5. CASE Network
    BY <2>5 DEF Network, DeliverRequest, LoseRequest, LoseAck, NetOnly
  <2>6. CASE Restart
    BY <2>6 DEF Restart, WifiNext
  <2>7. CASE UNCHANGED vars
    BY <2>7 DEF vars
  <2>8. QED
    BY <2>1, <2>2, <2>3, <2>4, <2>5, <2>6, <2>7 DEF Next
<1>3. QED
  BY <1>1, <1>2, PTL DEF Spec, WifiSpec

LEMMA InitBrainInv == Init => BrainInv
<1> SUFFICES ASSUME Init PROVE BrainInv
  OBVIOUS
<1>1. BrainTypeOK
  <2>1. socket \in Seq(Requests) /\ sent \in Seq(Requests)
    BY EmptySeq DEF Init
  <2>2. copies \in [Requests -> 0..MaxCopies] /\ network \in [Requests -> 0..MaxCopies]
    BY ClientAssumption DEF Init
  <2>3. acks \subseteq Requests /\ acked \subseteq Requests
    BY DEF Init
  <2>4. contexts \in Nat /\ current \in Requests \cup {0} /\ waiting \in Requests \cup {0}
    BY DEF Init
  <2>5. QED
    BY <2>1, <2>2, <2>3, <2>4 DEF Init, BrainTypeOK
<1>2. OneContext /\ BootOrder /\ BootShape /\ TaskShape
  BY DEF Init, WifiInit, OneContext, Serving, BootOrder, BootShape, TaskShape
<1>3. DatagramsIssued /\ AnswersEarned
  BY DEF Init, DatagramsIssued, AnswersEarned
<1>4. QED
  BY <1>1, <1>2, <1>3 DEF BrainInv

LEMMA MainKeepsInv ==
    ASSUME BrainInv, AppMain
    PROVE  BrainInv'
<1>1. CASE NvsInit \/ NvsErase \/ NvsAgain \/ RoombaInit
  BY <1>1 DEF NvsInit, NvsErase, NvsAgain, RoombaInit, Main, MainOnly, wifiVars, serverVars,
     clientVars, netVars, BrainInv, BrainTypeOK, OneContext, BootOrder, BootShape, TaskShape,
     DatagramsIssued, AnswersEarned, Answerable
<1>2. CASE WifiInitSta
  BY <1>2 DEF WifiInitSta, BootNext, CreateGroup, InitEventLoop, StartWifi,
     appVars, serverVars, clientVars, netVars, BrainInv, BrainTypeOK, OneContext, BootOrder,
     BootShape, TaskShape, DatagramsIssued, AnswersEarned, Answerable
<1>3. CASE CreateTask
  BY <1>3 DEF CreateTask, Main, wifiVars,
     clientVars, netVars, BrainInv, BrainTypeOK, OneContext, Serving, BootOrder,
     BootShape, TaskShape, DatagramsIssued, AnswersEarned, Answerable
<1>4. QED
  BY <1>1, <1>2, <1>3 DEF AppMain

(* The event loop and the driver: only what BootOrder reads of the boot    *)
(* could change, and they leave it alone.                                  *)
LEMMA WifiRunsKeepsInv ==
    ASSUME BrainInv, WifiRuns
    PROVE  BrainInv'
<1>1. boot' = boot
  BY DEF WifiRuns, DriverNext, EventLoop, Associate, ConnectFails, ObtainIp, LinkLost, LeaseLost,
     OnStart, OnGotIp, OnDisconnected, ClearBit, OnUnhandled
<1>2. UNCHANGED <<main, nvs, task, contexts, socket, current, sent, waiting, copies, network,
                  acks, acked>>
  BY DEF WifiRuns, appVars, serverVars, clientVars, netVars
<1>3. QED
  BY <1>1, <1>2 DEF BrainInv, BrainTypeOK, OneContext, BootOrder, BootShape, TaskShape,
     DatagramsIssued, AnswersEarned, Answerable

LEMMA RestartKeepsBrainInv ==
    ASSUME BrainInv, Restart
    PROVE  BrainInv'
<1>1. boot' = "create_group" /\ main' = "nvs" /\ task' = "none" /\ contexts' = 0 /\ current' = 0
  BY DEF Restart, WifiRestart
<1>2. socket' \in Seq(Requests) /\ Len(socket') = 0
  BY EmptySeq DEF Restart
<1>3. UNCHANGED <<nvs, sent, waiting, copies, network, acks, acked>>
  BY DEF Restart, clientVars, netVars
<1>4. BrainTypeOK'
  BY <1>1, <1>2, <1>3 DEF BrainInv, BrainTypeOK
<1>5. OneContext' /\ BootOrder' /\ BootShape' /\ TaskShape'
  BY <1>1 DEF OneContext, Serving, BootOrder, BootShape, TaskShape
<1>6. DatagramsIssued' /\ AnswersEarned'
  BY <1>1, <1>2, <1>3 DEF BrainInv, DatagramsIssued, AnswersEarned, Answerable
<1>7. QED
  BY <1>4, <1>5, <1>6 DEF BrainInv

(* The steps of endpoint_task that handle no datagram.                     *)
LEMMA ContextKeepsInv ==
    ASSUME BrainInv,
           WaitActive \/ NewContext \/ NewContextFails \/ NewResource \/ SelectReady \/ SelectFails
    PROVE  BrainInv'
<1>1. UNCHANGED <<boot, main, nvs, socket, current, sent, waiting, copies, network, acks, acked>>
  BY DEF WaitActive, NewContext, NewContextFails, NewResource, SelectReady, SelectFails,
     TaskOnly, wifiVars, appVars, clientVars, netVars
<1>2. /\ task \in {"wait", "new_context", "new_resource", "select"}
      /\ task' \in {"wait", "new_context", "new_resource", "select", "read", "free", "panic"}
      /\ task' = "read" => socket # <<>>
  BY DEF WaitActive, NewContext, NewContextFails, NewResource, SelectReady, SelectFails, Task
<1>3. contexts' \in Nat /\ OneContext'
  BY DEF WaitActive, NewContext, NewContextFails, NewResource, SelectReady, SelectFails, Task,
     BrainInv, OneContext, Serving
<1>4. BrainTypeOK'
  BY <1>1, <1>2, <1>3 DEF BrainInv, BrainTypeOK, Serving
<1>5. BootOrder' /\ BootShape' /\ TaskShape'
  BY <1>1, <1>2 DEF BrainInv, BootOrder, BootShape, TaskShape
<1>6. DatagramsIssued' /\ AnswersEarned'
  BY <1>1, <1>2 DEF BrainInv, DatagramsIssued, AnswersEarned, Answerable
<1>7. QED
  BY <1>3, <1>4, <1>5, <1>6 DEF BrainInv

LEMMA FreeContextKeepsInv ==
    ASSUME BrainInv, FreeContext
    PROVE  BrainInv'
<1>1. /\ UNCHANGED <<boot, main, nvs, current, sent, waiting, copies, network, acks, acked>>
      /\ task = "free" /\ task' = "wait" /\ contexts' = contexts - 1
  BY DEF FreeContext, Task, TaskOnly, wifiVars, appVars, clientVars, netVars
<1>2. socket' \in Seq(Requests) /\ Len(socket') = 0
  BY EmptySeq DEF FreeContext
<1>3. contexts' = 0
  BY <1>1 DEF BrainInv, OneContext, Serving
<1>4. BrainTypeOK'
  BY <1>1, <1>2, <1>3 DEF BrainInv, BrainTypeOK
<1>5. OneContext' /\ BootOrder' /\ BootShape' /\ TaskShape'
  BY <1>1, <1>3 DEF BrainInv, OneContext, Serving, BootOrder, BootShape, TaskShape
<1>6. DatagramsIssued' /\ AnswersEarned'
  BY <1>1, <1>2 DEF BrainInv, DatagramsIssued, AnswersEarned, Answerable
<1>7. QED
  BY <1>4, <1>5, <1>6 DEF BrainInv

LEMMA CoapReadKeepsInv ==
    ASSUME BrainInv, CoapRead
    PROVE  BrainInv'
<1>1. /\ UNCHANGED <<boot, main, nvs, contexts, sent, waiting, copies, network, acks, acked>>
      /\ task = "read" /\ task' = "dispatch"
  BY DEF CoapRead, Task, TaskOnly, wifiVars, appVars, clientVars, netVars
<1>2. socket \in Seq(Requests) /\ socket # <<>>
  BY <1>1 DEF BrainInv, BrainTypeOK, TaskShape
<1>3. current' = Head(socket) /\ socket' = Tail(socket)
  BY DEF CoapRead
<1>4. /\ current' \in Requests /\ current' = socket[1] /\ Len(socket) >= 1
      /\ socket' \in Seq(Requests) /\ Len(socket') = Len(socket) - 1
      /\ \A i \in 1..Len(socket') : socket'[i] = socket[i + 1]
  BY <1>2, <1>3, HeadTailProperties, EmptySeq
<1>5. copies[current'] > 0 /\ \A i \in 1..Len(socket') : copies[socket'[i]] > 0
  <2>1. \A i \in 1..Len(socket) : copies[socket[i]] > 0
    BY DEF BrainInv, DatagramsIssued
  <2>2. \A i \in 1..Len(socket') : i + 1 \in 1..Len(socket)
    BY <1>2, <1>4
  <2>3. 1 \in 1..Len(socket)
    BY <1>2, <1>4
  <2>4. QED
    BY <1>4, <2>1, <2>2, <2>3
<1>6. BrainTypeOK'
  <2>1. current' \in Requests /\ socket' \in Seq(Requests)
    BY <1>4
  <2>2. QED
    BY <1>1, <2>1 DEF BrainInv, BrainTypeOK, Serving
<1>7. OneContext' /\ BootOrder' /\ BootShape' /\ TaskShape'
  BY <1>1, <1>4 DEF BrainInv, OneContext, Serving, BootOrder, BootShape, TaskShape
<1>8. DatagramsIssued' /\ AnswersEarned'
  BY <1>1, <1>5 DEF BrainInv, DatagramsIssued, AnswersEarned, Answerable
<1>9. QED
  BY <1>6, <1>7, <1>8 DEF BrainInv

(* A handler runs: what was answerable stays so, and now current is.       *)
LEMMA DispatchKeepsInv ==
    ASSUME BrainInv, Dispatch
    PROVE  /\ BrainInv'
           /\ current \in Requests /\ copies[current] > 0
<1>1. /\ UNCHANGED <<boot, main, nvs, contexts, socket, current, waiting, copies, network, acks, acked>>
      /\ task = "dispatch" /\ task' = "respond"
      /\ sent' = IF current \in Gets THEN sent ELSE Append(sent, current)
  BY DEF Dispatch, Task, wifiVars, appVars, clientVars, netVars
<1>2. current \in Requests /\ copies[current] > 0 /\ sent \in Seq(Requests)
  <2>1. current \in Requests /\ sent \in Seq(Requests)
    BY <1>1 DEF BrainInv, TaskShape, BrainTypeOK
  <2>2. current # 0
    BY <2>1 DEF Requests
  <2>3. QED
    BY <2>1, <2>2 DEF BrainInv, DatagramsIssued
<1>3. /\ sent' \in Seq(Requests)
      /\ \A i \in 1..Len(sent) : i \in 1..Len(sent') /\ sent'[i] = sent[i]
      /\ \A i \in 1..Len(sent') :
            \/ i \in 1..Len(sent) /\ sent'[i] = sent[i]
            \/ sent'[i] = current /\ current \notin Gets
      /\ current \notin Gets => \E i \in 1..Len(sent') : sent'[i] = current
  <2>1. CASE current \in Gets
    BY <1>1, <1>2, <2>1
  <2>2. CASE current \notin Gets
    <3>1. sent' = Append(sent, current)
      BY <1>1, <2>2
    <3>2. /\ sent' \in Seq(Requests) /\ Len(sent') = Len(sent) + 1 /\ Len(sent) \in Nat
          /\ \A i \in 1..Len(sent) : sent'[i] = sent[i]
          /\ sent'[Len(sent) + 1] = current
      BY <1>2, <3>1, AppendProperties, LenProperties
    <3>3. Len(sent) + 1 \in 1..Len(sent')
      BY <3>2
    <3>4. \A i \in 1..Len(sent') : i \in 1..Len(sent) \/ i = Len(sent) + 1
      BY <3>2
    <3>5. \A i \in 1..Len(sent) : i \in 1..Len(sent')
      BY <3>2
    <3>6. QED
      BY <2>2, <3>2, <3>3, <3>4, <3>5
  <2>3. QED
    BY <2>1, <2>2
<1>4. BrainTypeOK'
  BY <1>1, <1>3 DEF BrainInv, BrainTypeOK, Serving
<1>5. OneContext' /\ BootOrder' /\ BootShape' /\ TaskShape'
  BY <1>1 DEF BrainInv, OneContext, Serving, BootOrder, BootShape, TaskShape
<1>6. DatagramsIssued'
  BY <1>1, <1>2, <1>3 DEF BrainInv, DatagramsIssued
<1>7. \A r : Answerable(r) => Answerable(r)'
  BY <1>1, <1>3 DEF Answerable
<1>8. Answerable(current)'
  BY <1>1, <1>2, <1>3 DEF Answerable
<1>9. AnswersEarned'
  BY <1>1, <1>2, <1>7, <1>8 DEF BrainInv, AnswersEarned
<1>10. QED
  BY <1>2, <1>4, <1>5, <1>6, <1>9 DEF BrainInv

LEMMA RespondKeepsInv ==
    ASSUME BrainInv, Respond
    PROVE  BrainInv'
<1>1. /\ UNCHANGED <<boot, main, nvs, contexts, socket, sent, waiting, copies, network, acked>>
      /\ task = "respond" /\ task' \in {"select", "panic"} /\ current' = 0
      /\ acks' \subseteq acks \cup {current}
  BY DEF Respond, Task, wifiVars, appVars, clientVars
<1>2. current \in Requests /\ Answerable(current)
  BY <1>1 DEF BrainInv, AnswersEarned
<1>3. BrainTypeOK'
  BY <1>1, <1>2 DEF BrainInv, BrainTypeOK, Serving
<1>4. OneContext' /\ BootOrder' /\ BootShape' /\ TaskShape'
  BY <1>1 DEF BrainInv, OneContext, Serving, BootOrder, BootShape, TaskShape
<1>5. DatagramsIssued'
  BY <1>1 DEF BrainInv, DatagramsIssued
<1>6. AnswersEarned'
  BY <1>1, <1>2 DEF BrainInv, AnswersEarned, Answerable
<1>7. QED
  BY <1>3, <1>4, <1>5, <1>6 DEF BrainInv

(* The client: what has been sent once has been issued for good.           *)
LEMMA ClientKeepsInv ==
    ASSUME BrainInv, Client
    PROVE  /\ BrainInv'
           /\ sent' = sent
           /\ \A r \in Requests : copies[r] > 0 => copies'[r] > 0
<1>1. UNCHANGED <<boot, main, nvs, task, contexts, socket, current, sent>>
  BY DEF Client, Submit, Retransmit, GiveUp, ReceiveAck, ClientOnly, wifiVars, appVars, serverVars
<1>2. /\ copies \in [Requests -> 0..MaxCopies] /\ network \in [Requests -> 0..MaxCopies]
      /\ acks \subseteq Requests /\ acked \subseteq Requests /\ waiting \in Requests \cup {0}
      /\ socket \in Seq(Requests) /\ sent \in Seq(Requests) /\ current \in Requests \cup {0}
  BY DEF BrainInv, BrainTypeOK
<1>3. /\ waiting' \in Requests \cup {0}
      /\ acks' \subseteq Requests /\ acked' \subseteq Requests
      /\ acks' \cup acked' \subseteq acks \cup acked
  BY <1>2 DEF Client, Submit, Retransmit, GiveUp, ReceiveAck, netVars
<1>4. \/ copies' = copies /\ network' = network
      \/ \E r \in Requests : Send(r)
  <2>1. CASE Submit
    BY <2>1 DEF Submit
  <2>2. CASE Retransmit
    <3>1. waiting \in Requests
      BY <1>2, <2>2 DEF Retransmit
    <3>2. QED
      BY <2>2, <3>1 DEF Retransmit
  <2>3. CASE GiveUp \/ ReceiveAck
    BY <2>3 DEF GiveUp, ReceiveAck, netVars
  <2>4. QED
    BY <2>1, <2>2, <2>3 DEF Client
<1>5. /\ copies' \in [Requests -> 0..MaxCopies]
      /\ network' \in [Requests -> 0..MaxCopies]
      /\ \A r \in Requests : copies[r] > 0 => copies'[r] > 0
      /\ \A r \in Requests : network'[r] <= copies'[r]
  <2>0. \A r \in Requests : network[r] <= copies[r]
    BY DEF BrainInv, DatagramsIssued
  <2>1. CASE copies' = copies /\ network' = network
    BY <1>2, <2>0, <2>1
  <2>2. ASSUME NEW q \in Requests, Send(q)
        PROVE  /\ copies' \in [Requests -> 0..MaxCopies]
               /\ network' \in [Requests -> 0..MaxCopies]
               /\ \A r \in Requests : copies[r] > 0 => copies'[r] > 0
               /\ \A r \in Requests : network'[r] <= copies'[r]
    <3>1. copies[q] \in 0..MaxCopies /\ network[q] \in 0..MaxCopies /\ MaxCopies \in Nat
      BY <1>2, ClientAssumption
    <3>2. /\ copies[q] + 1 \in 0..MaxCopies /\ network[q] + 1 \in 0..MaxCopies
          /\ copies[q] + 1 > 0 /\ network[q] + 1 <= copies[q] + 1
      BY <2>0, <2>2, <3>1 DEF Send
    <3>3. /\ copies' = [copies EXCEPT ![q] = copies[q] + 1]
          /\ network' = [network EXCEPT ![q] = network[q] + 1]
      BY <2>2 DEF Send
    <3>4. QED
      BY <1>2, <2>0, <3>2, <3>3
  <2>3. QED
    BY <1>4, <2>1, <2>2
<1>6. BrainTypeOK'
  BY <1>1, <1>2, <1>3, <1>5 DEF BrainInv, BrainTypeOK
<1>7. OneContext' /\ BootOrder' /\ BootShape' /\ TaskShape'
  BY <1>1 DEF BrainInv, OneContext, BootOrder, BootShape, TaskShape
<1>8. DatagramsIssued'
  <2>1. \A i \in 1..Len(socket) : socket[i] \in Requests
    BY <1>2, ElementOfSeq
  <2>2. \A i \in 1..Len(sent) : sent[i] \in Requests
    BY <1>2, ElementOfSeq
  <2>3. QED
    BY <1>1, <1>2, <1>5, <2>1, <2>2 DEF BrainInv, DatagramsIssued
<1>9. AnswersEarned'
  <2>1. \A r \in Requests : Answerable(r) => Answerable(r)'
    BY <1>1, <1>5 DEF Answerable
  <2>2. QED
    BY <1>1, <1>2, <1>3, <2>1 DEF BrainInv, AnswersEarned
<1>10. QED
  BY <1>1, <1>5, <1>6, <1>7, <1>8, <1>9 DEF BrainInv

(* The network: a datagram that arrives was on its way.                    *)
LEMMA NetworkKeepsInv ==
    ASSUME BrainInv, Network
    PROVE  BrainInv'
<1>1. UNCHANGED <<boot, main, nvs, task, contexts, current, sent, waiting, copies, acked>>
  BY DEF Network, DeliverRequest, LoseRequest, LoseAck, NetOnly, wifiVars, appVars, clientVars
<1>2. /\ copies \in [Requests -> 0..MaxCopies] /\ network \in [Requests -> 0..MaxCopies]
      /\ socket \in Seq(Requests) /\ acks \subseteq Requests
      /\ \A r \in Requests : network[r] <= copies[r]
      /\ \A i \in 1..Len(socket) : copies[socket[i]] > 0
  BY DEF BrainInv, BrainTypeOK, DatagramsIssued
<1>3. acks' \subseteq acks
  BY DEF Network, DeliverRequest, LoseRequest, LoseAck
<1>4. /\ network' \in [Requests -> 0..MaxCopies]
      /\ \A r \in Requests : network'[r] <= copies[r]
  <2>1. ASSUME NEW q \in Requests, network[q] > 0, network' = [network EXCEPT ![q] = network[q] - 1]
        PROVE  /\ network' \in [Requests -> 0..MaxCopies]
               /\ \A r \in Requests : network'[r] <= copies[r]
    <3>1. network[q] - 1 \in 0..MaxCopies /\ network[q] - 1 <= copies[q]
      BY <1>2, <2>1, ClientAssumption
    <3>2. QED
      BY <1>2, <2>1, <3>1
  <2>2. \/ network' = network
        \/ \E q \in Requests : network[q] > 0 /\ network' = [network EXCEPT ![q] = network[q] - 1]
    BY DEF Network, DeliverRequest, LoseRequest, LoseAck
  <2>3. QED
    BY <1>2, <2>1, <2>2
<1>5. /\ socket' \in Seq(Requests)
      /\ \A i \in 1..Len(socket') : copies[socket'[i]] > 0
      /\ socket # <<>> => socket' # <<>>
  <2>1. CASE socket' = socket
    BY <1>2, <2>1
  <2>2. ASSUME NEW q \in Requests, network[q] > 0, socket' = Append(socket, q)
        PROVE  /\ socket' \in Seq(Requests)
               /\ \A i \in 1..Len(socket') : copies[socket'[i]] > 0
               /\ socket' # <<>>
    <3>1. copies[q] > 0
      BY <1>2, <2>2
    <3>2. /\ socket' \in Seq(Requests) /\ socket' # <<>> /\ Len(socket') = Len(socket) + 1
          /\ \A i \in 1..Len(socket) : socket'[i] = socket[i]
          /\ socket'[Len(socket) + 1] = q
      BY <1>2, <2>2, AppendProperties
    <3>3. \A i \in 1..Len(socket') : i \in 1..Len(socket) \/ i = Len(socket) + 1
      BY <1>2, <3>2
    <3>4. QED
      BY <1>2, <3>1, <3>2, <3>3
  <2>3. socket' = socket \/ \E q \in Requests : network[q] > 0 /\ socket' = Append(socket, q)
    BY DEF Network, DeliverRequest, LoseRequest, LoseAck
  <2>4. QED
    BY <2>1, <2>2, <2>3
<1>6. BrainTypeOK'
  BY <1>1, <1>2, <1>3, <1>4, <1>5 DEF BrainInv, BrainTypeOK
<1>7. OneContext' /\ BootOrder' /\ BootShape' /\ TaskShape'
  BY <1>1, <1>5 DEF BrainInv, OneContext, BootOrder, BootShape, TaskShape
<1>8. DatagramsIssued'
  BY <1>1, <1>4, <1>5 DEF BrainInv, DatagramsIssued
<1>9. AnswersEarned'
  BY <1>1, <1>3 DEF BrainInv, AnswersEarned, Answerable
<1>10. QED
  BY <1>6, <1>7, <1>8, <1>9 DEF BrainInv

----------------------------------------------------------------------------
(* BrainInv holds in every state, whatever is allocated, lost, repeated or *)
(* restarted.                                                              *)
LEMMA NextKeepsInv ==
    ASSUME BrainInv, [Next]_vars
    PROVE  BrainInv'
<1>1. CASE EndpointTask
  BY <1>1, ContextKeepsInv, FreeContextKeepsInv, CoapReadKeepsInv, DispatchKeepsInv,
     RespondKeepsInv DEF EndpointTask, TaskProceeds
<1>2. CASE UNCHANGED vars
  BY <1>2 DEF vars, wifiVars, appVars, serverVars, clientVars, netVars, BrainInv, BrainTypeOK,
     OneContext, BootOrder, BootShape, TaskShape, DatagramsIssued, AnswersEarned, Answerable
<1>3. QED
  BY <1>1, <1>2, MainKeepsInv, WifiRunsKeepsInv, ClientKeepsInv, NetworkKeepsInv,
     RestartKeepsBrainInv DEF Next

THEOREM BrainInvariant == Spec => []BrainInv
<1>1. QED
  BY InitBrainInv, NextKeepsInv, PTL DEF Spec

(* endpoint_task never leaks a CoAP context and never uses a freed one.    *)
THEOREM AlwaysOneContext == Spec => []OneContext
<1>1. BrainInv => OneContext
  BY DEF BrainInv
<1>2. QED
  BY <1>1, BrainInvariant, PTL

(* main.c:39-53: Wi-Fi never starts without a working flash partition, and *)
(* no request is served before the UART and Wi-Fi are up.                  *)
THEOREM BootAlwaysInOrder == Spec => []BootOrder
<1>1. BrainInv => BootOrder
  BY DEF BrainInv
<1>2. QED
  BY <1>1, BrainInvariant, PTL

(* Every state of the whole program is well-typed.                         *)
THEOREM TypeCorrect == Spec => []TypeOK
<1>1. BrainInv /\ WifiTypeOK => TypeOK
  BY DEF BrainInv, TypeOK
<1>2. QED
  BY <1>1, BrainInvariant, BrainRunsWifi, WifiTypeCorrect, PTL

----------------------------------------------------------------------------
(* The program implements CommandRelay: only what was issued reaches the   *)
(* robot, and what is answered was done, for every loss, repetition,       *)
(* reordering and restart.                                                 *)
THEOREM BrainImplementsRelay == Spec => RelaySpec
<1>1. Init => Relay!Init
  BY ClientAssumption DEF Init, Relay!Init
<1>2. BrainInv /\ [Next]_vars => [Relay!Next]_(Relay!vars)
  <2> SUFFICES ASSUME BrainInv, [Next]_vars PROVE [Relay!Next]_(Relay!vars)
    OBVIOUS
  <2> DEFINE issued == {r \in Requests : copies[r] > 0}
  <2>1. CASE Dispatch
    <3>1. current \in Requests /\ copies[current] > 0
      BY <2>1, DispatchKeepsInv
    <3>2. copies' = copies /\ acked' = acked
      BY <2>1 DEF Dispatch, clientVars
    <3>3. CASE current \in Gets
      BY <2>1, <3>2, <3>3 DEF Dispatch, Relay!vars
    <3>4. CASE current \notin Gets
      <4>1. Relay!Perform(current)
        BY <2>1, <3>1, <3>2, <3>4 DEF Dispatch, Relay!Perform
      <4>2. QED
        BY <3>1, <4>1 DEF Relay!Next
    <3>5. QED
      BY <3>3, <3>4
  <2>2. CASE Submit \/ Retransmit
    <3>1. sent' = sent /\ acked' = acked /\ \E r \in Requests : Send(r)
      BY <2>2 DEF Submit, Retransmit, ClientOnly, BrainInv, BrainTypeOK
    <3>2. PICK r \in Requests : Send(r)
      BY <3>1
    <3>3. copies \in [Requests -> 0..MaxCopies]
      BY DEF BrainInv, BrainTypeOK
    <3>4. copies[r] \in Nat /\ copies' = [copies EXCEPT ![r] = copies[r] + 1]
      BY <3>2, <3>3, ClientAssumption DEF Send
    <3>5. issued' = issued \cup {r}
      BY <3>3, <3>4
    <3>6. CASE r \in issued
      <4>1. issued' = issued
        BY <3>5, <3>6
      <4>2. QED
        BY <3>1, <4>1 DEF Relay!vars
    <3>7. CASE r \notin issued
      <4>1. Relay!Issue(r)
        BY <3>1, <3>5, <3>7 DEF Relay!Issue
      <4>2. QED
        BY <4>1 DEF Relay!Next
    <3>8. QED
      BY <3>6, <3>7
  <2>3. CASE ReceiveAck
    <3>1. PICK r \in acks : acked' = acked \cup {r}
      BY <2>3 DEF ReceiveAck
    <3>2. copies' = copies /\ sent' = sent
      BY <2>3 DEF ReceiveAck, ClientOnly
    <3>3. r \in Requests /\ Answerable(r)
      BY DEF BrainInv, BrainTypeOK, AnswersEarned
    <3>4. CASE r \in acked
      <4>1. acked' = acked
        BY <3>1, <3>4
      <4>2. QED
        BY <3>2, <4>1 DEF Relay!vars
    <3>5. CASE r \notin acked
      <4>1. r \in issued \ acked
        BY <3>3, <3>5 DEF Answerable
      <4>2. r \in Gets \/ \E i \in 1..Len(sent) : sent[i] = r
        BY <3>3 DEF Answerable
      <4>3. Relay!Answer(r)
        BY <3>1, <3>2, <4>1, <4>2 DEF Relay!Answer
      <4>4. QED
        BY <3>3, <4>3 DEF Relay!Next
    <3>6. QED
      BY <3>4, <3>5
  <2>4. CASE ~Dispatch /\ ~Submit /\ ~Retransmit /\ ~ReceiveAck
    <3>1. UNCHANGED <<copies, sent, acked>>
      BY <2>4 DEF Next, vars, AppMain, NvsInit, NvsErase, NvsAgain, RoombaInit, MainOnly,
         WifiInitSta, CreateTask, WifiRuns, EndpointTask, TaskProceeds, WaitActive, NewContext, NewContextFails,
         NewResource, SelectReady, SelectFails, FreeContext, CoapRead, TaskOnly, Respond,
         Client, GiveUp, ClientOnly, Network, DeliverRequest, LoseRequest, LoseAck, NetOnly,
         Restart, clientVars
    <3>2. QED
      BY <3>1 DEF Relay!vars
  <2>5. QED
    BY <2>1, <2>2, <2>3, <2>4
<1>3. QED
  BY <1>1, <1>2, BrainInvariant, PTL DEF Spec, RelaySpec, Relay!Spec

----------------------------------------------------------------------------
(* Where a request stands in a sequence of requests, and how often.        *)
LEMMA PlacesFinite ==
    ASSUME NEW S, NEW s \in Seq(S), NEW r
    PROVE  /\ IsFiniteSet(Places(s, r)) /\ Cardinality(Places(s, r)) \in Nat
           /\ Len(s) = 0 => Cardinality(Places(s, r)) = 0
<1>1. IsFiniteSet(1..Len(s))
  BY FS_Interval, LenProperties
<1>2. Places(s, r) \in SUBSET (1..Len(s))
  BY DEF Places
<1>3. IsFiniteSet(Places(s, r)) /\ Cardinality(Places(s, r)) \in Nat
  BY <1>1, <1>2, FS_Subset, FS_CardinalityType
<1>4. ASSUME Len(s) = 0 PROVE Cardinality(Places(s, r)) = 0
  <2>1. Places(s, r) = {}
    BY <1>4 DEF Places
  <2>2. QED
    BY <2>1, FS_EmptySet
<1>5. QED
  BY <1>3, <1>4

LEMMA PlacesAppend ==
    ASSUME NEW S, NEW s \in Seq(S), NEW x \in S, NEW r
    PROVE  Cardinality(Places(Append(s, x), r))
             = Cardinality(Places(s, r)) + (IF x = r THEN 1 ELSE 0)
<1> DEFINE t == Append(s, x)
           n == Len(s) + 1
<1>1. /\ Len(s) \in Nat /\ Len(t) = n /\ t[n] = x
      /\ \A i \in 1..Len(s) : t[i] = s[i]
  BY AppendProperties, LenProperties
<1>2. IsFiniteSet(Places(s, r)) /\ Cardinality(Places(s, r)) \in Nat
  BY PlacesFinite
<1>3. \A i : i \in 1..n <=> i \in 1..Len(s) \/ i = n
  BY <1>1
<1>4. n \notin 1..Len(s)
  BY <1>1
<1> HIDE DEF t, n
<1>5. CASE x = r
  <2>1. Places(t, r) = Places(s, r) \cup {n}
    BY <1>1, <1>3, <1>5 DEF Places
  <2>2. n \notin Places(s, r)
    BY <1>4 DEF Places
  <2>3. Cardinality(Places(t, r)) = Cardinality(Places(s, r)) + 1
    BY <1>2, <2>1, <2>2, FS_AddElement
  <2>4. QED
    BY <1>5, <2>3 DEF t
<1>6. CASE x # r
  <2>1. Places(t, r) = Places(s, r)
    BY <1>1, <1>3, <1>4, <1>6 DEF Places
  <2>2. QED
    BY <1>2, <1>6, <2>1 DEF t
<1>7. QED
  BY <1>5, <1>6

LEMMA PlacesTail ==
    ASSUME NEW S, NEW s \in Seq(S), s # <<>>, NEW r
    PROVE  Cardinality(Places(Tail(s), r))
             = Cardinality(Places(s, r)) - (IF Head(s) = r THEN 1 ELSE 0)
<1> DEFINE t == Tail(s)
           A == Places(t, r)
           B == Places(s, r) \ {1}
           f == [i \in A |-> i + 1]
<1>1. /\ Len(s) \in Nat /\ Len(s) >= 1 /\ Head(s) = s[1]
      /\ t \in Seq(S) /\ Len(t) = Len(s) - 1
      /\ \A i \in 1..Len(t) : t[i] = s[i + 1]
  BY HeadTailProperties, EmptySeq, LenProperties
<1> HIDE DEF t
<1>2. \A i \in 1..Len(t) : i + 1 \in 1..Len(s) /\ i + 1 # 1
  BY <1>1
<1>3. \A i \in 1..Len(s) : i # 1 => i - 1 \in 1..Len(t) /\ (i - 1) + 1 = i
  BY <1>1
<1>4. f \in Bijection(A, B)
  <2>1. \A i \in A : f[i] \in B
    BY <1>1, <1>2 DEF Places
  <2>2. \A i, j \in A : f[i] = f[j] => i = j
    BY <1>1 DEF Places
  <2>3. \A k \in B : \E i \in A : f[i] = k
    <3> SUFFICES ASSUME NEW k \in B PROVE \E i \in A : f[i] = k
      OBVIOUS
    <3>1. k \in 1..Len(s) /\ k # 1 /\ s[k] = r
      BY DEF Places
    <3>2. k - 1 \in 1..Len(t) /\ (k - 1) + 1 = k
      BY <1>3, <3>1
    <3>3. t[k - 1] = r
      BY <1>1, <3>1, <3>2
    <3>4. k - 1 \in A
      BY <3>2, <3>3 DEF Places
    <3>5. QED
      BY <3>2, <3>4
  <2>4. f \in [A -> B]
    BY <2>1
  <2>5. QED
    BY <2>2, <2>3, <2>4 DEF Bijection, Injection, Surjection, IsInjective
<1>5. /\ IsFiniteSet(A) /\ Cardinality(A) \in Nat
      /\ IsFiniteSet(Places(s, r)) /\ Cardinality(Places(s, r)) \in Nat
  BY <1>1, PlacesFinite
<1>6. Cardinality(B) = Cardinality(A)
  <2>1. ExistsBijection(A, B)
    BY <1>4 DEF ExistsBijection
  <2> HIDE DEF A, B
  <2>2. QED
    BY <1>5, <2>1, FS_Bijection
<1>7. Cardinality(B) = IF 1 \in Places(s, r) THEN Cardinality(Places(s, r)) - 1
                       ELSE Cardinality(Places(s, r))
  BY <1>5, FS_RemoveElement
<1>8. 1 \in Places(s, r) <=> Head(s) = r
  BY <1>1 DEF Places
<1>9. QED
  BY <1>5, <1>6, <1>7, <1>8 DEF t
(* What the copies of a request are counted with.                          *)
LEMMA CountTypes ==
    ASSUME BrainInv, NEW r \in Requests
    PROVE  /\ copies[r] \in Nat /\ network[r] \in Nat /\ Handling(r) \in {0, 1}
           /\ IsFiniteSet(Executions(r))
           /\ Cardinality(Places(socket, r)) \in Nat /\ Cardinality(Executions(r)) \in Nat
<1>1. /\ socket \in Seq(Requests) /\ sent \in Seq(Requests)
      /\ copies \in [Requests -> 0..MaxCopies] /\ network \in [Requests -> 0..MaxCopies]
  BY DEF BrainInv, BrainTypeOK
<1>2. copies[r] \in Nat /\ network[r] \in Nat
  BY <1>1, ClientAssumption
<1>3. Cardinality(Places(socket, r)) \in Nat /\ Cardinality(Executions(r)) \in Nat /\ IsFiniteSet(Executions(r))
  BY <1>1, PlacesFinite DEF Executions
<1>4. QED
  BY <1>2, <1>3 DEF Handling

(* A step that neither sends, reads, handles nor frees anything.           *)
LEMMA IdleKeepsCopies ==
    ASSUME CopyInv, UNCHANGED <<network, socket, sent, copies>>,
           task' # "dispatch" \/ UNCHANGED <<task, current>>
    PROVE  CopiesConserved'
<1> SUFFICES ASSUME NEW r \in Requests
             PROVE  network'[r] + Cardinality(Places(socket', r)) + Handling(r)'
                      + Cardinality(Executions(r)') <= copies'[r]
  BY DEF CopiesConserved, Requests
<1>1. /\ copies[r] \in Nat /\ network[r] \in Nat /\ Handling(r) \in {0, 1}
      /\ Cardinality(Places(socket, r)) \in Nat /\ Cardinality(Executions(r)) \in Nat
  BY CountTypes DEF CopyInv
<1>2. Handling(r)' = 0 \/ Handling(r)' = Handling(r)
  BY DEF Handling
<1>3. Executions(r)' = Executions(r) /\ Places(socket', r) = Places(socket, r)
  BY DEF Executions
<1>4. network[r] + Cardinality(Places(socket, r)) + Handling(r) + Cardinality(Executions(r)) <= copies[r]
  BY DEF CopyInv, CopiesConserved
<1>5. QED
  BY <1>1, <1>2, <1>3, <1>4

(* A socket is dropped with what it holds.                                 *)
LEMMA DropKeepsCopies ==
    ASSUME CopyInv, FreeContext \/ Restart
    PROVE  CopiesConserved'
<1> SUFFICES ASSUME NEW r \in Requests
             PROVE  network'[r] + Cardinality(Places(socket', r)) + Handling(r)'
                      + Cardinality(Executions(r)') <= copies'[r]
  BY DEF CopiesConserved, Requests
<1>1. /\ copies[r] \in Nat /\ network[r] \in Nat /\ Handling(r) \in {0, 1}
      /\ Cardinality(Places(socket, r)) \in Nat /\ Cardinality(Executions(r)) \in Nat
  BY CountTypes DEF CopyInv
<1>2. /\ UNCHANGED <<network, sent, copies>>
      /\ task' # "dispatch" /\ socket' = <<>>
  BY DEF FreeContext, Restart, Task, TaskOnly, clientVars, netVars
<1>3. Cardinality(Places(socket', r)) = 0
  BY <1>2, PlacesFinite, EmptySeq
<1>4. Executions(r)' = Executions(r) /\ Handling(r)' = 0
  BY <1>2 DEF Executions, Handling
<1>5. network[r] + Cardinality(Places(socket, r)) + Handling(r) + Cardinality(Executions(r)) <= copies[r]
  BY DEF CopyInv, CopiesConserved
<1>6. QED
  BY <1>1, <1>2, <1>3, <1>4, <1>5

(* coap_read takes a datagram out of the socket before it is handled.      *)
LEMMA ReadKeepsCopies ==
    ASSUME CopyInv, CoapRead
    PROVE  CopiesConserved'
<1> SUFFICES ASSUME NEW r \in Requests
             PROVE  network'[r] + Cardinality(Places(socket', r)) + Handling(r)'
                      + Cardinality(Executions(r)') <= copies'[r]
  BY DEF CopiesConserved, Requests
<1>1. /\ copies[r] \in Nat /\ network[r] \in Nat /\ Handling(r) \in {0, 1}
      /\ Cardinality(Places(socket, r)) \in Nat /\ Cardinality(Executions(r)) \in Nat
  BY CountTypes DEF CopyInv
<1>2. /\ UNCHANGED <<network, sent, copies>>
      /\ task = "read" /\ task' = "dispatch"
      /\ current' = Head(socket) /\ socket' = Tail(socket)
  BY DEF CoapRead, Task, TaskOnly, clientVars, netVars
<1>3. socket \in Seq(Requests) /\ socket # <<>>
  BY <1>2 DEF CopyInv, BrainInv, BrainTypeOK, TaskShape
<1>4. Cardinality(Places(socket', r))
        = Cardinality(Places(socket, r)) - (IF Head(socket) = r THEN 1 ELSE 0)
  BY <1>2, <1>3, PlacesTail
<1>5. Handling(r) = 0 /\ Handling(r)' = IF Head(socket) = r THEN 1 ELSE 0
  BY <1>2 DEF Handling
<1>6. Executions(r)' = Executions(r)
  BY <1>2 DEF Executions
<1>7. network[r] + Cardinality(Places(socket, r)) + Handling(r) + Cardinality(Executions(r)) <= copies[r]
  BY DEF CopyInv, CopiesConserved
<1>8. QED
  BY <1>1, <1>2, <1>4, <1>5, <1>6, <1>7

(* A command is sent once while its datagram is handled.                   *)
LEMMA DispatchKeepsCopies ==
    ASSUME CopyInv, Dispatch
    PROVE  CopiesConserved'
<1> SUFFICES ASSUME NEW r \in Requests
             PROVE  network'[r] + Cardinality(Places(socket', r)) + Handling(r)'
                      + Cardinality(Executions(r)') <= copies'[r]
  BY DEF CopiesConserved, Requests
<1>1. /\ copies[r] \in Nat /\ network[r] \in Nat /\ Handling(r) \in {0, 1}
      /\ Cardinality(Places(socket, r)) \in Nat /\ Cardinality(Executions(r)) \in Nat
  BY CountTypes DEF CopyInv
<1>2. /\ UNCHANGED <<network, socket, copies, current>>
      /\ task = "dispatch" /\ task' = "respond"
      /\ sent' = IF current \in Gets THEN sent ELSE Append(sent, current)
  BY DEF Dispatch, Task, clientVars, netVars
<1>3. sent \in Seq(Requests) /\ current \in Requests
  BY <1>2 DEF CopyInv, BrainInv, BrainTypeOK, TaskShape
<1>4. Handling(r)' = 0 /\ Handling(r) = IF current = r THEN 1 ELSE 0
  BY <1>2 DEF Handling
<1>5. Cardinality(Executions(r)') <= Cardinality(Executions(r)) + Handling(r)
  <2>1. CASE current \in Gets
    BY <1>1, <1>2, <2>1 DEF Executions
  <2>2. CASE current \notin Gets
    <3>1. sent' = Append(sent, current)
      BY <1>2, <2>2
    <3>2. Cardinality(Places(sent', r))
            = Cardinality(Places(sent, r)) + (IF current = r THEN 1 ELSE 0)
      BY <1>3, <3>1, PlacesAppend
    <3>3. QED
      BY <1>1, <1>4, <3>2 DEF Executions
  <2>3. QED
    BY <2>1, <2>2
<1>6. Cardinality(Executions(r)') \in Nat
  <2>1. BrainInv'
    BY DispatchKeepsInv DEF CopyInv
  <2>2. sent' \in Seq(Requests)
    BY <2>1 DEF BrainInv, BrainTypeOK, Requests
  <2>3. QED
    BY <2>2, PlacesFinite DEF Executions
<1>7. network[r] + Cardinality(Places(socket, r)) + Handling(r) + Cardinality(Executions(r)) <= copies[r]
  BY DEF CopyInv, CopiesConserved
<1>8. QED
  BY <1>1, <1>2, <1>4, <1>5, <1>6, <1>7

(* The client sends a copy, or the network moves or loses one.             *)
LEMMA SendKeepsCopies ==
    ASSUME CopyInv, NEW q \in Requests, Send(q), UNCHANGED <<task, socket, current, sent>>
    PROVE  CopiesConserved'
<1> SUFFICES ASSUME NEW r \in Requests
             PROVE  network'[r] + Cardinality(Places(socket', r)) + Handling(r)'
                      + Cardinality(Executions(r)') <= copies'[r]
  BY DEF CopiesConserved, Requests
<1>1. /\ copies[r] \in Nat /\ network[r] \in Nat /\ Handling(r) \in {0, 1}
      /\ Cardinality(Places(socket, r)) \in Nat /\ Cardinality(Executions(r)) \in Nat
  BY CountTypes DEF CopyInv
<1>2. Handling(r)' = Handling(r) /\ Executions(r)' = Executions(r) /\ Places(socket', r) = Places(socket, r)
  BY DEF Handling, Executions
<1>3. DOMAIN copies = Requests /\ DOMAIN network = Requests
  BY DEF CopyInv, BrainInv, BrainTypeOK
<1>4. \/ copies'[r] = copies[r] + 1 /\ network'[r] = network[r] + 1
      \/ copies'[r] = copies[r] /\ network'[r] = network[r]
  BY <1>3 DEF Send
<1>5. network[r] + Cardinality(Places(socket, r)) + Handling(r) + Cardinality(Executions(r)) <= copies[r]
  BY DEF CopyInv, CopiesConserved
<1>6. QED
  BY <1>1, <1>2, <1>4, <1>5

LEMMA MoveKeepsCopies ==
    ASSUME CopyInv, DeliverRequest \/ LoseRequest
    PROVE  CopiesConserved'
<1> SUFFICES ASSUME NEW r \in Requests
             PROVE  network'[r] + Cardinality(Places(socket', r)) + Handling(r)'
                      + Cardinality(Executions(r)') <= copies'[r]
  BY DEF CopiesConserved, Requests
<1>1. /\ copies[r] \in Nat /\ network[r] \in Nat /\ Handling(r) \in {0, 1}
      /\ Cardinality(Places(socket, r)) \in Nat /\ Cardinality(Executions(r)) \in Nat
  BY CountTypes DEF CopyInv
<1>2. UNCHANGED <<task, current, sent, copies>>
  BY DEF DeliverRequest, LoseRequest, NetOnly, clientVars
<1>3. PICK q \in Requests : /\ network' = [network EXCEPT ![q] = @ - 1]
                            /\ socket' = socket \/ socket' = Append(socket, q)
  BY DEF DeliverRequest, LoseRequest
<1>4. network'[r] = IF r = q THEN network[r] - 1 ELSE network[r]
  BY <1>3 DEF CopyInv, BrainInv, BrainTypeOK
<1>5. \/ Cardinality(Places(socket', r)) = Cardinality(Places(socket, r))
      \/ Cardinality(Places(socket', r)) = Cardinality(Places(socket, r)) + (IF q = r THEN 1 ELSE 0)
  <2>1. socket \in Seq(Requests)
    BY DEF CopyInv, BrainInv, BrainTypeOK
  <2>2. Cardinality(Places(Append(socket, q), r))
          = Cardinality(Places(socket, r)) + (IF q = r THEN 1 ELSE 0)
    BY <2>1, PlacesAppend
  <2>3. QED
    BY <1>3, <2>2
<1>6. Handling(r)' = Handling(r) /\ Executions(r)' = Executions(r)
  BY <1>2 DEF Handling, Executions
<1>7. network[r] + Cardinality(Places(socket, r)) + Handling(r) + Cardinality(Executions(r)) <= copies[r]
  BY DEF CopyInv, CopiesConserved
<1>8. QED
  BY <1>1, <1>2, <1>4, <1>5, <1>6, <1>7

LEMMA NextKeepsCopies ==
    ASSUME CopyInv, [Next]_vars
    PROVE  CopyInv'
<1>1. BrainInv'
  BY NextKeepsInv DEF CopyInv
<1>2. CopiesConserved'
  <2>1. CASE FreeContext \/ Restart
    BY <2>1, DropKeepsCopies
  <2>2. CASE CoapRead
    BY <2>2, ReadKeepsCopies
  <2>3. CASE Dispatch
    BY <2>3, DispatchKeepsCopies
  <2>4. CASE Submit \/ Retransmit
    <3>1. waiting # 0 => waiting \in Requests
      BY DEF CopyInv, BrainInv, BrainTypeOK
    <3>2. PICK q \in Requests : Send(q)
      BY <2>4, <3>1 DEF Submit, Retransmit
    <3>3. UNCHANGED <<task, socket, current, sent>>
      BY <2>4 DEF Submit, Retransmit, ClientOnly, serverVars
    <3>4. QED
      BY <3>2, <3>3, SendKeepsCopies
  <2>5. CASE DeliverRequest \/ LoseRequest
    BY <2>5, MoveKeepsCopies
  <2>6. CASE UNCHANGED vars
    BY <2>6, IdleKeepsCopies DEF vars, serverVars, clientVars, netVars
  <2>7. CASE AppMain \/ WifiRuns
    BY <2>7, IdleKeepsCopies DEF AppMain, NvsInit, NvsErase, NvsAgain, RoombaInit, WifiInitSta, CreateTask,
       MainOnly, WifiRuns, serverVars, clientVars, netVars
  <2>8. CASE \/ WaitActive \/ NewContext \/ NewContextFails \/ NewResource \/ SelectReady \/ SelectFails
             \/ Respond
    BY <2>8, IdleKeepsCopies DEF WaitActive, NewContext, NewContextFails, NewResource, SelectReady, SelectFails,
       Respond, Task, TaskOnly, clientVars, netVars
  <2>9. CASE GiveUp \/ ReceiveAck \/ LoseAck
    BY <2>9, IdleKeepsCopies DEF GiveUp, ReceiveAck, LoseAck, ClientOnly, NetOnly, serverVars, clientVars, netVars
  <2>10. QED
    BY <2>1, <2>2, <2>3, <2>4, <2>5, <2>6, <2>7, <2>8, <2>9
       DEF Next, EndpointTask, TaskProceeds, Client, Network
<1>3. QED
  BY <1>1, <1>2 DEF CopyInv

LEMMA InitCopies == Init => CopyInv
<1> SUFFICES ASSUME Init PROVE CopyInv
  OBVIOUS
<1>1. BrainInv
  BY InitBrainInv
<1>2. ASSUME NEW r \in Requests
      PROVE  network[r] + Cardinality(Places(socket, r)) + Handling(r) + Cardinality(Executions(r)) <= copies[r]
  <2>1. network[r] = 0 /\ copies[r] = 0 /\ Handling(r) = 0
    BY <1>2 DEF Init, Handling
  <2>2. Cardinality(Places(socket, r)) = 0 /\ Cardinality(Executions(r)) = 0
    BY PlacesFinite, EmptySeq DEF Init, Executions
  <2>3. QED
    BY <2>1, <2>2
<1>3. QED
  BY <1>1, <1>2 DEF CopyInv, CopiesConserved

(* No copy of a request is in two places at once, and none is handled      *)
(* twice.                                                                  *)
THEOREM CopiesAlwaysConserved == Spec => []CopyInv
<1>1. QED
  BY InitCopies, NextKeepsCopies, PTL DEF Spec

(* A command is sent to the robot at most once for each copy of it the     *)
(* client sent, whatever is lost, reordered, freed or restarted.           *)
THEOREM ExecutedOncePerCopy == Spec => []OncePerCopy
<1>1. CopyInv => OncePerCopy
  <2> SUFFICES ASSUME CopyInv, NEW r \in Requests PROVE Cardinality(Executions(r)) <= copies[r]
    BY DEF OncePerCopy
  <2>1. /\ copies[r] \in Nat /\ network[r] \in Nat /\ Handling(r) \in {0, 1}
        /\ Cardinality(Places(socket, r)) \in Nat /\ Cardinality(Executions(r)) \in Nat
    BY CountTypes DEF CopyInv
  <2>2. network[r] + Cardinality(Places(socket, r)) + Handling(r) + Cardinality(Executions(r)) <= copies[r]
    BY DEF CopyInv, CopiesConserved
  <2>3. QED
    BY <2>1, <2>2
<1>2. QED
  BY <1>1, CopiesAlwaysConserved, PTL
----------------------------------------------------------------------------
(* The order of commands: what the client's discipline gives.              *)
LEMMA ClientInOrder ==
    ASSUME MaxCopies > 1, CopyInv, OneAtATime, [Next]_vars
    PROVE  OneAtATime'
<1>1. /\ copies \in [Requests -> 0..MaxCopies] /\ waiting \in Requests \cup {0}
      /\ MaxCopies \in Nat /\ NumRequests \in Nat
  BY ClientAssumption DEF CopyInv, BrainInv, BrainTypeOK
<1>2. CASE Submit
  <2>1. PICK p \in Requests : /\ copies[p] = 0 /\ waiting = 0 /\ waiting' = p
                              /\ \A q \in 1..(p - 1) : copies[q] > 0
                              /\ copies' = [copies EXCEPT ![p] = @ + 1]
    BY <1>2 DEF Submit, Send
  <2>2. acked' = acked
    BY <1>2 DEF Submit
  <2>3. \A r \in Requests : copies'[r] = (IF r = p THEN 1 ELSE copies[r]) /\ copies[r] \in Nat
    BY <1>1, <2>1
  <2>4. \A r \in Requests : \A q \in 1..(r - 1) : q \in Requests /\ r \in Nat /\ q \in Nat
    BY <1>1 DEF Requests
  <2>5. \A r \in Requests : r > p => copies[r] = 0
    <3> SUFFICES ASSUME NEW r \in Requests, r > p PROVE copies[r] = 0
      OBVIOUS
    <3>1. p \in 1..(r - 1)
      BY <1>1 DEF Requests
    <3>2. ~(copies[r] > 0)
      BY <2>1, <3>1 DEF OneAtATime
    <3>3. QED
      BY <2>3, <3>2
  <2>6. \A r \in Requests : \A q \in 1..(r - 1) : copies'[r] > 0 => copies'[q] > 0
    BY <2>1, <2>3, <2>4 DEF OneAtATime
  <2>7. copies'[p] > 0 /\ \A r \in Requests : r > p => copies'[r] = 0
    BY <1>1, <2>3, <2>5 DEF Requests
  <2>8. \A r \in Requests : copies'[r] = 1 /\ r # p => r \in acked
    BY <1>1, <2>1, <2>3 DEF OneAtATime, Requests
  <2>9. QED
    BY <2>1, <2>2, <2>6, <2>7, <2>8 DEF OneAtATime, Requests
<1>3. CASE Retransmit
  <2>1. waiting \in Requests /\ waiting' = waiting /\ acked' = acked
    BY <1>1, <1>3 DEF Retransmit
  <2>2. copies' = [copies EXCEPT ![waiting] = @ + 1]
    BY <1>3 DEF Retransmit, Send
  <2>3. \A r \in Requests : /\ copies[r] \in Nat
                            /\ copies'[r] = IF r = waiting THEN copies[r] + 1 ELSE copies[r]
    BY <1>1, <2>1, <2>2
  <2>4. \A r \in Requests : \A q \in 1..(r - 1) : q \in Requests /\ r \in Nat /\ q \in Nat /\ q < r
    BY <1>1 DEF Requests
  <2>5. \A r \in Requests : r < waiting \/ r = waiting \/ r > waiting
    BY <1>1, <2>1 DEF Requests
  <2>6. copies'[waiting] > 0 /\ \A r \in Requests : r > waiting => copies'[r] = 0
    BY <1>1, <2>1, <2>3 DEF OneAtATime, Requests
  <2>7. \A r \in Requests : \A q \in 1..(r - 1) : copies'[r] > 0 => copies'[q] > 0
    <3> SUFFICES ASSUME NEW r \in Requests, NEW q \in 1..(r - 1), copies'[r] > 0 PROVE copies'[q] > 0
      OBVIOUS
    <3>1. q \in Requests
      BY <2>4
    <3>2. copies[r] > 0
      BY <2>1, <2>3 DEF OneAtATime
    <3>3. copies[q] > 0
      BY <3>2 DEF OneAtATime
    <3>4. QED
      BY <2>3, <3>1, <3>3
  <2>8. \A r \in Requests : copies'[r] = 1 /\ r # waiting => r \in acked
    BY <2>3 DEF OneAtATime
  <2>9. QED
    BY <2>1, <2>6, <2>7, <2>8 DEF OneAtATime, Requests
<1>4. CASE GiveUp
  <2>1. /\ waiting # 0 /\ copies[waiting] = MaxCopies /\ waiting' = 0
        /\ UNCHANGED <<copies, acked>>
    BY <1>4 DEF GiveUp
  <2>2. QED
    BY <2>1 DEF OneAtATime, Requests
<1>5. CASE ReceiveAck
  <2>1. PICK p \in acks : /\ acked' = acked \cup {p} /\ copies' = copies
                          /\ waiting' = IF waiting = p THEN 0 ELSE waiting
    BY <1>5 DEF ReceiveAck
  <2>2. QED
    BY <2>1 DEF OneAtATime, Requests
<1>6. CASE ~Submit /\ ~Retransmit /\ ~GiveUp /\ ~ReceiveAck
  <2>1. UNCHANGED <<copies, waiting, acked>>
    BY <1>6 DEF Next, vars, AppMain, NvsInit, NvsErase, NvsAgain, RoombaInit, MainOnly,
       WifiInitSta, CreateTask, WifiRuns, EndpointTask, TaskProceeds, WaitActive, NewContext, NewContextFails,
       NewResource, SelectReady, SelectFails, FreeContext, CoapRead, TaskOnly, Dispatch, Respond,
       Client, ClientOnly, Network, DeliverRequest, LoseRequest, LoseAck, NetOnly, Restart, clientVars
  <2>2. QED
    BY <2>1 DEF OneAtATime, Requests
<1>7. QED
  BY <1>2, <1>3, <1>4, <1>5, <1>6

(* What is handled after a newer command was sent more than once: with one *)
(* copy only, it would be answered, and so done already.                   *)
LEMMA LateIsRetransmitted ==
    ASSUME CopyInv, OneAtATime, Dispatch, current \notin Gets,
           NEW i \in 1..Len(sent), current < sent[i]
    PROVE  copies[current] > 1
<1> DEFINE q == current
           r == sent[i]
<1>1. /\ q \in Requests /\ r \in Requests /\ task = "dispatch"
      /\ copies[q] > 0 /\ copies[q] \in Nat /\ waiting \in Requests \cup {0}
      /\ copies[r] > 0 /\ copies[r] \in Nat
  <2>1. sent \in Seq(Requests) /\ waiting \in Requests \cup {0}
    BY DEF CopyInv, BrainInv, BrainTypeOK
  <2>2. r \in Requests
    BY <2>1, ElementOfSeq
  <2>3. q \in Requests /\ copies[q] > 0
    BY DispatchKeepsInv DEF CopyInv
  <2>4. copies[r] > 0 /\ task = "dispatch"
    BY DEF CopyInv, BrainInv, DatagramsIssued, Dispatch, Task
  <2>5. QED
    BY <2>1, <2>2, <2>3, <2>4, CountTypes DEF CopyInv
<1>2. q # waiting
  BY <1>1, ClientAssumption DEF OneAtATime, Requests
<1>3. SUFFICES ASSUME copies[q] = 1 PROVE FALSE
  BY <1>1
<1>4. q \in acked
  BY <1>1, <1>2, <1>3 DEF OneAtATime
<1>5. PICK j \in 1..Len(sent) : sent[j] = q
  BY <1>4 DEF CopyInv, BrainInv, AnswersEarned, Answerable
<1>6. Executions(q) # {}
  BY <1>5 DEF Executions, Places
<1>7. /\ network[q] \in Nat /\ Handling(q) = 1 /\ IsFiniteSet(Executions(q))
      /\ Cardinality(Places(socket, q)) \in Nat /\ Cardinality(Executions(q)) \in Nat
  BY <1>1, CountTypes DEF CopyInv, Handling
<1>8. Cardinality(Executions(q)) # 0
  BY <1>6, <1>7, FS_EmptySet
<1>9. network[q] + Cardinality(Places(socket, q)) + Handling(q) + Cardinality(Executions(q)) <= copies[q]
  BY <1>1 DEF CopyInv, CopiesConserved
<1>10. QED
  BY <1>3, <1>7, <1>8, <1>9

LEMMA NextKeepsOrder ==
    ASSUME MaxCopies > 1, OrderInv, [Next]_vars
    PROVE  OrderInv'
<1>1. CopyInv' /\ OneAtATime'
  BY NextKeepsCopies, ClientInOrder DEF OrderInv
<1>2. sent \in Seq(Requests) /\ Len(sent) \in Nat
  BY LenProperties DEF OrderInv, CopyInv, BrainInv, BrainTypeOK
<1>3. \A k \in 1..Len(sent) : sent[k] \in Requests
  BY <1>2, ElementOfSeq
<1>4. StaleNeedsRetransmission'
  <2>1. CASE Dispatch /\ current \notin Gets
    <3> DEFINE n == Len(sent) + 1
    <3>1. sent' = Append(sent, current) /\ copies' = copies
      BY <2>1 DEF Dispatch, clientVars
    <3>2. /\ Len(sent') = n /\ sent'[n] = current
          /\ \A k \in 1..Len(sent) : sent'[k] = sent[k]
      BY <1>2, <3>1, AppendProperties, DispatchKeepsInv DEF OrderInv, CopyInv
    <3>3. \A k \in 1..Len(sent) : current < sent[k] => copies[current] > 1
      BY <2>1, LateIsRetransmitted DEF OrderInv
    <3> SUFFICES ASSUME NEW i \in 1..Len(sent'), NEW j \in 1..Len(sent'), i < j, sent'[j] < sent'[i]
                 PROVE  copies'[sent'[j]] > 1
      BY DEF StaleNeedsRetransmission
    <3>4. i \in 1..Len(sent)
      BY <1>2, <3>2
    <3>5. CASE j = n
      BY <3>1, <3>2, <3>3, <3>4, <3>5
    <3>6. CASE j # n
      <4>1. j \in 1..Len(sent)
        BY <1>2, <3>2, <3>6
      <4>2. QED
        BY <3>1, <3>2, <3>4, <4>1 DEF OrderInv, StaleNeedsRetransmission
    <3>7. QED
      BY <3>5, <3>6
  <2>2. CASE Submit \/ Retransmit
    <3>1. sent' = sent
      BY <2>2 DEF Submit, Retransmit, ClientOnly
    <3>2. waiting # 0 => waiting \in Requests
      BY DEF OrderInv, CopyInv, BrainInv, BrainTypeOK
    <3>3. PICK q \in Requests : copies' = [copies EXCEPT ![q] = @ + 1]
      BY <2>2, <3>2 DEF Submit, Retransmit, Send
    <3>4. \A r \in Requests : copies[r] \in Nat
      BY CountTypes DEF OrderInv, CopyInv
    <3>5. DOMAIN copies = Requests
      BY DEF OrderInv, CopyInv, BrainInv, BrainTypeOK
    <3>6. \A r \in Requests : copies[r] > 1 => copies'[r] > 1
      BY <3>3, <3>4, <3>5
    <3>7. QED
      BY <1>3, <3>1, <3>6 DEF OrderInv, StaleNeedsRetransmission
  <2>3. CASE ~(Dispatch /\ current \notin Gets) /\ ~Submit /\ ~Retransmit
    <3>1. UNCHANGED <<copies, sent>>
      BY <2>3 DEF Next, vars, AppMain, NvsInit, NvsErase, NvsAgain, RoombaInit, MainOnly,
         WifiInitSta, CreateTask, WifiRuns, EndpointTask, TaskProceeds, WaitActive, NewContext, NewContextFails,
         NewResource, SelectReady, SelectFails, FreeContext, CoapRead, TaskOnly, Dispatch, Respond,
         Client, GiveUp, ReceiveAck, ClientOnly, Network, DeliverRequest, LoseRequest, LoseAck, NetOnly,
         Restart, clientVars
    <3>2. QED
      BY <3>1 DEF OrderInv, StaleNeedsRetransmission
  <2>4. QED
    BY <2>1, <2>2, <2>3
<1>5. QED
  BY <1>1, <1>4 DEF OrderInv

(* An older command reaches the robot after a newer one only when the      *)
(* client sent it more than once.  It takes a client that retransmits      *)
(* before it gives up: with a single copy a late one may still overtake.   *)
THEOREM OvertakenOnlyWhenRetransmitted ==
    ASSUME MaxCopies > 1
    PROVE  Spec => []StaleNeedsRetransmission
<1>1. Init => OrderInv
  <2> SUFFICES ASSUME Init PROVE OrderInv
    OBVIOUS
  <2>1. CopyInv
    BY InitCopies
  <2>2. OneAtATime
    BY DEF Init, OneAtATime
  <2>3. StaleNeedsRetransmission
    <3>1. Len(sent) = 0
      BY EmptySeq DEF Init
    <3>2. QED
      BY <3>1 DEF StaleNeedsRetransmission
  <2>4. QED
    BY <2>1, <2>2, <2>3 DEF OrderInv
<1>2. OrderInv /\ [Next]_vars => OrderInv'
  BY NextKeepsOrder
<1>3. OrderInv => StaleNeedsRetransmission
  BY DEF OrderInv
<1>4. QED
  BY <1>1, <1>2, <1>3, PTL DEF Spec

=============================================================================
