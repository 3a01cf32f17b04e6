------------------------ MODULE WifiStation_proofs -------------------------
(***************************************************************************)
(* Proofs about WifiStation, for every queue length, whether or not        *)
(* esp_wifi_connect can fail and however often the chip restarts.  WifiInv *)
(* is inductive: it ties the state of the station to what is still in the  *)
(* event queue, and names who owes the bit its next change.                *)
(***************************************************************************)
EXTENDS WifiStation, SequenceTheorems, TLAPS

USE QueueAssumption, ConnectAssumption, RestartAssumption

(* What Post leaves in a queue that has room, as it always has.            *)
LEMMA PostAppends ==
    ASSUME NEW e \in Event, events \in Seq(Event), Len(events) <= 2, Post(e)
    PROVE  /\ events' = Append(events, e)
           /\ events' \in Seq(Event)
           /\ Len(events') = Len(events) + 1
           /\ events'[Len(events')] = e
           /\ \A i \in 1..Len(events) : events'[i] = events[i]
<1>1. events' = Append(events, e)
  BY DEF Post
<1>2. QED
  BY <1>1

(* What the handler finds and what it leaves behind.                       *)
LEMMA ReceiveTakesHead ==
    ASSUME NEW e \in Event, events \in Seq(Event), Receive(e)
    PROVE  /\ handler = "idle"
           /\ Len(events) >= 1
           /\ events[1] = e
           /\ events' \in Seq(Event)
           /\ Len(events') = Len(events) - 1
           /\ \A i \in 1..Len(events') : events'[i] = events[i + 1]
           /\ events' = <<>> <=> Len(events) = 1
<1>1. events # <<>> /\ events[1] = e /\ events' = Tail(events) /\ handler = "idle"
  BY DEF Receive
<1>2. events' \in Seq(Event) /\ Len(events') = Len(events) - 1
  BY <1>1, HeadTailProperties
<1>3. \A i \in 1..Len(events') : events'[i] = events[i + 1]
  BY <1>1, HeadTailProperties
<1>4. events' = <<>> <=> Len(events') = 0
  <2>1. ASSUME events' = <<>> PROVE Len(events') = 0
    BY <2>1
  <2>2. ASSUME Len(events') = 0 PROVE events' = <<>>
    BY <1>2, <2>2, EmptySeq
  <2>3. QED
    BY <2>1, <2>2
<1>5. Len(events) >= 1
  BY <1>1
<1>6. QED
  BY <1>1, <1>2, <1>3, <1>4, <1>5

(* The state the chip starts, and restarts, in.                            *)
LEMMA InitInv == WifiInit => WifiInv
<1> SUFFICES ASSUME WifiInit PROVE WifiInv
  OBVIOUS
<1>1. events \in Seq(Event) /\ Len(events) = 0
  BY DEF WifiInit
<1>2. WifiTypeOK
  <2>1. bit \in BOOLEAN /\ restarts = 0
    BY DEF WifiInit
  <2>2. boot \in BootStep /\ station \in Station /\ handler \in {"idle", "clearing"}
    BY DEF WifiInit, BootStep, Station
  <2>3. restarts \in 0..MaxRestarts
    BY <2>1
  <2>4. QED
    BY <1>1, <2>1, <2>2, <2>3 DEF WifiTypeOK
<1>3. NotStarted /\ TriggerLast /\ BitOwed
  BY DEF WifiInit, NotStarted, TriggerLast, BitOwed
<1>4. QueueShape
  BY <1>1 DEF WifiInit, QueueShape, Room
<1>5. QED
  BY <1>2, <1>3, <1>4 DEF WifiInv

LEMMA RestartKeepsInv == WifiInv /\ WifiRestart => WifiInv'
<1> SUFFICES ASSUME WifiInv, WifiRestart PROVE WifiInv'
  OBVIOUS
<1>1. events' \in Seq(Event) /\ Len(events') = 0
  BY DEF WifiRestart
<1>2. restarts' \in 0..MaxRestarts
  BY DEF WifiRestart, WifiInv, WifiTypeOK
<1>3. WifiTypeOK'
  BY <1>1, <1>2 DEF WifiRestart, WifiTypeOK, BootStep, Station
<1>4. NotStarted' /\ TriggerLast' /\ BitOwed'
  BY DEF WifiRestart, NotStarted, TriggerLast, BitOwed
<1>5. QueueShape'
  BY <1>1 DEF WifiRestart, QueueShape, Room
<1>6. QED
  BY <1>3, <1>4, <1>5 DEF WifiInv

LEMMA BootKeepsInv == WifiInv /\ BootNext => WifiInv'
<1> SUFFICES ASSUME WifiInv, BootNext
             PROVE  WifiInv'
  OBVIOUS
<1> USE DEF WifiInv, WifiTypeOK, NotStarted, QueueShape, TriggerLast, BitOwed,
            Room, BootStep, Station, Event, Trigger
<1>1. CASE CreateGroup
  BY <1>1 DEF CreateGroup
<1>2. CASE InitEventLoop
  BY <1>2 DEF InitEventLoop
<1>3. CASE StartWifi
  <2>1. events = <<>> /\ station = "stopped"
    BY <1>3 DEF StartWifi
  <2>2. events' = <<"START">>
    BY <1>3, <2>1, PostAppends DEF StartWifi, Post
  <2>3. QED
    BY <1>3, <2>1, <2>2 DEF StartWifi
<1>4. QED
  BY <1>1, <1>2, <1>3 DEF BootNext

LEMMA DriverKeepsInv == WifiInv /\ DriverNext => WifiInv'
<1> SUFFICES ASSUME WifiInv, DriverNext
             PROVE  WifiInv'
  OBVIOUS
<1> USE DEF WifiInv, WifiTypeOK, NotStarted, QueueShape, TriggerLast, BitOwed,
            Room, BootStep, Station, Event, Trigger
<1>1. CASE Associate
  BY <1>1, PostAppends DEF Associate
<1>2. CASE ConnectFails
  BY <1>2, PostAppends DEF ConnectFails
<1>3. CASE ObtainIp
  BY <1>3, PostAppends DEF ObtainIp
<1>4. CASE LinkLost
  BY <1>4, PostAppends DEF LinkLost
<1>5. CASE LeaseLost
  <2>1. Len(events) = 0 /\ station = "online"
    BY <1>5 DEF LeaseLost
  <2>2. events' \in Seq(Event) /\ Len(events') = 1 /\ events'[1] = "LOST_IP"
    BY <1>5, <2>1, PostAppends DEF LeaseLost
  <2>3. /\ station' = "associated" /\ boot' = boot /\ handler' = handler
        /\ bit' = bit /\ restarts' = restarts
    BY <1>5 DEF LeaseLost
  <2>4. QED
    BY <2>1, <2>2, <2>3
<1>6. QED
  BY <1>1, <1>2, <1>3, <1>4, <1>5 DEF DriverNext

LEMMA EventLoopKeepsInv == WifiInv /\ EventLoop => WifiInv'
<1> SUFFICES ASSUME WifiInv, EventLoop
             PROVE  WifiInv'
  OBVIOUS
<1> USE DEF WifiInv, WifiTypeOK, NotStarted, QueueShape, TriggerLast, BitOwed,
            Room, BootStep, Station, Event, Trigger
<1>1. CASE OnStart
  BY <1>1, ReceiveTakesHead DEF OnStart, Connect
<1>2. CASE OnGotIp
  BY <1>2, ReceiveTakesHead DEF OnGotIp
<1>3. CASE OnDisconnected
  BY <1>3, ReceiveTakesHead DEF OnDisconnected, Connect
<1>4. CASE ClearBit
  BY <1>4 DEF ClearBit
<1>5. CASE OnUnhandled
  <2>1. PICK e \in Event \ {"START", "GOT_IP", "DISCONNECTED"} : Receive(e)
    BY <1>5 DEF OnUnhandled
  <2>2. /\ Len(events) >= 1 /\ events[1] = e
        /\ events' \in Seq(Event) /\ Len(events') = Len(events) - 1
        /\ \A i \in 1..Len(events') : events'[i] = events[i + 1]
        /\ events' = <<>> <=> Len(events) = 1
    BY <2>1, ReceiveTakesHead
  <2>3. QED
    BY <1>5, <2>1, <2>2 DEF OnUnhandled
<1>6. QED
  BY <1>1, <1>2, <1>3, <1>4, <1>5 DEF EventLoop

(* The inductive invariant holds in every reachable state of wifi.c.       *)
THEOREM WifiInvariant == WifiSpec => []WifiInv
<1>1. WifiInv /\ [WifiNext]_wifiVars => WifiInv'
  <2>1. WifiInv /\ UNCHANGED wifiVars => WifiInv'
    BY DEF WifiInv, WifiTypeOK, NotStarted, QueueShape, TriggerLast, BitOwed, wifiVars
  <2>2. QED
    BY <2>1, BootKeepsInv, RestartKeepsInv, DriverKeepsInv, EventLoopKeepsInv DEF WifiNext
<1>2. QED
  BY InitInv, <1>1, PTL DEF WifiSpec

(* The variables of wifi.c keep their types.                               *)
THEOREM WifiTypeCorrect == WifiSpec => []WifiTypeOK
<1>1. WifiInv => WifiTypeOK
  BY DEF WifiInv
<1>2. QED
  BY <1>1, WifiInvariant, PTL

(* Whenever the event loop is quiet, the bit agrees with the link.         *)
THEOREM BitAlwaysSettles == WifiSpec => []BitSettles
<1>1. WifiInv => BitSettles
  BY DEF WifiInv, WifiTypeOK, BitOwed, BitSettles, Quiet
<1>2. QED
  BY <1>1, WifiInvariant, PTL

(* Three queue slots are enough: the driver never has to drop an event.    *)
THEOREM NoEventEverLost == WifiSpec => []NoEventLost
<1>1. WifiInv => NoEventLost
  BY DEF WifiInv, WifiTypeOK, QueueShape, NoEventLost, Room, Station
<1>2. QED
  BY <1>1, WifiInvariant, PTL

(* esp_wifi_connect is only ever called for an idle station.               *)
THEOREM AlwaysConnectsFromIdle == WifiSpec => []ConnectsFromIdle
<1>1. WifiInv => ConnectsFromIdle
  <2> SUFFICES ASSUME WifiInv, Len(events) > 0, Head(events) \in Trigger
               PROVE  station = "idle"
    BY DEF ConnectsFromIdle
  <2>1. Head(events) = events[1] /\ 1 \in 1..Len(events)
    BY DEF WifiInv, WifiTypeOK
  <2>2. QED
    BY <2>1 DEF WifiInv, QueueShape
<1>2. QED
  BY <1>1, WifiInvariant, PTL

(* If esp_wifi_connect never refuses, a station without a link always has  *)
(* the event that makes wifi.c connect again on its way.                   *)
THEOREM RetryAlwaysPending == WifiSpec => []RetryPending
<1>1. WifiInv => RetryPending
  <2> SUFFICES ASSUME WifiInv, ~ConnectMayFail, station = "idle"
               PROVE  \E i \in 1..Len(events) : events[i] \in Trigger
    BY DEF RetryPending
  <2>1. events # <<>> /\ events[Len(events)] \in Trigger
    BY DEF WifiInv, TriggerLast
  <2>2. Len(events) \in 1..Len(events)
    BY <2>1 DEF WifiInv, WifiTypeOK
  <2>3. QED
    BY <2>1, <2>2
<1>2. QED
  BY <1>1, WifiInvariant, PTL
=============================================================================
