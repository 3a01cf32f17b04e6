---------------------------- MODULE WifiStation ----------------------------
(***************************************************************************)
(* The Wi-Fi side of RoombaBrain, main/wifi.c: the boot steps of           *)
(* wifi_init_sta, the driver and access point as wifi.c sees them (the     *)
(* variable station), the event loop that calls wifi_event_handler (events *)
(* and handler), and WIFI_CONNECTED_BIT, on which wifi_wait_active waits.  *)
(*                                                                         *)
(* The driver posts events; the event loop hands them one at a time to     *)
(* wifi_event_handler, which answers START and DISCONNECTED with           *)
(* esp_wifi_connect.  The DISCONNECTED case connects first and clears the  *)
(* bit afterwards: the driver can associate and post GOT_IP in between.    *)
(***************************************************************************)
EXTENDS Naturals, Sequences

CONSTANTS
    QueueLen,       \* slots of the system event queue
    ConnectMayFail, \* whether esp_wifi_connect may refuse to start connecting
    MaxRestarts     \* bound on the restarts of the chip

(* An event is lost when the queue is full; three slots are enough.        *)
ASSUME QueueAssumption == QueueLen \in Nat /\ QueueLen >= 3
ASSUME ConnectAssumption == ConnectMayFail \in BOOLEAN
ASSUME RestartAssumption == MaxRestarts \in Nat

VARIABLES
    boot,     \* the next step of wifi_init_sta
    station,  \* what the driver and the access point are doing
    events,   \* the system event queue
    handler,  \* where wifi_event_handler is
    bit,      \* WIFI_CONNECTED_BIT
    restarts  \* how often the chip has restarted

wifiVars == <<boot, station, events, handler, bit, restarts>>

BootStep == {"create_group", "event_loop", "start", "done"}
Station  == {"stopped", "idle", "connecting", "associated", "online"}
Event    == {"START", "CONNECTED", "GOT_IP", "LOST_IP", "DISCONNECTED"}
Trigger  == {"START", "DISCONNECTED"}

WifiTypeOK ==
    /\ boot \in BootStep
    /\ station \in Station
    /\ events \in Seq(Event)
    /\ handler \in {"idle", "clearing"}
    /\ bit \in BOOLEAN
    /\ restarts \in 0..MaxRestarts

WifiInit ==
    /\ boot = "create_group"
    /\ station = "stopped"
    /\ events = <<>>
    /\ handler = "idle"
    /\ bit = FALSE
    /\ restarts = 0

----------------------------------------------------------------------------
(* The driver posts without waiting: an event that finds no slot is lost.  *)
Post(e) == events' = IF Len(events) < QueueLen THEN Append(events, e) ELSE events

(* esp_wifi_connect: starts to connect an idle station and does nothing in *)
(* any other state.  Its result is ignored by the handler.                 *)
Connect ==
    \/ /\ station = "idle"
       /\ station' = "connecting"
    \/ /\ station # "idle" \/ ConnectMayFail
       /\ UNCHANGED station

----------------------------------------------------------------------------
(* wifi_init_sta, one step for each thing another task could see.          *)
CreateGroup ==
    /\ boot = "create_group"
    /\ boot' = "event_loop"
    /\ UNCHANGED <<station, events, handler, bit, restarts>>

InitEventLoop ==
    /\ boot = "event_loop"
    /\ boot' = "start"
    /\ UNCHANGED <<station, events, handler, bit, restarts>>

\* Mutant: wifi_init_sta connects, too.
StartWifiConnects ==
    /\ boot = "start"
    /\ boot' = "done"
    /\ station' = "connecting"
    /\ Post("START")
    /\ UNCHANGED <<handler, bit, restarts>>

StartWifi ==
    /\ boot = "start"
    /\ boot' = "done"
    /\ station' = "idle"
    /\ Post("START")
    /\ UNCHANGED <<handler, bit, restarts>>

(* A failed ESP_ERROR_CHECK aborts and the chip starts over; so it does on *)
(* a panic, a brownout or a reset, at any time.  wifi.c keeps nothing.     *)
WifiRestart ==
    /\ restarts < MaxRestarts
    /\ restarts' = restarts + 1
    /\ boot' = "create_group"
    /\ station' = "stopped"
    /\ events' = <<>>
    /\ handler' = "idle"
    /\ bit' = FALSE

----------------------------------------------------------------------------
(* The driver and the access point.                                        *)
Associate ==
    /\ station = "connecting"
    /\ station' = "associated"
    /\ Post("CONNECTED")
    /\ UNCHANGED <<boot, handler, bit, restarts>>

ConnectFails ==
    /\ station = "connecting"
    /\ station' = "idle"
    /\ Post("DISCONNECTED")
    /\ UNCHANGED <<boot, handler, bit, restarts>>

ObtainIp ==
    /\ station = "associated"
    /\ station' = "online"
    /\ Post("GOT_IP")
    /\ UNCHANGED <<boot, handler, bit, restarts>>

LinkLost ==
    /\ station \in {"associated", "online"}
    /\ station' = "idle"
    /\ Post("DISCONNECTED")
    /\ UNCHANGED <<boot, handler, bit, restarts>>

(* The lost-IP timer of the driver runs for minutes: the event loop has    *)
(* long drained its queue when it fires (the bound of this action).        *)
LeaseLost ==
    /\ station = "online"
    /\ events = <<>>
    /\ handler = "idle"
    /\ station' = "associated"
    /\ Post("LOST_IP")
    /\ UNCHANGED <<boot, handler, bit, restarts>>

----------------------------------------------------------------------------
\* Mutant: a task of its own clears the bit, and the event loop goes on.
ReceiveAnytime(e) ==
    /\ events # <<>>
    /\ Head(events) = e
    /\ events' = Tail(events)

(* wifi_event_handler, called by the event loop for one event at a time.   *)
Receive(e) ==
    /\ handler = "idle"
    /\ events # <<>>
    /\ Head(events) = e
    /\ events' = Tail(events)

OnStart ==
    /\ Receive("START")
    /\ Connect
    /\ UNCHANGED <<boot, handler, bit, restarts>>

\* Mutant: the handler blocks in the GOT_IP case.
OnGotIpBlocks ==
    /\ Receive("GOT_IP")
    /\ bit' = TRUE
    /\ handler' = "setting"
    /\ UNCHANGED <<boot, station, restarts>>

OnGotIp ==
    /\ Receive("GOT_IP")
    /\ bit' = TRUE
    /\ UNCHANGED <<boot, station, handler, restarts>>

\* Mutants: the bit is not cleared; the station does not connect again.
OnDisconnectedNoClear ==
    /\ Receive("DISCONNECTED")
    /\ Connect
    /\ UNCHANGED <<boot, handler, bit, restarts>>

OnDisconnectedNoConnect ==
    /\ Receive("DISCONNECTED")
    /\ handler' = "clearing"
    /\ UNCHANGED <<boot, station, bit, restarts>>

(* SYSTEM_EVENT_STA_DISCONNECTED: esp_wifi_connect, then, while the driver *)
(* is already at work, xEventGroupClearBits.                               *)
OnDisconnected ==
    /\ Receive("DISCONNECTED")
    /\ Connect
    /\ handler' = "clearing"
    /\ UNCHANGED <<boot, bit, restarts>>

ClearBit ==
    /\ handler = "clearing"
    /\ handler' = "idle"
    /\ bit' = FALSE
    /\ UNCHANGED <<boot, station, events, restarts>>

(* The default case logs: LOST_IP leaves the bit as it is.                 *)
OnUnhandled ==
    /\ \E e \in Event \ {"START", "GOT_IP", "DISCONNECTED"} : Receive(e)
    /\ UNCHANGED <<boot, station, handler, bit, restarts>>

----------------------------------------------------------------------------
BootNext   == CreateGroup \/ InitEventLoop \/ StartWifi
DriverNext == Associate \/ ConnectFails \/ ObtainIp \/ LinkLost \/ LeaseLost
EventLoop  == OnStart \/ OnGotIp \/ OnDisconnected \/ ClearBit \/ OnUnhandled

WifiNext == BootNext \/ DriverNext \/ EventLoop \/ WifiRestart

WifiSpec == WifiInit /\ [][WifiNext]_wifiVars

(* app_main and the event loop keep running, and an access point that is   *)
(* tried again and again accepts and hands out an address in the end.      *)
WifiFairness ==
    /\ WF_wifiVars(BootNext)
    /\ WF_wifiVars(EventLoop)
    /\ SF_wifiVars(Associate)
    /\ SF_wifiVars(ObtainIp)

WifiLiveSpec == WifiSpec /\ WifiFairness

----------------------------------------------------------------------------
(* Properties.                                                             *)

(* Quiet: the event loop has nothing left to do.                           *)
Quiet == events = <<>> /\ handler = "idle"

(* Once the event loop is quiet the bit tells the truth: a station with an *)
(* address has it set, a station without a link has it clear, although     *)
(* wifi.c:28-32 clears the bit after the driver may have reconnected.      *)
BitSettles ==
    Quiet => /\ station = "online" => bit
             /\ station \in {"stopped", "idle", "connecting"} => ~bit

(* The event queue never overflows: whatever the driver does, the posted   *)
(* events of one connection attempt fit in three slots, because the        *)
(* handler has seen the last trigger before the next attempt starts.       *)
NoEventLost == Len(events) <= 3

(* esp_wifi_connect is only called for a station that is idle, so ignoring *)
(* its result (wifi.c:22 and :30) never hides an "already connected".      *)
ConnectsFromIdle ==
    (Len(events) > 0 /\ Head(events) \in Trigger) => station = "idle"

(* When esp_wifi_connect does not fail, a started station without a link   *)
(* always has the event that makes wifi.c try again on its way: there is   *)
(* no timer in wifi.c that would save a forgotten retry.                   *)
RetryPending ==
    (~ConnectMayFail /\ station = "idle") =>
        \E i \in 1..Len(events) : events[i] \in Trigger

(* The task waiting in wifi_wait_active is released again and again.       *)
Reconnects == []<>bit

(* A link that stays up is announced for good: no late clearing of the bit *)
(* for an earlier loss of the link takes it back.                          *)
LinkAnnounced == <>[](station = "online") => <>[]bit

----------------------------------------------------------------------------
(* The inductive invariant behind the safety properties.                   *)

(* How much of the queue a connection attempt can have filled so far.      *)
Room(s) == CASE s = "online"     -> 2
             [] s = "associated" -> 1
             [] s = "idle"       -> 3
             [] OTHER            -> 0

QueueShape ==
    /\ Len(events) <= Room(station)
    /\ \A i \in 1..Len(events) :
          events[i] \in Trigger => i = Len(events) /\ station = "idle"
    /\ \A i \in 1..Len(events) : events[i] = "START" => Len(events) = 1

(* A station that dropped its link ends its events with the trigger.       *)
TriggerLast ==
    station = "idle" =>
        IF events = <<>> THEN ConnectMayFail ELSE events[Len(events)] \in Trigger

(* Who still has to set the bit, and who still has to clear it.            *)
BitOwed ==
    /\ station = "online" =>
          \/ \E i \in 1..Len(events) : events[i] = "GOT_IP"
          \/ handler = "idle" /\ bit
    /\ station \in {"stopped", "idle", "connecting"} =>
          \/ Len(events) > 0 /\ events[Len(events)] = "DISCONNECTED"
          \/ handler = "clearing"
          \/ ~bit

NotStarted == boot # "done" <=> station = "stopped"

WifiInv == WifiTypeOK /\ NotStarted /\ QueueShape /\ TriggerLast /\ BitOwed
=============================================================================
