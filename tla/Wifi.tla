-------------------------------- MODULE Wifi --------------------------------
(***************************************************************************)
(* The station's connection: event_handler() and start_wifi() of            *)
(* lib/wifi/wifi.c, with app_main as the task that waits for CONNECTED_BIT. *)
(*                                                                          *)
(* Three parties run concurrently.  The Wi-Fi driver (external) changes the *)
(* station's state and posts an event for every change.  The event task     *)
(* takes the events in order and runs event_handler on each: it is the only *)
(* one to call esp_wifi_connect and to write CONNECTED_BIT.  The main task  *)
(* starts the driver and waits for the bit once per boot.                   *)
(*                                                                          *)
(* An address is lost with the association, or alone, when the lease ends   *)
(* and is not renewed.  Either starts the IP lost timer (120 s in sdkconfig),*)
(* which posts STA_LOST_IP if it ends before there is an address again;     *)
(* event_handler ignores that event.                                        *)
(***************************************************************************)
EXTENDS Naturals, Sequences

CONSTANTS
  QueueSize,    \* CONFIG_SYSTEM_EVENT_QUEUE_SIZE: 32 in sdkconfig
  MaxOutages    \* bound: how often the access point disappears or a lease ends

ASSUME QueueSizeAssumption == QueueSize \in Nat /\ QueueSize >= 4
ASSUME OutagesAssumption == MaxOutages \in Nat

VARIABLES
  ap,         \* the access point is there
  outages,    \* how often it has disappeared or a lease ended, at most MaxOutages
  station,    \* state of the driver's station
  timer,      \* the driver's IP lost timer is running
  events,     \* the system event queue
  clearing,   \* event_handler is between esp_wifi_connect and ClearBits
  bit,        \* CONNECTED_BIT of wifi_event_group
  main        \* how far app_main has come in starting the station

wifiVars == <<ap, outages, station, timer, events, clearing, bit, main>>

(* off: not started.  idle: started, but not trying to connect.  joining:   *)
(* esp_wifi_connect is looking for the access point.  joined: associated,   *)
(* without an address yet.  online: associated, with an address.  lapsed:   *)
(* associated, but the lease of the address has ended.                      *)
Stations == {"off", "starting", "idle", "joining", "joined", "online", "lapsed"}

Events == {"STA_START", "STA_CONNECTED", "STA_GOT_IP", "STA_DISCONNECTED",
           "STA_LOST_IP"}

(* The event is somewhere in the queue. *)
Queued(event) == \E i \in 1 .. Len(events) : events[i] = event

-----------------------------------------------------------------------------
(* esp_event_send (external): a full queue drops the event; the bug leaves  *)
(* one place unused.                                                        *)
Post_Bug(event) ==
  events' = IF Len(events) < QueueSize - 1 THEN Append(events, event) ELSE events
Post(event) ==
  events' = IF Len(events) < QueueSize THEN Append(events, event) ELSE events

(* esp_wifi_connect (external): has an effect only on an idle station; the  *)
(* handler ignores its result.  The bug does not call it.                   *)
Connect_Bug == UNCHANGED station
Connect == station' = IF station = "idle" THEN "joining" ELSE station

-----------------------------------------------------------------------------
WifiInit ==
  /\ ap \in BOOLEAN
  /\ outages = 0
  /\ station = "off"
  /\ timer = FALSE
  /\ events = <<>>
  /\ clearing = FALSE
  /\ bit = FALSE
  /\ main = "boot"

(* start_wifi: esp_wifi_start. *)
StartWifi ==
  /\ main = "boot"
  /\ main' = "started"
  /\ station' = "starting"
  /\ UNCHANGED <<ap, outages, timer, events, clearing, bit>>

(* start_wifi: xEventGroupWaitBits returns at once or blocks the task; the  *)
(* bug does not call it.                                                    *)
Waiting_Bug == "running"
Waiting == IF bit THEN "running" ELSE "waiting"

WaitBits ==
  /\ main = "started"
  /\ main' = Waiting
  /\ UNCHANGED <<ap, outages, station, timer, events, clearing, bit>>

MainTask == StartWifi \/ WaitBits

-----------------------------------------------------------------------------
(* event_handler, SYSTEM_EVENT_STA_START. *)
HandleStart ==
  /\ ~ clearing
  /\ events # <<>> /\ Head(events) = "STA_START"
  /\ events' = Tail(events)
  /\ Connect
  /\ UNCHANGED <<ap, outages, timer, clearing, bit, main>>

(* event_handler, SYSTEM_EVENT_STA_GOT_IP.  Setting the bit releases a task *)
(* that waits for it, even if the bit is cleared before that task runs.     *)
HandleGotIp ==
  /\ ~ clearing
  /\ events # <<>> /\ Head(events) = "STA_GOT_IP"
  /\ events' = Tail(events)
  /\ bit' = TRUE
  /\ main' = IF main = "waiting" THEN "running" ELSE main
  /\ UNCHANGED <<ap, outages, station, timer, clearing>>

(* event_handler, SYSTEM_EVENT_STA_DISCONNECTED: first esp_wifi_connect ... *)
HandleDisconnected ==
  /\ ~ clearing
  /\ events # <<>> /\ Head(events) = "STA_DISCONNECTED"
  /\ events' = Tail(events)
  /\ Connect
  /\ clearing' = TRUE
  /\ UNCHANGED <<ap, outages, timer, bit, main>>

(* ... then xEventGroupClearBits; the driver may already be connecting. The  *)
(* bug leaves the bit set.                                                  *)
Cleared_Bug == bit
Cleared == FALSE

ClearBit ==
  /\ clearing
  /\ clearing' = FALSE
  /\ bit' = Cleared
  /\ UNCHANGED <<ap, outages, station, timer, events, main>>

(* event_handler, every other event: a lost address is ignored. *)
HandleOther ==
  /\ ~ clearing
  /\ events # <<>> /\ Head(events) \in {"STA_CONNECTED", "STA_LOST_IP"}
  /\ events' = Tail(events)
  /\ UNCHANGED <<ap, outages, station, timer, clearing, bit, main>>

EventTask ==
  \/ HandleStart \/ HandleGotIp \/ HandleDisconnected \/ ClearBit \/ HandleOther

-----------------------------------------------------------------------------
(* The driver (external).  It posts an event for what it does. *)
Started ==
  /\ station = "starting"
  /\ station' = "idle"
  /\ Post("STA_START")
  /\ UNCHANGED <<ap, outages, timer, clearing, bit, main>>

Associate ==
  /\ station = "joining" /\ ap
  /\ station' = "joined"
  /\ Post("STA_CONNECTED")
  /\ UNCHANGED <<ap, outages, timer, clearing, bit, main>>

(* Failing to associate and losing the association post the same event; an  *)
(* address that was held starts the timer.                                  *)
Lose ==
  /\ station \in {"joining", "joined", "online", "lapsed"} /\ ~ ap
  /\ station' = "idle"
  /\ timer' = (timer \/ station = "online")
  /\ Post("STA_DISCONNECTED")
  /\ UNCHANGED <<ap, outages, clearing, bit, main>>

GetLease ==
  /\ station \in {"joined", "lapsed"} /\ ap
  /\ station' = "online"
  /\ Post("STA_GOT_IP")
  /\ UNCHANGED <<ap, outages, timer, clearing, bit, main>>

(* After a lease has ended, the same address again is no news: no event. *)
KeepAddress ==
  /\ station = "lapsed" /\ ap
  /\ station' = "online"
  /\ UNCHANGED <<ap, outages, timer, events, clearing, bit, main>>

(* The IP lost timer ends; 120 s are enough to handle the event of the time *)
(* before.                                                                  *)
TimerEnds ==
  /\ timer /\ ~ Queued("STA_LOST_IP")
  /\ timer' = FALSE
  /\ IF station = "online" THEN UNCHANGED events ELSE Post("STA_LOST_IP")
  /\ UNCHANGED <<ap, outages, station, clearing, bit, main>>

Driver ==
  \/ Started \/ Associate \/ Lose \/ GetLease \/ KeepAddress \/ TimerEnds

(* The access point disappears, is out of reach, or refuses the station. *)
ApLeaves ==
  /\ ap
  /\ outages < MaxOutages
  /\ ap' = FALSE
  /\ outages' = outages + 1
  /\ UNCHANGED <<station, timer, events, clearing, bit, main>>

(* It is back. *)
ApReturns ==
  /\ ~ ap
  /\ ap' = TRUE
  /\ UNCHANGED <<outages, station, timer, events, clearing, bit, main>>

(* The lease ends without having been renewed, long after event_handler has *)
(* seen it begin.  No event says so until the timer ends.                   *)
LoseLease ==
  /\ station = "online" /\ ~ Queued("STA_GOT_IP")
  /\ outages < MaxOutages
  /\ station' = "lapsed"
  /\ timer' = TRUE
  /\ outages' = outages + 1
  /\ UNCHANGED <<ap, events, clearing, bit, main>>

Outage == ApLeaves \/ LoseLease

WifiNext == MainTask \/ EventTask \/ Driver \/ Outage \/ ApReturns

Spec == WifiInit /\ [][WifiNext]_wifiVars

(* The tasks are scheduled, the driver keeps trying, and the access point   *)
(* comes back.                                                              *)
Fairness ==
  /\ WF_wifiVars(MainTask)
  /\ WF_wifiVars(EventTask)
  /\ WF_wifiVars(Driver)
  /\ WF_wifiVars(ApReturns)

FairSpec == Spec /\ Fairness

-----------------------------------------------------------------------------
(* Every variable stays in its domain. *)
WifiTypeOK ==
  /\ ap \in BOOLEAN
  /\ outages \in 0 .. MaxOutages
  /\ station \in Stations
  /\ timer \in BOOLEAN
  /\ events \in Seq(Events)
  /\ clearing \in BOOLEAN
  /\ bit \in BOOLEAN
  /\ main \in {"boot", "started", "waiting", "running"}

(* The driver never sits idle for good: the event that will make            *)
(* event_handler call esp_wifi_connect is in the queue, with whatever else  *)
(* is there.                                                                *)
NeverStranded ==
  station = "idle" => Queued("STA_START") \/ Queued("STA_DISCONNECTED")

(* CONNECTED_BIT answers "are we connected to the AP with an IP?" wrongly   *)
(* only while the event that corrects it is queued or being handled, or     *)
(* while the station is associated but its lease has ended: STA_LOST_IP     *)
(* corrects nothing, only a new lease or the loss of the access point does. *)
BitExplained ==
  /\ bit /\ station \notin {"online", "lapsed"} =>
       clearing \/ Queued("STA_DISCONNECTED")
  /\ ~ bit /\ station = "online" => Queued("STA_GOT_IP")
  /\ station = "lapsed" => bit /\ ~ Queued("STA_DISCONNECTED")

(* Once every event is handled, and no more is to come of a lost address,   *)
(* CONNECTED_BIT is the answer to "are we connected to the AP with an IP?"  *)
(* (wifi.c:15-17).  The code breaks it: it ignores STA_LOST_IP.             *)
BitAnswers ==
  events = <<>> /\ ~ clearing /\ ~ timer => (bit <=> station = "online")

(* The driver's steps that post an event. *)
Posting ==
  \/ Started \/ Associate \/ Lose \/ GetLease
  \/ TimerEnds /\ station # "online"

(* No event is lost to a full queue, however slow event_handler is: each    *)
(* connection waits for the events of the one before.                       *)
NoEventDropped == [][Posting => Len(events') = Len(events) + 1]_wifiVars

(* The events of one connection are queued in order, those of two never at  *)
(* the same time; STA_LOST_IP may stand anywhere among them, once.          *)
Precedes(e, f) ==
  <<e, f>> \in
    {<<"STA_CONNECTED", "STA_GOT_IP">>, <<"STA_CONNECTED", "STA_DISCONNECTED">>,
     <<"STA_GOT_IP", "STA_DISCONNECTED">>,
     <<"STA_CONNECTED", "STA_LOST_IP">>, <<"STA_LOST_IP", "STA_CONNECTED">>,
     <<"STA_GOT_IP", "STA_LOST_IP">>, <<"STA_LOST_IP", "STA_GOT_IP">>,
     <<"STA_DISCONNECTED", "STA_LOST_IP">>, <<"STA_LOST_IP", "STA_DISCONNECTED">>}

Ordered ==
  \A i, j \in 1 .. Len(events) : i < j => Precedes(events[i], events[j])

(* What the queue can hold in each state of the station. *)
OnlyQueued(S) == \A i \in 1 .. Len(events) : events[i] \in S

Pending ==
  /\ station \in {"off", "starting"} => events = <<>>
  /\ station \in {"joining", "lapsed"} => OnlyQueued({"STA_LOST_IP"})
  /\ station = "joined" => OnlyQueued({"STA_CONNECTED", "STA_LOST_IP"})
  /\ station = "online" =>
       IF Queued("STA_GOT_IP")
       THEN OnlyQueued({"STA_CONNECTED", "STA_GOT_IP", "STA_LOST_IP"})
       ELSE OnlyQueued({"STA_LOST_IP"})
  /\ station = "idle" =>
       \/ events = <<"STA_START">> /\ ~ timer
       \/ /\ Queued("STA_DISCONNECTED")
          /\ OnlyQueued({"STA_CONNECTED", "STA_GOT_IP", "STA_LOST_IP",
                         "STA_DISCONNECTED"})

(* The inductive invariant: the queue's contents, and when the bit is set. *)
WifiIInv ==
  /\ WifiTypeOK
  /\ Ordered
  /\ Pending
  /\ main = "boot" <=> station = "off"
  /\ station \in {"off", "starting"} => ~ timer
  /\ bit => \/ clearing
            \/ station \in {"online", "lapsed"}
            \/ station = "idle" /\ Queued("STA_DISCONNECTED")
  /\ station = "online" /\ ~ Queued("STA_GOT_IP") => bit /\ ~ clearing
  /\ station = "lapsed" => bit /\ ~ clearing

(* start_wifi returns, once the access point stays long enough for an       *)
(* address, and for the outages before that.                                *)
StartReturns == (main = "boot") ~> (main = "running")

(* When the outages are over, those of the access point and those of the    *)
(* lease, the station gets back online by itself and CONNECTED_BIT says so. *)
Reconnects == <>[](station = "online" /\ bit)

=============================================================================
