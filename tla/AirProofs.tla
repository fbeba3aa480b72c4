----------------------------- MODULE AirProofs -----------------------------
(***************************************************************************)
(* Proofs about the connection and the program on top of it.                *)
(*                                                                          *)
(* First module Wifi, for every queue of at least four events and any       *)
(* number of outages: WifiIInv says what the queue can hold in each state   *)
(* of the station, one connection's events, in order, never those of two    *)
(* connections, and STA_LOST_IP at most once among them.  Then module AirMonitor, for any number of cycles,      *)
(* sockets, outages and failures: AirIInv joins WifiIInv with what app_main *)
(* knows at each step.                                                      *)
(***************************************************************************)
EXTENDS AirMonitor, SequenceTheorems, TLAPS

(* What event_handler leaves in the queue when it takes the first event. *)
LEMMA Taken ==
  ASSUME events \in Seq(Events), Ordered, events # <<>>, events' = Tail(events)
  PROVE  /\ events' \in Seq(Events)
         /\ Ordered'
         /\ \A S : OnlyQueued(S) => OnlyQueued(S)'
         /\ \A e : Queued(e) /\ e # Head(events) => Queued(e)'
         /\ \A e : Queued(e)' => Queued(e)
         /\ Queued(Head(events))
         /\ \A i \in 1 .. Len(events') : Precedes(Head(events), events'[i])
<1> DEFINE n == Len(events)
<1>1. n \in Nat \ {0} /\ Head(events) = events[1]
  OBVIOUS
<1>2. /\ events' \in Seq(Events) /\ Len(events') = n - 1
      /\ \A i \in 1 .. n - 1 : events'[i] = events[i + 1]
  OBVIOUS
<1>3. Ordered'
  BY <1>1, <1>2 DEF Ordered
<1>4. \A S : OnlyQueued(S) => OnlyQueued(S)'
  BY <1>1, <1>2 DEF OnlyQueued
<1>5. ASSUME NEW e, Queued(e), e # Head(events) PROVE Queued(e)'
  <2>1. PICK i \in 1 .. n : events[i] = e
    BY <1>5 DEF Queued
  <2>2. i - 1 \in 1 .. n - 1 /\ events'[i - 1] = e
    BY <1>1, <1>2, <1>5, <2>1
  <2> QED
    BY <1>2, <2>2 DEF Queued
<1>6. ASSUME NEW e, Queued(e)' PROVE Queued(e)
  <2>1. PICK i \in 1 .. n - 1 : events'[i] = e
    BY <1>2, <1>6 DEF Queued
  <2>2. i + 1 \in 1 .. n /\ events[i + 1] = e
    BY <1>1, <1>2, <2>1
  <2> QED
    BY <2>2 DEF Queued
<1>7. Queued(Head(events))
  BY <1>1 DEF Queued
<1>8. \A i \in 1 .. Len(events') : Precedes(Head(events), events'[i])
  BY <1>1, <1>2 DEF Ordered
<1> QED
  BY <1>2, <1>3, <1>4, <1>5, <1>6, <1>7, <1>8

(* What esp_event_send leaves in a queue with room, when the event may      *)
(* follow every event there is.                                             *)
LEMMA Posted ==
  ASSUME events \in Seq(Events), Ordered, Len(events) < QueueSize,
         NEW e \in Events, Post(e),
         \A i \in 1 .. Len(events) : Precedes(events[i], e)
  PROVE  /\ events' \in Seq(Events)
         /\ Len(events') = Len(events) + 1
         /\ Ordered'
         /\ Queued(e)'
         /\ \A f : Queued(f) => Queued(f)'
         /\ \A f : Queued(f)' => f = e \/ Queued(f)
         /\ \A S : OnlyQueued(S) /\ e \in S => OnlyQueued(S)'
<1> DEFINE n == Len(events)
<1>1. events' = Append(events, e) /\ n \in Nat
  BY DEF Post
<1>2. /\ events' \in Seq(Events) /\ Len(events') = n + 1
      /\ \A i \in 1 .. n : events'[i] = events[i]
      /\ events'[n + 1] = e
  BY <1>1
<1>3. \A i \in 1 .. n + 1 : i \in 1 .. n \/ i = n + 1
  BY <1>1
<1>4. Ordered'
  BY <1>1, <1>2, <1>3 DEF Ordered
<1>5. Queued(e)'
  BY <1>1, <1>2 DEF Queued
<1>6. ASSUME NEW f, Queued(f) PROVE Queued(f)'
  BY <1>1, <1>2, <1>6 DEF Queued
<1>7. ASSUME NEW f, Queued(f)' PROVE f = e \/ Queued(f)
  BY <1>1, <1>2, <1>3, <1>7 DEF Queued
<1>8. ASSUME NEW S, OnlyQueued(S), e \in S PROVE OnlyQueued(S)'
  BY <1>1, <1>2, <1>3, <1>8 DEF OnlyQueued
<1> QED
  BY <1>2, <1>4, <1>5, <1>6, <1>7, <1>8

(* No event is in the queue twice: three kinds fill three places. *)
LEMMA ThreeKinds ==
  ASSUME events \in Seq(Events), Ordered, NEW a, NEW b, NEW c,
         OnlyQueued({a, b, c})
  PROVE  Len(events) < QueueSize
<1>1. \A e : ~ Precedes(e, e)
  BY DEF Precedes
<1>2. ASSUME Len(events) >= 4 PROVE FALSE
  <2>1. /\ events[1] \in {a, b, c} /\ events[2] \in {a, b, c}
        /\ events[3] \in {a, b, c} /\ events[4] \in {a, b, c}
    BY <1>2 DEF OnlyQueued
  <2>2. /\ Precedes(events[1], events[2]) /\ Precedes(events[1], events[3])
        /\ Precedes(events[1], events[4]) /\ Precedes(events[2], events[3])
        /\ Precedes(events[2], events[4]) /\ Precedes(events[3], events[4])
    BY <1>2 DEF Ordered
  <2>3. /\ events[1] # events[2] /\ events[1] # events[3] /\ events[1] # events[4]
        /\ events[2] # events[3] /\ events[2] # events[4] /\ events[3] # events[4]
    BY <1>1, <2>2
  <2> QED
    BY <2>1, <2>3
<1> QED
  BY <1>2, QueueSizeAssumption

(* While the station is not idle, the queue has room ... *)
LEMMA Room ==
  ASSUME WifiIInv, station # "idle"
  PROVE  /\ Len(events) < QueueSize
         /\ OnlyQueued({"STA_CONNECTED", "STA_GOT_IP", "STA_LOST_IP"})
<1>1. OnlyQueued({"STA_CONNECTED", "STA_GOT_IP", "STA_LOST_IP"})
  BY DEF WifiIInv, WifiTypeOK, Stations, Pending, OnlyQueued
<1> QED
  BY <1>1, ThreeKinds DEF WifiIInv, WifiTypeOK

(* ... and while it is, there is room for the timer's event. *)
LEMMA RoomForLostIp ==
  ASSUME WifiIInv, timer, ~ Queued("STA_LOST_IP")
  PROVE  /\ Len(events) < QueueSize
         /\ OnlyQueued({"STA_CONNECTED", "STA_GOT_IP", "STA_DISCONNECTED"})
<1>1. OnlyQueued({"STA_CONNECTED", "STA_GOT_IP", "STA_LOST_IP", "STA_DISCONNECTED"})
  BY DEF WifiIInv, WifiTypeOK, Stations, Pending, OnlyQueued
<1>2. OnlyQueued({"STA_CONNECTED", "STA_GOT_IP", "STA_DISCONNECTED"})
  BY <1>1 DEF OnlyQueued, Queued
<1> QED
  BY <1>2, ThreeKinds DEF WifiIInv, WifiTypeOK

-----------------------------------------------------------------------------
(* The boot state satisfies the inductive invariant. *)
LEMMA InitWifiIInv == WifiInit => WifiIInv
<1> SUFFICES ASSUME WifiInit PROVE WifiIInv
  OBVIOUS
<1>1. ap \in BOOLEAN /\ clearing \in BOOLEAN /\ bit \in BOOLEAN /\ timer \in BOOLEAN
  BY DEF WifiInit
<1>2. WifiTypeOK
  BY <1>1, OutagesAssumption DEF WifiInit, WifiTypeOK, Stations
<1>3. Ordered /\ Pending
  BY DEF WifiInit, Ordered, Pending
<1> QED
  BY <1>2, <1>3 DEF WifiInit, WifiIInv

(* Every step preserves it. *)
LEMMA StepWifiIInv == WifiIInv /\ [WifiNext]_wifiVars => WifiIInv'
<1> SUFFICES ASSUME WifiIInv, [WifiNext]_wifiVars PROVE WifiIInv'
  OBVIOUS
<1> USE OutagesAssumption
<1>0. WifiTypeOK /\ events \in Seq(Events) /\ Ordered /\ Pending
  BY DEF WifiIInv, WifiTypeOK
<1>1. CASE StartWifi
  <2>1. WifiTypeOK'
    BY <1>0, <1>1 DEF StartWifi, WifiTypeOK, Stations
  <2>2. Ordered' /\ Pending'
    BY <1>0, <1>1 DEF StartWifi, Ordered, Pending, WifiIInv
  <2> QED
    BY <1>1, <2>1, <2>2 DEF StartWifi, WifiIInv
<1>2. CASE WaitBits
  <2>1. WifiTypeOK'
    BY <1>0, <1>2 DEF WaitBits, Waiting, WifiTypeOK
  <2>2. Ordered' /\ Pending'
    BY <1>0, <1>2 DEF WaitBits, Ordered, Pending, OnlyQueued, Queued
  <2> QED
    BY <1>2, <2>1, <2>2 DEF WaitBits, Waiting, WifiIInv, Queued
<1>3. CASE HandleStart
  <2>1. station = "idle" /\ events = <<"STA_START">> /\ Tail(events) = <<>>
        /\ ~ timer /\ ~ clearing
    <3>1. Queued("STA_START")
      BY <1>0, <1>3, Taken DEF HandleStart
    <3>2. station = "idle" /\ events = <<"STA_START">> /\ ~ timer
      BY <1>0, <3>1 DEF WifiTypeOK, Stations, Pending, OnlyQueued, Queued
    <3> QED
      BY <1>3, <3>2 DEF HandleStart
  <2>2. station' = "joining" /\ events' = <<>>
    BY <1>3, <2>1 DEF HandleStart, Connect
  <2>3. WifiTypeOK'
    BY <1>3, <2>2, <1>0 DEF HandleStart, WifiTypeOK, Stations
  <2>4. Ordered' /\ Pending'
    BY <2>2 DEF Ordered, Pending, OnlyQueued
  <2>5. ~ Queued("STA_DISCONNECTED")
    BY <2>1 DEF Queued
  <2> QED
    BY <1>3, <2>1, <2>2, <2>3, <2>4, <2>5 DEF HandleStart, WifiIInv
<1>4. CASE HandleGotIp
  <2> DEFINE G == "STA_GOT_IP"
  <2>1. /\ station' = station /\ timer' = timer /\ ap' = ap /\ outages' = outages
        /\ clearing' = clearing /\ ~ clearing /\ Head(events) = G
        /\ events' = Tail(events) /\ events # <<>>
        /\ main' = IF main = "waiting" THEN "running" ELSE main
    BY <1>4 DEF HandleGotIp
  <2>2. bit' \in BOOLEAN /\ bit'
    BY <1>4 DEF HandleGotIp
  <2>3. /\ events' \in Seq(Events) /\ Ordered' /\ Queued(G)
        /\ \A S : OnlyQueued(S) => OnlyQueued(S)'
        /\ Queued("STA_DISCONNECTED") => Queued("STA_DISCONNECTED")'
        /\ \A i \in 1 .. Len(events') : Precedes(G, events'[i])
    BY <1>0, <2>1, Taken
  <2>9. station = "online" => OnlyQueued({"STA_LOST_IP"})'
    <3>1. station = "online" =>
            OnlyQueued({"STA_CONNECTED", "STA_GOT_IP", "STA_LOST_IP"})'
      BY <1>0, <2>3 DEF Pending
    <3> QED
      BY <2>3, <3>1 DEF OnlyQueued, Precedes
  <2>4. \/ station = "online"
        \/ station = "idle" /\ Queued("STA_DISCONNECTED") /\ events # <<"STA_START">>
    BY <1>0, <2>3 DEF WifiTypeOK, Stations, Pending, OnlyQueued, Queued
  <2>5. WifiTypeOK'
    BY <1>0, <2>1, <2>2, <2>3 DEF WifiTypeOK
  <2>10. OnlyQueued({"STA_LOST_IP"})'
           => OnlyQueued({"STA_CONNECTED", "STA_GOT_IP", "STA_LOST_IP"})'
    BY DEF OnlyQueued
  <2>6. Pending'
    BY <1>0, <2>1, <2>3, <2>4, <2>9, <2>10 DEF Pending
  <2>7. main' = "boot" <=> station' = "off"
    BY <2>1 DEF WifiIInv
  <2>8. bit' => \/ clearing'
                \/ station' \in {"online", "lapsed"}
                \/ station' = "idle" /\ Queued("STA_DISCONNECTED")'
    BY <2>1, <2>3, <2>4
  <2> QED
    BY <2>1, <2>2, <2>3, <2>4, <2>5, <2>6, <2>7, <2>8 DEF WifiIInv
<1>5. CASE HandleDisconnected
  <2> DEFINE D == "STA_DISCONNECTED"
  <2>1. /\ timer' = timer /\ ap' = ap /\ outages' = outages
        /\ bit' = bit /\ main' = main /\ Head(events) = D
        /\ events' = Tail(events) /\ events # <<>>
    BY <1>5 DEF HandleDisconnected
  <2>2. clearing' \in BOOLEAN /\ clearing'
    BY <1>5 DEF HandleDisconnected
  <2>3. /\ events' \in Seq(Events) /\ Ordered' /\ Queued(D)
        /\ \A i \in 1 .. Len(events') : Precedes(D, events'[i])
    BY <1>0, <2>1, Taken
  <2>4. station = "idle"
    BY <1>0, <2>3 DEF WifiTypeOK, Stations, Pending, OnlyQueued, Queued
  <2>5. station' = "joining"
    BY <1>5, <2>4 DEF HandleDisconnected, Connect
  <2>6. OnlyQueued({"STA_LOST_IP"})'
    BY <2>3 DEF OnlyQueued, Precedes
  <2>7. WifiTypeOK'
    BY <1>0, <2>1, <2>2, <2>3, <2>5 DEF WifiTypeOK, Stations
  <2>8. Pending'
    BY <2>5, <2>6 DEF Pending
  <2> QED
    BY <2>1, <2>2, <2>3, <2>4, <2>5, <2>7, <2>8 DEF WifiIInv
<1>6. CASE ClearBit
  <2>1. clearing' \in BOOLEAN /\ ~ clearing' /\ bit' \in BOOLEAN /\ ~ bit' /\ clearing
    BY <1>6 DEF ClearBit, Cleared
  <2>2. /\ station' = station /\ timer' = timer /\ events' = events
        /\ main' = main /\ ap' = ap /\ outages' = outages
    BY <1>6 DEF ClearBit
  <2>3. WifiTypeOK'
    BY <1>0, <2>1, <2>2 DEF WifiTypeOK
  <2>4. Ordered' /\ Pending'
    BY <1>0, <2>2 DEF Ordered, Pending, OnlyQueued, Queued
  <2>5. station' = "online" => Queued("STA_GOT_IP")'
    BY <2>1, <2>2 DEF WifiIInv, Queued
  <2>6. station' # "lapsed"
    BY <2>1, <2>2 DEF WifiIInv
  <2> QED
    BY <2>1, <2>2, <2>3, <2>4, <2>5, <2>6 DEF WifiIInv
<1>7. CASE HandleOther
  <2>1. /\ station' = station /\ timer' = timer /\ ap' = ap /\ outages' = outages
        /\ clearing' = clearing /\ bit' = bit /\ main' = main
        /\ Head(events) \in {"STA_CONNECTED", "STA_LOST_IP"}
        /\ events' = Tail(events) /\ events # <<>>
    BY <1>7 DEF HandleOther
  <2>2. /\ events' \in Seq(Events) /\ Ordered' /\ Queued(Head(events))
        /\ \A S : OnlyQueued(S) => OnlyQueued(S)'
        /\ Queued("STA_DISCONNECTED") => Queued("STA_DISCONNECTED")'
        /\ Queued("STA_GOT_IP") <=> Queued("STA_GOT_IP")'
    BY <1>0, <2>1, Taken
  <2>3. /\ events # <<"STA_START">>
        /\ station \notin {"off", "starting"}
    BY <1>0, <2>1, <2>2 DEF Pending
  <2>4. WifiTypeOK'
    BY <1>0, <2>1, <2>2 DEF WifiTypeOK
  <2>5. Pending'
    BY <1>0, <2>1, <2>2, <2>3 DEF Pending
  <2> QED
    BY <2>1, <2>2, <2>3, <2>4, <2>5 DEF WifiIInv
<1>8. CASE Started
  <2>1. /\ station = "starting" /\ station' = "idle" /\ timer' = timer
        /\ ap' = ap /\ outages' = outages /\ clearing' = clearing
        /\ bit' = bit /\ main' = main /\ events = <<>> /\ ~ timer
    BY <1>0, <1>8 DEF Started, WifiIInv, Pending
  <2>2. events' = <<"STA_START">>
    BY <1>8, <2>1, QueueSizeAssumption DEF Started, Post
  <2>3. events' \in Seq(Events)
    BY <2>2 DEF Events
  <2>4. WifiTypeOK'
    BY <1>0, <2>1, <2>3 DEF WifiTypeOK, Stations
  <2>5. Ordered' /\ Pending'
    BY <2>1, <2>2 DEF Ordered, Pending
  <2> QED
    BY <2>1, <2>4, <2>5 DEF WifiIInv
<1>9. CASE Associate
  <2> DEFINE e == "STA_CONNECTED"
  <2>1. /\ station = "joining" /\ station' = "joined" /\ timer' = timer
        /\ ap' = ap /\ outages' = outages /\ clearing' = clearing
        /\ bit' = bit /\ main' = main /\ Post(e) /\ e \in Events
    BY <1>9 DEF Associate, Events
  <2>2. OnlyQueued({"STA_LOST_IP"})
    BY <1>0, <2>1 DEF Pending
  <2>3. /\ \A i \in 1 .. Len(events) : Precedes(events[i], e)
        /\ OnlyQueued({"STA_CONNECTED", "STA_LOST_IP"})
    BY <2>2 DEF OnlyQueued, Precedes
  <2>4. Len(events) < QueueSize
    BY <2>1, Room
  <2>5. /\ events' \in Seq(Events) /\ Ordered'
        /\ OnlyQueued({"STA_CONNECTED", "STA_LOST_IP"})'
    BY <1>0, <2>1, <2>3, <2>4, Posted
  <2>6. WifiTypeOK'
    BY <1>0, <2>1, <2>5 DEF WifiTypeOK, Stations
  <2>7. Pending'
    BY <2>1, <2>5 DEF Pending
  <2> QED
    BY <2>1, <2>5, <2>6, <2>7 DEF WifiIInv
<1>10. CASE Lose
  <2> DEFINE e == "STA_DISCONNECTED"
  <2>1. /\ station \in {"joining", "joined", "online", "lapsed"}
        /\ station' = "idle" /\ ap' = ap /\ outages' = outages
        /\ clearing' = clearing /\ bit' = bit /\ main' = main
        /\ Post(e) /\ e \in Events
    BY <1>10 DEF Lose, Events
  <2>2. timer' \in BOOLEAN
    BY <1>0, <1>10 DEF Lose, WifiTypeOK
  <2>3. /\ Len(events) < QueueSize
        /\ OnlyQueued({"STA_CONNECTED", "STA_GOT_IP", "STA_LOST_IP"})
    BY <2>1, Room
  <2>4. /\ \A i \in 1 .. Len(events) : Precedes(events[i], e)
        /\ OnlyQueued({"STA_CONNECTED", "STA_GOT_IP", "STA_LOST_IP", e})
    BY <2>3 DEF OnlyQueued, Precedes
  <2>5. /\ events' \in Seq(Events) /\ Ordered' /\ Queued(e)'
        /\ OnlyQueued({"STA_CONNECTED", "STA_GOT_IP", "STA_LOST_IP", e})'
    BY <1>0, <2>1, <2>3, <2>4, Posted
  <2>6. WifiTypeOK'
    BY <1>0, <2>1, <2>2, <2>5 DEF WifiTypeOK, Stations
  <2>7. Pending'
    BY <2>1, <2>5 DEF Pending
  <2> QED
    BY <2>1, <2>5, <2>6, <2>7 DEF WifiIInv
<1>11. CASE GetLease
  <2> DEFINE e == "STA_GOT_IP"
  <2>1. /\ station \in {"joined", "lapsed"} /\ station' = "online"
        /\ timer' = timer /\ ap' = ap /\ outages' = outages
        /\ clearing' = clearing /\ bit' = bit /\ main' = main
        /\ Post(e) /\ e \in Events
    BY <1>11 DEF GetLease, Events
  <2>2. OnlyQueued({"STA_CONNECTED", "STA_LOST_IP"})
    BY <1>0, <2>1 DEF Pending, OnlyQueued
  <2>3. /\ \A i \in 1 .. Len(events) : Precedes(events[i], e)
        /\ OnlyQueued({"STA_CONNECTED", "STA_GOT_IP", "STA_LOST_IP"})
    BY <2>2 DEF OnlyQueued, Precedes
  <2>4. Len(events) < QueueSize
    BY <2>1, Room
  <2>5. /\ events' \in Seq(Events) /\ Ordered' /\ Queued(e)'
        /\ OnlyQueued({"STA_CONNECTED", "STA_GOT_IP", "STA_LOST_IP"})'
    BY <1>0, <2>1, <2>3, <2>4, Posted
  <2>6. WifiTypeOK'
    BY <1>0, <2>1, <2>5 DEF WifiTypeOK, Stations
  <2>7. Pending'
    BY <2>1, <2>5 DEF Pending
  <2> QED
    BY <2>1, <2>5, <2>6, <2>7 DEF WifiIInv
<1>12. CASE KeepAddress
  <2>1. /\ station = "lapsed" /\ station' = "online"
        /\ timer' = timer /\ ap' = ap /\ outages' = outages /\ events' = events
        /\ clearing' = clearing /\ bit' = bit /\ main' = main
    BY <1>12 DEF KeepAddress
  <2>2. WifiTypeOK'
    BY <1>0, <2>1 DEF WifiTypeOK, Stations
  <2>3. Ordered' /\ Pending'
    BY <1>0, <2>1 DEF Ordered, Pending, OnlyQueued, Queued
  <2> QED
    BY <2>1, <2>2, <2>3 DEF WifiIInv
<1>13. CASE TimerEnds
  <2> DEFINE e == "STA_LOST_IP"
  <2>1. /\ timer /\ ~ Queued(e) /\ station' = station /\ e \in Events
        /\ ap' = ap /\ outages' = outages
        /\ clearing' = clearing /\ bit' = bit /\ main' = main
    BY <1>13 DEF TimerEnds, Events
  <2>2. timer' \in BOOLEAN /\ ~ timer'
    BY <1>13 DEF TimerEnds
  <2>3. CASE station = "online"
    <3>1. events' = events
      BY <1>13, <2>3 DEF TimerEnds
    <3>2. WifiTypeOK'
      BY <1>0, <2>1, <2>2, <3>1 DEF WifiTypeOK
    <3>3. Ordered' /\ Pending'
      BY <1>0, <2>1, <2>3, <3>1 DEF Ordered, Pending, OnlyQueued, Queued
    <3> QED
      BY <2>1, <2>2, <2>3, <3>1, <3>2, <3>3 DEF WifiIInv, Queued
  <2>4. CASE station # "online"
    <3>1. Post(e)
      BY <1>13, <2>4 DEF TimerEnds
    <3>2. /\ Len(events) < QueueSize
          /\ OnlyQueued({"STA_CONNECTED", "STA_GOT_IP", "STA_DISCONNECTED"})
      BY <2>1, RoomForLostIp
    <3>3. \A i \in 1 .. Len(events) : Precedes(events[i], e)
      BY <3>2 DEF OnlyQueued, Precedes
    <3>4. /\ events' \in Seq(Events) /\ Ordered'
          /\ \A f : Queued(f) => Queued(f)'
          /\ \A S : OnlyQueued(S) /\ e \in S => OnlyQueued(S)'
      BY <1>0, <2>1, <3>1, <3>2, <3>3, Posted
    <3>5. WifiTypeOK'
      BY <1>0, <2>1, <2>2, <3>4 DEF WifiTypeOK
    <3>6. station \notin {"off", "starting"}
      BY <2>1 DEF WifiIInv
    <3>7. Pending'
      BY <1>0, <2>1, <2>4, <3>4, <3>6 DEF Pending
    <3>8. Queued("STA_DISCONNECTED") => Queued("STA_DISCONNECTED")'
      BY <3>4
    <3> QED
      BY <2>1, <2>2, <2>4, <3>4, <3>5, <3>7, <3>8 DEF WifiIInv
  <2> QED
    BY <2>3, <2>4
<1>14. CASE Outage \/ ApReturns
  <2>1. ap' \in BOOLEAN /\ timer' \in BOOLEAN
    <3>1. ap' \in BOOLEAN
      BY <1>0, <1>14, Zenon DEF Outage, ApLeaves, ApReturns, LoseLease, WifiTypeOK
    <3>2. timer' \in BOOLEAN
      BY <1>0, <1>14, Zenon DEF Outage, ApLeaves, ApReturns, LoseLease, WifiTypeOK
    <3> QED
      BY <3>1, <3>2
  <2>7. outages' \in 0 .. MaxOutages
    BY <1>0, <1>14 DEF Outage, ApLeaves, ApReturns, LoseLease, WifiTypeOK
  <2>2. /\ events' = events /\ clearing' = clearing /\ bit' = bit /\ main' = main
        /\ \/ station' = station /\ timer' = timer
           \/ /\ station = "online" /\ station' = "lapsed"
              /\ ~ Queued("STA_GOT_IP")
    BY <1>14 DEF Outage, ApLeaves, ApReturns, LoseLease
  <2>3. WifiTypeOK'
    BY <1>0, <2>1, <2>2, <2>7 DEF WifiTypeOK, Stations
  <2>4. Ordered'
    BY <1>0, <2>2 DEF Ordered
  <2>5. CASE station' = station /\ timer' = timer
    <3>1. Pending'
      BY <1>0, <2>2, <2>5 DEF Pending, OnlyQueued, Queued
    <3> QED
      BY <2>2, <2>3, <2>4, <2>5, <3>1 DEF WifiIInv, Queued
  <2>6. CASE station = "online" /\ station' = "lapsed" /\ ~ Queued("STA_GOT_IP")
    <3>2. OnlyQueued({"STA_LOST_IP"})
      BY <1>0, <2>6 DEF Pending
    <3>3. Pending'
      BY <2>2, <2>6, <3>2 DEF Pending, OnlyQueued
    <3> QED
      BY <2>2, <2>3, <2>4, <2>6, <3>3 DEF WifiIInv
  <2> QED
    BY <2>2, <2>5, <2>6
<1>15. CASE UNCHANGED wifiVars
  BY <1>15 DEF wifiVars, WifiIInv, WifiTypeOK, Ordered, Pending, OnlyQueued, Queued
<1> QED
  BY <1>1, <1>2, <1>3, <1>4, <1>5, <1>6, <1>7, <1>8, <1>9, <1>10, <1>11,
     <1>12, <1>13, <1>14, <1>15
  DEF WifiNext, MainTask, EventTask, Driver

(* The queue holds one connection's events at a time, in every run. *)
THEOREM WifiInvariance == Spec => []WifiIInv
  BY InitWifiIInv, StepWifiIInv, PTL DEF Spec

(* Every variable stays in its domain. *)
THEOREM WifiTypeCorrect == Spec => []WifiTypeOK
<1>1. WifiIInv => WifiTypeOK
  BY DEF WifiIInv
<1> QED
  BY WifiInvariance, <1>1, PTL

(* The station is never left idle: the event that makes event_handler call  *)
(* esp_wifi_connect is in the queue.                                        *)
THEOREM NotStranded == Spec => []NeverStranded
<1>1. WifiIInv => NeverStranded
  BY DEF WifiIInv, Pending, NeverStranded, Queued
<1> QED
  BY WifiInvariance, <1>1, PTL

(* CONNECTED_BIT is wrong only while the correcting event is pending, or    *)
(* while the station's lease has ended and event_handler, which ignores     *)
(* that event, has nothing to correct the bit with.                         *)
THEOREM BitIsExplained == Spec => []BitExplained
<1>1. WifiIInv => BitExplained
  <2> SUFFICES ASSUME WifiIInv PROVE BitExplained
    OBVIOUS
  <2>1. station = "lapsed" => ~ Queued("STA_DISCONNECTED")
    BY DEF WifiIInv, Pending, OnlyQueued, Queued
  <2> QED
    BY <2>1 DEF WifiIInv, BitExplained
<1> QED
  BY WifiInvariance, <1>1, PTL

(* No event is lost to a full queue. *)
THEOREM NothingDropped == Spec => NoEventDropped
<1>1. WifiIInv /\ [WifiNext]_wifiVars
        => [Posting => Len(events') = Len(events) + 1]_wifiVars
  <2> SUFFICES ASSUME WifiIInv, Posting PROVE Len(events') = Len(events) + 1
    OBVIOUS
  <2>1. \/ station # "idle"
        \/ timer /\ ~ Queued("STA_LOST_IP")
    BY DEF Posting, Started, Associate, Lose, GetLease, TimerEnds
  <2>2. Len(events) < QueueSize
    BY <2>1, Room, RoomForLostIp
  <2>3. PICK e \in Events : Post(e)
    BY DEF Posting, Started, Associate, Lose, GetLease, TimerEnds, Events
  <2> QED
    BY <2>2, <2>3 DEF Post, WifiIInv, WifiTypeOK
<1> QED
  BY WifiInvariance, <1>1, PTL DEF Spec, NoEventDropped

-----------------------------------------------------------------------------
(* What a network step leaves of the program, and the program of the        *)
(* network.                                                                 *)
LEMMA NetworkKeepsApp ==
  ASSUME AirIInv, UNCHANGED appVars, WifiIInv', main' = main \/ main' # "boot",
         main = "running" => main' = "running",
         step = "nvs" => main' = "boot"
  PROVE  AirIInv'
<1>1. AppTypeOK'
  BY DEF AirIInv, AppTypeOK, WifiIInv, appVars, Measured
<1>2. ResourcesBalanced'
  BY DEF AirIInv, ResourcesBalanced, appVars
<1>3. AtStep'
  BY DEF AirIInv, AtStep, appVars
<1> QED
  BY <1>1, <1>2, <1>3 DEF AirIInv

(* Steps of app_main inside its loop keep the connection's invariant. *)
LEMMA AppKeepsWifi ==
  ASSUME WifiIInv, UNCHANGED wifiVars
  PROVE  WifiIInv' /\ WifiTypeOK' /\ main' = main
<1>1. WifiIInv'
  BY StepWifiIInv
<1> QED
  BY <1>1 DEF WifiIInv, wifiVars

(* A failing or working network call keeps the fault count in its bound. *)
LEMMA FaultCount ==
  ASSUME AppTypeOK, Fails \/ Works
  PROVE  faults' \in 0 .. MaxFaults
  BY FaultsAssumption DEF AppTypeOK, Fails, Works

-----------------------------------------------------------------------------
(* The boot state satisfies the inductive invariant. *)
LEMMA InitAirIInv == Init => AirIInv
<1> SUFFICES ASSUME Init PROVE AirIInv
  OBVIOUS
<1>1. WifiIInv /\ WifiTypeOK
  BY InitWifiIInv DEF Init, WifiIInv
<1>2. AppTypeOK
  BY <1>1, CyclesAssumption, FaultsAssumption
  DEF Init, AppTypeOK, Steps, NoData, Measured
<1>3. ResourcesBalanced
  BY DEF Init, ResourcesBalanced
<1>4. AtStep
  BY DEF Init, WifiInit, AtStep, NoData
<1> QED
  BY <1>1, <1>2, <1>3, <1>4 DEF AirIInv

(* Every step of the program and of the network preserves it. *)
LEMMA StepAirIInv == AirIInv /\ [Next]_vars => AirIInv'
<1> SUFFICES ASSUME AirIInv, [Next]_vars PROVE AirIInv'
  OBVIOUS
<1> USE CyclesAssumption, SocketsAssumption, FaultsAssumption,
        IndeterminateAssumption
<1>1. CASE NvsInit
  <2>1. WifiIInv' /\ WifiTypeOK' /\ main' = main
    BY <1>1, AppKeepsWifi DEF NvsInit, AirIInv
  <2>2. AppTypeOK'
    BY <1>1, <2>1 DEF NvsInit, Erased, AirIInv, AppTypeOK, Steps
  <2>3. ResourcesBalanced'
    BY <1>1 DEF NvsInit, AirIInv, ResourcesBalanced
  <2>4. AtStep'
    BY <1>1, <2>1 DEF NvsInit, Erased, AirIInv, AtStep
  <2> QED
    BY <2>1, <2>2, <2>3, <2>4 DEF AirIInv
<1>2. CASE Connecting
  <2>1. WifiIInv'
    BY <1>2, StepWifiIInv DEF Connecting, WifiNext, AirIInv
  <2>2. main # "running" /\ main' # "boot" /\ step # "nvs"
    BY <1>2 DEF Connecting, MainTask, StartWifi, WaitBits, Waiting
  <2> QED
    BY <1>2, <2>1, <2>2, NetworkKeepsApp DEF Connecting
<1>3. CASE BeginCycle
  <2>1. WifiIInv' /\ WifiTypeOK' /\ main' = main
    BY <1>3, AppKeepsWifi DEF BeginCycle, AirIInv
  <2>2. AppTypeOK'
    BY <1>3, <2>1 DEF BeginCycle, AirIInv, AppTypeOK, Steps
  <2>3. ResourcesBalanced'
    BY <1>3 DEF BeginCycle, AirIInv, ResourcesBalanced
  <2>4. AtStep'
    BY <1>3, <2>1 DEF BeginCycle, AirIInv, AppTypeOK, AtStep, Measured
  <2> QED
    BY <2>1, <2>2, <2>3, <2>4 DEF AirIInv
<1>4. CASE ReadPressure
  <2>1. WifiIInv' /\ WifiTypeOK' /\ main' = main
    BY <1>4, AppKeepsWifi DEF ReadPressure, Read, AirIInv
  <2>2. PICK p \in Pressures :
          data' = [data EXCEPT !.pressure = p]
    BY <1>4 DEF ReadPressure, Read
  <2>3. p \in {Indeterminate} \cup (1 .. counter)
    BY <1>4, <2>2 DEF ReadPressure, Read, Pressures, AirIInv, AppTypeOK, AtStep
  <2>4. AppTypeOK'
    BY <1>4, <2>1, <2>2, <2>3
    DEF ReadPressure, Read, AirIInv, AppTypeOK, Steps, Measured
  <2>5. ResourcesBalanced'
    BY <1>4 DEF ReadPressure, Read, AirIInv, ResourcesBalanced
  <2>6. AtStep'
    BY <1>4, <2>1, <2>2, <2>3
    DEF ReadPressure, Read, AirIInv, AppTypeOK, AtStep, Measured
  <2> QED
    BY <2>1, <2>4, <2>5, <2>6 DEF AirIInv
<1>5. CASE ReadHumidity
  <2>1. WifiIInv' /\ WifiTypeOK' /\ main' = main
    BY <1>5, AppKeepsWifi DEF ReadHumidity, Read, AirIInv
  <2>2. PICK h \in Humidities :
          data' = [data EXCEPT !.humidity = h]
    BY <1>5 DEF ReadHumidity, Read
  <2>3. h \in Measured
    BY <2>2 DEF Humidities, AirIInv, AppTypeOK, Measured
  <2>4. AppTypeOK'
    BY <1>5, <2>1, <2>2, <2>3 DEF ReadHumidity, Read, AirIInv, AppTypeOK, Steps
  <2>5. ResourcesBalanced'
    BY <1>5 DEF ReadHumidity, Read, AirIInv, ResourcesBalanced
  <2>6. AtStep'
    BY <1>5, <2>1, <2>2 DEF ReadHumidity, Read, AirIInv, AppTypeOK, AtStep
  <2> QED
    BY <2>1, <2>4, <2>5, <2>6 DEF AirIInv
<1>6. CASE ReadTemperature
  <2>1. WifiIInv' /\ WifiTypeOK' /\ main' = main
    BY <1>6, AppKeepsWifi DEF ReadTemperature, Read, AirIInv
  <2>2. PICK t \in Temperatures :
          data' = [data EXCEPT !.temperature = t]
    BY <1>6 DEF ReadTemperature, Read
  <2>3. t \in Measured
    BY <2>2 DEF Temperatures, AirIInv, AppTypeOK, Measured
  <2>4. AppTypeOK'
    BY <1>6, <2>1, <2>2, <2>3 DEF ReadTemperature, Read, AirIInv, AppTypeOK, Steps
  <2>5. ResourcesBalanced'
    BY <1>6 DEF ReadTemperature, Read, AirIInv, ResourcesBalanced
  <2>6. AtStep'
    BY <1>6, <2>1, <2>2
    DEF ReadTemperature, Read, Temperatures, AirIInv, AppTypeOK, AtStep
  <2> QED
    BY <2>1, <2>4, <2>5, <2>6 DEF AirIInv
<1>7. CASE ReadCo2
  <2>1. WifiIInv' /\ WifiTypeOK' /\ main' = main
    BY <1>7, AppKeepsWifi DEF ReadCo2, Read, AirIInv
  <2>2. PICK c \in Concentrations :
          data' = [data EXCEPT !.co2 = c]
    BY <1>7 DEF ReadCo2, Read
  <2>3. /\ c \in 0 .. Cycles /\ c \in {counter - 1, counter}
        /\ c \in owed \cup (1 .. counter)
    BY <2>2 DEF Concentrations, AirIInv, AppTypeOK
  <2>4. AppTypeOK'
    BY <1>7, <2>1, <2>2, <2>3
    DEF ReadCo2, Read, AirIInv, AppTypeOK, Steps, Measured
  <2>5. ResourcesBalanced'
    BY <1>7 DEF ReadCo2, Read, AirIInv, ResourcesBalanced
  <2>6. AtStep'
    BY <1>7, <2>1, <2>2, <2>3
    DEF ReadCo2, Read, AirIInv, AppTypeOK, AtStep, Measured
  <2> QED
    BY <2>1, <2>4, <2>5, <2>6 DEF AirIInv
<1>8. CASE Lookup
  <2>1. WifiIInv' /\ WifiTypeOK' /\ main' = main
    BY <1>8, AppKeepsWifi DEF Lookup, AirIInv
  <2>2. faults' \in 0 .. MaxFaults
    BY <1>8, FaultCount DEF Lookup, AirIInv
  <2>3. AppTypeOK'
    BY <1>8, <2>1, <2>2 DEF Lookup, AirIInv, AppTypeOK, Steps
  <2>4. ResourcesBalanced'
    BY <1>8 DEF Lookup, AirIInv, ResourcesBalanced
  <2>5. AtStep'
    BY <1>8, <2>1 DEF Lookup, AirIInv, AtStep
  <2> QED
    BY <2>1, <2>3, <2>4, <2>5 DEF AirIInv
<1>9. CASE OpenSocket
  <2>1. WifiIInv' /\ WifiTypeOK' /\ main' = main
    BY <1>9, AppKeepsWifi DEF OpenSocket, AirIInv
  <2>2. faults' \in 0 .. MaxFaults
    BY <1>9 DEF OpenSocket, AirIInv, AppTypeOK
  <2>3. AppTypeOK'
    BY <1>9, <2>1, <2>2 DEF OpenSocket, FreeAddrs, AirIInv, AppTypeOK, Steps
  <2>4. ResourcesBalanced'
    BY <1>9 DEF OpenSocket, FreeAddrs, AirIInv, ResourcesBalanced
  <2>5. AtStep'
    BY <1>9, <2>1 DEF OpenSocket, AirIInv, AtStep
  <2> QED
    BY <2>1, <2>3, <2>4, <2>5 DEF AirIInv
<1>10. CASE ConnectServer
  <2>1. WifiIInv' /\ WifiTypeOK' /\ main' = main
    BY <1>10, AppKeepsWifi DEF ConnectServer, AirIInv
  <2>2. faults' \in 0 .. MaxFaults
    BY <1>10, FaultCount DEF ConnectServer, AirIInv
  <2>3. AppTypeOK'
    BY <1>10, <2>1, <2>2 DEF ConnectServer, FreeAddrs, Close, AirIInv, AppTypeOK, Steps
  <2>4. ResourcesBalanced'
    BY <1>10 DEF ConnectServer, FreeAddrs, Close, AirIInv, ResourcesBalanced
  <2>5. AtStep'
    BY <1>10, <2>1 DEF ConnectServer, AirIInv, AtStep
  <2> QED
    BY <2>1, <2>3, <2>4, <2>5 DEF AirIInv
<1>11. CASE Send
  <2>1. WifiIInv' /\ WifiTypeOK' /\ main' = main
    BY <1>11, AppKeepsWifi DEF Send, AirIInv
  <2>2. faults' \in 0 .. MaxFaults
    BY <1>11, FaultCount DEF Send, AirIInv
  <2>3. AppTypeOK'
    BY <1>11, <2>1, <2>2 DEF Send, Close, AirIInv, AppTypeOK, Steps
  <2>4. ResourcesBalanced'
    BY <1>11 DEF Send, Close, AirIInv, ResourcesBalanced
  <2>5. AtStep'
    BY <1>11, <2>1 DEF Send, AirIInv, AtStep
  <2> QED
    BY <2>1, <2>3, <2>4, <2>5 DEF AirIInv
<1>12. CASE Sleep
  <2>1. WifiIInv' /\ WifiTypeOK' /\ main' = main
    BY <1>12, AppKeepsWifi DEF Sleep, AirIInv
  <2>2. AppTypeOK'
    BY <1>12, <2>1 DEF Sleep, AirIInv, AppTypeOK, Steps
  <2>3. ResourcesBalanced'
    BY <1>12 DEF Sleep, AirIInv, ResourcesBalanced
  <2>4. AtStep'
    BY <1>12, <2>1 DEF Sleep, AirIInv, AtStep
  <2> QED
    BY <2>1, <2>2, <2>3, <2>4 DEF AirIInv
<1>13. CASE Restart \/ Reset
  <2>1. Boot
    BY <1>13 DEF Restart, Reset
  <2>2. /\ clearing' \in BOOLEAN /\ bit' \in BOOLEAN /\ timer' \in BOOLEAN
        /\ ~ clearing' /\ ~ bit' /\ ~ timer' /\ ap' = ap /\ outages' = outages
    BY <2>1 DEF Boot
  <2>3. /\ main' = "boot" /\ station' = "off" /\ events' = <<>>
    BY <2>1 DEF Boot
  <2>4. WifiTypeOK'
    BY <2>2, <2>3 DEF AirIInv, AppTypeOK, WifiTypeOK, Stations
  <2>5. WifiIInv'
    BY <2>2, <2>3, <2>4 DEF WifiIInv, Ordered, Pending
  <2>6. owed' \subseteq {0} /\ faults' \in 0 .. MaxFaults
    BY <1>13 DEF Restart, Reset, AirIInv, AppTypeOK
  <2>7. AppTypeOK'
    BY <2>1, <2>4, <2>6 DEF Boot, AirIInv, AppTypeOK, Steps, NoData, Measured
  <2>8. ResourcesBalanced'
    BY <2>1 DEF Boot, ResourcesBalanced
  <2>9. AtStep'
    BY <2>1 DEF Boot, AtStep, NoData
  <2> QED
    BY <2>5, <2>7, <2>8, <2>9 DEF AirIInv
<1>14. CASE Network
  <2>1. WifiIInv'
    BY <1>14, StepWifiIInv DEF Network, WifiNext, AirIInv
  <2>2. main' = main \/ (main = "waiting" /\ main' = "running")
    BY <1>14
    DEF Network, EventTask, HandleStart, HandleGotIp, HandleDisconnected,
        ClearBit, HandleOther, Driver, Started, Associate, Lose, GetLease,
        KeepAddress, TimerEnds, Outage, LoseLease, ApLeaves, ApReturns
  <2>3. step = "nvs" => main' = "boot"
    BY <2>2 DEF AirIInv, AtStep
  <2> QED
    BY <1>14, <2>1, <2>2, <2>3, NetworkKeepsApp DEF Network
<1>15. CASE UNCHANGED vars
  <2>1. UNCHANGED wifiVars /\ UNCHANGED appVars
    BY <1>15 DEF vars
  <2>2. WifiIInv' /\ main' = main
    BY <2>1, AppKeepsWifi DEF AirIInv
  <2>3. step = "nvs" => main' = "boot"
    BY <2>2 DEF AirIInv, AtStep
  <2> QED
    BY <2>1, <2>2, <2>3, NetworkKeepsApp
<1> QED
  BY <1>1, <1>2, <1>3, <1>4, <1>5, <1>6, <1>7, <1>8, <1>9, <1>10, <1>11,
     <1>12, <1>13, <1>14, <1>15
  DEF Next, App, BoundedStep, UnboundedStep, PostWeatherServer

(* AirIInv holds in every state the whole program can reach. *)
THEOREM AirInvariance == AirSpec => []AirIInv
  BY InitAirIInv, StepAirIInv, PTL DEF AirSpec

(* Every variable stays in its domain. *)
THEOREM AirTypeCorrect == AirSpec => []AppTypeOK
<1>1. AirIInv => AppTypeOK
  BY DEF AirIInv
<1> QED
  BY AirInvariance, <1>1, PTL

(* No path through postWeatherServer leaks or frees twice an address list   *)
(* or a socket, whatever happens to the connection on the way.              *)
THEOREM NothingLeaks == AirSpec => []ResourcesBalanced
<1>1. AirIInv => ResourcesBalanced
  BY DEF AirIInv
<1> QED
  BY AirInvariance, <1>1, PTL

(* The guarantees about the connection hold in the whole program, restarts  *)
(* included.                                                                *)
THEOREM ConnectionKept == AirSpec => []WifiIInv
<1>1. AirIInv => WifiIInv
  BY DEF AirIInv
<1> QED
  BY AirInvariance, <1>1, PTL

(* A report the server receives is the running cycle's. *)
THEOREM OnlyCurrentReports == AirSpec => ReportsAreCurrent
<1> DEFINE Current ==
      /\ delivered' = counter
      /\ data.humidity = counter => data.temperature \in {counter, Indeterminate}
      /\ data.co2 \in {counter - 1, counter}
      /\ data.co2 = 0 => owed # {}
      /\ data.pressure \in (1 .. counter) \cup {Indeterminate}
<1>1. AirIInv /\ [Next]_vars => [delivered' \notin {delivered, 0} => Current]_vars
  <2> SUFFICES ASSUME AirIInv, Next, delivered' # delivered, delivered' # 0
               PROVE  Current
    OBVIOUS
  <2>1. Send
    BY DEF Next, App, BoundedStep, UnboundedStep, NvsInit, Connecting, appVars, BeginCycle, ReadPressure,
           ReadHumidity, ReadTemperature, ReadCo2, PostWeatherServer, Lookup, OpenSocket, ConnectServer,
           Sleep, Read, Restart, Reset, Boot, Network
  <2>2. step = "send" /\ delivered' = counter
    BY <2>1 DEF Send
  <2>3. data.co2 = 0 => owed # {}
    BY IndeterminateAssumption DEF AirIInv, AtStep
  <2> QED
    BY <2>2, <2>3 DEF AirIInv, AtStep
<1> QED
  BY AirInvariance, <1>1, PTL DEF AirSpec, ReportsAreCurrent

-----------------------------------------------------------------------------
(* app_main calls read_pressure once per cycle, in turn, and leaves what it *)
(* stored alone until the next call: the program is a caller as Barometer   *)
(* describes it.                                                            *)
THEOREM CallsBarometer == AirSpec => DrivesBarometer
<1>1. Init => Baro!Init
  BY DEF Init, NoData, Baro!Init
<1>2. AirIInv /\ [Next]_vars => [Baro!Next]_(Baro!vars)
  <2> SUFFICES ASSUME AirIInv, [Next]_vars PROVE [Baro!Next]_(Baro!vars)
    OBVIOUS
  <2>1. CASE BeginCycle
    BY <2>1 DEF BeginCycle, Baro!Next, Baro!Call
  <2>2. CASE ReadPressure
    <3>1. PICK p \in Pressures :
            data' = [data EXCEPT !.pressure = p]
      BY <2>2 DEF ReadPressure, Read
    <3>2. data'.pressure \in {data.pressure, counter}
      BY <3>1 DEF Pressures, AirIInv, AppTypeOK
    <3>3. step = "pressure" /\ step' = "humidity" /\ counter' = counter
      BY <2>2 DEF ReadPressure, Read
    <3> QED
      BY <3>2, <3>3 DEF Baro!Next, Baro!Return
  <2>3. CASE Restart
    BY <2>3 DEF Restart, Boot, NoData, Baro!Next, Baro!Restart
  <2>7. CASE Reset
    BY <2>7 DEF Reset, Boot, NoData, Baro!Next, Baro!Reset
  <2>4. CASE ReadHumidity \/ ReadTemperature \/ ReadCo2
    <3>1. data'.pressure = data.pressure
      BY <2>4 DEF ReadHumidity, ReadTemperature, ReadCo2, Read, AirIInv, AppTypeOK
    <3> QED
      BY <2>4, <3>1 DEF ReadHumidity, ReadTemperature, ReadCo2, Read, Baro!vars
  <2>5. CASE NvsInit \/ Connecting \/ PostWeatherServer \/ Sleep
    BY <2>5
    DEF NvsInit, Connecting, appVars, PostWeatherServer, Lookup, OpenSocket,
        ConnectServer, Send, Sleep, Baro!vars
  <2>6. CASE Network \/ UNCHANGED vars
    BY <2>6 DEF Network, vars, appVars, Baro!vars
  <2> QED
    BY <2>1, <2>2, <2>3, <2>4, <2>5, <2>6, <2>7 DEF Next, App, BoundedStep, UnboundedStep
<1> QED
  BY AirInvariance, <1>1, <1>2, PTL DEF AirSpec, DrivesBarometer, Baro!Spec

(* The same for co2_read and Co2Meter: one call per cycle, whose value is   *)
(* measured in this cycle or the one before.                                *)
THEOREM CallsMeter == AirSpec => DrivesMeter
<1>1. Init => Meter!Init
  BY DEF Init, NoData, co2Calls, Meter!Init
<1>2. AirIInv /\ [Next]_vars => [Meter!Next]_(Meter!vars)
  <2> SUFFICES ASSUME AirIInv, [Next]_vars PROVE [Meter!Next]_(Meter!vars)
    OBVIOUS
  <2>1. CASE ReadTemperature
    <3>1. /\ step = "temperature" /\ step' = "co2" /\ counter' = counter
          /\ data'.co2 = data.co2 /\ counter \in 1 .. Cycles
          /\ owed' = owed
      BY <2>1 DEF ReadTemperature, Read, AirIInv, AppTypeOK, AtStep
    <3>2. co2Calls = counter - 1 /\ co2Calls' = counter
      BY <3>1 DEF co2Calls
    <3>3. co2Calls < Cycles /\ co2Calls' = co2Calls + 1
      BY <3>1, <3>2, CyclesAssumption
    <3> QED
      BY <3>1, <3>3 DEF Meter!Next, Meter!Task, Meter!Call
  <2>2. CASE ReadCo2
    <3>1. PICK c \in Concentrations :
            data' = [data EXCEPT !.co2 = c]
      BY <2>2 DEF ReadCo2, Read
    <3>2. data'.co2 = c
      BY <3>1 DEF AirIInv, AppTypeOK
    <3>3. step = "co2" /\ step' = "lookup" /\ counter' = counter /\ owed' = owed
      BY <2>2 DEF ReadCo2, Read
    <3> QED
      BY <3>1, <3>2, <3>3 DEF Concentrations, co2Calls, Meter!Next, Meter!Task, Meter!Return
  <2>3. CASE Restart
    BY <2>3 DEF Restart, Boot, NoData, co2Calls, Meter!Next, Meter!Task, Meter!Restart
  <2>8. CASE Reset
    BY <2>8 DEF Reset, Boot, NoData, co2Calls, Meter!Next, Meter!Reset
  <2>4. CASE BeginCycle
    BY <2>4 DEF BeginCycle, AirIInv, AppTypeOK, co2Calls, Meter!vars
  <2>5. CASE ReadPressure \/ ReadHumidity
    <3>1. data'.co2 = data.co2
      BY <2>5 DEF ReadPressure, ReadHumidity, Read, AirIInv, AppTypeOK
    <3> QED
      BY <2>5, <3>1 DEF ReadPressure, ReadHumidity, Read, co2Calls, Meter!vars
  <2>6. CASE NvsInit \/ Connecting \/ PostWeatherServer \/ Sleep
    BY <2>6
    DEF NvsInit, Connecting, appVars, PostWeatherServer, Lookup, OpenSocket,
        ConnectServer, Send, Sleep, co2Calls, Meter!vars
  <2>7. CASE Network \/ UNCHANGED vars
    BY <2>7 DEF Network, vars, appVars, co2Calls, Meter!vars
  <2> QED
    BY <2>1, <2>2, <2>3, <2>4, <2>5, <2>6, <2>7, <2>8 DEF Next, App, BoundedStep, UnboundedStep
<1> QED
  BY AirInvariance, <1>1, <1>2, PTL DEF AirSpec, DrivesMeter, Meter!Spec

(* The same for read_temp_rh and Climate: one call per cycle, and the pair  *)
(* it leaves reaches postWeatherServer as it is.                            *)
THEOREM CallsClimate == AirSpec => DrivesClimate
<1>1. Init => TempRh!Init
  BY DEF Init, NoData, climateCalls, TempRh!Init
<1>2. AirIInv /\ [Next]_vars => [TempRh!Next]_(TempRh!vars)
  <2> SUFFICES ASSUME AirIInv, [Next]_vars PROVE [TempRh!Next]_(TempRh!vars)
    OBVIOUS
  <2>1. CASE ReadPressure
    <3>1. /\ data'.humidity = data.humidity
          /\ data'.temperature = data.temperature
      BY <2>1 DEF ReadPressure, Read, AirIInv, AppTypeOK
    <3>2. /\ step = "pressure" /\ step' = "humidity" /\ counter' = counter
          /\ counter \in 1 .. Cycles
      BY <2>1 DEF ReadPressure, Read, AirIInv, AppTypeOK, AtStep
    <3>3. climateCalls = counter - 1 /\ climateCalls' = counter
      BY <3>2 DEF climateCalls
    <3>4. climateCalls < Cycles /\ climateCalls' = climateCalls + 1
      BY <3>2, <3>3, CyclesAssumption
    <3> QED
      BY <3>1, <3>2, <3>4 DEF TempRh!Next, TempRh!Call
  <2>2. CASE ReadHumidity
    <3>1. PICK h \in Humidities :
            data' = [data EXCEPT !.humidity = h]
      BY <2>2 DEF ReadHumidity, Read
    <3>2. data'.humidity = h /\ data'.temperature = data.temperature
      BY <3>1 DEF AirIInv, AppTypeOK
    <3>3. step = "humidity" /\ step' = "temperature" /\ counter' = counter
      BY <2>2 DEF ReadHumidity, Read
    <3> QED
      BY <3>1, <3>2, <3>3
      DEF Humidities, climateCalls, TempRh!Next, TempRh!Humidity, TempRh!Sources
  <2>3. CASE ReadTemperature
    <3>1. PICK t \in Temperatures :
            data' = [data EXCEPT !.temperature = t]
      BY <2>3 DEF ReadTemperature, Read
    <3>2. data'.temperature = t /\ data'.humidity = data.humidity
      BY <3>1 DEF AirIInv, AppTypeOK
    <3>3. step = "temperature" /\ step' = "co2" /\ counter' = counter
      BY <2>3 DEF ReadTemperature, Read
    <3>4. t \in {Indeterminate} \cup (0 .. counter)
      BY <3>1 DEF Temperatures, AirIInv, AppTypeOK
    <3>5. data.humidity = counter => t \in {counter, Indeterminate}
      BY <3>1 DEF Temperatures
    <3> QED
      BY <3>2, <3>3, <3>4, <3>5
      DEF climateCalls, TempRh!Next, TempRh!Temperature, TempRh!Sources
  <2>4. CASE Restart
    BY <2>4 DEF Restart, Boot, NoData, climateCalls, TempRh!Next, TempRh!Restart
  <2>9. CASE Reset
    BY <2>9 DEF Reset, Boot, NoData, climateCalls, TempRh!Next, TempRh!Reset
  <2>5. CASE BeginCycle
    BY <2>5 DEF BeginCycle, AirIInv, AppTypeOK, climateCalls, TempRh!vars
  <2>6. CASE ReadCo2
    <3>1. /\ data'.humidity = data.humidity
          /\ data'.temperature = data.temperature
      BY <2>6 DEF ReadCo2, Read, AirIInv, AppTypeOK
    <3> QED
      BY <2>6, <3>1 DEF ReadCo2, Read, climateCalls, TempRh!vars
  <2>7. CASE NvsInit \/ Connecting \/ PostWeatherServer \/ Sleep
    BY <2>7
    DEF NvsInit, Connecting, appVars, PostWeatherServer, Lookup, OpenSocket,
        ConnectServer, Send, Sleep, climateCalls, TempRh!vars
  <2>8. CASE Network \/ UNCHANGED vars
    BY <2>8 DEF Network, vars, appVars, climateCalls, TempRh!vars
  <2> QED
    BY <2>1, <2>2, <2>3, <2>4, <2>5, <2>6, <2>7, <2>8, <2>9 DEF Next, App, BoundedStep, UnboundedStep
<1> QED
  BY AirInvariance, <1>1, <1>2, PTL DEF AirSpec, DrivesClimate, TempRh!Spec

=============================================================================
