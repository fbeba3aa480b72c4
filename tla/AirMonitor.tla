----------------------------- MODULE AirMonitor -----------------------------
(***************************************************************************)
(* The whole program: app_main() and postWeatherServer() of src/main.c on   *)
(* top of the connection of module Wifi.                                    *)
(*                                                                          *)
(* app_main starts the station, waits for it once, and then runs Cycles     *)
(* cycles: read the three sensors, look the server up, connect, send one    *)
(* report, sleep.  After the last cycle the chip restarts.  Every failure   *)
(* on the way to the server drops the report of that cycle; nothing is      *)
(* retried and the answer of the server is not read.  The connection may be *)
(* lost, and come back, between any two of these steps, and the chip may    *)
(* reset at any of them.                                                    *)
(*                                                                          *)
(* A measured value is represented by the number of the cycle it was        *)
(* measured in, 0 for one before the boot.  read_pressure, read_temp_rh and *)
(* co2_read are used as Barometer, Climate and Co2Meter promise them;       *)
(* read_pressure and co2_read loop without a bound: nothing here makes them *)
(* return (modules Pressure and Co2 say when they do).                      *)
(***************************************************************************)
EXTENDS Wifi, Integers

CONSTANTS
  Cycles,         \* cycles between two restarts (100 in app_main)
  MaxSockets,     \* CONFIG_LWIP_MAX_SOCKETS: 10 in sdkconfig
  MaxFaults,      \* bound: network calls that fail although online, and resets
  Indeterminate   \* what memory that was never written holds

ASSUME CyclesAssumption == Cycles \in Nat \ {0}
ASSUME SocketsAssumption == MaxSockets \in Nat \ {0}
ASSUME FaultsAssumption == MaxFaults \in Nat
ASSUME IndeterminateAssumption == Indeterminate \notin Nat

VARIABLES
  step,        \* where app_main is; its loop runs while main = "running"
  flash,       \* the NVS partition: "ok", or without a free page
  counter,     \* app_main: cycles begun since the boot
  data,        \* app_main: struct climateData, on its stack
  addrs,       \* address lists getaddrinfo returned, not freed yet
  sockets,     \* sockets open
  delivered,   \* history: the last cycle whose report the server received
  owed,        \* {0} when co2_read may get an answer to the boot before: {}
               \* after a planned restart
  faults       \* failures while online and resets so far, at most MaxFaults

appVars == <<step, flash, counter, data, addrs, sockets, delivered, owed, faults>>
vars == <<wifiVars, appVars>>

Steps == {"nvs", "loop", "pressure", "humidity", "temperature", "co2",
          "lookup", "socket", "connect", "send", "sleep"}

NoData == [pressure |-> Indeterminate, humidity |-> Indeterminate,
           temperature |-> Indeterminate, co2 |-> Indeterminate]

(* The server can be reached. *)
Online == station = "online" /\ ap

(* A network call fails: because the server cannot be reached, or for any   *)
(* other reason, which is one fault.                                        *)
Fails ==
  \/ ~ Online /\ UNCHANGED faults
  \/ faults < MaxFaults /\ faults' = faults + 1

(* A network call succeeds. *)
Works == Online /\ UNCHANGED faults

-----------------------------------------------------------------------------
Init ==
  /\ WifiInit
  /\ step = "nvs"
  /\ flash \in {"ok", "nofree"}
  /\ counter = 0
  /\ data = NoData
  /\ addrs = 0
  /\ sockets = 0
  /\ delivered = 0
  /\ owed = {}
  /\ faults = 0

(* nvs_init erases a partition without a free page; the bug leaves it.      *)
Erased_Bug(partition) == partition
Erased(partition) == "ok"

(* While the partition is bad ESP_ERROR_CHECK aborts: the chip boots again. *)
NvsInit ==
  /\ main = "boot" /\ step = "nvs"
  /\ flash' = Erased(flash)
  /\ step' = IF flash' = "ok" THEN "loop" ELSE step
  /\ UNCHANGED <<wifiVars, counter, data, addrs, sockets, delivered, owed, faults>>

(* start_wifi, before the loop. *)
Connecting ==
  /\ step = "loop"
  /\ MainTask
  /\ UNCHANGED appVars

(* The next turn of the loop. *)
BeginCycle ==
  /\ main = "running" /\ step = "loop"
  /\ counter < Cycles
  /\ counter' = counter + 1
  /\ step' = "pressure"
  /\ UNCHANGED <<wifiVars, flash, data, addrs, sockets, delivered, owed, faults>>

(* read_pressure stores a value, or keeps the one it finds when the reading *)
(* is out of range; the bug erases it.                                      *)
Pressures_Bug == {counter, Indeterminate}
Pressures == {counter, data.pressure}

(* read_humidity: from this measurement, from bytes left of an earlier one  *)
(* after failures, or from a buffer that was never written.                 *)
Humidities == {Indeterminate} \cup (0 .. counter)

(* read_temperature: of the last measurement, from the humidity's bytes, or *)
(* from a buffer that was never written; the bug keeps the value of the     *)
(* cycle before.                                                            *)
Temperatures_Bug == {counter, data.temperature}
Temperatures ==
  IF data.humidity = counter THEN {counter, Indeterminate}
  ELSE {Indeterminate} \cup (0 .. counter)

(* co2_read: the value answers this cycle's command or the one before; the  *)
(* bug gives up and keeps the value there is.                               *)
Concentrations_Bug == {counter, data.co2}
Concentrations == {counter - 1, counter} \cap (owed \cup (1 .. counter))

(* The three calls fill data field by field. *)
Read(field, values, next) ==
  /\ step = field
  /\ \E value \in values : data' = [data EXCEPT ![field] = value]
  /\ step' = next
  /\ UNCHANGED <<wifiVars, flash, counter, addrs, sockets, delivered, owed, faults>>

ReadPressure == Read("pressure", Pressures, "humidity")
ReadHumidity == Read("humidity", Humidities, "temperature")
ReadTemperature == Read("temperature", Temperatures, "co2")
ReadCo2 == Read("co2", Concentrations, "lookup")

-----------------------------------------------------------------------------
(* freeaddrinfo and close; the bugs forget them. *)
FreeAddrs_Bug == UNCHANGED addrs
FreeAddrs == addrs' = addrs - 1
Close_Bug == UNCHANGED sockets
Close == sockets' = sockets - 1

(* postWeatherServer: getaddrinfo allocates a list when it succeeds. *)
Lookup ==
  /\ step = "lookup"
  /\ \/ Fails /\ step' = "sleep" /\ UNCHANGED addrs
     \/ Works /\ step' = "socket" /\ addrs' = addrs + 1
  /\ UNCHANGED <<wifiVars, flash, counter, data, sockets, delivered, owed>>

(* socket() needs no connection, only a free entry in the socket table;     *)
(* when it fails the address list is freed.                                 *)
OpenSocket ==
  /\ step = "socket"
  /\ \/ /\ sockets < MaxSockets
        /\ sockets' = sockets + 1
        /\ step' = "connect"
        /\ UNCHANGED <<addrs, faults>>
     \/ /\ sockets < MaxSockets => faults < MaxFaults
        /\ faults' = IF sockets < MaxSockets THEN faults + 1 ELSE faults
        /\ FreeAddrs
        /\ step' = "sleep"
        /\ UNCHANGED sockets
  /\ UNCHANGED <<wifiVars, flash, counter, data, delivered, owed>>

(* connect(), freeaddrinfo in both cases, close when it fails. *)
ConnectServer ==
  /\ step = "connect"
  /\ \/ Works /\ step' = "send" /\ UNCHANGED sockets
     \/ Fails /\ step' = "sleep" /\ Close
  /\ FreeAddrs
  /\ UNCHANGED <<wifiVars, flash, counter, data, delivered, owed>>

(* write() and close().  Without a connection write may fail, or put the    *)
(* report in a buffer it never leaves: either way the report is lost and    *)
(* the code goes on the same way.                                           *)
Send ==
  /\ step = "send"
  /\ \/ Works /\ delivered' = counter
     \/ Fails /\ UNCHANGED delivered
  /\ Close
  /\ step' = "sleep"
  /\ UNCHANGED <<wifiVars, flash, counter, data, addrs, owed>>

(* sleep_wifi and the delay between two cycles. *)
Sleep ==
  /\ step = "sleep"
  /\ step' = "loop"
  /\ UNCHANGED <<wifiVars, flash, counter, data, addrs, sockets, delivered, owed, faults>>

(* The chip boots: the station, the event queue and the event group start   *)
(* afresh; the flash and the access point stay.                             *)
Boot ==
  /\ main' = "boot"
  /\ station' = "off"
  /\ timer' = FALSE
  /\ events' = <<>>
  /\ clearing' = FALSE
  /\ bit' = FALSE
  /\ step' = "nvs"
  /\ counter' = 0
  /\ data' = NoData
  /\ addrs' = 0
  /\ sockets' = 0
  /\ delivered' = 0
  /\ UNCHANGED <<ap, outages, flash>>

(* esp_restart after the last cycle: no call of co2_read is under way. *)
Restart ==
  /\ main = "running" /\ step = "loop"
  /\ counter = Cycles
  /\ Boot
  /\ owed' = {}
  /\ UNCHANGED faults

(* The chip resets unasked: a panic, a watchdog, a brown-out. *)
Reset ==
  /\ faults < MaxFaults
  /\ faults' = faults + 1
  /\ Boot
  /\ owed' = {0}

PostWeatherServer == Lookup \/ OpenSocket \/ ConnectServer \/ Send

(* The steps of app_main that end by themselves, and those that are loops   *)
(* without a bound: read_pressure polls the sensor until it has measured,   *)
(* co2_read repeats its command until an answer is good.                    *)
BoundedStep ==
  \/ NvsInit \/ Connecting \/ BeginCycle \/ ReadHumidity \/ ReadTemperature
  \/ PostWeatherServer \/ Sleep \/ Restart

UnboundedStep == ReadPressure \/ ReadCo2

App == BoundedStep \/ UnboundedStep

Network ==
  /\ EventTask \/ Driver \/ Outage \/ ApReturns
  /\ UNCHANGED appVars

Next == App \/ Network \/ Reset

AirSpec == Init /\ [][Next]_vars

(* No fairness for the loops without a bound. *)
AirFairness ==
  /\ WF_vars(BoundedStep)
  /\ WF_vars(EventTask /\ UNCHANGED appVars)
  /\ WF_vars(Driver /\ UNCHANGED appVars)
  /\ WF_vars(ApReturns /\ UNCHANGED appVars)

AirFairSpec == AirSpec /\ AirFairness

-----------------------------------------------------------------------------
(* A measured value: the cycle it was measured in, or nothing measured. *)
Measured == {Indeterminate} \cup (0 .. Cycles)

(* Every variable stays in its domain. *)
AppTypeOK ==
  /\ WifiTypeOK
  /\ step \in Steps
  /\ flash \in {"ok", "nofree"}
  /\ counter \in 0 .. Cycles
  /\ data \in [pressure : Measured, humidity : Measured,
              temperature : Measured, co2 : Measured]
  /\ addrs \in Int
  /\ sockets \in Int
  /\ delivered \in 0 .. Cycles
  /\ owed \subseteq {0}
  /\ faults \in 0 .. MaxFaults

(* On every path through postWeatherServer, and at any moment of it, the    *)
(* address list and the socket are there as long as they are used, and are  *)
(* freed exactly once.                                                      *)
ResourcesBalanced ==
  /\ addrs = IF step \in {"socket", "connect"} THEN 1 ELSE 0
  /\ sockets = IF step \in {"connect", "send"} THEN 1 ELSE 0

(* Where app_main can be while the station is not known to have been        *)
(* online, and what data holds at each step.                                *)
AtStep ==
  /\ step = "nvs" => main = "boot"
  /\ step \notin {"nvs", "loop"} => main = "running" /\ counter > 0
  /\ main # "running" => counter = 0
  /\ data.pressure \in {Indeterminate} \cup (1 .. counter)
  /\ data.co2 \in {Indeterminate} \cup owed \cup (1 .. counter)
  /\ step \in {"co2", "lookup", "socket", "connect", "send", "sleep"} =>
       (data.humidity = counter => data.temperature \in {counter, Indeterminate})
  /\ step \in {"lookup", "socket", "connect", "send", "sleep"} =>
       data.co2 \in {counter - 1, counter}

(* The inductive invariant behind the safety properties (AirProofs). *)
AirIInv == AppTypeOK /\ WifiIInv /\ ResourcesBalanced /\ AtStep

(* A report that reaches the server is the running cycle's: the CO2 value   *)
(* is at most one cycle old, and of an earlier boot only in the first cycle *)
(* after a reset nobody planned; a humidity of this cycle is never paired   *)
(* with the temperature of another one; the pressure is from no other boot. *)
ReportsAreCurrent ==
  [][delivered' \notin {delivered, 0} =>
       /\ delivered' = counter
       /\ data.humidity = counter => data.temperature \in {counter, Indeterminate}
       /\ data.co2 \in {counter - 1, counter}
       /\ data.co2 = 0 => owed # {}
       /\ data.pressure \in (1 .. counter) \cup {Indeterminate}]_vars

(* When the outages and the other failures are over, every cycle of every   *)
(* boot delivers its report, the first one after a restart included.        *)
EveryCycleReports == <>[](step = "sleep" => delivered = counter)

(* Cycles go on for ever, through outages, failed calls, restarts and a bad *)
(* NVS partition, unless read_pressure or co2_read never returns: no other  *)
(* call of app_main can stop them, start_wifi's unlimited wait included.    *)
CyclesGoOn == []<>(step = "sleep") \/ <>[](step \in {"pressure", "co2"})

(* Calls of co2_read since the boot. *)
co2Calls == IF step \in {"pressure", "humidity", "temperature"} THEN counter - 1 ELSE counter

(* app_main uses co2_read as Co2Meter says a caller does: one call per      *)
(* cycle, at most Cycles of them, then a restart, or a reset in between.    *)
Meter == INSTANCE Co2Meter
           WITH pc <- IF step = "co2" THEN "reading" ELSE "idle",
                call <- co2Calls,
                reading <- data.co2,
                owed <- owed,
                NoReading <- Indeterminate

DrivesMeter == Meter!Spec

(* It uses read_pressure as Barometer says: once per cycle, and what one    *)
(* call stored is what the next one finds.                                  *)
Baro == INSTANCE Barometer
          WITH pc <- IF step = "pressure" THEN "reading" ELSE "idle",
               call <- counter,
               reading <- data.pressure,
               NoReading <- Indeterminate

DrivesBarometer == Baro!Spec

(* Calls of read_temp_rh since the boot. *)
climateCalls == IF step = "pressure" THEN counter - 1 ELSE counter

(* And read_temp_rh as Climate says: what reaches postWeatherServer is the  *)
(* pair one call of it left.                                                *)
TempRh == INSTANCE Climate
            WITH pc <- IF step \in {"humidity", "temperature"} THEN step
                       ELSE "idle",
                 call <- climateCalls,
                 humidity <- data.humidity,
                 temperature <- data.temperature

DrivesClimate == TempRh!Spec

=============================================================================
