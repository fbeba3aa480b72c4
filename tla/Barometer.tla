------------------------------ MODULE Barometer ------------------------------
(***************************************************************************)
(* What read_pressure() promises its caller in app_main when it returns:    *)
(* climateData.pressure was measured in this call, or is what it was        *)
(* before, written by an earlier call of the same boot or by none.  Unlike  *)
(* co2_read (Co2Meter), it does not promise to return.  Module Pressure is  *)
(* shown to implement this specification; module AirMonitor uses it.        *)
(***************************************************************************)
EXTENDS Naturals

CONSTANTS
  Cycles,     \* calls between two restarts: the bound of app_main's loop
  NoReading   \* nothing has been stored since the boot

VARIABLES
  pc,         \* "idle": app_main runs outside read_pressure; "reading": inside
  call,       \* number of the current, or of the last, call since the boot
  reading     \* the call that measured what climateData.pressure holds

vars == <<pc, call, reading>>

Init ==
  /\ pc = "idle"
  /\ call = 0
  /\ reading = NoReading

(* The caller enters read_pressure. *)
Call ==
  /\ pc = "idle"
  /\ call < Cycles
  /\ pc' = "reading"
  /\ call' = call + 1
  /\ UNCHANGED reading

(* The call returns with a new value, or without one. *)
Return ==
  /\ pc = "reading"
  /\ pc' = "idle"
  /\ reading' \in {reading, call}
  /\ UNCHANGED call

(* The loop of app_main is over and the chip restarts. *)
Restart ==
  /\ pc = "idle"
  /\ call = Cycles
  /\ pc' = "idle"
  /\ call' = 0
  /\ reading' = NoReading

(* The chip resets unasked, inside a call or outside. *)
Reset ==
  /\ pc' = "idle"
  /\ call' = 0
  /\ reading' = NoReading

Next == Call \/ Return \/ Restart \/ Reset

Spec == Init /\ [][Next]_vars

=============================================================================
