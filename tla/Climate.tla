------------------------------ MODULE Climate ------------------------------
(***************************************************************************)
(* What read_temp_rh() promises its caller in app_main.  It always returns, *)
(* and reports no failure: either value may be computed from memory nobody  *)
(* wrote, or be older than the call.  What it does promise is the pair: a   *)
(* humidity of this call never comes with a temperature of another one.     *)
(* Module Si7021 is shown to implement this specification; module           *)
(* AirMonitor uses it.                                                      *)
(***************************************************************************)
EXTENDS Naturals

CONSTANTS
  Cycles,         \* calls between two restarts: the bound of app_main's loop
  Indeterminate   \* bytes that are no answer got in this call

VARIABLES
  pc,            \* "idle": outside read_temp_rh; else the value being read
  call,          \* number of the current, or of the last, call since the boot
  humidity,      \* the call *humidity was measured in; 0 is an earlier boot
  temperature    \* the call *temperature was measured in

vars == <<pc, call, humidity, temperature>>

(* Measured in this call, in one before it, or never. *)
Sources == {Indeterminate} \cup (0 .. call)

Init ==
  /\ pc = "idle"
  /\ call = 0
  /\ humidity = Indeterminate
  /\ temperature = Indeterminate

(* The caller enters read_temp_rh. *)
Call ==
  /\ pc = "idle"
  /\ call < Cycles
  /\ pc' = "humidity"
  /\ call' = call + 1
  /\ UNCHANGED <<humidity, temperature>>

(* read_humidity returns. *)
Humidity ==
  /\ pc = "humidity"
  /\ pc' = "temperature"
  /\ humidity' \in Sources
  /\ UNCHANGED <<call, temperature>>

(* read_temperature returns, and read_temp_rh with it. *)
Temperature ==
  /\ pc = "temperature"
  /\ pc' = "idle"
  /\ temperature' \in Sources
  /\ humidity = call => temperature' \in {call, Indeterminate}
  /\ UNCHANGED <<call, humidity>>

(* The loop of app_main is over and the chip restarts. *)
Restart ==
  /\ pc = "idle"
  /\ call = Cycles
  /\ pc' = "idle"
  /\ call' = 0
  /\ humidity' = Indeterminate
  /\ temperature' = Indeterminate

(* The chip resets unasked, inside a call or outside. *)
Reset ==
  /\ pc' = "idle"
  /\ call' = 0
  /\ humidity' = Indeterminate
  /\ temperature' = Indeterminate

Next == Call \/ Humidity \/ Temperature \/ Restart \/ Reset

Spec == Init /\ [][Next]_vars

=============================================================================
