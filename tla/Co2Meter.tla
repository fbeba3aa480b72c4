------------------------------ MODULE Co2Meter ------------------------------
(***************************************************************************)
(* What co2_read() promises its caller in app_main.  The caller asks, waits *)
(* an unbounded but finite time, and gets a ppm value the sensor measured   *)
(* either for this call or for the call before it; never an older one.  The *)
(* first call of a boot has a call before it only when the chip was reset   *)
(* in the middle of something.  Module Co2 is shown to implement this       *)
(* specification.                                                           *)
(***************************************************************************)
EXTENDS Naturals

CONSTANT
  Cycles,     \* calls between two restarts: the bound of app_main's loop
  NoReading   \* no call has returned since the boot

VARIABLES
  pc,         \* "idle": app_main runs outside co2_read; "reading": inside it
  call,       \* number of the current, or of the last, call since the boot
  reading,    \* the call whose command the last returned value answers,
              \* 0 for one of the boot before
  owed        \* {0} when an answer to the boot before may still come, else {}

vars == <<pc, call, reading, owed>>

Init ==
  /\ pc = "idle"
  /\ call = 0
  /\ reading = NoReading
  /\ owed = {}

(* The caller enters co2_read. *)
Call ==
  /\ pc = "idle"
  /\ call < Cycles
  /\ pc' = "reading"
  /\ call' = call + 1
  /\ UNCHANGED <<reading, owed>>

(* The call returns a value measured for it or for the call before. *)
Return ==
  /\ pc = "reading"
  /\ pc' = "idle"
  /\ reading' \in {call - 1, call} \cap (owed \cup (1 .. call))
  /\ UNCHANGED <<call, owed>>

(* The loop of app_main is over and the chip restarts. *)
Restart ==
  /\ pc = "idle"
  /\ call = Cycles
  /\ pc' = "idle"
  /\ call' = 0
  /\ reading' = NoReading
  /\ owed' = {}

(* The chip resets unasked, inside a call or outside. *)
Reset ==
  /\ pc' = "idle"
  /\ call' = 0
  /\ reading' = NoReading
  /\ owed' \in SUBSET {0}

Task == Call \/ Return \/ Restart

Next == Task \/ Reset

Spec == Init /\ [][Next]_vars

(* The caller always comes back for the next cycle, and every call returns. *)
FairSpec == Spec /\ WF_vars(Task)

=============================================================================
