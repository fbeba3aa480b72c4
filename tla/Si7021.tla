------------------------------- MODULE Si7021 -------------------------------
(***************************************************************************)
(* The humidity and temperature sensor: read_temp_rh() of                   *)
(* lib/si7021/si7021.c, as app_main calls it once per cycle.                *)
(*                                                                          *)
(* read_value sends a command, waits 300 ms and reads two bytes; the result *)
(* codes of both transfers are ignored and the two bytes are not            *)
(* initialised.  The first command measures; the second asks for the        *)
(* temperature of the measurement the sensor made last, whenever that was.  *)
(* The two calls of read_value have their frames, and so their two bytes,   *)
(* in the same place of the stack.                                          *)
(***************************************************************************)
EXTENDS Naturals

CONSTANTS
  Cycles,          \* calls between two restarts (100 in app_main)
  MaxFaults,       \* bound: transfers that fail, and unasked resets, in total
  Indeterminate    \* two bytes that are not an answer got in this call

ASSUME CyclesAssumption == Cycles \in Nat \ {0}
ASSUME FaultsAssumption == MaxFaults \in Nat
ASSUME IndeterminateAssumption ==
  /\ Indeterminate \notin Nat
  /\ Indeterminate \notin [quantity : {"humidity", "temperature"}, call : Nat]

VARIABLES
  pc,            \* "idle": outside read_temp_rh; otherwise the next transfer
  call,          \* number of the current, or of the last, call since the boot
  answer,        \* the sensor: what the next read will get
  measured,      \* the sensor: the call of its last measurement
  humidity,      \* what *humidity is computed from
  temperature,   \* what *temperature is computed from
  missed,        \* history: transfers of this call that failed
  missedBefore,  \* history: transfers of the call before that failed
  faults         \* faults so far, at most MaxFaults

values == <<humidity, temperature>>
vars == <<pc, call, answer, measured, humidity, temperature, missed,
          missedBefore, faults>>

Transfers == {"rh_command", "rh_read", "temp_command", "temp_read"}

(* An answer: the quantity, and the call it was measured in; 0 is a call of *)
(* an earlier boot.                                                         *)
Value(quantity, when) == [quantity |-> quantity, call |-> when]
Values == [quantity : {"humidity", "temperature"}, call : 0 .. Cycles]

(* The sensor has nothing to send: it does not acknowledge. *)
NoAnswer == Indeterminate

-----------------------------------------------------------------------------
Init ==
  /\ pc = "idle"
  /\ call = 0
  /\ answer = NoAnswer
  /\ measured = Indeterminate
  /\ humidity = Indeterminate
  /\ temperature = Indeterminate
  /\ missed = 0
  /\ missedBefore = 0
  /\ faults = 0

(* A transfer works, or fails, on the bus. *)
Works == UNCHANGED <<faults, missed>>
Fails ==
  /\ faults < MaxFaults
  /\ faults' = faults + 1
  /\ missed' = missed + 1

Call ==
  /\ pc = "idle"
  /\ call < Cycles
  /\ pc' = "rh_command"
  /\ call' = call + 1
  /\ missed' = 0
  /\ missedBefore' = missed
  /\ UNCHANGED <<answer, measured, values, faults>>

(* read_humidity: RH_READ makes the sensor measure both quantities.  The    *)
(* command may reach the sensor even if the transfer is reported failed.    *)
RhCommand ==
  /\ pc = "rh_command"
  /\ pc' = "rh_read"
  /\ \/ /\ Works \/ Fails
        /\ answer' = Value("humidity", call)
        /\ measured' = call
     \/ Fails /\ UNCHANGED <<answer, measured>>
  /\ UNCHANGED <<call, values, missedBefore>>

(* What the two bytes may hold when the read fails: they are not            *)
(* initialised.  The bytes of the humidity, read in the same place a moment *)
(* before, may still be there; the conversion of the humidity and the       *)
(* interrupts between the two reads use that part of the stack, so they     *)
(* need not be.  The bug has each reader keep its last value.               *)
Unfilled_Bug == {IF pc = "rh_read" THEN humidity ELSE temperature}
Unfilled == {Indeterminate} \cup IF pc = "temp_read" THEN {humidity} ELSE {}

(* The last byte is acknowledged like the first: the sensor goes on sending *)
(* the answer in the read after this one.                                   *)
ReadBytes_Bug(value) ==
  \/ Works /\ value = answer /\ UNCHANGED answer
  \/ Fails /\ value \in Unfilled /\ answer' \in {answer, NoAnswer}

(* The sensor's answer is sent once, and may get lost. *)
ReadBytes(value) ==
  \/ Works /\ value = answer /\ answer' = NoAnswer
  \/ Fails /\ value \in Unfilled /\ answer' \in {answer, NoAnswer}

RhRead ==
  /\ pc = "rh_read"
  /\ pc' = "temp_command"
  /\ \E value \in {answer} \cup Unfilled : ReadBytes(value) /\ humidity' = value
  /\ UNCHANGED <<call, measured, temperature, missedBefore>>

(* What read_temperature asks for: POST_RH_TEMP_READ measures nothing; the  *)
(* bug sends RH_READ once more.                                             *)
Asked_Bug == Value("humidity", call)
Asked == IF measured = Indeterminate THEN NoAnswer
         ELSE Value("temperature", measured)

TempCommand ==
  /\ pc = "temp_command"
  /\ pc' = "temp_read"
  /\ \/ (Works \/ Fails) /\ answer' = Asked
     \/ Fails /\ UNCHANGED answer
  /\ UNCHANGED <<call, measured, values, missedBefore>>

TempRead ==
  /\ pc = "temp_read"
  /\ pc' = "idle"
  /\ \E value \in {answer} \cup Unfilled : ReadBytes(value) /\ temperature' = value
  /\ UNCHANGED <<call, measured, humidity, missedBefore>>

(* The chip boots; the sensor keeps its answer and its measurement. *)
Aged(value) == IF value = Indeterminate THEN value ELSE [value EXCEPT !.call = 0]

Boot ==
  /\ pc' = "idle"
  /\ call' = 0
  /\ answer' = Aged(answer)
  /\ measured' = IF measured = Indeterminate THEN measured ELSE 0
  /\ humidity' = Indeterminate
  /\ temperature' = Indeterminate
  /\ UNCHANGED missedBefore

Restart ==
  /\ pc = "idle"
  /\ call = Cycles
  /\ Boot
  /\ UNCHANGED <<missed, faults>>

(* The chip resets unasked; inside a call the transfers left are missed. *)
Reset ==
  /\ faults < MaxFaults
  /\ faults' = faults + 1
  /\ missed' = IF pc = "idle" THEN missed ELSE missed + 1
  /\ Boot

Next ==
  \/ Call \/ RhCommand \/ RhRead \/ TempCommand \/ TempRead
  \/ Restart \/ Reset

Spec == Init /\ [][Next]_vars

-----------------------------------------------------------------------------
(* Every variable stays in its domain. *)
SiTypeOK ==
  /\ pc \in {"idle"} \cup Transfers
  /\ call \in 0 .. Cycles
  /\ answer \in {NoAnswer} \cup Values
  /\ measured \in {Indeterminate} \cup (0 .. Cycles)
  /\ humidity \in {Indeterminate} \cup Values
  /\ temperature \in {Indeterminate} \cup Values
  /\ missed \in 0 .. 4
  /\ missedBefore \in 0 .. 4
  /\ faults \in 0 .. MaxFaults

Returned == pc = "idle" /\ call > 0

(* A humidity computed from bytes that are not this call's humidity takes a *)
(* failed transfer in this call and another one, or a reset, in the call    *)
(* before.                                                                  *)
HumidityMixUpNeedsTwo ==
  Returned /\ humidity \notin {Indeterminate, Value("humidity", call)}
    => missed >= 1 /\ missedBefore >= 1

(* A temperature computed from the bytes of a humidity: one failed transfer *)
(* is enough when they are the bytes this call's humidity is computed from, *)
(* left on the stack.  Otherwise it takes two failed transfers in one call, *)
(* and leaves this call without a humidity.                                 *)
TemperatureFromHumidity ==
  Returned /\ temperature # Indeterminate /\ temperature.quantity = "humidity" =>
    \/ missed >= 1 /\ temperature = humidity
    \/ missed >= 2 /\ humidity # Value("humidity", call)

(* The temperature may be that of an earlier call, but not in a call that   *)
(* has got its own humidity: a report never pairs this cycle's humidity     *)
(* with a temperature of another one.                                       *)
PairedReadings ==
  Returned /\ humidity = Value("humidity", call)
    => temperature \in {Indeterminate, humidity, Value("temperature", call)}

(* An answer is no younger than the sensor's last measurement, and that no  *)
(* younger than the call; nor is the humidity read.                         *)
Ages ==
  /\ measured # Indeterminate => measured <= call
  /\ answer # NoAnswer => measured # Indeterminate /\ answer.call <= measured
  /\ humidity # Indeterminate => humidity.call <= call

(* An answer that nobody asked for in this call, or in this half of it, is  *)
(* there because a transfer has failed.                                     *)
Leftovers ==
  /\ pc = "idle" /\ answer # NoAnswer => missed >= 1
  /\ pc = "rh_command" /\ answer # NoAnswer => missedBefore >= 1
  /\ pc = "rh_read" /\ answer \notin {NoAnswer, Value("humidity", call)}
       => missed >= 1 /\ missedBefore >= 1
  /\ pc = "temp_command" /\ answer # NoAnswer
       => missed >= 1 /\ humidity = Indeterminate
  /\ pc = "temp_read" /\ answer # NoAnswer /\ answer.quantity = "humidity"
       => missed >= 2 /\ humidity = Indeterminate

(* The humidity of a call, once it is there, and what can still come.       *)
Fresh == humidity # Indeterminate /\ humidity.call = call

HumidityRead ==
  /\ pc \in {"temp_command", "temp_read"}
     /\ humidity \notin {Indeterminate, Value("humidity", call)}
       => missed >= 1 /\ missedBefore >= 1
  /\ pc = "temp_command" /\ Fresh => answer = NoAnswer /\ measured = call
  /\ pc = "temp_read" /\ Fresh => answer \in {NoAnswer, Value("temperature", call)}

(* How many transfers can have failed so far. *)
Misses ==
  /\ pc = "rh_command" => missed = 0
  /\ pc = "rh_read" => missed <= 1
  /\ pc = "temp_command" => missed <= 2
  /\ pc = "temp_read" => missed <= 3

(* The inductive invariant (Si7021Proofs). *)
SiIInv ==
  /\ SiTypeOK
  /\ pc # "idle" => call > 0
  /\ Ages
  /\ Leftovers
  /\ HumidityRead
  /\ Misses
  /\ HumidityMixUpNeedsTwo
  /\ TemperatureFromHumidity
  /\ PairedReadings

(* read_temp_rh keeps the promise of Climate. *)
When(value) == IF value = Indeterminate THEN value ELSE value.call

Promise == INSTANCE Climate
             WITH pc <- CASE pc \in {"rh_command", "rh_read"} -> "humidity"
                          [] pc \in {"temp_command", "temp_read"} -> "temperature"
                          [] OTHER -> "idle",
                  humidity <- When(humidity),
                  temperature <- When(temperature)

ImplementsClimate == Promise!Spec

=============================================================================
