---------------------------- MODULE PressureTask ----------------------------
(***************************************************************************)
(* pressure_task() of lib/pressure/pressure.c: the sensor of module         *)
(* Pressure, read every 5 s by a task of its own.  It differs from          *)
(* read_pressure in what it does once only: the driver is initialised and   *)
(* the sensor set up before the loop, and again only after a reset, which   *)
(* nothing but two void registers leads to.                                 *)
(*                                                                          *)
(* The task's start is the one "call" of module Pressure: call is 1 from    *)
(* then on, and reading tells the stores apart.                             *)
(***************************************************************************)
EXTENDS Pressure

(* The first delay of 100 ms is over: a sensor that was starting has        *)
(* started.  The second one follows the setup.                              *)
Begin ==
  /\ pc = "idle" /\ call = 0 /\ ~ starting
  /\ call' = 1
  /\ pc' = "init"
  /\ then' = "delay"
  /\ clean' = TRUE
  /\ UNCHANGED <<bmpVars, reading>>

(* The loop's first reading: nothing is done about a low pressure, and      *)
(* every round ends with the delay.                                         *)
TaskRead ==
  /\ pc = "read"
  /\ \/ Yields("none") /\ pc' = "recheck" /\ UNCHANGED reading
     \/ Yields("ok") /\ pc' = "delay" /\ reading' = IF reading = 1 THEN 2 ELSE 1
     \/ (Yields("low") \/ Yields("outside")) /\ pc' = "delay" /\ UNCHANGED reading
  /\ Note
  /\ UNCHANGED <<p_bmp280, sensorVars, then, call>>

(* The second 100 ms, and the 5 s of every round: long enough for the       *)
(* sensor to start, and to finish a measurement.                            *)
TaskDelay == Delay /\ (Measuring => raw = Sample)

pressure_task ==
  PressureInit \/ PressureSetup \/ TaskRead \/ Recheck \/ PressureReset \/ TaskDelay

TaskNext == Begin \/ pressure_task \/ Reset \/ Measure \/ Start \/ LoseSupply

Stores == pc = "read" /\ reading' \notin {reading, NoReading}

(* The task runs, the sensor starts and measures, and neither the pressure  *)
(* stays out of range nor the temperature at 0.00 or 23.23 degrees for      *)
(* ever.                                                                    *)
TaskSpec ==
  /\ Init /\ [][TaskNext]_vars
  /\ WF_vars(Begin \/ pressure_task)
  /\ WF_vars(Start)
  /\ WF_vars(pc = "delay" /\ Measure)
  /\ SF_vars(TaskRead /\ Stores)

-----------------------------------------------------------------------------
(* A pressure is stored only from a sensor that measured both quantities,   *)
(* and computed with a whole calibration unless a fault has hit the chip or *)
(* the sensor since the start.                                              *)
TaskStoresMeasured ==
  [][Stores => /\ raw = [p |-> "live", t |-> "live"] \/ "ok" \in VoidKinds
               /\ clean => p_bmp280.calib = "read"]_vars

(* A start that meets no fault, however the boot before left the sensor,    *)
(* sets it up as asked, and the loop then never resets it: unlike the first *)
(* reading of read_pressure, the first of this task finds a measurement.    *)
LoopConfigured ==
  clean /\ call = 1 /\ pc \notin {"init"} \cup Setup =>
    ctrl = WantedCtrl /\ config = WantedConfig /\ pc # "reset"

(* After a start without a fault the sensor always answers, it measures     *)
(* from the first setting on, and every reading of the loop follows a       *)
(* measurement made under all five.                                         *)
StartedWell ==
  clean /\ call = 1 =>
    /\ ~ starting
    /\ pc # "reset"
    /\ pc \notin {"init", "power_mode"} => Measuring
    /\ pc \in {"read", "recheck"} => raw = [p |-> "live", t |-> "live"]

(* The inductive invariant of pressure_task (PressureProofs). *)
TaskIInv ==
  /\ SensorIInv
  /\ reading \in {NoReading, 1, 2}
  /\ pc = "idle" => call = 0
  /\ call \in {0, 1}
  /\ call = 1 => then = "delay"
  /\ StartedWell

(* What the loop cannot mend: no calibration, a sensor that measures one    *)
(* quantity only, whose registers are not both void, and one whose void     *)
(* registers are not taken for that.                                        *)
Lasting ==
  \/ p_bmp280.calib = "zero"
  \/ /\ Measuring
     /\ (GetSlice(ctrl, OversampTemperature) = 0) # (GetSlice(ctrl, OversampPressure) = 0)
  \/ raw = Void /\ VoidKinds # {"none"}

(* Pressures are stored again and again once the faults are over, unless a  *)
(* fault has left something that lasts, or each reset is followed by the    *)
(* setup too early.                                                         *)
StoresUnlessLasting ==
  []<><<Stores>>_vars \/ <>[](Lasting /\ ~ clean) \/ []<>TooEarly

=============================================================================
