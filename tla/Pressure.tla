------------------------------ MODULE Pressure ------------------------------
(***************************************************************************)
(* read_pressure() of lib/pressure/pressure.c, as app_main calls it once    *)
(* per cycle, on top of the driver and the sensor of module Bmp280.         *)
(*                                                                          *)
(* Every call initialises the driver, configures the sensor in five steps   *)
(* whose failures are only logged, and then reads until the numbers look    *)
(* measured.  It resets the sensor when the pressure is too low or both     *)
(* data registers are void, and gives up on a pressure that is out of       *)
(* range.  The sensor measures, and may lose its supply, meanwhile; after a *)
(* reset it may still be starting when pressure_setup writes to it.  The    *)
(* chip itself may reset unasked at any moment.                             *)
(***************************************************************************)
EXTENDS Bmp280, Compensation

CONSTANTS
  Cycles,     \* calls between two restarts (100 in app_main)
  NoReading   \* nothing has been stored since the boot

ASSUME CyclesAssumption == Cycles \in Nat \ {0}
ASSUME NoReadingAssumption == NoReading \notin Nat

VARIABLES
  pc,       \* "idle": outside read_pressure; otherwise the call it makes next
  then,     \* where the loop goes on when pressure_setup is done
  call,     \* number of the current, or of the last, call since the boot
  reading,  \* history: the call that measured what data->pressure holds
  clean     \* history: no fault has hit the current, or the last, call, and
            \* the sensor was not starting when it began

callVars == <<then, call, reading>>
vars == <<bmpVars, pc, then, call, reading, clean>>

Setup == {"power_mode", "oversamp_pressure", "oversamp_temperature",
          "standby_durn", "filter"}

(* What pressure_setup asks for. *)
WantedMode_Bug == ForcedMode
WantedMode == NormalMode
WantedTemperature_Bug == 0
WantedTemperature == 2   \* BMP280_ULTRAHIGHRESOLUTION_OVERSAMP_TEMPERATURE
WantedPressure == 5      \* BMP280_ULTRAHIGHRESOLUTION_OVERSAMP_PRESSURE
WantedStandby == 0       \* BMP280_STANDBY_TIME_1_MS
WantedFilter == 4        \* BMP280_FILTER_COEFF_16

WantedCtrl == WantedTemperature * 32 + WantedPressure * 4 + NormalMode
WantedConfig == WantedStandby * 32 + WantedFilter * 4

(* The sensor was just powered; after a Restart it goes on as it was. *)
Init ==
  /\ BmpInit
  /\ pc = "idle"
  /\ then = "read"
  /\ call = 0
  /\ reading = NoReading
  /\ clean = TRUE

-----------------------------------------------------------------------------
(* A fault during a call is remembered. *)
Note == clean' = (clean /\ faults' = faults)

(* app_main calls read_pressure. *)
Call ==
  /\ pc = "idle"
  /\ call < Cycles
  /\ call' = call + 1
  /\ pc' = "init"
  /\ then' = "read"
  /\ clean' = ~ starting
  /\ UNCHANGED <<bmpVars, reading>>

(* pressure_init: the driver's start, then pressure_setup. *)
PressureInit ==
  /\ pc = "init"
  /\ bmp280_init
  /\ Note
  /\ pc' = "power_mode"
  /\ UNCHANGED callVars

(* pressure_setup: five calls of the driver, in this order.  A failure is   *)
(* logged, and the next call is made.                                       *)
PressureSetup ==
  /\ \/ pc = "power_mode" /\ pc' = "oversamp_pressure"
        /\ bmp280_set_power_mode(WantedMode)
     \/ pc = "oversamp_pressure" /\ pc' = "oversamp_temperature"
        /\ bmp280_set_oversamp_pressure(WantedPressure)
     \/ pc = "oversamp_temperature" /\ pc' = "standby_durn"
        /\ bmp280_set_oversamp_temperature(WantedTemperature)
     \/ pc = "standby_durn" /\ pc' = "filter"
        /\ bmp280_set_standby_durn(WantedStandby)
     \/ pc = "filter" /\ pc' = then
        /\ bmp280_set_filter(WantedFilter)
  /\ Note
  /\ UNCHANGED callVars

(* The result is used without a test. *)
Yields_Bug(kind) == Works \/ Fails

(* bmp280_read_pressure_temperature, as read_pressure tells its results     *)
(* apart: the Kinds of module Compensation.                                 *)
Yields(kind) ==
  \/ Works /\ kind \in Kinds(p_bmp280.calib, raw, TRUE)
  \/ Fails /\ kind \in Kinds(p_bmp280.calib, raw, FALSE)
  \/ Refused /\ kind = Unread(p_bmp280.calib)

(* Out of the loop.  (The break is missing.) *)
Break_Bug == pc' = "read"
Break == pc' = "idle"

(* The loop of read_pressure, its first reading. *)
ReadSensor ==
  /\ pc = "read"
  /\ \/ Yields("none") /\ pc' = "recheck" /\ UNCHANGED <<then, reading>>
     \/ Yields("low") /\ pc' = "reset" /\ then' = "read" /\ UNCHANGED reading
     \/ Yields("ok") /\ Break /\ reading' = call /\ UNCHANGED then
     \/ Yields("outside") /\ Break /\ UNCHANGED <<then, reading>>
  /\ Note
  /\ UNCHANGED <<p_bmp280, sensorVars, call>>

(* ... and, in the else branch, the second one: only two void registers     *)
(* lead to a reset, which is followed by the delay.                         *)
Recheck ==
  /\ pc = "recheck"
  /\ \/ /\ Works \/ Fails
        /\ raw = Void
        /\ pc' = "reset" /\ then' = "delay"
     \/ /\ Fails \/ Refused \/ (Works /\ raw # Void)
        /\ pc' = "delay" /\ UNCHANGED then
  /\ Note
  /\ UNCHANGED <<p_bmp280, sensorVars, call, reading>>

(* pressure_reset; pressure_setup follows. *)
PressureReset ==
  /\ pc = "reset"
  /\ bmp280_set_soft_rst
  /\ Note
  /\ pc' = "power_mode"
  /\ UNCHANGED callVars

(* 50 ms pass: the sensor has started. *)
Delay ==
  /\ pc = "delay"
  /\ ~ starting
  /\ pc' = "read"
  /\ UNCHANGED <<bmpVars, callVars, clean>>

(* A boot of the chip.  The sensor is not reset with it. *)
Boot ==
  /\ pc' = "idle"
  /\ call' = 0
  /\ reading' = NoReading
  /\ p_bmp280' = FreshDriver
  /\ UNCHANGED <<sensorVars, then, clean>>

(* esp_restart, after the last cycle. *)
Restart == pc = "idle" /\ call = Cycles /\ Boot /\ UNCHANGED faults

(* A reset nobody asked for, between any two steps. *)
Reset == faults < MaxFaults /\ faults' = faults + 1 /\ Boot

ReadPressure ==
  \/ PressureInit \/ PressureSetup \/ ReadSensor
  \/ Recheck \/ PressureReset \/ Delay

Measure == Convert /\ UNCHANGED <<pc, callVars, clean>>

Start == Ready /\ UNCHANGED <<pc, callVars, clean>>

LoseSupply == BrownOut /\ clean' = FALSE /\ UNCHANGED <<pc, callVars>>

Next == Call \/ ReadPressure \/ Restart \/ Reset \/ Measure \/ Start \/ LoseSupply

Spec == Init /\ [][Next]_vars

(* The main task runs, the sensor starts some time, not every delay of 50   *)
(* ms is too short for it to finish a measurement (43.2 ms at most, says    *)
(* its data sheet), and the temperature does not stay at 0.00 or 23.23      *)
(* degrees for ever.                                                        *)
Fairness ==
  /\ WF_vars(Call \/ ReadPressure \/ Restart)
  /\ WF_vars(Start)
  /\ SF_vars(pc = "delay" /\ Measure)
  /\ SF_vars(ReadSensor /\ pc' # "recheck")

FairSpec == Spec /\ Fairness

-----------------------------------------------------------------------------
(* Every variable stays in its domain; PressureTask has a domain of its own *)
(* for reading.                                                             *)
CallTypeOK ==
  /\ BmpTypeOK
  /\ pc \in {"idle", "init", "read", "recheck", "reset", "delay"} \cup Setup
  /\ then \in {"read", "delay"}
  /\ call \in 0 .. Cycles
  /\ clean \in BOOLEAN

PressureTypeOK == CallTypeOK /\ reading \in {NoReading} \cup (1 .. Cycles)

(* The test for two void registers finds every sensor that has gone to      *)
(* sleep, whichever faults put it there.                                    *)
AsleepShowsVoid == ~ Measuring => raw = Void

(* read_pressure returns only with a calibration, read in this call or an   *)
(* earlier one of this boot: no failure of bmp280_init lets a pressure      *)
(* computed from zeros out.                                                 *)
ReturnsCalibrated == pc = "idle" /\ call > 0 => p_bmp280.calib # "zero"

(* A call no fault has hit leaves the sensor configured as asked, however   *)
(* it found it: set up by the boot before, reset, or half set up.  When it  *)
(* resets the sensor itself and writes to it too early, any number of the   *)
(* five settings may be lost; but the first of them is the one that makes   *)
(* the sensor measure, so that a sensor half configured always sleeps, and  *)
(* the call has stored nothing, unless void registers can look measured.    *)
CleanCallConfigures ==
  pc = "idle" /\ call > 0 /\ clean =>
    \/ ctrl = WantedCtrl /\ config = WantedConfig /\ InSync
    \/ ~ Measuring /\ (reading = call => "ok" \in VoidKinds)

(* What the calls made so far in a call no fault has hit have set up, if    *)
(* the first of them was heard.                                             *)
Since(steps) == call > 0 /\ pc \notin {"init", "power_mode"} \cup steps

SetUp ==
  LET P == {"oversamp_pressure"}
      T == P \cup {"oversamp_temperature"}
      S == T \cup {"standby_durn"}
      F == S \cup {"filter"}
  IN  clean /\ Measuring =>
        /\ Since(P) => /\ GetSlice(ctrl, OversampPressure) = WantedPressure
                       /\ p_bmp280.oversamp_pressure = WantedPressure
        /\ Since(T) => /\ GetSlice(ctrl, OversampTemperature) = WantedTemperature
                       /\ p_bmp280.oversamp_temperature = WantedTemperature
        /\ Since(S) => GetSlice(config, StandbyDurn) = WantedStandby
        /\ Since(F) => GetSlice(config, Filter) = WantedFilter

(* A sensor that is starting sleeps, and the call that resets it has stored *)
(* nothing.                                                                 *)
StartsAsleep == starting => ctrl = 0

StoredLast ==
  /\ reading \in {NoReading} \cup (1 .. (IF pc = "idle" THEN call ELSE call - 1))
  /\ clean /\ pc = "idle" /\ reading = call => Measuring \/ "ok" \in VoidKinds

(* The calibration is read first, in a call no fault has hit. *)
CalibrationRead ==
  clean /\ call > 0 => IF pc = "init" THEN ~ starting ELSE p_bmp280.calib = "read"

(* What read_pressure and pressure_task both keep.  The sensor is never     *)
(* told to measure once, and the bits below the two fields of the           *)
(* configuration register stay clear.                                       *)
SensorIInv ==
  /\ CallTypeOK
  /\ call = 0 => pc = "idle"
  /\ GetSlice(ctrl, PowerMode) \in {SleepMode, NormalMode}
  /\ config % 4 = 0
  /\ AsleepShowsVoid
  /\ CalibrationRead
  /\ SetUp
  /\ StartsAsleep

(* The inductive invariant of read_pressure (PressureProofs). *)
PressureIInv == SensorIInv /\ PressureTypeOK /\ ReturnsCalibrated /\ StoredLast

(* The two ways to read for ever: a calibration of zeros, which is not read *)
(* again inside the loop, and a sensor that measures the pressure but skips *)
(* the temperature, which the test for two void registers does not see.     *)
Stuck ==
  \/ p_bmp280.calib = "zero"
  \/ /\ Measuring
     /\ GetSlice(ctrl, OversampTemperature) = 0
     /\ GetSlice(ctrl, OversampPressure) # 0

(* The third way: pressure_setup follows the reset at once, the sensor is   *)
(* still starting, and goes on sleeping until the next reset.               *)
TooEarly == pc = "oversamp_pressure" /\ starting

(* The fourth way is open to a sensor whose void registers stand for a low  *)
(* pressure: the branch that resets it has no delay, and the next reading   *)
(* comes before the first measurement.                                      *)
VoidLooksLow == "low" \in VoidKinds /\ pc = "read" /\ raw.t = "void"

(* Every call returns once the faults are over, unless a fault of this very *)
(* call has made it stuck, or it keeps resetting the sensor, telling it to  *)
(* measure too early or not leaving it the time.                            *)
ReturnsUnlessStuck ==
  []<>(pc = "idle") \/ <>[](Stuck /\ ~ clean) \/ []<>TooEarly \/ []<>VoidLooksLow

Meter == INSTANCE Barometer WITH pc <- IF pc = "idle" THEN "idle" ELSE "reading"

(* A call that returns has stored a pressure of its own, or nothing. *)
ImplementsBarometer == Meter!Spec

(* A pressure is stored only from a sensor that measured both quantities,   *)
(* and computed with a whole calibration unless a fault has hit the call:   *)
(* no fault of an earlier call, or boot, falsifies a later reading.  Where  *)
(* void registers can look measured, only the calibration is sure.          *)
StoredIsMeasured ==
  [][reading' \notin {reading, NoReading} =>
       /\ raw = [p |-> "live", t |-> "live"] \/ "ok" \in VoidKinds
       /\ clean => p_bmp280.calib = "read"]_vars

=============================================================================
