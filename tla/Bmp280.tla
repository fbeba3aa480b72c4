------------------------------- MODULE Bmp280 -------------------------------
(***************************************************************************)
(* The pressure sensor and its driver: lib/bosch_bmp280/bosch_bmp280.c over *)
(* the bus functions of lib/pressure/pressure.c.                            *)
(*                                                                          *)
(* The driver keeps a copy of two fields of the sensor's control register   *)
(* and the calibration; the sensor keeps its registers over a restart of    *)
(* the host, and the host keeps its copy over a reset of the sensor.  Each  *)
(* call is one or two bus transactions, any of which may fail.  A sensor    *)
(* that was reset takes 2 ms to start; the driver does not wait for it.     *)
(*                                                                          *)
(* This module has the state and one operator per call; modules Bmp280Api   *)
(* and Pressure make the calls.                                             *)
(***************************************************************************)
EXTENDS Integers

CONSTANT
  MaxFaults    \* bound: bus transactions that fail and brown-outs, in total

ASSUME FaultsAssumption == MaxFaults \in Nat

VARIABLES
  p_bmp280,   \* the driver's struct: two cached fields and the calibration
  ctrl,       \* the sensor's register 0xF4 (BMP280_CTRL_MEAS_REG)
  config,     \* the sensor's register 0xF5 (BMP280_CONFIG_REG)
  raw,        \* what the sensor's data registers hold
  starting,   \* the sensor was reset and does not answer yet
  faults      \* faults so far, at most MaxFaults

sensorVars == <<ctrl, config, raw, starting>>
bmpVars == <<p_bmp280, sensorVars, faults>>

-----------------------------------------------------------------------------
(* A field of a register: the weight of its lowest bit, and how many values *)
(* it has.                                                                  *)
OversampTemperature == [at |-> 32, size |-> 8]
OversampPressure    == [at |-> 4, size |-> 8]
PowerMode           == [at |-> 1, size |-> 4]
StandbyDurn         == [at |-> 32, size |-> 8]
Filter              == [at |-> 4, size |-> 8]
Spi3                == [at |-> 1, size |-> 2]

(* BMP280_GET_BITSLICE. *)
GetSlice(reg, field) == (reg \div field.at) % field.size

(* The bits below the field are lost. *)
SetSlice_Bug(reg, field, v) ==
  LET above == field.at * field.size
  IN  (reg \div above) * above + (v % field.size) * field.at

(* The old value of the field is not masked out. *)
SetSlice_Bug2(reg, field, v) == reg + (v % field.size) * field.at

(* BMP280_SET_BITSLICE. *)
SetSlice(reg, field, v) ==
  reg + ((v % field.size) - GetSlice(reg, field)) * field.at

(* Power modes; 2 is another code for forced. *)
SleepMode == 0
ForcedMode == 1
NormalMode == 3

Measuring == GetSlice(ctrl, PowerMode) # SleepMode

(* What a data register holds: "void" is 0x80000, shown by a sensor that    *)
(* has not measured since its reset or was told to skip the quantity.       *)
Void == [p |-> "void", t |-> "void"]

(* What the driver may hold for a calibration. *)
Calibrations == {"zero", "short", "read"}

(* One transaction works, or fails, or meets a sensor that is starting and  *)
(* acknowledges nothing.                                                    *)
Works   == ~ starting /\ UNCHANGED faults
Fails   == ~ starting /\ faults < MaxFaults /\ faults' = faults + 1
Refused == starting /\ UNCHANGED faults

(* A write that is reported as failed may have reached the register. *)
Write(reg, v) ==
  \/ Works /\ reg' = v
  \/ Fails /\ reg' \in {reg, v}

(* The value a getter reads: 0 when the byte did not arrive. *)
Get(reg, field, v) ==
  \/ Works /\ v = GetSlice(reg, field)
  \/ Fails /\ v \in {0, GetSlice(reg, field)}
  \/ Refused /\ v = 0

-----------------------------------------------------------------------------
(* bmp280_init: up to five reads of the chip id, then the calibration.      *)
(* When all five fail, the calibration is not read and keeps its value;     *)
(* when its own read fails, it is read all the same, lacks its last byte    *)
(* ("short"), or is all zeros.  Either counts as one fault.                 *)
bmp280_init ==
  /\ \/ Works /\ p_bmp280' = [p_bmp280 EXCEPT !.calib = "read"]
     \/ /\ Fails
        /\ \E calib \in Calibrations : p_bmp280' = [p_bmp280 EXCEPT !.calib = calib]
     \/ (Fails \/ Refused) /\ UNCHANGED p_bmp280
  /\ UNCHANGED sensorVars

(* The whole control register, made of the driver's copy and a mode. *)
CtrlMeas(mode) ==
  p_bmp280.oversamp_temperature * 32 + p_bmp280.oversamp_pressure * 4 + mode

(* A mode above 3 is refused. *)
bmp280_set_power_mode(mode) ==
  /\ mode <= NormalMode
  /\ \/ Write(ctrl, CtrlMeas(mode))
     \/ Refused /\ UNCHANGED ctrl
  /\ UNCHANGED <<p_bmp280, config, raw, starting>>

(* The copy of a field after a call that sets it to v. *)
Copied_Bug(old, v) == old
Copied(old, v) == v

(* Read, modify, write.  The copy is updated when the read worked, whatever *)
(* became of the write.                                                     *)
bmp280_set_oversamp_temperature(v) ==
  /\ \/ /\ Write(ctrl, SetSlice(ctrl, OversampTemperature, v))
        /\ p_bmp280' = [p_bmp280 EXCEPT !.oversamp_temperature = Copied(@, v)]
     \/ (Fails \/ Refused) /\ UNCHANGED <<ctrl, p_bmp280>>
  /\ UNCHANGED <<config, raw, starting>>

bmp280_set_oversamp_pressure(v) ==
  /\ \/ /\ Write(ctrl, SetSlice(ctrl, OversampPressure, v))
        /\ p_bmp280' = [p_bmp280 EXCEPT !.oversamp_pressure = Copied(@, v)]
     \/ (Fails \/ Refused) /\ UNCHANGED <<ctrl, p_bmp280>>
  /\ UNCHANGED <<config, raw, starting>>

(* These two getters refresh the copy, whatever they read. *)
bmp280_get_oversamp_temperature(v) ==
  /\ Get(ctrl, OversampTemperature, v)
  /\ p_bmp280' = [p_bmp280 EXCEPT !.oversamp_temperature = v]
  /\ UNCHANGED sensorVars

bmp280_get_oversamp_pressure(v) ==
  /\ Get(ctrl, OversampPressure, v)
  /\ p_bmp280' = [p_bmp280 EXCEPT !.oversamp_pressure = v]
  /\ UNCHANGED sensorVars

(* The others do not. *)
bmp280_get_power_mode(v)   == Get(ctrl, PowerMode, v) /\ UNCHANGED <<p_bmp280, sensorVars>>
bmp280_get_standby_durn(v) == Get(config, StandbyDurn, v) /\ UNCHANGED <<p_bmp280, sensorVars>>
bmp280_get_filter(v)       == Get(config, Filter, v) /\ UNCHANGED <<p_bmp280, sensorVars>>
bmp280_get_spi3(v)         == Get(config, Spi3, v) /\ UNCHANGED <<p_bmp280, sensorVars>>

(* Read, modify, write, of a field the driver keeps no copy of. *)
SetConfig(field, v) ==
  /\ \/ Write(config, SetSlice(config, field, v))
     \/ (Fails \/ Refused) /\ UNCHANGED config
  /\ UNCHANGED <<p_bmp280, ctrl, raw, starting>>

bmp280_set_standby_durn(v) == SetConfig(StandbyDurn, v)
bmp280_set_filter(v)       == SetConfig(Filter, v)
bmp280_set_spi3(v)         == SetConfig(Spi3, v)

(* The oversampling of temperature and pressure in the five work modes. *)
WorkModes == [mode \in 0 .. 4 |-> [t |-> IF mode = 4 THEN 2 ELSE 1, p |-> mode + 1]]

(* The copy is updated once the register has been read. *)
bmp280_set_work_mode(mode) ==
  LET t == WorkModes[mode].t
      p == WorkModes[mode].p
      new == SetSlice(SetSlice(ctrl, OversampTemperature, t), OversampPressure, p)
  IN  /\ \/ /\ Write(ctrl, new)
            /\ p_bmp280' = [p_bmp280 EXCEPT !.oversamp_temperature = t,
                                            !.oversamp_pressure = p]
         \/ (Fails \/ Refused) /\ UNCHANGED <<ctrl, p_bmp280>>
      /\ UNCHANGED <<config, raw, starting>>

(* Registers are written as a whole, behind the back of the driver's copy.  *)
bmp280_write_register(ctrlByte, configByte) ==
  /\ \/ Write(ctrl, ctrlByte) /\ UNCHANGED config
     \/ Write(config, configByte) /\ UNCHANGED ctrl
     \/ Refused /\ UNCHANGED <<ctrl, config>>
  /\ UNCHANGED <<p_bmp280, raw, starting>>

bmp280_read_register == (Works \/ Fails \/ Refused) /\ UNCHANGED <<p_bmp280, sensorVars>>

(* The data registers of one quantity: nobody keeps what is read. *)
bmp280_read_uncomp_temperature == bmp280_read_register
bmp280_read_uncomp_pressure    == bmp280_read_register

(* The sensor forgets its settings and what it measured, and starts again. *)
SensorResets ==
  /\ ctrl' = 0
  /\ config' = 0
  /\ raw' = Void
  /\ starting' = TRUE

(* The driver's copy and the calibration stay. *)
bmp280_set_soft_rst ==
  /\ \/ Works /\ SensorResets
     \/ Fails /\ SensorResets
     \/ (Fails \/ Refused) /\ UNCHANGED sensorVars
  /\ UNCHANGED p_bmp280

-----------------------------------------------------------------------------
(* The sensor (external). *)

(* What a measurement under the present settings leaves. *)
Sample ==
  [p |-> IF GetSlice(ctrl, OversampPressure) = 0 THEN "void" ELSE "live",
   t |-> IF GetSlice(ctrl, OversampTemperature) = 0 THEN "void" ELSE "live"]

(* In normal mode it measures again and again, in forced mode once. *)
Convert ==
  /\ Measuring
  /\ raw' = Sample
  /\ ctrl' = IF GetSlice(ctrl, PowerMode) = NormalMode THEN ctrl
             ELSE SetSlice(ctrl, PowerMode, SleepMode)
  /\ UNCHANGED <<p_bmp280, config, starting, faults>>

(* It has started, and answers. *)
Ready ==
  /\ starting
  /\ starting' = FALSE
  /\ UNCHANGED <<p_bmp280, ctrl, config, raw, faults>>

(* The supply drops for a moment; the host does not notice. *)
BrownOut ==
  /\ faults < MaxFaults
  /\ faults' = faults + 1
  /\ SensorResets
  /\ UNCHANGED p_bmp280

-----------------------------------------------------------------------------
(* The host's memory after a boot. *)
FreshDriver ==
  [oversamp_temperature |-> 0, oversamp_pressure |-> 0, calib |-> "zero"]

BmpInit ==
  /\ p_bmp280 = FreshDriver
  /\ ctrl = 0
  /\ config = 0
  /\ raw = Void
  /\ starting = FALSE
  /\ faults = 0

BmpTypeOK ==
  /\ p_bmp280 \in [oversamp_temperature : 0 .. 7, oversamp_pressure : 0 .. 7,
                   calib : Calibrations]
  /\ ctrl \in 0 .. 255
  /\ config \in 0 .. 255
  /\ raw \in [p : {"void", "live"}, t : {"void", "live"}]
  /\ starting \in BOOLEAN
  /\ faults \in 0 .. MaxFaults

(* The driver's copy is what the sensor has. *)
InSync ==
  /\ p_bmp280.oversamp_temperature = GetSlice(ctrl, OversampTemperature)
  /\ p_bmp280.oversamp_pressure = GetSlice(ctrl, OversampPressure)

=============================================================================
