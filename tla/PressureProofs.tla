--------------------------- MODULE PressureProofs ---------------------------
(***************************************************************************)
(* Proofs about read_pressure() and pressure_task(), for any number of      *)
(* calls and of faults: what both keep (SensorIInv), the inductive          *)
(* invariant of each, the safety properties these give, and that a call of  *)
(* read_pressure keeps the promise of Barometer.                            *)
(***************************************************************************)
EXTENDS PressureTask, Bmp280Proofs

-----------------------------------------------------------------------------
(* The fields read_pressure sets, with the values it sets them to. *)
LEMMA SetTemperature ==
  ASSUME NEW reg \in 0 .. 255
  PROVE  LET new == SetSlice(reg, OversampTemperature, WantedTemperature)
         IN  /\ new \in 0 .. 255
             /\ GetSlice(new, OversampTemperature) = WantedTemperature
             /\ GetSlice(new, OversampPressure) = GetSlice(reg, OversampPressure)
             /\ GetSlice(new, PowerMode) = GetSlice(reg, PowerMode)
<1>1. WantedTemperature \in 0 .. 7
  BY DEF WantedTemperature
<1> QED
  BY <1>1, TemperatureField

LEMMA SetPressure ==
  ASSUME NEW reg \in 0 .. 255
  PROVE  LET new == SetSlice(reg, OversampPressure, WantedPressure)
         IN  /\ new \in 0 .. 255
             /\ GetSlice(new, OversampTemperature) = GetSlice(reg, OversampTemperature)
             /\ GetSlice(new, OversampPressure) = WantedPressure
             /\ GetSlice(new, PowerMode) = GetSlice(reg, PowerMode)
<1>1. WantedPressure \in 0 .. 7
  BY DEF WantedPressure
<1> QED
  BY <1>1, PressureField

LEMMA SetStandby ==
  ASSUME NEW reg \in 0 .. 255
  PROVE  LET new == SetSlice(reg, StandbyDurn, WantedStandby)
         IN  /\ new \in 0 .. 255
             /\ GetSlice(new, StandbyDurn) = WantedStandby
             /\ GetSlice(new, Filter) = GetSlice(reg, Filter)
             /\ new % 4 = reg % 4
<1>1. WantedStandby \in 0 .. 7
  BY DEF WantedStandby
<1> QED
  BY <1>1, StandbyField

LEMMA SetFilter ==
  ASSUME NEW reg \in 0 .. 255
  PROVE  LET new == SetSlice(reg, Filter, WantedFilter)
         IN  /\ new \in 0 .. 255
             /\ GetSlice(new, StandbyDurn) = GetSlice(reg, StandbyDurn)
             /\ GetSlice(new, Filter) = WantedFilter
             /\ new % 4 = reg % 4
<1>1. WantedFilter \in 0 .. 7
  BY DEF WantedFilter
<1> QED
  BY <1>1, FilterField

LEMMA SetNormal ==
  ASSUME NEW t \in 0 .. 7, NEW p \in 0 .. 7
  PROVE  LET new == t * 32 + p * 4 + NormalMode
         IN  new \in 0 .. 255 /\ GetSlice(new, PowerMode) = NormalMode
BY ComposedRegister DEF NormalMode

-----------------------------------------------------------------------------
(* The invariant holds when the sensor was just powered. *)
LEMMA InitPressureIInv == Init => PressureIInv
<1> SUFFICES ASSUME Init PROVE PressureIInv
  OBVIOUS
<1> USE CyclesAssumption, FaultsAssumption, NoReadingAssumption
         DEF Init, BmpInit, FreshDriver
<1>1. clean \in BOOLEAN /\ starting \in BOOLEAN
  OBVIOUS
<1>2. PressureTypeOK
  BY <1>1 DEF PressureTypeOK, CallTypeOK, BmpTypeOK, Void, Calibrations
<1>3. GetSlice(ctrl, PowerMode) = SleepMode /\ config % 4 = 0
  BY Cleared
<1> QED
  BY <1>2, <1>3
  DEF PressureIInv, SensorIInv, PressureTypeOK, AsleepShowsVoid, ReturnsCalibrated, CalibrationRead, SetUp, Since,
      StartsAsleep, StoredLast

(* Steps of the driver and of the sensor. *)
LEMMA StepSensorIInv ==
  ASSUME SensorIInv,
         \/ PressureInit \/ PressureSetup \/ Recheck \/ PressureReset \/ Delay
         \/ Restart \/ Reset \/ Measure \/ Start \/ LoseSupply \/ UNCHANGED vars
  PROVE  SensorIInv'
<1> USE CyclesAssumption, FaultsAssumption, NoReadingAssumption
<1> USE DEF SensorIInv, CallTypeOK, BmpTypeOK, Void, Calibrations, Setup,
            SleepMode, NormalMode
<1>1. CASE PressureInit
  <2>1. /\ pc = "init" /\ pc' = "power_mode"
        /\ UNCHANGED <<ctrl, config, raw, starting, then, call>>
        /\ faults' \in 0 .. MaxFaults /\ clean' \in BOOLEAN
        /\ clean' => clean
    BY <1>1 DEF PressureInit, bmp280_init, sensorVars, callVars, Note, Works, Fails,
                Refused
  <2>2. p_bmp280' \in [oversamp_temperature : 0 .. 7, oversamp_pressure : 0 .. 7,
                      calib : Calibrations]
    BY <1>1 DEF PressureInit, bmp280_init
  <2>3. ASSUME clean'
        PROVE  p_bmp280'.calib = "read"
    <3>1. faults' = faults /\ clean
      BY <1>1, <2>3 DEF PressureInit, Note
    <3>2. ~ starting
      BY <2>1, <3>1 DEF CalibrationRead
    <3>3. p_bmp280' = [p_bmp280 EXCEPT !.calib = "read"]
      BY <1>1, <3>1, <3>2 DEF PressureInit, bmp280_init, Fails, Refused
    <3> QED
      BY <3>3
  <2>4. StartsAsleep'
    BY <2>1 DEF StartsAsleep
  <2> QED
    BY <2>1, <2>2, <2>3, <2>4
    DEF AsleepShowsVoid, Measuring, CalibrationRead, SetUp, Since
<1>2. CASE PressureSetup
  <2>1. /\ UNCHANGED <<raw, starting, then, call>>
        /\ pc \in Setup /\ pc' \in Setup \cup {"read", "delay"}
        /\ call > 0
        /\ clean' \in BOOLEAN
        /\ clean' => clean /\ faults' = faults
    <3>1. UNCHANGED <<raw, starting, then, call>> /\ pc \in Setup
      BY <1>2 DEF PressureSetup, bmp280_set_power_mode, bmp280_set_oversamp_pressure,
                bmp280_set_oversamp_temperature, bmp280_set_standby_durn,
                bmp280_set_filter, SetConfig, callVars
    <3>2. pc' \in Setup \cup {"read", "delay"}
      BY <1>2 DEF PressureSetup
    <3>3. clean' = (clean /\ faults' = faults)
      BY <1>2 DEF PressureSetup, Note
    <3>4. clean' \in BOOLEAN /\ (clean' => clean /\ faults' = faults)
      BY <3>3
    <3>5. call > 0
      BY <3>1
    <3> QED
      BY <3>1, <3>2, <3>4, <3>5
  <2>2. Measuring => ~ starting
    BY Cleared DEF Measuring, StartsAsleep
  <2>3. CASE pc = "power_mode" /\ pc' = "oversamp_pressure"
             /\ bmp280_set_power_mode(WantedMode)
    <3> DEFINE new == CtrlMeas(NormalMode)
    <3>1. new \in 0 .. 255 /\ GetSlice(new, PowerMode) = NormalMode
      BY SetNormal DEF CtrlMeas
    <3>2. /\ UNCHANGED <<p_bmp280, config>>
          /\ faults' \in 0 .. MaxFaults
          /\ ctrl' \in {ctrl, new}
          /\ starting => ctrl' = ctrl
      BY <2>3 DEF WantedMode, bmp280_set_power_mode, Write, Works, Fails, Refused
    <3> HIDE DEF new
    <3>4. AsleepShowsVoid' /\ CalibrationRead' /\ StartsAsleep'
      BY <2>1, <2>2, <2>3, <3>1, <3>2
      DEF AsleepShowsVoid, Measuring, CalibrationRead, StartsAsleep
    <3>5. SetUp'
      BY <2>1, <2>2, <2>3, <3>1, <3>2 DEF SetUp, Since, Measuring
    <3>6. CallTypeOK'
      BY <2>1, <2>3, <3>1, <3>2
    <3>7. config' % 4 = 0 /\ GetSlice(ctrl, PowerMode)' \in {0, 3}
      BY <2>1, <2>3, <3>1, <3>2
    <3> QED
      BY <2>1, <3>4, <3>5, <3>6, <3>7
  <2>4. CASE pc = "oversamp_pressure" /\ pc' = "oversamp_temperature"
             /\ bmp280_set_oversamp_pressure(WantedPressure)
    <3> DEFINE new == SetSlice(ctrl, OversampPressure, WantedPressure)
               copy == [p_bmp280 EXCEPT !.oversamp_pressure = WantedPressure]
    <3>1. /\ new \in 0 .. 255
          /\ GetSlice(new, OversampPressure) = WantedPressure
          /\ GetSlice(new, OversampTemperature) = GetSlice(ctrl, OversampTemperature)
          /\ GetSlice(new, PowerMode) = GetSlice(ctrl, PowerMode)
      BY SetPressure
    <3>2. /\ UNCHANGED config
          /\ faults' \in 0 .. MaxFaults
          /\ ctrl' \in {ctrl, new} /\ p_bmp280' \in {p_bmp280, copy}
          /\ faults' = faults /\ ~ starting => ctrl' = new /\ p_bmp280' = copy
          /\ starting => ctrl' = ctrl
      BY <2>4 DEF bmp280_set_oversamp_pressure, Copied, Write, Works, Fails, Refused
    <3>3. /\ copy \in [oversamp_temperature : 0 .. 7, oversamp_pressure : 0 .. 7,
                       calib : Calibrations]
          /\ copy.calib = p_bmp280.calib
          /\ copy.oversamp_temperature = p_bmp280.oversamp_temperature
          /\ copy.oversamp_pressure = WantedPressure
      BY DEF WantedPressure
    <3> HIDE DEF new, copy
    <3>4. AsleepShowsVoid' /\ CalibrationRead' /\ StartsAsleep'
      BY <2>1, <2>2, <2>4, <3>1, <3>2, <3>3
      DEF AsleepShowsVoid, Measuring, CalibrationRead, StartsAsleep
    <3>5. SetUp'
      BY <2>1, <2>2, <2>4, <3>1, <3>2, <3>3 DEF SetUp, Since, Measuring
    <3>6. CallTypeOK'
      BY <2>1, <2>4, <3>1, <3>2, <3>3
    <3>7. config' % 4 = 0 /\ GetSlice(ctrl, PowerMode)' \in {0, 3}
      BY <2>1, <2>4, <3>1, <3>2, <3>3
    <3> QED
      BY <2>1, <3>4, <3>5, <3>6, <3>7
  <2>5. CASE pc = "oversamp_temperature" /\ pc' = "standby_durn"
             /\ bmp280_set_oversamp_temperature(WantedTemperature)
    <3> DEFINE new == SetSlice(ctrl, OversampTemperature, WantedTemperature)
               copy == [p_bmp280 EXCEPT !.oversamp_temperature = WantedTemperature]
    <3>1. /\ new \in 0 .. 255
          /\ GetSlice(new, OversampTemperature) = WantedTemperature
          /\ GetSlice(new, OversampPressure) = GetSlice(ctrl, OversampPressure)
          /\ GetSlice(new, PowerMode) = GetSlice(ctrl, PowerMode)
      BY SetTemperature
    <3>2. /\ UNCHANGED config
          /\ faults' \in 0 .. MaxFaults
          /\ ctrl' \in {ctrl, new} /\ p_bmp280' \in {p_bmp280, copy}
          /\ faults' = faults /\ ~ starting => ctrl' = new /\ p_bmp280' = copy
          /\ starting => ctrl' = ctrl
      BY <2>5 DEF bmp280_set_oversamp_temperature, Copied, Write, Works, Fails, Refused
    <3>3. /\ copy \in [oversamp_temperature : 0 .. 7, oversamp_pressure : 0 .. 7,
                       calib : Calibrations]
          /\ copy.calib = p_bmp280.calib
          /\ copy.oversamp_pressure = p_bmp280.oversamp_pressure
          /\ copy.oversamp_temperature = WantedTemperature
      BY DEF WantedTemperature
    <3> HIDE DEF new, copy
    <3>4. AsleepShowsVoid' /\ CalibrationRead' /\ StartsAsleep'
      BY <2>1, <2>2, <2>5, <3>1, <3>2, <3>3
      DEF AsleepShowsVoid, Measuring, CalibrationRead, StartsAsleep
    <3>5. SetUp'
      BY <2>1, <2>2, <2>5, <3>1, <3>2, <3>3 DEF SetUp, Since, Measuring
    <3>6. CallTypeOK'
      BY <2>1, <2>5, <3>1, <3>2, <3>3
    <3>7. config' % 4 = 0 /\ GetSlice(ctrl, PowerMode)' \in {0, 3}
      BY <2>1, <2>5, <3>1, <3>2, <3>3
    <3> QED
      BY <2>1, <3>4, <3>5, <3>6, <3>7
  <2>6. CASE pc = "standby_durn" /\ pc' = "filter"
             /\ bmp280_set_standby_durn(WantedStandby)
    <3> DEFINE new == SetSlice(config, StandbyDurn, WantedStandby)
    <3>1. /\ new \in 0 .. 255
          /\ GetSlice(new, StandbyDurn) = WantedStandby
          /\ GetSlice(new, Filter) = GetSlice(config, Filter)
          /\ new % 4 = config % 4
      BY SetStandby
    <3>2. /\ UNCHANGED <<ctrl, p_bmp280>>
          /\ faults' \in 0 .. MaxFaults
          /\ config' \in {config, new}
          /\ faults' = faults /\ ~ starting => config' = new
      BY <2>6 DEF bmp280_set_standby_durn, SetConfig, Write, Works, Fails, Refused
    <3> HIDE DEF new
    <3>4. AsleepShowsVoid' /\ CalibrationRead' /\ StartsAsleep'
      BY <2>1, <2>2, <2>6, <3>1, <3>2
      DEF AsleepShowsVoid, Measuring, CalibrationRead, StartsAsleep
    <3>5. SetUp'
      BY <2>1, <2>2, <2>6, <3>1, <3>2 DEF SetUp, Since, Measuring
    <3>6. CallTypeOK'
      BY <2>1, <2>6, <3>1, <3>2
    <3>7. config' % 4 = 0 /\ GetSlice(ctrl, PowerMode)' \in {0, 3}
      BY <2>1, <2>6, <3>1, <3>2
    <3> QED
      BY <2>1, <3>4, <3>5, <3>6, <3>7
  <2>7. CASE pc = "filter" /\ pc' = then
             /\ bmp280_set_filter(WantedFilter)
    <3> DEFINE new == SetSlice(config, Filter, WantedFilter)
    <3>1. /\ new \in 0 .. 255
          /\ GetSlice(new, Filter) = WantedFilter
          /\ GetSlice(new, StandbyDurn) = GetSlice(config, StandbyDurn)
          /\ new % 4 = config % 4
      BY SetFilter
    <3>2. /\ UNCHANGED <<ctrl, p_bmp280>>
          /\ faults' \in 0 .. MaxFaults
          /\ config' \in {config, new}
          /\ faults' = faults /\ ~ starting => config' = new
      BY <2>7 DEF bmp280_set_filter, SetConfig, Write, Works, Fails, Refused
    <3> HIDE DEF new
    <3>4. AsleepShowsVoid' /\ CalibrationRead' /\ StartsAsleep'
      BY <2>1, <2>2, <2>7, <3>1, <3>2
      DEF AsleepShowsVoid, Measuring, CalibrationRead, StartsAsleep
    <3>5. SetUp'
      BY <2>1, <2>2, <2>7, <3>1, <3>2 DEF SetUp, Since, Measuring
    <3>6. CallTypeOK'
      BY <2>1, <2>7, <3>1, <3>2
    <3>7. config' % 4 = 0 /\ GetSlice(ctrl, PowerMode)' \in {0, 3}
      BY <2>1, <2>7, <3>1, <3>2
    <3> QED
      BY <2>1, <3>4, <3>5, <3>6, <3>7
  <2> QED
    BY <1>2, <2>3, <2>4, <2>5, <2>6, <2>7 DEF PressureSetup
<1>3. CASE Recheck
  <2>1. /\ pc = "recheck" /\ pc' \in {"reset", "delay"}
        /\ UNCHANGED <<p_bmp280, ctrl, config, raw, starting, call>>
        /\ then' \in {"read", "delay"}
    BY <1>3 DEF Recheck, sensorVars
  <2>2. /\ faults' \in 0 .. MaxFaults /\ clean' \in BOOLEAN
        /\ clean' => clean
    BY <1>3 DEF Recheck, Works, Fails, Refused, Note
  <2>3. StartsAsleep'
    BY <2>1 DEF StartsAsleep
  <2> QED
    BY <2>1, <2>2, <2>3
    DEF AsleepShowsVoid, Measuring, CalibrationRead, SetUp, Since
<1>4. CASE PressureReset
  <2>1. /\ pc = "reset" /\ pc' = "power_mode"
        /\ UNCHANGED <<p_bmp280, then, call>>
        /\ \/ UNCHANGED <<ctrl, config, raw, starting>>
           \/ ctrl' = 0 /\ config' = 0 /\ raw' = Void /\ starting' = TRUE
    BY <1>4 DEF PressureReset, bmp280_set_soft_rst, SensorResets, sensorVars, callVars
  <2>2. /\ faults' \in 0 .. MaxFaults /\ clean' \in BOOLEAN
        /\ clean' => clean
    BY <1>4 DEF PressureReset, bmp280_set_soft_rst, Works, Fails, Refused, Note
  <2>3. /\ CalibrationRead' /\ SetUp'
        /\ StartsAsleep'
    BY <2>1, <2>2
    DEF CalibrationRead, SetUp, Since, StartsAsleep
  <2>4. CASE UNCHANGED <<ctrl, config, raw, starting>>
    BY <2>1, <2>2, <2>3, <2>4 DEF AsleepShowsVoid, Measuring
  <2>5. CASE ctrl' = 0 /\ config' = 0 /\ raw' = Void /\ starting' = TRUE
    <3>1. raw' \in [p : {"void", "live"}, t : {"void", "live"}] /\ starting' \in BOOLEAN
      BY <2>5
    <3>2. CallTypeOK'
      BY <2>1, <2>2, <2>5, <3>1
    <3>3. GetSlice(ctrl, PowerMode)' = 0 /\ config' % 4 = 0
      BY <2>5, Cleared
    <3> QED
      BY <2>1, <2>3, <2>5, <3>2, <3>3 DEF AsleepShowsVoid
  <2> QED
    BY <2>1, <2>4, <2>5
<1>5. CASE Delay
  BY <1>5 DEF Delay, bmpVars, sensorVars, callVars, AsleepShowsVoid, Measuring,
              CalibrationRead, SetUp, Since, GetSlice, StartsAsleep
<1>6. CASE Restart \/ Reset
  <2>1. Boot /\ faults' \in 0 .. MaxFaults
    BY <1>6 DEF Restart, Reset
  <2> QED
    BY <2>1 DEF Boot, FreshDriver, sensorVars, AsleepShowsVoid, Measuring,
                CalibrationRead, SetUp, Since, GetSlice, StartsAsleep
<1>7. CASE Measure
  <2>1. /\ UNCHANGED <<p_bmp280, config, starting, faults, pc, then, call, clean>>
        /\ Measuring /\ raw' = Sample
        /\ ctrl' = ctrl
    BY <1>7 DEF Measure, Convert, callVars, Measuring
  <2>2. raw' \in [p : {"void", "live"}, t : {"void", "live"}]
    BY <2>1 DEF Sample
  <2>3. Measuring'
    BY <2>1 DEF Measuring
  <2>4. StartsAsleep'
    BY <2>1, <2>3 DEF StartsAsleep
  <2> QED
    BY <2>1, <2>2, <2>3, <2>4
    DEF AsleepShowsVoid, Measuring, CalibrationRead, SetUp, Since
<1>8. CASE Start
  <2>1. /\ starting' = FALSE /\ starting' \in BOOLEAN
        /\ UNCHANGED <<p_bmp280, ctrl, config, raw, faults, pc, then, call, clean>>
    BY <1>8 DEF Start, Ready, callVars
  <2> QED
    BY <2>1 DEF AsleepShowsVoid, Measuring, CalibrationRead, SetUp,
                Since, StartsAsleep
<1>9. CASE LoseSupply
  <2>1. /\ ctrl' = 0 /\ config' = 0 /\ raw' = Void /\ starting' = TRUE
        /\ UNCHANGED <<p_bmp280, pc, then, call>>
        /\ faults' \in 0 .. MaxFaults
        /\ clean' = FALSE
    BY <1>9 DEF LoseSupply, BrownOut, SensorResets, Fails, callVars
  <2>2. AsleepShowsVoid' /\ CalibrationRead' /\ SetUp'
    BY <2>1 DEF AsleepShowsVoid, CalibrationRead, SetUp
  <2>3. BmpTypeOK'
    <3>1. /\ raw' \in [p : {"void", "live"}, t : {"void", "live"}]
          /\ starting' \in BOOLEAN
      BY <2>1
    <3> QED
      BY <2>1, <3>1
  <2>4. CallTypeOK' /\ StartsAsleep' /\ (call = 0 => pc = "idle")'
    BY <2>1, <2>3 DEF StartsAsleep
  <2>5. GetSlice(ctrl, PowerMode)' = 0 /\ config' % 4 = 0
    BY <2>1, Cleared
  <2> QED
    BY <2>2, <2>4, <2>5
<1>10. CASE UNCHANGED vars
  BY <1>10 DEF vars, bmpVars, sensorVars, callVars, AsleepShowsVoid, Measuring,
               CalibrationRead, SetUp, Since, GetSlice, StartsAsleep
<1> QED
  BY <1>1, <1>2, <1>3, <1>4, <1>5, <1>6, <1>7, <1>8, <1>9, <1>10

(* A call, or the task, begins: nothing but its own state changes. *)
LEMMA BeginSensorIInv ==
  ASSUME SensorIInv,
         pc = "idle", call < Cycles, call' = call + 1, pc' = "init",
         then' \in {"read", "delay"}, clean' \in BOOLEAN, clean' => ~ starting,
         UNCHANGED bmpVars
  PROVE  SensorIInv'
<1> USE CyclesAssumption
<1> USE DEF SensorIInv, CallTypeOK, BmpTypeOK, Setup
<1>1. UNCHANGED <<p_bmp280, ctrl, config, raw, starting, faults>>
  BY DEF bmpVars, sensorVars
<1>2. call' \in 1 .. Cycles
  OBVIOUS
<1>3. CalibrationRead' /\ StartsAsleep'
  BY <1>1, <1>2 DEF CalibrationRead, StartsAsleep
<1> QED
  BY <1>1, <1>2, <1>3 DEF AsleepShowsVoid, Measuring, SetUp, Since

(* The loop's first reading changes neither the driver nor the sensor. *)
LEMMA ReadSensorIInv ==
  ASSUME SensorIInv,
         pc = "read", pc' \in {"recheck", "reset", "idle", "delay"},
         UNCHANGED <<p_bmp280, sensorVars, call>>, then' \in {"read", "delay"},
         \E kind : Yields(kind), Note
  PROVE  SensorIInv'
<1> USE FaultsAssumption DEF SensorIInv, CallTypeOK, BmpTypeOK, Setup
<1>1. UNCHANGED <<p_bmp280, ctrl, config, raw, starting, call>>
  BY DEF sensorVars
<1>2. faults' \in 0 .. MaxFaults
  <2>1. Works \/ Fails \/ Refused
    BY DEF Yields
  <2> QED
    BY <2>1 DEF Works, Fails, Refused
<1>3. clean' \in BOOLEAN /\ (clean' => clean)
  BY DEF Note
<1>4. CallTypeOK' /\ call # 0
  BY <1>1, <1>2, <1>3
<1>5. StartsAsleep' /\ CalibrationRead' /\ AsleepShowsVoid'
  BY <1>1, <1>3 DEF StartsAsleep, CalibrationRead, AsleepShowsVoid, Measuring
<1>6. SetUp'
  BY <1>1, <1>3 DEF SetUp, Since, Measuring
<1> QED
  BY <1>1, <1>4, <1>5, <1>6

(* Every step of read_pressure's model keeps its invariant. *)
LEMMA StepPressureIInv == PressureIInv /\ [Next]_vars => PressureIInv'
<1> SUFFICES ASSUME PressureIInv, [Next]_vars
             PROVE  PressureIInv'
  OBVIOUS
<1> USE CyclesAssumption, NoReadingAssumption
<1>0. SensorIInv /\ CallTypeOK /\ BmpTypeOK /\ (call = 0 => pc = "idle")
  BY DEF PressureIInv, SensorIInv, CallTypeOK
<1>1. CASE Call
  <2>1. /\ pc = "idle" /\ call < Cycles /\ call' = call + 1
        /\ pc' = "init" /\ then' = "read"
        /\ UNCHANGED bmpVars /\ UNCHANGED reading
        /\ clean' \in BOOLEAN /\ (clean' => ~ starting)
    BY <1>1 DEF Call
  <2>2. SensorIInv'
    BY <1>0, <2>1, BeginSensorIInv
  <2>3. CallTypeOK'
    BY <2>2 DEF SensorIInv
  <2> QED
    BY <1>0, <2>1, <2>2, <2>3
    DEF PressureIInv, PressureTypeOK, CallTypeOK, ReturnsCalibrated, StoredLast
<1>2. CASE ReadSensor
  <2>1. /\ pc = "read" /\ pc' \in {"recheck", "reset", "idle"}
        /\ UNCHANGED <<p_bmp280, sensorVars, call>>
        /\ then' \in {"read", "delay"}
        /\ Note
        /\ reading' = reading \/ (reading' = call /\ pc' = "idle" /\ Yields("ok"))
    BY <1>0, <1>2 DEF ReadSensor, Break, CallTypeOK
  <2>2. \E kind : Yields(kind)
    BY <1>2 DEF ReadSensor
  <2>3. SensorIInv'
    BY <1>0, <2>1, <2>2, ReadSensorIInv
  <2>4. pc' = "idle" => p_bmp280.calib # "zero"
    BY <1>0, <1>2 DEF ReadSensor, Yields, Kinds, Unread
  <2>5. Yields("ok") => Measuring \/ "ok" \in VoidKinds
    BY <1>0 DEF Yields, Kinds, Unread, SensorIInv, AsleepShowsVoid, Void
  <2>6. call \in 1 .. Cycles /\ (Measuring' <=> Measuring)
    BY <1>0, <2>1 DEF CallTypeOK, Measuring, sensorVars
  <2>7. StoredLast'
    BY <2>1, <2>5, <2>6 DEF PressureIInv, StoredLast
  <2>8. CallTypeOK'
    BY <2>3 DEF SensorIInv
  <2> QED
    BY <2>1, <2>3, <2>4, <2>6, <2>7, <2>8
    DEF PressureIInv, PressureTypeOK, ReturnsCalibrated
<1>3. CASE \/ PressureInit \/ PressureSetup \/ Recheck \/ PressureReset \/ Delay
           \/ Measure \/ Start \/ LoseSupply \/ Restart \/ Reset \/ UNCHANGED vars
  <2>1. SensorIInv' /\ CallTypeOK'
    BY <1>0, <1>3, StepSensorIInv DEF SensorIInv
  <2>2. CASE PressureInit \/ PressureSetup \/ Recheck \/ PressureReset \/ Delay
    <3>1. /\ pc # "idle" /\ pc' # "idle"
          /\ UNCHANGED <<call, reading>>
      BY <1>0, <2>2 DEF PressureInit, PressureSetup, Recheck, PressureReset, Delay,
                        callVars, CallTypeOK
    <3> QED
      BY <2>1, <3>1 DEF PressureIInv, PressureTypeOK, ReturnsCalibrated, StoredLast
  <2>3. CASE Measure \/ Start \/ UNCHANGED vars
    <3>1. UNCHANGED <<pc, call, reading, clean, p_bmp280>>
      BY <2>3 DEF Measure, Convert, Start, Ready, callVars, vars, bmpVars
    <3>2. Measuring => Measuring'
      BY <1>0, <2>3 DEF Measure, Convert, Start, Ready, Measuring, vars, bmpVars, sensorVars,
                        PressureIInv, SensorIInv
    <3> QED
      BY <2>1, <3>1, <3>2 DEF PressureIInv, PressureTypeOK, ReturnsCalibrated, StoredLast
  <2>4. CASE LoseSupply
    BY <2>1, <2>4 DEF LoseSupply, BrownOut, callVars, PressureIInv, PressureTypeOK,
                      ReturnsCalibrated, StoredLast
  <2>5. CASE Restart \/ Reset
    BY <2>1, <2>5 DEF Restart, Reset, Boot, PressureIInv, PressureTypeOK,
                      ReturnsCalibrated, StoredLast
  <2> QED
    BY <1>3, <2>2, <2>3, <2>4, <2>5
<1> QED
  BY <1>1, <1>2, <1>3 DEF Next, ReadPressure

-----------------------------------------------------------------------------
(* The inductive invariant holds for any number of calls and of faults. *)
THEOREM PressureInvariance == Spec => []PressureIInv
<1>1. Init => PressureIInv
  BY InitPressureIInv
<1>2. PressureIInv /\ [Next]_vars => PressureIInv'
  BY StepPressureIInv
<1> QED
  BY <1>1, <1>2, PTL DEF Spec

(* Every sensor that has gone to sleep shows void registers: what           *)
(* read_pressure looks at before it resets the sensor.                      *)
THEOREM SleepIsVisible == Spec => []AsleepShowsVoid
<1>1. PressureIInv => AsleepShowsVoid
  BY DEF PressureIInv, SensorIInv
<1> QED
  BY <1>1, PressureInvariance, PTL

(* read_pressure returns only with a calibration. *)
THEOREM Calibrated == Spec => []ReturnsCalibrated
<1>1. PressureIInv => ReturnsCalibrated
  BY DEF PressureIInv, SensorIInv
<1> QED
  BY <1>1, PressureInvariance, PTL

(* The fields of a register make up its value. *)
LEMMA Composed ==
  ASSUME NEW c \in 0 .. 255, NEW f \in 0 .. 255,
         c % 4 = 3, (c \div 4) % 8 = 5, (c \div 32) % 8 = 2,
         f % 4 = 0, (f \div 4) % 8 = 4, (f \div 32) % 8 = 0
  PROVE  c = 87 /\ f = 16
  OBVIOUS

(* A sensor that measures after a setup without a fault has all five        *)
(* settings.                                                                *)
LEMMA Configured ==
  ASSUME SensorIInv, clean, Measuring, Since(Setup)
  PROVE  ctrl = WantedCtrl /\ config = WantedConfig /\ InSync
<1>1. /\ GetSlice(ctrl, PowerMode) \in {SleepMode, NormalMode}
      /\ GetSlice(ctrl, OversampPressure) = WantedPressure
      /\ GetSlice(ctrl, OversampTemperature) = WantedTemperature
      /\ p_bmp280.oversamp_pressure = WantedPressure
      /\ p_bmp280.oversamp_temperature = WantedTemperature
      /\ GetSlice(config, StandbyDurn) = WantedStandby
      /\ GetSlice(config, Filter) = WantedFilter
      /\ config % 4 = 0
  BY DEF SensorIInv, SetUp, Since, Setup
<1>2. ctrl \in 0 .. 255 /\ config \in 0 .. 255
  BY DEF SensorIInv, CallTypeOK, BmpTypeOK
<1>3. ctrl = 87 /\ config = 16
  <2>1. ctrl % 4 = 3 /\ (ctrl \div 4) % 8 = 5 /\ (ctrl \div 32) % 8 = 2
    BY <1>1, <1>2
       DEF Measuring, GetSlice, PowerMode, OversampPressure, OversampTemperature,
           WantedPressure, WantedTemperature, SleepMode, NormalMode
  <2>2. (config \div 4) % 8 = 4 /\ (config \div 32) % 8 = 0
    BY <1>1, <1>2 DEF GetSlice, StandbyDurn, Filter, WantedStandby, WantedFilter
  <2> QED
    BY <2>1, <2>2, <1>1, <1>2, Composed
<1> QED
  BY <1>1, <1>3 DEF WantedCtrl, WantedConfig, WantedTemperature, WantedPressure,
                    WantedStandby, WantedFilter, NormalMode, InSync

(* A call no fault has hit leaves the sensor configured as asked, however   *)
(* it found it.                                                             *)
THEOREM CleanCallsConfigure == Spec => []CleanCallConfigures
<1>1. PressureIInv => CleanCallConfigures
  <2> SUFFICES ASSUME PressureIInv, pc = "idle", call > 0, clean,
                      Measuring \/ (reading = call /\ "ok" \notin VoidKinds)
               PROVE  ctrl = WantedCtrl /\ config = WantedConfig /\ InSync
    BY DEF CleanCallConfigures
  <2>1. SensorIInv /\ Measuring
    BY DEF PressureIInv, StoredLast
  <2>2. Since(Setup)
    BY DEF Since, Setup
  <2> QED
    BY <2>1, <2>2, Configured
<1> QED
  BY <1>1, PressureInvariance, PTL

(* A reading is "ok" only for a sensor that measured both quantities, where *)
(* void registers do not look measured.                                     *)
LEMMA OkIsMeasured ==
  ASSUME SensorIInv, Yields("ok")
  PROVE  raw = [p |-> "live", t |-> "live"] \/ "ok" \in VoidKinds
<1> SUFFICES ASSUME "ok" \notin VoidKinds
             PROVE  raw = [p |-> "live", t |-> "live"]
  OBVIOUS
<1>1. "ok" \in Kinds(p_bmp280.calib, raw, TRUE) \cup Kinds(p_bmp280.calib, raw, FALSE)
  BY DEF Yields, Unread
<1>2. raw \in [p : {"void", "live"}, t : {"void", "live"}]
  BY DEF SensorIInv, CallTypeOK, BmpTypeOK
<1>3. raw.p = "live" /\ raw.t = "live"
  BY <1>1, <1>2 DEF Kinds, Unread
<1> QED
  BY <1>2, <1>3

(* Only a first reading that is "ok" stores a pressure, and it is "ok" only *)
(* for a sensor that measured both quantities.                              *)
LEMMA StoringStep ==
  ASSUME PressureIInv, [Next]_vars, reading' \notin {reading, NoReading}
  PROVE  /\ pc = "read" /\ pc' = "idle"
         /\ reading' = call /\ call' = call
         /\ raw = [p |-> "live", t |-> "live"] \/ "ok" \in VoidKinds
         /\ clean => p_bmp280.calib = "read"
<1>1. ReadSensor
  BY DEF Next, ReadPressure, Call, PressureInit, PressureSetup, Recheck, PressureReset,
         Delay, Boot, Restart, Reset, Measure, Start, LoseSupply, callVars, vars
<1>2. pc = "read" /\ pc' = "idle" /\ reading' = call /\ call' = call /\ Yields("ok")
  BY <1>1 DEF ReadSensor, Break
<1>3. raw = [p |-> "live", t |-> "live"] \/ "ok" \in VoidKinds
  BY <1>2, OkIsMeasured DEF PressureIInv
<1>4. call > 0
  BY <1>2 DEF PressureIInv, SensorIInv, CallTypeOK
<1> QED
  BY <1>2, <1>3, <1>4 DEF PressureIInv, SensorIInv, CalibrationRead

(* A pressure is stored only from a sensor that measured both quantities,   *)
(* and computed with a whole calibration unless a fault has hit the call.   *)
THEOREM StoresMeasurements == Spec => StoredIsMeasured
<1>1. PressureIInv /\ [Next]_vars =>
        [reading' \notin {reading, NoReading} =>
           /\ raw = [p |-> "live", t |-> "live"] \/ "ok" \in VoidKinds
           /\ clean => p_bmp280.calib = "read"]_vars
  BY StoringStep
<1> QED
  BY <1>1, PressureInvariance, PTL DEF Spec, StoredIsMeasured

(* read_pressure keeps the promise of Barometer: a call that returns has    *)
(* stored a pressure of its own, or nothing.                                *)
THEOREM KeepsPromise == Spec => ImplementsBarometer
<1>1. Init => Meter!Init
  BY DEF Init, Meter!Init
<1>2. PressureIInv /\ [Next]_vars => [Meter!Next]_(Meter!vars)
  <2> SUFFICES ASSUME PressureIInv, [Next]_vars
               PROVE  [Meter!Next]_(Meter!vars)
    OBVIOUS
  <2> USE DEF Meter!Next, Meter!Call, Meter!Return, Meter!Restart, Meter!Reset,
              Meter!vars
  <2>1. CASE Call
    BY <2>1 DEF Call
  <2>2. CASE PressureInit \/ PressureReset \/ Delay \/ Recheck
    BY <2>2 DEF PressureInit, PressureReset, Delay, Recheck, callVars
  <2>3. CASE PressureSetup
    BY <2>3 DEF PressureSetup, callVars, PressureIInv, SensorIInv, CallTypeOK
  <2>4. CASE ReadSensor
    BY <2>4 DEF ReadSensor, Break
  <2>5. CASE Restart \/ Reset
    BY <2>5 DEF Restart, Reset, Boot
  <2>6. CASE Measure \/ Start \/ LoseSupply \/ UNCHANGED vars
    BY <2>6 DEF Measure, Start, LoseSupply, callVars, vars
  <2> QED
    BY <2>1, <2>2, <2>3, <2>4, <2>5, <2>6 DEF Next, ReadPressure
<1> QED
  BY <1>1, <1>2, PressureInvariance, PTL DEF Spec, ImplementsBarometer, Meter!Spec

-----------------------------------------------------------------------------
(* What a step of pressure_task's setup leaves, when no fault has hit it: a *)
(* sensor that answers hears the mode it is told, and keeps it.             *)
LEMMA SetupKeepsMode ==
  ASSUME SensorIInv, PressureSetup, ~ starting, faults' = faults,
         pc # "power_mode" => Measuring
  PROVE  Measuring'
<1> USE DEF SleepMode
<1>0. /\ ctrl \in 0 .. 255
      /\ p_bmp280.oversamp_temperature \in 0 .. 7 /\ p_bmp280.oversamp_pressure \in 0 .. 7
  BY DEF SensorIInv, CallTypeOK, BmpTypeOK
<1>1. CASE pc = "power_mode" /\ bmp280_set_power_mode(WantedMode)
  <2>1. GetSlice(CtrlMeas(NormalMode), PowerMode) = NormalMode
    BY <1>0, SetNormal DEF CtrlMeas
  <2>2. ctrl' = CtrlMeas(NormalMode)
    BY <1>1, FaultsAssumption DEF bmp280_set_power_mode, WantedMode, Write, Works, Fails, Refused,
                SensorIInv, CallTypeOK, BmpTypeOK
  <2> QED
    BY <2>1, <2>2 DEF Measuring, NormalMode
<1>2. CASE pc = "oversamp_pressure" /\ bmp280_set_oversamp_pressure(WantedPressure)
  <2>1. ctrl' \in {ctrl, SetSlice(ctrl, OversampPressure, WantedPressure)}
    BY <1>2 DEF bmp280_set_oversamp_pressure, Write
  <2> QED
    BY <1>0, <1>2, <2>1, SetPressure DEF Measuring
<1>3. CASE pc = "oversamp_temperature" /\ bmp280_set_oversamp_temperature(WantedTemperature)
  <2>1. ctrl' \in {ctrl, SetSlice(ctrl, OversampTemperature, WantedTemperature)}
    BY <1>3 DEF bmp280_set_oversamp_temperature, Write
  <2> QED
    BY <1>0, <1>3, <2>1, SetTemperature DEF Measuring
<1>4. CASE \/ pc = "standby_durn" /\ bmp280_set_standby_durn(WantedStandby)
           \/ pc = "filter" /\ bmp280_set_filter(WantedFilter)
  BY <1>4 DEF bmp280_set_standby_durn, bmp280_set_filter, SetConfig, Measuring
<1> QED
  BY <1>1, <1>2, <1>3, <1>4 DEF PressureSetup

(* The steps of pressure_task keep what a start without a fault gives. *)
LEMMA StepTaskIInv == TaskIInv /\ [TaskNext]_vars => TaskIInv'
<1> SUFFICES ASSUME TaskIInv, [TaskNext]_vars
             PROVE  TaskIInv'
  OBVIOUS
<1> USE CyclesAssumption, NoReadingAssumption
<1>0. /\ SensorIInv /\ CallTypeOK /\ BmpTypeOK /\ (call = 0 => pc = "idle")
      /\ reading \in {NoReading, 1, 2} /\ (pc = "idle" => call = 0)
      /\ call \in {0, 1} /\ (call = 1 => then = "delay") /\ StartedWell
  BY DEF TaskIInv, SensorIInv, CallTypeOK
<1>1. CASE Begin
  <2>1. /\ pc = "idle" /\ call = 0 /\ call' = 1 /\ pc' = "init" /\ then' = "delay"
        /\ UNCHANGED bmpVars /\ UNCHANGED reading
        /\ clean' \in BOOLEAN /\ (clean' => ~ starting) /\ ~ starting
    BY <1>1 DEF Begin
  <2>2. call < Cycles /\ call' = call + 1
    BY <2>1
  <2>3. SensorIInv'
    BY <1>0, <2>1, <2>2, BeginSensorIInv
  <2>4. StartedWell'
    BY <2>1 DEF StartedWell, bmpVars, sensorVars
  <2> QED
    BY <1>0, <2>1, <2>3, <2>4 DEF TaskIInv
<1>2. CASE TaskRead
  <2>1. /\ pc = "read" /\ pc' \in {"recheck", "delay"}
        /\ UNCHANGED <<p_bmp280, sensorVars, then, call>>
        /\ Note
        /\ reading' \in {reading, 1, 2}
    BY <1>2 DEF TaskRead
  <2>2. \E kind : Yields(kind)
    BY <1>2 DEF TaskRead
  <2>3. then' \in {"read", "delay"}
    BY <1>0, <2>1 DEF CallTypeOK
  <2>4. SensorIInv'
    BY <1>0, <2>1, <2>2, <2>3, ReadSensorIInv
  <2>5. StartedWell'
    BY <1>0, <2>1 DEF StartedWell, Note, sensorVars, Measuring
  <2> QED
    BY <1>0, <2>1, <2>4, <2>5 DEF TaskIInv
<1>3. CASE \/ PressureInit \/ PressureSetup \/ Recheck \/ PressureReset \/ TaskDelay
           \/ Measure \/ Start \/ LoseSupply \/ Reset \/ UNCHANGED vars
  <2>1. SensorIInv'
    BY <1>0, <1>3, StepSensorIInv DEF TaskDelay
  <2>2. CASE PressureInit
    <3>1. /\ pc = "init" /\ pc' = "power_mode"
          /\ UNCHANGED <<sensorVars, then, call, reading>> /\ (clean' => clean)
      BY <2>2 DEF PressureInit, bmp280_init, callVars, Note
    <3>2. StartedWell'
      BY <1>0, <3>1 DEF StartedWell, sensorVars
    <3> QED
      BY <1>0, <2>1, <3>1, <3>2 DEF TaskIInv
  <2>3. CASE PressureSetup
    <3>1. /\ pc \in Setup /\ pc' \in Setup \cup {"delay"}
          /\ UNCHANGED <<starting, then, call, reading>>
          /\ clean' => clean /\ faults' = faults
      <4>1. call = 1
        BY <1>0, <2>3 DEF PressureSetup
      <4>2. UNCHANGED <<starting, then, call, reading>>
        BY <2>3 DEF PressureSetup, bmp280_set_power_mode, bmp280_set_oversamp_pressure,
                    bmp280_set_oversamp_temperature, bmp280_set_standby_durn,
                    bmp280_set_filter, SetConfig, callVars
      <4>3. pc \in Setup /\ pc' \in Setup \cup {"delay"}
        BY <1>0, <2>3, <4>1 DEF PressureSetup, Setup
      <4>4. clean' => clean /\ faults' = faults
        BY <2>3 DEF PressureSetup, Note
      <4> QED
        BY <4>2, <4>3, <4>4
    <3>2. clean' /\ call = 1 => Measuring'
      BY <1>0, <2>3, <3>1, SetupKeepsMode DEF StartedWell, Setup
    <3>3. StartedWell'
      BY <1>0, <3>1, <3>2 DEF StartedWell, Setup
    <3> QED
      BY <1>0, <2>1, <3>1, <3>3 DEF TaskIInv, Setup
  <2>4. CASE Recheck
    <3>1. /\ pc = "recheck" /\ pc' \in {"reset", "delay"} /\ then' \in {then, "delay"}
          /\ UNCHANGED <<sensorVars, call, reading>> /\ (clean' => clean)
      BY <2>4 DEF Recheck, Note
    <3>2. clean' /\ call = 1 => pc' # "reset"
      <4>1. clean' /\ call = 1 => raw # Void
        BY <1>0, <3>1 DEF StartedWell, Void
      <4> QED
        BY <2>4, <4>1 DEF Recheck
    <3>3. StartedWell'
      BY <1>0, <3>1, <3>2 DEF StartedWell, sensorVars, Measuring
    <3> QED
      BY <1>0, <2>1, <3>1, <3>3 DEF TaskIInv
  <2>5. CASE PressureReset
    <3>1. /\ pc = "reset" /\ pc' = "power_mode"
          /\ UNCHANGED <<then, call, reading>> /\ (clean' => clean)
      BY <2>5 DEF PressureReset, callVars, Note
    <3>2. StartedWell'
      BY <1>0, <3>1 DEF StartedWell
    <3> QED
      BY <1>0, <2>1, <3>1, <3>2 DEF TaskIInv
  <2>6. CASE TaskDelay
    <3>1. /\ pc = "delay" /\ pc' = "read" /\ (Measuring => raw = Sample)
          /\ UNCHANGED <<ctrl, raw, starting, then, call, reading, clean>>
      BY <2>6 DEF TaskDelay, Delay, bmpVars, sensorVars, callVars
    <3>2. clean /\ call = 1 => raw = [p |-> "live", t |-> "live"]
      <4>1. clean /\ call = 1 =>
              /\ Measuring
              /\ GetSlice(ctrl, OversampPressure) = WantedPressure
              /\ GetSlice(ctrl, OversampTemperature) = WantedTemperature
        BY <1>0, <3>1 DEF StartedWell, SensorIInv, SetUp, Since
      <4> QED
        BY <3>1, <4>1 DEF Sample, WantedPressure, WantedTemperature
    <3>3. StartedWell'
      BY <1>0, <3>1, <3>2 DEF StartedWell, Measuring
    <3> QED
      BY <1>0, <2>1, <3>1, <3>3 DEF TaskIInv
  <2>7. CASE Measure
    <3>1. /\ UNCHANGED <<starting, pc, then, call, reading, clean, ctrl>>
          /\ Measuring /\ raw' = Sample
      BY <1>0, <2>7 DEF Measure, Convert, callVars, Measuring, SensorIInv
    <3>2. clean /\ call = 1 /\ pc \in {"read", "recheck"} =>
            raw' = [p |-> "live", t |-> "live"]
      <4>1. clean /\ call = 1 /\ pc \in {"read", "recheck"} =>
              /\ GetSlice(ctrl, OversampPressure) = WantedPressure
              /\ GetSlice(ctrl, OversampTemperature) = WantedTemperature
        BY <1>0, <3>1 DEF SensorIInv, SetUp, Since
      <4> QED
        BY <3>1, <4>1 DEF Sample, WantedPressure, WantedTemperature
    <3>3. StartedWell'
      BY <1>0, <3>1, <3>2 DEF StartedWell, Measuring
    <3> QED
      BY <1>0, <2>1, <3>1, <3>3 DEF TaskIInv
  <2>8. CASE Start
    <3>1. /\ starting' = FALSE
          /\ UNCHANGED <<ctrl, raw, pc, then, call, reading, clean>>
      BY <2>8 DEF Start, Ready, callVars
    <3>2. StartedWell'
      BY <1>0, <3>1 DEF StartedWell, Measuring
    <3> QED
      BY <1>0, <2>1, <3>1, <3>2 DEF TaskIInv
  <2>9. CASE LoseSupply \/ Reset
    <3>1. /\ clean' = FALSE \/ call' = 0
          /\ UNCHANGED <<pc, then, call, reading>> \/ (pc' = "idle" /\ call' = 0)
          /\ reading' \in {reading, NoReading}
      BY <2>9 DEF LoseSupply, Reset, Boot, callVars
    <3>2. StartedWell'
      BY <3>1 DEF StartedWell
    <3> QED
      BY <1>0, <2>1, <3>1, <3>2 DEF TaskIInv
  <2>10. CASE UNCHANGED vars
    <3>1. UNCHANGED <<ctrl, raw, starting, pc, then, call, reading, clean>>
      BY <2>10 DEF vars, bmpVars, sensorVars
    <3>2. StartedWell'
      BY <1>0, <3>1 DEF StartedWell, Measuring
    <3> QED
      BY <1>0, <2>1, <3>1, <3>2 DEF TaskIInv
  <2> QED
    BY <1>3, <2>2, <2>3, <2>4, <2>5, <2>6, <2>7, <2>8, <2>9, <2>10
<1> QED
  BY <1>1, <1>2, <1>3 DEF TaskNext, pressure_task

(* The inductive invariant of pressure_task holds for any number of faults. *)
THEOREM TaskInvariance == TaskSpec => []TaskIInv
<1>1. Init => TaskIInv
  BY InitPressureIInv DEF PressureIInv, TaskIInv, StartedWell, Init
<1>2. TaskIInv /\ [TaskNext]_vars => TaskIInv'
  BY StepTaskIInv
<1> QED
  BY <1>1, <1>2, PTL DEF TaskSpec

(* A start that meets no fault sets the sensor up as asked, and the loop    *)
(* never resets it.                                                         *)
THEOREM CleanStartConfigures == TaskSpec => []LoopConfigured
<1>1. TaskIInv => LoopConfigured
  <2> SUFFICES ASSUME TaskIInv, clean, call = 1, pc \notin {"init"} \cup Setup
               PROVE  ctrl = WantedCtrl /\ config = WantedConfig /\ pc # "reset"
    BY DEF LoopConfigured
  <2>1. SensorIInv /\ Measuring /\ pc # "reset"
    BY DEF TaskIInv, StartedWell, Setup
  <2>2. Since(Setup)
    BY DEF Since, Setup
  <2> QED
    BY <2>1, <2>2, Configured
<1> QED
  BY <1>1, TaskInvariance, PTL

(* Only a first reading of the loop stores a pressure, and only one from a  *)
(* sensor that measured both quantities.                                    *)
THEOREM TaskStoresMeasurements == TaskSpec => TaskStoresMeasured
<1>1. TaskIInv /\ [TaskNext]_vars =>
        [Stores => /\ raw = [p |-> "live", t |-> "live"] \/ "ok" \in VoidKinds
                   /\ clean => p_bmp280.calib = "read"]_vars
  <2> SUFFICES ASSUME TaskIInv, [TaskNext]_vars, Stores
               PROVE  /\ raw = [p |-> "live", t |-> "live"] \/ "ok" \in VoidKinds
                      /\ clean => p_bmp280.calib = "read"
    OBVIOUS
  <2>1. TaskRead
    BY DEF TaskNext, pressure_task, Stores, Begin, PressureInit, PressureSetup, Recheck,
           PressureReset, TaskDelay, Delay, Boot, Reset, Measure, Start, LoseSupply,
           callVars, vars
  <2>2. Yields("ok")
    BY <2>1 DEF TaskRead, Stores
  <2>3. SensorIInv /\ call # 0
    BY DEF TaskIInv, SensorIInv, Stores
  <2>4. call > 0
    BY <2>3 DEF SensorIInv, CallTypeOK
  <2> QED
    BY <2>2, <2>3, <2>4, OkIsMeasured DEF Stores, SensorIInv, CalibrationRead
<1> QED
  BY <1>1, TaskInvariance, PTL DEF TaskSpec, TaskStoresMeasured

=============================================================================
