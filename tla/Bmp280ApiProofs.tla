-------------------------- MODULE Bmp280ApiProofs --------------------------
(***************************************************************************)
(* Proofs about the driver's calls in any order, for every choice of codes  *)
(* and any number of faults: what a successful call has told stays true,    *)
(* and the driver's copy drifts only for the reasons DriftExplained names.  *)
(* The field lemmas of Bmp280Proofs say all there is to know about a        *)
(* register.                                                                *)
(***************************************************************************)
EXTENDS Bmp280Api, Bmp280Proofs

Names == CtrlNames \cup ConfigNames

(* The parts of the invariant: the state, and the caller's memory. *)
StateOK ==
  /\ BmpTypeOK
  /\ forced \in {"none", "waiting"}
  /\ drift \in BOOLEAN

KnownOK ==
  /\ known \in {Nothing} \cup [name : Names, value : 0 .. 7]
  /\ KnownIsTrue
  /\ known.name = "power_mode" => known.value \in {SleepMode, NormalMode}

LEMMA Parts ==
  ApiIInv <=> /\ StateOK /\ DriftExplained /\ KnownOK
              /\ starting => drift /\ known = Nothing
BY DEF ApiIInv, ApiTypeOK, StateOK, KnownOK, Names

(* Nothing is always true. *)
LEMMA NothingIsTrue ==
  /\ Nothing.name = "none" /\ "none" \notin Names
  /\ known = Nothing => KnownOK
  /\ known' = Nothing => KnownOK'
BY DEF Nothing, Fact, KnownOK, KnownIsTrue, Names, CtrlNames, ConfigNames

(* The settings a call leaves alone keep what is known of them. *)
LEMMA KnownKept ==
  ASSUME KnownOK, NEW S, known' = Forget(S),
         \A name \in Names \ S : Settings'[name] = Settings[name]
  PROVE  KnownOK' /\ (known = Nothing => known' = Nothing)
<1>1. CASE known' = Nothing
  BY <1>1, NothingIsTrue
<1>2. CASE known' # Nothing
  <2>1. known' = known /\ known.name \notin S
    BY <1>2 DEF Forget
  <2>2. known \in [name : Names, value : 0 .. 7] /\ known.name \in Names
    BY <1>2, <2>1 DEF KnownOK
  <2>3. Settings[known.name] = known.value
    BY <2>2, NothingIsTrue DEF KnownOK, KnownIsTrue
  <2>4. Settings'[known.name] = known.value
    BY <2>1, <2>2, <2>3
  <2> QED
    BY <2>1, <2>2, <2>4, <1>2 DEF KnownOK, KnownIsTrue
<1> QED
  BY <1>1, <1>2

(* What a call that succeeds teaches is true when it is the setting. *)
LEMMA KnownLearnt ==
  ASSUME NEW name \in Names, NEW v \in 0 .. 7, known' \in Learn(name, v),
         Settings'[name] = v
  PROVE  KnownOK' /\ Succeeded
<1>1. known' = Fact(name, v) /\ Succeeded
      /\ (name = "power_mode" => v \in {SleepMode, NormalMode})
  BY DEF Learn
<1>2. Fact(name, v) \in [name : Names, value : 0 .. 7]
      /\ Fact(name, v).name = name /\ Fact(name, v).value = v
  BY DEF Fact
<1> QED
  BY <1>1, <1>2 DEF KnownOK, KnownIsTrue

(* Two states of the sensor whose fields agree have the same settings. *)
LEMMA SameCtrl ==
  ASSUME GetSlice(ctrl', OversampTemperature) = GetSlice(ctrl, OversampTemperature),
         GetSlice(ctrl', OversampPressure) = GetSlice(ctrl, OversampPressure),
         config' = config
  PROVE  \A name \in Names \ {"power_mode"} : Settings'[name] = Settings[name]
BY DEF Settings, Names, CtrlNames, ConfigNames

LEMMA PartsPrimed ==
  ASSUME StateOK', DriftExplained', KnownOK', starting' => drift' /\ known' = Nothing
  PROVE  ApiIInv'
BY DEF ApiIInv, ApiTypeOK, StateOK, KnownOK, Names

-----------------------------------------------------------------------------
LEMMA InitApiIInv == Init => ApiIInv
<1> SUFFICES ASSUME Init PROVE ApiIInv
  OBVIOUS
<1>1. StateOK /\ ~ starting
  <2>1. starting \in BOOLEAN /\ drift \in BOOLEAN /\ ~ starting
    BY DEF Init, BmpInit
  <2> QED
    BY <2>1, FaultsAssumption
    DEF Init, BmpInit, StateOK, BmpTypeOK, FreshDriver, Calibrations, Void
<1>2. DriftExplained
  BY Cleared DEF Init, BmpInit, FreshDriver, DriftExplained, InSync
<1>3. KnownOK
  BY NothingIsTrue DEF Init
<1> QED
  BY <1>1, <1>2, <1>3, Parts

(* A setter changes its own field, and the copy of it. *)
LEMMA StepSetField ==
  ASSUME ApiIInv, NEW name \in Names, NEW v \in 0 .. 7, SetField(name, v)
  PROVE  ApiIInv'
<1>0. /\ StateOK /\ DriftExplained /\ KnownOK
      /\ starting => drift /\ known = Nothing
  BY Parts
<1> USE <1>0 DEF StateOK, BmpTypeOK
<1>1. /\ starting' = starting /\ raw' = raw /\ faults' \in 0 .. MaxFaults
      /\ forced' = forced /\ drift' \in BOOLEAN
      /\ drift => drift'
      /\ ~ drift' /\ name \in Oversampled => Succeeded
      /\ known' \in Learn(name, v) \cup {Forget({name})}
  <2>1. starting' = starting /\ raw' = raw /\ faults' \in 0 .. MaxFaults
    BY FaultsAssumption
    DEF SetField, bmp280_set_oversamp_temperature, bmp280_set_oversamp_pressure,
        bmp280_set_standby_durn, bmp280_set_filter, bmp280_set_spi3, SetConfig,
        Write, Works, Fails, Refused
  <2>2. drift' = (drift \/ (name \in Oversampled /\ ~ Succeeded))
    BY DEF SetField
  <2>3. /\ drift' \in BOOLEAN
        /\ drift => drift'
        /\ ~ drift' /\ name \in Oversampled => Succeeded
    BY <2>2
  <2>4. forced' = forced /\ known' \in Learn(name, v) \cup {Forget({name})}
    BY DEF SetField
  <2> QED
    BY <2>1, <2>3, <2>4
<1>2. /\ \A other \in Names \ {name} : Settings'[other] = Settings[other]
      /\ Succeeded => Settings'[name] = v
      /\ ctrl' \in 0 .. 255 /\ config' \in 0 .. 255
      /\ p_bmp280' \in [oversamp_temperature : 0 .. 7, oversamp_pressure : 0 .. 7,
                        calib : Calibrations]
      /\ ~ drift' => InSync'
  <2>1. CASE name = "oversamp_temperature"
    <3>1. /\ ctrl' \in {ctrl, SetSlice(ctrl, OversampTemperature, v)}
          /\ Succeeded => /\ ctrl' = SetSlice(ctrl, OversampTemperature, v)
                          /\ p_bmp280' = [p_bmp280 EXCEPT !.oversamp_temperature = v]
          /\ p_bmp280' \in {p_bmp280, [p_bmp280 EXCEPT !.oversamp_temperature = v]}
          /\ config' = config
      BY <2>1 DEF SetField, bmp280_set_oversamp_temperature, Write, Works, Fails,
                  Refused, Succeeded, Copied
    <3>2. /\ ctrl' \in 0 .. 255
          /\ GetSlice(ctrl', OversampPressure) = GetSlice(ctrl, OversampPressure)
          /\ GetSlice(ctrl', PowerMode) = GetSlice(ctrl, PowerMode)
          /\ Succeeded => GetSlice(ctrl', OversampTemperature) = v
      <4> DEFINE new == SetSlice(ctrl, OversampTemperature, v)
      <4>1. /\ new \in 0 .. 255 /\ GetSlice(new, OversampTemperature) = v
            /\ GetSlice(new, OversampPressure) = GetSlice(ctrl, OversampPressure)
            /\ GetSlice(new, PowerMode) = GetSlice(ctrl, PowerMode)
        BY <3>1, TemperatureField
      <4>2. ctrl' \in {ctrl, new} /\ (Succeeded => ctrl' = new)
        BY <3>1
      <4> HIDE DEF new
      <4> QED
        BY <4>1, <4>2
    <3>3. ~ drift' => InSync'
      BY <1>1, <2>1, <3>1, <3>2 DEF DriftExplained, InSync, Oversampled
    <3>4. /\ \A other \in Names \ {name} : Settings'[other] = Settings[other]
          /\ Succeeded => Settings'[name] = v
      BY <2>1, <3>1, <3>2 DEF Settings, Names, CtrlNames, ConfigNames
    <3> QED
      BY <3>1, <3>2, <3>3, <3>4
  <2>2. CASE name = "oversamp_pressure"
    <3>1. /\ ctrl' \in {ctrl, SetSlice(ctrl, OversampPressure, v)}
          /\ Succeeded => /\ ctrl' = SetSlice(ctrl, OversampPressure, v)
                          /\ p_bmp280' = [p_bmp280 EXCEPT !.oversamp_pressure = v]
          /\ p_bmp280' \in {p_bmp280, [p_bmp280 EXCEPT !.oversamp_pressure = v]}
          /\ config' = config
      BY <2>2 DEF SetField, bmp280_set_oversamp_pressure, Write, Works, Fails,
                  Refused, Succeeded, Copied
    <3>2. /\ ctrl' \in 0 .. 255
          /\ GetSlice(ctrl', OversampTemperature) = GetSlice(ctrl, OversampTemperature)
          /\ GetSlice(ctrl', PowerMode) = GetSlice(ctrl, PowerMode)
          /\ Succeeded => GetSlice(ctrl', OversampPressure) = v
      <4> DEFINE new == SetSlice(ctrl, OversampPressure, v)
      <4>1. /\ new \in 0 .. 255 /\ GetSlice(new, OversampPressure) = v
            /\ GetSlice(new, OversampTemperature) = GetSlice(ctrl, OversampTemperature)
            /\ GetSlice(new, PowerMode) = GetSlice(ctrl, PowerMode)
        BY <3>1, PressureField
      <4>2. ctrl' \in {ctrl, new} /\ (Succeeded => ctrl' = new)
        BY <3>1
      <4> HIDE DEF new
      <4> QED
        BY <4>1, <4>2
    <3>3. ~ drift' => InSync'
      BY <1>1, <2>2, <3>1, <3>2 DEF DriftExplained, InSync, Oversampled
    <3>4. /\ \A other \in Names \ {name} : Settings'[other] = Settings[other]
          /\ Succeeded => Settings'[name] = v
      BY <2>2, <3>1, <3>2 DEF Settings, Names, CtrlNames, ConfigNames
    <3> QED
      BY <3>1, <3>2, <3>3, <3>4
  <2>3. CASE name \notin Oversampled
    <3>1. UNCHANGED <<ctrl, p_bmp280>>
      BY <2>3 DEF SetField, Oversampled, bmp280_set_standby_durn, bmp280_set_filter,
                  bmp280_set_spi3, SetConfig
    <3>2. ~ drift' => InSync'
      BY <1>1, <3>1 DEF DriftExplained, InSync
    <3>3. CASE name = "standby_durn"
      <4>1. /\ config' \in {config, SetSlice(config, StandbyDurn, v)}
            /\ Succeeded => config' = SetSlice(config, StandbyDurn, v)
        BY <3>3 DEF SetField, bmp280_set_standby_durn, SetConfig, Write, Works,
                    Fails, Refused, Succeeded
      <4>2. /\ config' \in 0 .. 255
            /\ GetSlice(config', Filter) = GetSlice(config, Filter)
            /\ GetSlice(config', Spi3) = GetSlice(config, Spi3)
            /\ Succeeded => GetSlice(config', StandbyDurn) = v
        <5> DEFINE new == SetSlice(config, StandbyDurn, v)
        <5>1. /\ new \in 0 .. 255 /\ GetSlice(new, StandbyDurn) = v
              /\ GetSlice(new, Filter) = GetSlice(config, Filter)
              /\ GetSlice(new, Spi3) = GetSlice(config, Spi3)
          BY <4>1, StandbyField
        <5>2. config' \in {config, new} /\ (Succeeded => config' = new)
          BY <4>1
        <5> HIDE DEF new
        <5> QED
          BY <5>1, <5>2
      <4> QED
        BY <3>1, <3>2, <3>3, <4>2 DEF Settings, Names, CtrlNames, ConfigNames
    <3>4. CASE name = "filter"
      <4>1. /\ config' \in {config, SetSlice(config, Filter, v)}
            /\ Succeeded => config' = SetSlice(config, Filter, v)
        BY <3>4 DEF SetField, bmp280_set_filter, SetConfig, Write, Works,
                    Fails, Refused, Succeeded
      <4>2. /\ config' \in 0 .. 255
            /\ GetSlice(config', StandbyDurn) = GetSlice(config, StandbyDurn)
            /\ GetSlice(config', Spi3) = GetSlice(config, Spi3)
            /\ Succeeded => GetSlice(config', Filter) = v
        <5> DEFINE new == SetSlice(config, Filter, v)
        <5>1. /\ new \in 0 .. 255 /\ GetSlice(new, Filter) = v
              /\ GetSlice(new, StandbyDurn) = GetSlice(config, StandbyDurn)
              /\ GetSlice(new, Spi3) = GetSlice(config, Spi3)
          BY <4>1, FilterField
        <5>2. config' \in {config, new} /\ (Succeeded => config' = new)
          BY <4>1
        <5> HIDE DEF new
        <5> QED
          BY <5>1, <5>2
      <4> QED
        BY <3>1, <3>2, <3>4, <4>2 DEF Settings, Names, CtrlNames, ConfigNames
    <3>5. CASE name = "spi3"
      <4>1. /\ v \in 0 .. 1
            /\ config' \in {config, SetSlice(config, Spi3, v)}
            /\ Succeeded => config' = SetSlice(config, Spi3, v)
        BY <3>5 DEF SetField, bmp280_set_spi3, SetConfig, Write, Works,
                    Fails, Refused, Succeeded
      <4>2. /\ config' \in 0 .. 255
            /\ GetSlice(config', StandbyDurn) = GetSlice(config, StandbyDurn)
            /\ GetSlice(config', Filter) = GetSlice(config, Filter)
            /\ Succeeded => GetSlice(config', Spi3) = v
        <5> DEFINE new == SetSlice(config, Spi3, v)
        <5>1. /\ new \in 0 .. 255 /\ GetSlice(new, Spi3) = v
              /\ GetSlice(new, StandbyDurn) = GetSlice(config, StandbyDurn)
              /\ GetSlice(new, Filter) = GetSlice(config, Filter)
          BY <4>1, Spi3Field
        <5>2. config' \in {config, new} /\ (Succeeded => config' = new)
          BY <4>1
        <5> HIDE DEF new
        <5> QED
          BY <5>1, <5>2
      <4> QED
        BY <3>1, <3>2, <3>5, <4>2 DEF Settings, Names, CtrlNames, ConfigNames
    <3> QED
      BY <2>3, <3>3, <3>4, <3>5 DEF SetField, Oversampled
  <2> QED
    BY <2>1, <2>2, <2>3 DEF Oversampled
<1>3. KnownOK' /\ (starting => known' = Nothing)
  <2>1. CASE known' \in Learn(name, v)
    BY <2>1, <1>2, KnownLearnt DEF Succeeded, Learn
  <2>2. CASE known' = Forget({name})
    BY <2>2, <1>2, KnownKept
  <2> QED
    BY <1>1, <2>1, <2>2
<1>4. StateOK'
  BY <1>1, <1>2
<1> QED
  BY <1>1, <1>2, <1>3, <1>4, PartsPrimed DEF DriftExplained

(* A getter reads its field; one that fails may spoil the copy. *)
LEMMA StepGetField ==
  ASSUME ApiIInv, NEW name \in Names, NEW v \in 0 .. 7, GetField(name, v)
  PROVE  ApiIInv'
<1>0. /\ StateOK /\ DriftExplained /\ KnownOK
      /\ starting => drift /\ known = Nothing
  BY Parts
<1> USE <1>0 DEF StateOK, BmpTypeOK
<1>1. /\ UNCHANGED <<ctrl, config, raw, starting, forced>>
      /\ faults' \in 0 .. MaxFaults
      /\ Settings' = Settings
      /\ Succeeded => v = Settings[name]
  <2>1. UNCHANGED <<ctrl, config, raw, starting, forced>>
    BY DEF GetField, bmp280_get_oversamp_temperature, bmp280_get_oversamp_pressure,
           bmp280_get_power_mode, bmp280_get_standby_durn, bmp280_get_filter,
           bmp280_get_spi3, sensorVars
  <2>2. faults' \in 0 .. MaxFaults
    BY FaultsAssumption
    DEF GetField, bmp280_get_oversamp_temperature, bmp280_get_oversamp_pressure,
        bmp280_get_power_mode, bmp280_get_standby_durn, bmp280_get_filter,
        bmp280_get_spi3, Get, Works, Fails, Refused
  <2>3. Succeeded => v = Settings[name]
    BY FaultsAssumption
    DEF GetField, bmp280_get_oversamp_temperature, bmp280_get_oversamp_pressure,
        bmp280_get_power_mode, bmp280_get_standby_durn, bmp280_get_filter,
        bmp280_get_spi3, Get, Works, Fails, Refused, Succeeded, Settings
  <2> QED
    BY <2>1, <2>2, <2>3 DEF Settings
<1>2. drift' \in BOOLEAN /\ (drift => drift')
      /\ (~ drift' /\ name \in Oversampled => Succeeded)
  <2>1. drift' = (drift \/ (name \in Oversampled /\ ~ Succeeded))
    BY DEF GetField
  <2> QED
    BY <2>1
<1>3. /\ p_bmp280' \in [oversamp_temperature : 0 .. 7, oversamp_pressure : 0 .. 7,
                        calib : Calibrations]
      /\ ~ drift' => InSync'
  <2>1. CASE name = "oversamp_temperature"
    <3>1. p_bmp280' = [p_bmp280 EXCEPT !.oversamp_temperature = v]
      BY <2>1 DEF GetField, bmp280_get_oversamp_temperature
    <3>2. ~ drift' => v = GetSlice(ctrl, OversampTemperature) /\ InSync
      BY <1>1, <1>2, <2>1 DEF Settings, Oversampled, DriftExplained
    <3> QED
      BY <1>1, <3>1, <3>2 DEF InSync
  <2>2. CASE name = "oversamp_pressure"
    <3>1. p_bmp280' = [p_bmp280 EXCEPT !.oversamp_pressure = v]
      BY <2>2 DEF GetField, bmp280_get_oversamp_pressure
    <3>2. ~ drift' => v = GetSlice(ctrl, OversampPressure) /\ InSync
      BY <1>1, <1>2, <2>2 DEF Settings, Oversampled, DriftExplained
    <3> QED
      BY <1>1, <3>1, <3>2 DEF InSync
  <2>3. CASE name \notin Oversampled
    <3>1. p_bmp280' = p_bmp280
      BY <2>3 DEF GetField, Oversampled, bmp280_get_power_mode,
                  bmp280_get_standby_durn, bmp280_get_filter, bmp280_get_spi3
    <3> QED
      BY <1>1, <1>2, <3>1 DEF InSync, DriftExplained
  <2> QED
    BY <2>1, <2>2, <2>3 DEF Oversampled
<1>4. KnownOK' /\ (starting => known' = Nothing)
  <2>1. CASE known' \in Learn(name, v)
    BY <2>1, <1>1, KnownLearnt DEF Succeeded, Learn
  <2>2. CASE known' = known
    BY <2>2, <1>1 DEF KnownOK, KnownIsTrue
  <2> QED
    BY <2>1, <2>2 DEF GetField
<1>5. StateOK'
  BY <1>1, <1>2, <1>3
<1> QED
  BY <1>1, <1>2, <1>3, <1>4, <1>5, PartsPrimed DEF DriftExplained

(* The control register composed of the copy: a copy that has not drifted   *)
(* leaves the oversampling as it is.                                        *)
LEMMA StepComposed ==
  ASSUME ApiIInv, NEW mode \in 0 .. 3, bmp280_set_power_mode(mode),
         forced' \in {"none", "waiting"},
         drift' = ~ Succeeded,
         known' \in Learn("power_mode", mode) \cup {Forget(Spoilt)}
  PROVE  ApiIInv'
<1>0. /\ StateOK /\ DriftExplained /\ KnownOK
      /\ starting => drift /\ known = Nothing
  BY Parts
<1> USE <1>0 DEF StateOK, BmpTypeOK
<1> DEFINE new == CtrlMeas(mode)
<1>1. /\ new \in 0 .. 255
      /\ GetSlice(new, OversampTemperature) = p_bmp280.oversamp_temperature
      /\ GetSlice(new, OversampPressure) = p_bmp280.oversamp_pressure
      /\ GetSlice(new, PowerMode) = mode
  BY ComposedRegister DEF CtrlMeas
<1>2. /\ ctrl' \in {ctrl, new} /\ (Succeeded => ctrl' = new)
      /\ UNCHANGED <<p_bmp280, config, raw, starting>>
      /\ faults' \in 0 .. MaxFaults
      /\ starting => ~ Succeeded
  BY FaultsAssumption
  DEF bmp280_set_power_mode, Write, Works, Fails, Refused, Succeeded
<1>3. drift' \in BOOLEAN /\ (drift' <=> ~ Succeeded)
  OBVIOUS
<1> HIDE DEF new
<1>4. Succeeded => InSync' /\ Settings'["power_mode"] = mode
  BY <1>1, <1>2 DEF InSync, Settings
<1>5. \A name \in Names \ Spoilt : Settings'[name] = Settings[name]
  <2>1. CASE drift
    BY <1>2, <2>1 DEF Spoilt, Oversampled, Settings, Names, CtrlNames, ConfigNames
  <2>2. CASE ~ drift
    <3>1. /\ GetSlice(ctrl', OversampTemperature) = GetSlice(ctrl, OversampTemperature)
          /\ GetSlice(ctrl', OversampPressure) = GetSlice(ctrl, OversampPressure)
      BY <1>1, <1>2, <2>2 DEF DriftExplained, InSync
    <3> QED
      BY <1>2, <3>1, SameCtrl DEF Spoilt
  <2> QED
    BY <2>1, <2>2
<1>6. KnownOK' /\ (starting => known' = Nothing)
  <2>1. CASE known' \in Learn("power_mode", mode)
    <3>1. "power_mode" \in Names /\ Succeeded
      BY <2>1 DEF Learn, Names, CtrlNames
    <3> QED
      BY <2>1, <3>1, <1>2, <1>4, KnownLearnt
  <2>2. CASE known' = Forget(Spoilt)
    BY <2>2, <1>5, KnownKept
  <2> QED
    BY <2>1, <2>2
<1>7. StateOK'
  BY <1>1, <1>2, <1>3
<1> QED
  BY <1>2, <1>3, <1>4, <1>6, <1>7, PartsPrimed DEF DriftExplained

(* A work mode sets both fields, and both copies. *)
LEMMA StepSetWorkMode ==
  ASSUME ApiIInv, SetWorkMode
  PROVE  ApiIInv'
<1>0. /\ StateOK /\ DriftExplained /\ KnownOK
      /\ starting => drift /\ known = Nothing
  BY Parts
<1> USE <1>0 DEF StateOK, BmpTypeOK
<1>1. PICK mode \in Modes :
        /\ bmp280_set_work_mode(mode)
        /\ known' \in Learn("oversamp_temperature", WorkModes[mode].t)
                      \cup Learn("oversamp_pressure", WorkModes[mode].p)
                      \cup {Forget(Oversampled)}
  BY DEF SetWorkMode
<1> DEFINE t == WorkModes[mode].t
           p == WorkModes[mode].p
           half == SetSlice(ctrl, OversampTemperature, t)
           new == SetSlice(half, OversampPressure, p)
<1>2. t \in 0 .. 7 /\ p \in 0 .. 7
  <2>1. mode \in 0 .. 4
    BY <1>1, CodesAssumption
  <2> QED
    BY <2>1 DEF WorkModes
<1>3. /\ ctrl' \in {ctrl, new}
      /\ Succeeded => /\ ctrl' = new
                      /\ p_bmp280' = [p_bmp280 EXCEPT !.oversamp_temperature = t,
                                                      !.oversamp_pressure = p]
      /\ p_bmp280' \in {p_bmp280, [p_bmp280 EXCEPT !.oversamp_temperature = t,
                                                   !.oversamp_pressure = p]}
      /\ UNCHANGED <<config, raw, starting, forced>>
      /\ faults' \in 0 .. MaxFaults
      /\ starting => ~ Succeeded
  BY <1>1, FaultsAssumption
  DEF SetWorkMode, bmp280_set_work_mode, Write, Works, Fails, Refused, Succeeded
<1> HIDE DEF t, p
<1>4. /\ half \in 0 .. 255
      /\ GetSlice(half, OversampTemperature) = t
      /\ GetSlice(half, PowerMode) = GetSlice(ctrl, PowerMode)
  BY <1>2, TemperatureField
<1> HIDE DEF half
<1>5. /\ new \in 0 .. 255
      /\ GetSlice(new, OversampTemperature) = t
      /\ GetSlice(new, OversampPressure) = p
      /\ GetSlice(new, PowerMode) = GetSlice(ctrl, PowerMode)
  BY <1>2, <1>4, PressureField
<1> HIDE DEF new
<1>6. drift' \in BOOLEAN /\ (drift' <=> ~ Succeeded)
  BY DEF SetWorkMode
<1>7. Succeeded => /\ InSync'
                   /\ Settings'["oversamp_temperature"] = t
                   /\ Settings'["oversamp_pressure"] = p
  BY <1>2, <1>3, <1>5 DEF InSync, Settings
<1>8. \A name \in Names \ Oversampled : Settings'[name] = Settings[name]
  BY <1>3, <1>5 DEF Settings, Names, CtrlNames, ConfigNames, Oversampled
<1>9. KnownOK' /\ (starting => known' = Nothing)
  <2>1. CASE known' \in Learn("oversamp_temperature", t)
    <3>1. "oversamp_temperature" \in Names /\ Succeeded
      BY <2>1 DEF Learn, Names, CtrlNames
    <3> QED
      BY <2>1, <3>1, <1>2, <1>3, <1>7, KnownLearnt
  <2>2. CASE known' \in Learn("oversamp_pressure", p)
    <3>1. "oversamp_pressure" \in Names /\ Succeeded
      BY <2>2 DEF Learn, Names, CtrlNames
    <3> QED
      BY <2>2, <3>1, <1>2, <1>3, <1>7, KnownLearnt
  <2>3. CASE known' = Forget(Oversampled)
    BY <2>3, <1>8, KnownKept
  <2> QED
    BY <1>1, <2>1, <2>2, <2>3 DEF t, p
<1>10. StateOK'
  <2>1. p_bmp280' \in [oversamp_temperature : 0 .. 7, oversamp_pressure : 0 .. 7,
                       calib : Calibrations]
    BY <1>2, <1>3
  <2>2. ctrl' \in 0 .. 255
    BY <1>3, <1>5
  <2> QED
    BY <2>1, <2>2, <1>3, <1>6
<1> QED
  BY <1>3, <1>6, <1>7, <1>9, <1>10, PartsPrimed DEF DriftExplained

(* What empties the caller's memory and marks the copy as drifted can do    *)
(* what it likes to the registers.                                          *)
LEMMA StepForgotten ==
  ASSUME known' = Nothing, drift' = TRUE, StateOK'
  PROVE  ApiIInv'
BY NothingIsTrue, PartsPrimed DEF DriftExplained

-----------------------------------------------------------------------------
(* Every step keeps the invariant. *)
LEMMA StepApiIInv == ApiIInv /\ [Next]_vars => ApiIInv'
<1> SUFFICES ASSUME ApiIInv, [Next]_vars PROVE ApiIInv'
  OBVIOUS
<1>0. /\ StateOK /\ DriftExplained /\ KnownOK
      /\ starting => drift /\ known = Nothing
  BY Parts
<1> USE <1>0, FaultsAssumption
<1>1. CASE \E name \in Names, v \in 0 .. 7 : SetField(name, v)
  BY <1>1, StepSetField
<1>2. CASE \E name \in Names, v \in 0 .. 7 : GetField(name, v)
  BY <1>2, StepGetField
<1>3. CASE ReadOther
  <2>1. /\ UNCHANGED <<ctrl, config, raw, starting, forced, drift, known>>
        /\ p_bmp280'.oversamp_temperature = p_bmp280.oversamp_temperature
        /\ p_bmp280'.oversamp_pressure = p_bmp280.oversamp_pressure
        /\ p_bmp280' \in [oversamp_temperature : 0 .. 7, oversamp_pressure : 0 .. 7,
                          calib : Calibrations]
        /\ faults' \in 0 .. MaxFaults
    BY <1>3 DEF ReadOther, bmp280_init, bmp280_read_register,
                bmp280_read_uncomp_temperature, bmp280_read_uncomp_pressure, Works, Fails, Refused,
                sensorVars, StateOK, BmpTypeOK, Calibrations
  <2>2. StateOK'
    BY <2>1 DEF StateOK, BmpTypeOK
  <2>3. DriftExplained' /\ KnownOK'
    BY <2>1 DEF DriftExplained, InSync, KnownOK, KnownIsTrue, Settings
  <2> QED
    BY <2>1, <2>2, <2>3, PartsPrimed
<1>4. CASE SetPowerMode
  <2>1. PICK mode \in 0 .. 3 :
          /\ bmp280_set_power_mode(mode)
          /\ known' \in Learn("power_mode", mode) \cup {Forget(Spoilt)}
    BY <1>4 DEF SetPowerMode, SleepMode, ForcedMode, NormalMode
  <2>2. forced' = forced /\ drift' = ~ Succeeded
    BY <1>4 DEF SetPowerMode
  <2> QED
    BY <2>1, <2>2, StepComposed DEF StateOK
<1>5. CASE ForcedStart
  <2>1. /\ bmp280_set_power_mode(ForcedMode) /\ ForcedMode \in 0 .. 3
        /\ known' \in Learn("power_mode", ForcedMode) \cup {Forget(Spoilt)}
        /\ drift' = ~ Succeeded
        /\ forced' \in {"none", "waiting"}
    BY <1>5 DEF ForcedStart, ForcedMode
  <2> QED
    BY <2>1, StepComposed
<1>6. CASE SetWorkMode
  BY <1>6, StepSetWorkMode
<1>7. CASE WriteRegister
  <2>1. PICK t \in 0 .. 7, p \in 0 .. 7, standby \in 0 .. 7 :
          bmp280_write_register(t * 32 + p * 4 + NormalMode, standby * 32)
    BY <1>7, CodesAssumption DEF WriteRegister
  <2>2. t * 32 + p * 4 + NormalMode \in 0 .. 255 /\ standby * 32 \in 0 .. 255
    BY DEF NormalMode
  <2>3. /\ ctrl' \in 0 .. 255 /\ config' \in 0 .. 255
        /\ UNCHANGED <<p_bmp280, raw, starting>> /\ faults' \in 0 .. MaxFaults
    BY <2>1, <2>2 DEF bmp280_write_register, Write, Works, Fails, Refused, StateOK,
                      BmpTypeOK
  <2>4. forced' = forced /\ drift' = TRUE /\ known' = Nothing
    BY <1>7 DEF WriteRegister
  <2> QED
    BY <2>3, <2>4, StepForgotten DEF StateOK, BmpTypeOK
<1>8. CASE SoftReset
  <2>1. /\ UNCHANGED p_bmp280 /\ faults' \in 0 .. MaxFaults
        /\ \/ UNCHANGED <<ctrl, config, raw, starting>>
           \/ ctrl' = 0 /\ config' = 0 /\ raw' = Void /\ starting' = TRUE
    <3>1. UNCHANGED p_bmp280 /\ (SensorResets \/ UNCHANGED sensorVars)
      BY <1>8 DEF SoftReset, bmp280_set_soft_rst
    <3>2. faults' \in 0 .. MaxFaults
      BY <1>8 DEF SoftReset, bmp280_set_soft_rst, Works, Fails, Refused, StateOK,
                  BmpTypeOK
    <3> QED
      BY <3>1, <3>2 DEF SensorResets, sensorVars
  <2>2. forced' = forced /\ drift' = TRUE /\ known' = Nothing
    BY <1>8 DEF SoftReset
  <2>3. StateOK'
    <3>1. starting' \in BOOLEAN
      BY <2>1 DEF StateOK, BmpTypeOK
    <3>2. ctrl' \in 0 .. 255 /\ config' \in 0 .. 255
      BY <2>1 DEF StateOK, BmpTypeOK
    <3>3. raw' \in [p : {"void", "live"}, t : {"void", "live"}]
      BY <2>1 DEF StateOK, BmpTypeOK, Void
    <3> QED
      BY <2>1, <2>2, <3>1, <3>2, <3>3 DEF StateOK, BmpTypeOK
  <2> QED
    BY <2>2, <2>3, StepForgotten
<1>9. CASE ForcedRead
  <2>1. /\ UNCHANGED <<p_bmp280, ctrl, config, raw, starting, drift, known>>
        /\ faults' \in 0 .. MaxFaults
        /\ forced' \in {"none", "waiting"}
    BY <1>9 DEF ForcedRead, sensorVars, Works, Fails, Refused, StateOK, BmpTypeOK
  <2> QED
    BY <2>1, PartsPrimed
    DEF StateOK, BmpTypeOK, DriftExplained, InSync, KnownOK, KnownIsTrue, Settings
<1>10. CASE HostRestart
  <2>1. /\ UNCHANGED <<ctrl, config, raw, starting, faults>>
        /\ p_bmp280' = FreshDriver
        /\ forced' = "none" /\ drift' = TRUE /\ known' = Nothing
    BY <1>10 DEF HostRestart, sensorVars
  <2> QED
    BY <2>1, StepForgotten DEF StateOK, BmpTypeOK, FreshDriver, Calibrations
<1>11. CASE Measure
  <2>1. /\ UNCHANGED <<p_bmp280, config, starting, faults, drift, known>>
        /\ forced' = forced
        /\ raw' \in [p : {"void", "live"}, t : {"void", "live"}]
        /\ \/ ctrl' = ctrl
           \/ /\ ctrl' = SetSlice(ctrl, PowerMode, SleepMode)
              /\ GetSlice(ctrl, PowerMode) \notin {SleepMode, NormalMode}
    BY <1>11 DEF Measure, Convert, Measuring, Sample
  <2>2. /\ ctrl' \in 0 .. 255
        /\ GetSlice(ctrl', OversampTemperature) = GetSlice(ctrl, OversampTemperature)
        /\ GetSlice(ctrl', OversampPressure) = GetSlice(ctrl, OversampPressure)
    <3> DEFINE new == SetSlice(ctrl, PowerMode, SleepMode)
    <3>1. /\ new \in 0 .. 255
          /\ GetSlice(new, OversampTemperature) = GetSlice(ctrl, OversampTemperature)
          /\ GetSlice(new, OversampPressure) = GetSlice(ctrl, OversampPressure)
      BY ModeField DEF StateOK, BmpTypeOK
    <3>2. ctrl' = ctrl \/ ctrl' = new
      BY <2>1
    <3> HIDE DEF new
    <3> QED
      BY <3>1, <3>2 DEF StateOK, BmpTypeOK
  <2>3. StateOK'
    BY <2>1, <2>2 DEF StateOK, BmpTypeOK
  <2>4. DriftExplained'
    BY <2>1, <2>2 DEF DriftExplained, InSync
  <2>5. KnownOK'
    <3>1. \A name \in Names \ {"power_mode"} : Settings'[name] = Settings[name]
      BY <2>1, <2>2, SameCtrl
    <3>2. CASE known.name = "power_mode"
      <4>1. known.value \in {SleepMode, NormalMode}
            /\ Settings["power_mode"] = known.value
        BY <3>2 DEF KnownOK, KnownIsTrue
      <4>2. ctrl' = ctrl
        BY <2>1, <4>1 DEF Settings
      <4> QED
        BY <2>1, <4>2 DEF KnownOK, KnownIsTrue, Settings
    <3>3. CASE known.name # "power_mode"
      <4>1. known' = Forget({"power_mode"})
        BY <2>1, <3>3 DEF Forget
      <4> QED
        BY <3>1, <4>1, KnownKept
    <3> QED
      BY <3>2, <3>3
  <2> QED
    BY <2>1, <2>3, <2>4, <2>5, PartsPrimed
<1>12. CASE LoseSupply
  <2>1. /\ UNCHANGED p_bmp280 /\ faults' \in 0 .. MaxFaults
        /\ starting' = TRUE /\ ctrl' = 0 /\ config' = 0 /\ raw' = Void
        /\ forced' = forced /\ drift' = TRUE /\ known' = Nothing
    BY <1>12 DEF LoseSupply, BrownOut, SensorResets, StateOK, BmpTypeOK
  <2> QED
    BY <2>1, StepForgotten DEF StateOK, BmpTypeOK, Void
<1>13. CASE Start
  <2>1. /\ UNCHANGED <<p_bmp280, ctrl, config, raw, faults, forced, drift, known>>
        /\ starting' = FALSE
    BY <1>13 DEF Start, Ready
  <2>2. starting' \in BOOLEAN /\ ~ starting'
    BY <2>1
  <2>3. StateOK'
    BY <2>1, <2>2 DEF StateOK, BmpTypeOK
  <2> QED
    BY <2>1, <2>2, <2>3, PartsPrimed
    DEF DriftExplained, InSync, KnownOK, KnownIsTrue, Settings
<1>14. CASE UNCHANGED vars
  BY <1>14 DEF vars, bmpVars, sensorVars, ApiIInv, ApiTypeOK, BmpTypeOK,
               DriftExplained, InSync, KnownIsTrue, Settings
<1> QED
  BY <1>1, <1>2, <1>3, <1>4, <1>5, <1>6, <1>7, <1>8, <1>9, <1>10, <1>11, <1>12,
     <1>13, <1>14
  DEF Next, Names

-----------------------------------------------------------------------------
(* The inductive invariant, for every choice of codes and faults. *)
THEOREM ApiInvariance == Spec => []ApiIInv
  BY InitApiIInv, StepApiIInv, PTL DEF Spec

(* The copy differs from the sensor's setting only for the reasons that     *)
(* DriftExplained names.                                                    *)
THEOREM DriftIsExplained == Spec => []DriftExplained
<1>1. ApiIInv => DriftExplained
  BY DEF ApiIInv
<1> QED
  BY ApiInvariance, <1>1, PTL

(* What a successful call has told of a setting stays true until a call     *)
(* that may change it, a failure, a reset or a restart.                     *)
THEOREM CallerKnows == Spec => []KnownIsTrue
<1>1. ApiIInv => KnownIsTrue
  BY DEF ApiIInv
<1> QED
  BY ApiInvariance, <1>1, PTL

=============================================================================
