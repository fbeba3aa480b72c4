----------------------------- MODULE Bmp280Api -----------------------------
(***************************************************************************)
(* The driver of module Bmp280 in the hands of a caller who makes its calls *)
(* in any order, the calls this program does not use included: the other    *)
(* setters, the getters, the work modes, whole registers and the forced     *)
(* measurement.                                                             *)
(*                                                                          *)
(* The caller remembers one thing a successful call has told it, whichever  *)
(* it likes, and forgets it when a later call that fails, a reset or a      *)
(* restart may have changed it.                                             *)
(***************************************************************************)
EXTENDS Bmp280

CONSTANTS
  Oversamplings,   \* oversampling codes the caller uses
  Standbys,        \* standby codes
  Filters,         \* filter codes
  Modes            \* work modes

ASSUME CodesAssumption ==
  /\ Oversamplings \subseteq 0 .. 7 /\ Standbys \subseteq 0 .. 7
  /\ Filters \subseteq 0 .. 7 /\ Modes \subseteq 0 .. 4

VARIABLES
  forced,   \* the forced measurement: "none", or "waiting" to be read
  drift,    \* history: the driver's copy may differ from the sensor's setting
  known     \* history: a setting the caller has learnt from the driver

vars == <<bmpVars, forced, drift, known>>

Underway == forced = "waiting"

(* The settings of the sensor, by the driver's names for them. *)
Settings ==
  [oversamp_temperature |-> GetSlice(ctrl, OversampTemperature),
   oversamp_pressure    |-> GetSlice(ctrl, OversampPressure),
   power_mode           |-> GetSlice(ctrl, PowerMode),
   standby_durn         |-> GetSlice(config, StandbyDurn),
   filter               |-> GetSlice(config, Filter),
   spi3                 |-> GetSlice(config, Spi3)]

CtrlNames == {"oversamp_temperature", "oversamp_pressure", "power_mode"}
ConfigNames == {"standby_durn", "filter", "spi3"}
Oversampled == {"oversamp_temperature", "oversamp_pressure"}

Fact(name, v) == [name |-> name, value |-> v]
Nothing == Fact("none", 0)

(* The call that ends has returned SUCCESS. *)
Succeeded == ~ starting /\ faults' = faults

(* What a call can teach: not a mode the sensor leaves by itself. *)
Learn(name, v) ==
  IF Succeeded /\ (name = "power_mode" => v \in {SleepMode, NormalMode})
  THEN {Fact(name, v)} ELSE {}

Forget(names) == IF known.name \in names THEN Nothing ELSE known

(* What a call that rewrites the control register from the copy spoils. *)
Spoilt == {"power_mode"} \cup (IF drift THEN Oversampled ELSE {})

-----------------------------------------------------------------------------
Init ==
  /\ BmpInit
  /\ forced = "none"
  /\ drift = FALSE
  /\ known = Nothing

SetField(name, v) ==
  /\ ~ Underway
  /\ \/ /\ name = "oversamp_temperature" /\ v \in Oversamplings
        /\ bmp280_set_oversamp_temperature(v)
     \/ /\ name = "oversamp_pressure" /\ v \in Oversamplings
        /\ bmp280_set_oversamp_pressure(v)
     \/ name = "standby_durn" /\ v \in Standbys /\ bmp280_set_standby_durn(v)
     \/ name = "filter" /\ v \in Filters /\ bmp280_set_filter(v)
     \/ name = "spi3" /\ v \in {0, 1} /\ bmp280_set_spi3(v)
  /\ drift' = (drift \/ (name \in Oversampled /\ ~ Succeeded))
  /\ known' \in Learn(name, v) \cup {Forget({name})}
  /\ UNCHANGED forced

(* A getter changes nothing but the copy, which it spoils when it fails. *)
GetField(name, v) ==
  /\ ~ Underway
  /\ \/ name = "oversamp_temperature" /\ bmp280_get_oversamp_temperature(v)
     \/ name = "oversamp_pressure" /\ bmp280_get_oversamp_pressure(v)
     \/ name = "power_mode" /\ bmp280_get_power_mode(v)
     \/ name = "standby_durn" /\ bmp280_get_standby_durn(v)
     \/ name = "filter" /\ bmp280_get_filter(v)
     \/ name = "spi3" /\ bmp280_get_spi3(v)
  /\ drift' = (drift \/ (name \in Oversampled /\ ~ Succeeded))
  /\ known' \in Learn(name, v) \cup {known}
  /\ UNCHANGED forced

(* Calls that leave the settings alone. *)
ReadOther ==
  /\ ~ Underway
  /\ \/ bmp280_init \/ bmp280_read_register
     \/ bmp280_read_uncomp_temperature \/ bmp280_read_uncomp_pressure
  /\ UNCHANGED <<forced, drift, known>>

(* The calls that write the oversampling of both quantities. *)
SetPowerMode ==
  /\ ~ Underway
  /\ \E mode \in {SleepMode, ForcedMode, NormalMode} :
       /\ bmp280_set_power_mode(mode)
       /\ known' \in Learn("power_mode", mode) \cup {Forget(Spoilt)}
  /\ drift' = ~ Succeeded
  /\ UNCHANGED forced

SetWorkMode ==
  /\ ~ Underway
  /\ \E mode \in Modes :
       /\ bmp280_set_work_mode(mode)
       /\ known' \in Learn("oversamp_temperature", WorkModes[mode].t)
                     \cup Learn("oversamp_pressure", WorkModes[mode].p)
                     \cup {Forget(Oversampled)}
  /\ drift' = ~ Succeeded
  /\ UNCHANGED forced

WriteRegister ==
  /\ ~ Underway
  /\ \E t, p \in Oversamplings, standby \in Standbys :
       bmp280_write_register(t * 32 + p * 4 + NormalMode, standby * 32)
  /\ drift' = TRUE
  /\ known' = Nothing
  /\ UNCHANGED forced

SoftReset ==
  /\ ~ Underway
  /\ bmp280_set_soft_rst
  /\ drift' = TRUE
  /\ known' = Nothing
  /\ UNCHANGED forced

(* bmp280_get_forced_uncomp_pressure_temperature: start a measurement ...   *)
ForcedStart ==
  /\ ~ Underway
  /\ bmp280_set_power_mode(ForcedMode)
  /\ drift' = ~ Succeeded
  /\ known' = Forget(Spoilt)
  /\ forced' = IF Succeeded THEN "waiting" ELSE "none"

(* ... wait, which takes the caller no step here, and read; whether the     *)
(* sensor has measured by then is not the driver's to know.                 *)
ForcedRead ==
  /\ Underway
  /\ Works \/ Fails \/ Refused
  /\ forced' = "none"
  /\ UNCHANGED <<p_bmp280, sensorVars, drift, known>>

(* The host restarts, planned or not; the sensor does not. *)
HostRestart ==
  /\ p_bmp280' = FreshDriver
  /\ forced' = "none"
  /\ drift' = TRUE
  /\ known' = Nothing
  /\ UNCHANGED <<sensorVars, faults>>

Measure == Convert /\ UNCHANGED <<forced, drift, known>>

LoseSupply ==
  /\ BrownOut
  /\ drift' = TRUE
  /\ known' = Nothing
  /\ UNCHANGED forced

Start == Ready /\ UNCHANGED <<forced, drift, known>>

Next ==
  \/ \E name \in CtrlNames \cup ConfigNames, v \in 0 .. 7 :
       SetField(name, v) \/ GetField(name, v)
  \/ ReadOther \/ SetPowerMode \/ SetWorkMode \/ WriteRegister \/ SoftReset
  \/ ForcedStart \/ ForcedRead \/ HostRestart \/ Measure \/ LoseSupply \/ Start

Spec == Init /\ [][Next]_vars

-----------------------------------------------------------------------------
(* The driver's copy of the oversampling differs from the sensor's setting  *)
(* only after a call about the oversampling that failed, a write of the     *)
(* register behind its back, a reset or a restart, and only until the next  *)
(* call that writes the whole register.                                     *)
DriftExplained == ~ drift => InSync

(* What one successful call has said of a setting stays true, whatever the  *)
(* caller calls next: a setter or a work mode changes no other setting, a   *)
(* getter none, bmp280_set_power_mode and a forced measurement only the     *)
(* mode as long as the copy has not drifted.                                *)
KnownIsTrue == known.name # "none" => Settings[known.name] = known.value

(* Every variable stays in its domain. *)
ApiTypeOK ==
  /\ BmpTypeOK
  /\ forced \in {"none", "waiting"}
  /\ drift \in BOOLEAN
  /\ known \in {Nothing} \cup [name : CtrlNames \cup ConfigNames, value : 0 .. 7]

(* The inductive invariant (Bmp280ApiProofs).  A known mode is one the      *)
(* sensor does not leave by itself.                                         *)
ApiIInv ==
  /\ ApiTypeOK
  /\ DriftExplained
  /\ KnownIsTrue
  /\ starting => drift /\ known = Nothing
  /\ known.name = "power_mode" => known.value \in {SleepMode, NormalMode}

(* "This API used to set the Operational Mode from the sensor in the        *)
(* register 0xF4 bit 0 and 1": the other bits keep their values.  They do   *)
(* not: the register is rewritten from the driver's copy.                   *)
PowerModeSetsTwoBits ==
  [][SetPowerMode =>
       /\ GetSlice(ctrl', OversampTemperature) = GetSlice(ctrl, OversampTemperature)
       /\ GetSlice(ctrl', OversampPressure) = GetSlice(ctrl, OversampPressure)]_vars

=============================================================================
