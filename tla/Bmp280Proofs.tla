---------------------------- MODULE Bmp280Proofs ----------------------------
(***************************************************************************)
(* Facts about the register fields of module Bmp280: what                   *)
(* BMP280_SET_BITSLICE and BMP280_GET_BITSLICE do to one field and to its   *)
(* neighbours, for every register and every value.  Modules PressureProofs  *)
(* and Bmp280ApiProofs rest on them and look no further into a register.    *)
(***************************************************************************)
EXTENDS Bmp280, TLAPS

-----------------------------------------------------------------------------
(* Setting the field at bits 5 to 7 of a register leaves bits 0 to 4.       *)
LEMMA UpperField ==
  ASSUME NEW reg \in 0 .. 255, NEW v \in 0 .. 7
  PROVE  LET new == reg + ((v % 8) - ((reg \div 32) % 8)) * 32
         IN  /\ new \in 0 .. 255
             /\ (new \div 32) % 8 = v
             /\ (new \div 4) % 8 = (reg \div 4) % 8
             /\ new % 4 = reg % 4
             /\ new % 2 = reg % 2
  OBVIOUS

(* Setting the field at bits 2 to 4 of a register leaves the others.        *)
LEMMA MiddleField ==
  ASSUME NEW reg \in 0 .. 255, NEW v \in 0 .. 7
  PROVE  LET new == reg + ((v % 8) - ((reg \div 4) % 8)) * 4
         IN  /\ new \in 0 .. 255
             /\ (new \div 32) % 8 = (reg \div 32) % 8
             /\ (new \div 4) % 8 = v
             /\ new % 4 = reg % 4
             /\ new % 2 = reg % 2
  OBVIOUS

(* Setting bit 0, or clearing bits 0 and 1, leaves bits 2 to 7.             *)
LEMMA LowestBit ==
  ASSUME NEW reg \in 0 .. 255, NEW v \in 0 .. 1
  PROVE  LET new == reg + ((v % 2) - ((reg \div 1) % 2)) * 1
         IN  /\ new \in 0 .. 255
             /\ (new \div 32) % 8 = (reg \div 32) % 8
             /\ (new \div 4) % 8 = (reg \div 4) % 8
             /\ (new \div 1) % 2 = v
  OBVIOUS

LEMMA LowerField ==
  ASSUME NEW reg \in 0 .. 255
  PROVE  LET new == reg + (0 - ((reg \div 1) % 4)) * 1
         IN  /\ new \in 0 .. 255
             /\ (new \div 32) % 8 = (reg \div 32) % 8
             /\ (new \div 4) % 8 = (reg \div 4) % 8
             /\ (new \div 1) % 4 = 0
  OBVIOUS

-----------------------------------------------------------------------------
(* The values a field can have. *)
LEMMA Slices ==
  ASSUME NEW reg \in 0 .. 255
  PROVE  /\ GetSlice(reg, OversampTemperature) \in 0 .. 7
         /\ GetSlice(reg, OversampPressure) \in 0 .. 7
         /\ GetSlice(reg, PowerMode) \in 0 .. 3
         /\ GetSlice(reg, StandbyDurn) \in 0 .. 7
         /\ GetSlice(reg, Filter) \in 0 .. 7
         /\ GetSlice(reg, Spi3) \in 0 .. 1
BY DEF GetSlice, OversampTemperature, OversampPressure, PowerMode, StandbyDurn,
       Filter, Spi3

(* The fields of the control register. *)
LEMMA TemperatureField ==
  ASSUME NEW reg \in 0 .. 255, NEW v \in 0 .. 7
  PROVE  LET new == SetSlice(reg, OversampTemperature, v)
         IN  /\ new \in 0 .. 255
             /\ GetSlice(new, OversampTemperature) = v
             /\ GetSlice(new, OversampPressure) = GetSlice(reg, OversampPressure)
             /\ GetSlice(new, PowerMode) = GetSlice(reg, PowerMode)
BY UpperField
   DEF SetSlice, GetSlice, OversampTemperature, OversampPressure, PowerMode

LEMMA PressureField ==
  ASSUME NEW reg \in 0 .. 255, NEW v \in 0 .. 7
  PROVE  LET new == SetSlice(reg, OversampPressure, v)
         IN  /\ new \in 0 .. 255
             /\ GetSlice(new, OversampTemperature) = GetSlice(reg, OversampTemperature)
             /\ GetSlice(new, OversampPressure) = v
             /\ GetSlice(new, PowerMode) = GetSlice(reg, PowerMode)
BY MiddleField
   DEF SetSlice, GetSlice, OversampTemperature, OversampPressure, PowerMode

(* A measurement in forced mode ends in sleep mode. *)
LEMMA ModeField ==
  ASSUME NEW reg \in 0 .. 255
  PROVE  LET new == SetSlice(reg, PowerMode, SleepMode)
         IN  /\ new \in 0 .. 255
             /\ GetSlice(new, OversampTemperature) = GetSlice(reg, OversampTemperature)
             /\ GetSlice(new, OversampPressure) = GetSlice(reg, OversampPressure)
             /\ GetSlice(new, PowerMode) = SleepMode
BY LowerField
   DEF SetSlice, GetSlice, OversampTemperature, OversampPressure, PowerMode, SleepMode

(* The register bmp280_set_power_mode composes. *)
LEMMA ComposedRegister ==
  ASSUME NEW t \in 0 .. 7, NEW p \in 0 .. 7, NEW mode \in 0 .. 3
  PROVE  LET new == t * 32 + p * 4 + mode
         IN  /\ new \in 0 .. 255
             /\ GetSlice(new, OversampTemperature) = t
             /\ GetSlice(new, OversampPressure) = p
             /\ GetSlice(new, PowerMode) = mode
BY DEF GetSlice, OversampTemperature, OversampPressure, PowerMode

(* A sensor at rest after a reset. *)
LEMMA Cleared ==
  /\ GetSlice(0, OversampTemperature) = 0
  /\ GetSlice(0, OversampPressure) = 0
  /\ GetSlice(0, PowerMode) = SleepMode
BY DEF GetSlice, OversampTemperature, OversampPressure, PowerMode, SleepMode

(* The fields of the configuration register. *)
LEMMA StandbyField ==
  ASSUME NEW reg \in 0 .. 255, NEW v \in 0 .. 7
  PROVE  LET new == SetSlice(reg, StandbyDurn, v)
         IN  /\ new \in 0 .. 255
             /\ GetSlice(new, StandbyDurn) = v
             /\ GetSlice(new, Filter) = GetSlice(reg, Filter)
             /\ GetSlice(new, Spi3) = GetSlice(reg, Spi3)
             /\ new % 4 = reg % 4
BY UpperField DEF SetSlice, GetSlice, StandbyDurn, Filter, Spi3

LEMMA FilterField ==
  ASSUME NEW reg \in 0 .. 255, NEW v \in 0 .. 7
  PROVE  LET new == SetSlice(reg, Filter, v)
         IN  /\ new \in 0 .. 255
             /\ GetSlice(new, StandbyDurn) = GetSlice(reg, StandbyDurn)
             /\ GetSlice(new, Filter) = v
             /\ GetSlice(new, Spi3) = GetSlice(reg, Spi3)
             /\ new % 4 = reg % 4
BY MiddleField DEF SetSlice, GetSlice, StandbyDurn, Filter, Spi3

LEMMA Spi3Field ==
  ASSUME NEW reg \in 0 .. 255, NEW v \in 0 .. 1
  PROVE  LET new == SetSlice(reg, Spi3, v)
         IN  /\ new \in 0 .. 255
             /\ GetSlice(new, StandbyDurn) = GetSlice(reg, StandbyDurn)
             /\ GetSlice(new, Filter) = GetSlice(reg, Filter)
             /\ GetSlice(new, Spi3) = v
BY LowestBit DEF SetSlice, GetSlice, StandbyDurn, Filter, Spi3

=============================================================================
