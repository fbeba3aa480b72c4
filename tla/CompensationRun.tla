-------------------------- MODULE CompensationRun --------------------------
(***************************************************************************)
(* bmp280_read_pressure_temperature() over the range of two sensors: what   *)
(* read_pressure makes of the numbers is what Kinds says, on which module   *)
(* Pressure relies, and the numbers follow what the sensor measures.        *)
(*                                                                          *)
(* The two calibrations are the example of the data sheet and a second one, *)
(* with T1 chosen so that a void temperature stands for 23.23 degrees: the  *)
(* code takes 2323 for "nothing measured", which is so for one sensor.      *)
(***************************************************************************)
EXTENDS Compensation

CONSTANTS
  TempStep,       \* grid of raw temperatures
  PressureStep,   \* grid of raw pressures
  Coldest, Hottest,   \* the raw temperatures between which the station lives
  Highest, Lowest     \* and the raw pressures; raw values fall as it rises

(* The grid lies in the range of the station, and is not so fine that        *)
(* neighbours round to the same number.                                     *)
ASSUME GridAssumption ==
  /\ TempStep \in Nat /\ TempStep >= 100
  /\ PressureStep \in Nat /\ PressureStep >= 50
  /\ Coldest \in Nat /\ 419000 <= Coldest /\ Hottest \in Nat /\ Hottest <= 609000
  /\ Highest \in Nat /\ 230000 <= Highest /\ Lowest \in Nat /\ Lowest <= 580000

Zeros == [T1 |-> 0, T2 |-> 0, T3 |-> 0, P1 |-> 0, P2 |-> 0, P3 |-> 0,
          P4 |-> 0, P5 |-> 0, P6 |-> 0, P7 |-> 0, P8 |-> 0, P9 |-> 0]

First ==  [T1 |-> 28148, T2 |-> 26435, T3 |-> -1000, P1 |-> 36477,
           P2 |-> -10685, P3 |-> 3024, P4 |-> 2855, P5 |-> 140, P6 |-> -7,
           P7 |-> 15500, P8 |-> -14600, P9 |-> 6000]

Second == [T1 |-> 28021, T2 |-> 25654, T3 |-> 50, P1 |-> 39145,
           P2 |-> -10750, P3 |-> 3024, P4 |-> 5667, P5 |-> -120, P6 |-> -7,
           P7 |-> 15500, P8 |-> -14600, P9 |-> 6000]

(* The transfer of the calibration ended before its last byte, the upper    *)
(* half of dig_P9.                                                          *)
CutShort(calib) == [calib EXCEPT !.P9 = calib.P9 % 256]

Calibrations == {Zeros, First, Second, CutShort(First), CutShort(Second)}

VARIABLES
  calib,    \* p_bmp280->calib_param
  t_fine,   \* its member t_fine, which the last read left
  raw,      \* what the data registers hold: 20 bits each
  class,    \* whether each is a measurement
  result    \* of the last read: pressure, temperature, and if it worked

vars == <<calib, t_fine, raw, class, result>>

Void == 524288
Live == [p |-> "live", t |-> "live"]
NoResult == [pressure |-> 0, temp |-> 0, works |-> TRUE, of |-> class]

Grid(from, to, step) == {from + step * i : i \in 0 .. (to - from) \div step}
RawTemps == Grid(Coldest, Hottest, TempStep)
RawPressures == Grid(Highest, Lowest, PressureStep)

(* The pressure the sensor has measured, whoever reads it. *)
Pascals(p, t) == bmp280_compensate_pressure_int32(calib, TFine(calib, t), p)

-----------------------------------------------------------------------------
Init ==
  /\ calib \in Calibrations
  /\ t_fine = 0
  /\ class \in [p : {"void", "live"}, t : {"void", "live"}]
  /\ raw \in [p : IF class.p = "live" THEN RawPressures ELSE {Void},
              t : IF class.t = "live" THEN RawTemps ELSE {Void}]
  /\ result = NoResult

(* A value of 20 bits in three bytes, without the last one, or with none. *)
WithoutLast(v) == (v \div 16) * 16

(* What bytes of the six arrive: pressure first. *)
Arrived(bytes) ==
  CASE bytes = 6 -> raw
    [] bytes = 5 -> [raw EXCEPT !.t = WithoutLast(@)]
    [] bytes = 0 -> [p |-> 0, t |-> 0]

(* Temperature before pressure, which uses the t_fine of this read. *)
bmp280_read_pressure_temperature(bytes, works) ==
  /\ t_fine' = TFine(calib, Arrived(bytes).t)
  /\ result' =
       [temp |-> bmp280_compensate_temperature_int32(calib, Arrived(bytes).t),
        pressure |-> bmp280_compensate_pressure_int32(calib, t_fine', Arrived(bytes).p),
        works |-> works, of |-> class]
  /\ UNCHANGED <<calib, raw, class>>

Read ==
  \/ bmp280_read_pressure_temperature(6, TRUE)
  \/ \E bytes \in {0, 5, 6} : bmp280_read_pressure_temperature(bytes, FALSE)

(* The sensor (external) measures another value. *)
Drift ==
  /\ class = Live
  /\ \/ \E p \in RawPressures : raw' = [raw EXCEPT !.p = p]
     \/ \E t \in RawTemps : raw' = [raw EXCEPT !.t = t]
  /\ result' = NoResult
  /\ UNCHANGED <<calib, t_fine, class>>

Next == Read \/ Drift

Spec == Init /\ [][Next]_vars

-----------------------------------------------------------------------------
(* read_pressure takes every result for one of the things Kinds says: zeros *)
(* and void registers are never stored, whichever bytes arrived.  The grid  *)
(* goes beyond the places where the station stands, to pressures that are   *)
(* "low" and measured.                                                      *)
KindsRight ==
  result # NoResult =>
    Kind(result.pressure, result.temp) \in
      Kinds(IF calib = Zeros THEN "zero" ELSE "read", result.of, result.works)
        \cup (IF result.of = Live THEN {"low"} ELSE {})

(* A higher raw pressure is a lower pressure, and a higher raw temperature  *)
(* a higher temperature: no intermediate result wraps within the range.     *)
Monotone ==
  [][calib # Zeros /\ class = Live =>
       /\ raw'.t = raw.t /\ raw'.p > raw.p
            => Pascals(raw'.p, raw.t) < Pascals(raw.p, raw.t)
       /\ raw'.t > raw.t
            => bmp280_compensate_temperature_int32(calib, raw'.t)
                 > bmp280_compensate_temperature_int32(calib, raw.t)]_vars

-----------------------------------------------------------------------------
(* What bmp280_read_pressure_temperature makes of the registers. *)
Reading(bytes, works) ==
  [temp |-> bmp280_compensate_temperature_int32(calib, Arrived(bytes).t),
   pressure |-> bmp280_compensate_pressure_int32(
                  calib, TFine(calib, Arrived(bytes).t), Arrived(bytes).p),
   works |-> works, of |-> class]

(* A result is a reading of what the registers still hold, whole if it      *)
(* worked.                                                                  *)
RunIInv ==
  /\ calib \in Calibrations
  /\ class \in [p : {"void", "live"}, t : {"void", "live"}]
  /\ raw \in [p : IF class.p = "live" THEN RawPressures ELSE {Void},
              t : IF class.t = "live" THEN RawTemps ELSE {Void}]
  /\ \/ result = NoResult
     \/ result = Reading(6, TRUE)
     \/ \E bytes \in {0, 5, 6} : result = Reading(bytes, FALSE)

=============================================================================
