---------------------------- MODULE Compensation ----------------------------
(***************************************************************************)
(* The numbers behind read_pressure(): the fixed-point compensation of      *)
(* lib/bosch_bmp280/bosch_bmp280.c and the tests read_pressure of           *)
(* lib/pressure/pressure.c makes on its results.                            *)
(*                                                                          *)
(* Kinds is what module Pressure uses in place of these numbers; module     *)
(* CompensationRun checks that it is right about them.                      *)
(***************************************************************************)
EXTENDS Integers

CONSTANT
  VoidKinds   \* what read_pressure may take a result for when the temperature
              \* register is void: {"none"} for a sensor whose calibration makes
              \* 23.23 degrees of it, as the tests expect; anything for others

ASSUME VoidAssumption ==
  "none" \in VoidKinds /\ VoidKinds \subseteq {"none", "low", "ok", "outside"}

(* Arithmetic shift to the right. *)
Shr(x, n) == x \div 2 ^ n

(* The product of two halves of 16 bits, as halves of 16 bits. *)
HalfProduct(x, y) ==
  LET high == x * (y \div 256)
      low  == x * (y % 256) + 256 * (high % 256)
  IN  <<high \div 256 + low \div 65536, low % 65536>>

(* x * y in 32 bits.  The product may overflow, which is undefined in C;    *)
(* the multiplication of the ESP32 keeps the lower 32 bits.                 *)
Mul(x, y) ==
  LET High(z) == (z \div 65536) % 65536
      Low(z)  == z % 65536
      low  == HalfProduct(Low(x), Low(y))
      high == (low[1] + HalfProduct(Low(x), High(y))[2]
                      + HalfProduct(High(x), Low(y))[2]) % 65536
  IN  (IF high < 32768 THEN high ELSE high - 65536) * 65536 + low[2]

-----------------------------------------------------------------------------
(* The part of bmp280_compensate_temperature_int32 it leaves in t_fine. *)
TFine(calib, raw) ==
  LET x1 == Shr((Shr(raw, 3) - calib.T1 * 2) * calib.T2, 11)
      off == Shr(raw, 4) - calib.T1
  IN  x1 + Shr(Shr(off * off, 12) * calib.T3, 14)

(* bmp280_compensate_temperature_int32, in 0.01 degrees Celsius. *)
bmp280_compensate_temperature_int32(calib, raw) == Shr(TFine(calib, raw) * 5 + 128, 8)

(* 2 * 3125 * d / x1 computed in 32 bits: the doubling wraps at the top.    *)
Quotient_Bug(d, x1) ==
  IF d < 687195
  THEN 6250 * (d \div x1) + (6250 * (d % x1)) \div x1
  ELSE LET e == d - 687195
       IN  6250 * (e \div x1) + (6250 * (e % x1) + 1454) \div x1

(* The same in the two ways of the code: 3125 * d below 2^31 is doubled     *)
(* before the division, and from there on after it.  Both are written       *)
(* without intermediate results above 2^31.                                 *)
Quotient(d, x1) ==
  IF d < 687195
  THEN 6250 * (d \div x1) + (6250 * (d % x1)) \div x1
  ELSE 2 * (3125 * (d \div x1) + (3125 * (d % x1)) \div x1)

(* The two corrections bmp280_compensate_pressure_int32 derives from        *)
(* t_fine: the offset taken off the raw value, and the divisor.             *)
Offset(calib, t_fine) ==
  LET x1 == Shr(t_fine, 1) - 64000
      x2 == Shr(Mul(Shr(x1, 2), Shr(x1, 2)), 11) * calib.P6 + x1 * calib.P5 * 2
  IN  Shr(Shr(x2, 2) + calib.P4 * 65536, 12)

Divisor(calib, t_fine) ==
  LET x1 == Shr(t_fine, 1) - 64000
      cubic == Shr(calib.P3 * Shr(Mul(Shr(x1, 2), Shr(x1, 2)), 13), 3)
      slope == Shr(cubic + Shr(Mul(calib.P2, x1), 1), 18)
  IN  Shr((32768 + slope) * calib.P1, 15)

(* bmp280_compensate_pressure_int32, in Pa; 0 is BMP280_INVALID_DATA. *)
bmp280_compensate_pressure_int32(calib, t_fine, raw) ==
  LET divisor == Divisor(calib, t_fine)
      p == Quotient(1048576 - raw - Offset(calib, t_fine), divisor)
      x1 == Shr(calib.P9 * Shr(Shr(p, 3) * Shr(p, 3), 13), 12)
      x2 == Shr(Shr(p, 2) * calib.P8, 13)
  IN  IF divisor = 0 THEN 0 ELSE p + Shr(x1 + x2 + calib.P7, 4)

-----------------------------------------------------------------------------
(* The temperature is not tested. *)
Kind_Bug(pressure, temp) ==
  CASE pressure = 0                                         -> "none"
    [] pressure > 0 /\ pressure < 75000                     -> "low"
    [] pressure > 90000 /\ pressure < 110000                -> "ok"
    [] pressure \in 75000 .. 90000 \/ pressure >= 110000    -> "outside"

(* The tests of read_pressure.  "none": it reads again.  "low": it resets   *)
(* the sensor.  "ok": it stores the pressure.  "outside": it gives up.      *)
Kind(pressure, temp) ==
  LET taken == pressure # 0 /\ temp \notin {0, 2323}
  IN  CASE ~ taken                                            -> "none"
        [] taken /\ pressure < 75000                          -> "low"
        [] taken /\ pressure > 90000 /\ pressure < 110000     -> "ok"
        [] OTHER                                              -> "outside"

(* The same of six zeros: what is left when no byte arrives. *)
Unread(calib) == IF calib = "zero" THEN "none" ELSE "outside"

(* What a result can be taken for, of data registers that hold "live" or    *)
(* "void" values, under a calibration that is all zeros or not.  The result *)
(* code is only logged: a read that failed has all six bytes, five of them, *)
(* or none, as BMP280_I2C_bus_read reads five and then the last one; none   *)
(* are six zeros.  A live temperature may be 0.00 or 23.23 degrees.  A live *)
(* pressure is never below 750 hPa: the station stands lower than 2000 m.   *)
(* What a void register stands for depends on the sensor.                   *)
Kinds(calib, raw, works) ==
  LET received ==
        CASE raw.t = "void"                    -> VoidKinds
          [] raw.t = "live" /\ raw.p = "void"  -> {"low", "outside"} \cup VoidKinds
          [] raw.t = "live" /\ raw.p = "live"  -> {"ok", "outside", "none"}
  IN  (IF calib = "zero" THEN {"none"} ELSE received)
        \cup (IF works THEN {} ELSE {Unread(calib)})

=============================================================================
