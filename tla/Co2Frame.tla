------------------------------ MODULE Co2Frame ------------------------------
(***************************************************************************)
(* The bytes of the CO2 sensor's answer: checkCRC() and readCO2() of        *)
(* lib/co2/co2.c, on answers the line may damage.  Module Co2 abstracts an  *)
(* answer to what these tests tell apart.                                   *)
(***************************************************************************)
EXTENDS Integers, FiniteSets

CONSTANTS
  Bytes,       \* the byte values the sensor and the line produce
  MaxDamaged   \* bound: damaged bytes in one answer

ASSUME BytesAssumption == Bytes \subseteq 0 .. 255
ASSUME DamagedAssumption == MaxDamaged \in Nat

Byte  == 0 .. 255
Index == 0 .. 8
Frame == [Index -> Byte]

VARIABLES
  ppm,      \* the concentration the sensor measured
  sent,     \* the answer as the sensor sent it
  heard,    \* the nine bytes uart_read_bytes returned
  damaged   \* history: positions the line has changed

frameVars == <<ppm, sent, heard, damaged>>

-----------------------------------------------------------------------------
(* The loop of checkCRC: bytes 1 to 7 added up. *)
Total(data) ==
  data[1] + data[2] + data[3] + data[4] + data[5] + data[6] + data[7]

(* The first byte of the value is left out of the sum. *)
checkCRC_Bug(data) ==
  LET short == data[1] + data[3] + data[4] + data[5] + data[6] + data[7]
  IN  data[8] = (256 - (short % 256)) % 256

(* crc is a uint8_t: the sum, and 255 - crc + 1, are taken modulo 256. *)
checkCRC(data) == data[8] = (255 - (Total(data) % 256) + 1) % 256

(* The bytes of the value swapped. *)
readCO2_Bug(data) == 256 * data[3] + data[2]

(* The concentration, in ppm. *)
readCO2(data) == 256 * data[2] + data[3]

(* The tests of co2_read on a window of nine bytes. *)
Accepted(data) == data[1] = 134 /\ checkCRC(data)

(* The "read gas concentration" command of co2_read and co2_tx_task. *)
cmd == [i \in Index |-> <<255, 1, 134, 0, 0, 0, 0, 0, 121>>[i + 1]]

(* An answer of the sensor (external): start byte, command, the value, the  *)
(* temperature, the status, and the checksum of the seven bytes between.    *)
SensorAnswer(high, low, temp, status) ==
  LET body == 134 + high + low + temp + status
  IN  [i \in Index |->
         <<255, 134, high, low, temp, status, 0, 0, (256 - (body % 256)) % 256>>[i + 1]]

-----------------------------------------------------------------------------
FrameInit ==
  /\ \E high, low, temp, status \in Bytes :
       /\ ppm = 256 * high + low
       /\ sent = SensorAnswer(high, low, temp, status)
  /\ heard = sent
  /\ damaged = {}

(* The line changes one byte. *)
Damage(i) ==
  /\ i \notin damaged
  /\ Cardinality(damaged) < MaxDamaged
  /\ \E b \in Bytes \ {heard[i]} : heard' = [heard EXCEPT ![i] = b]
  /\ damaged' = damaged \cup {i}
  /\ UNCHANGED <<ppm, sent>>

FrameNext == \E i \in Index : Damage(i)

FrameSpec == FrameInit /\ [][FrameNext]_frameVars

-----------------------------------------------------------------------------
(* Frames are nine bytes, and damage is what tells heard from sent. *)
FrameTypeOK ==
  /\ ppm \in Nat
  /\ sent \in Frame
  /\ heard \in Frame
  /\ damaged \subseteq Index

(* checkCRC rejects every answer with one damaged byte among 1 to 8, and    *)
(* the start byte, which nothing checks, cannot change the value: co2_read  *)
(* takes a wrong value only from two damaged bytes.                         *)
WrongValueNeedsTwoErrors ==
  Accepted(heard) /\ readCO2(heard) # ppm
    => Cardinality(damaged \ {0}) >= 2

(* An answer whose start byte alone may be damaged is accepted, and gives   *)
(* the concentration the sensor measured.                                   *)
IntactAccepted ==
  damaged \subseteq {0} => Accepted(heard) /\ readCO2(heard) = ppm

=============================================================================
