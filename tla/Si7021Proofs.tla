---------------------------- MODULE Si7021Proofs ----------------------------
(***************************************************************************)
(* Proofs about read_temp_rh(), for any number of calls and of failed       *)
(* transfers: the inductive invariant of module Si7021, the three           *)
(* properties about mixed-up answers it gives, and that a call keeps the    *)
(* promise of Climate.                                                      *)
(***************************************************************************)
EXTENDS Si7021, TLAPS

-----------------------------------------------------------------------------
(* An answer is a record of its two fields, and no undefined value. *)
LEMMA ValueIsValue ==
  ASSUME NEW q \in {"humidity", "temperature"}, NEW c \in 0 .. Cycles
  PROVE  /\ Value(q, c) \in Values
         /\ Value(q, c).quantity = q
         /\ Value(q, c).call = c
         /\ Value(q, c) # Indeterminate
BY IndeterminateAssumption, CyclesAssumption DEF Value, Values

LEMMA ValuesAreValues ==
  ASSUME NEW v \in Values
  PROVE  /\ v = Value(v.quantity, v.call)
         /\ v.quantity \in {"humidity", "temperature"}
         /\ v.call \in 0 .. Cycles
         /\ v # Indeterminate
BY IndeterminateAssumption, CyclesAssumption DEF Value, Values

LEMMA InitSiIInv == Init => SiIInv
BY CyclesAssumption, FaultsAssumption
   DEF Init, SiIInv, SiTypeOK, Ages, Leftovers, HumidityRead, Misses, Fresh,
       HumidityMixUpNeedsTwo, TemperatureFromHumidity, PairedReadings, Returned,
       NoAnswer

(* Every step keeps it. *)
LEMMA StepSiIInv == SiIInv /\ [Next]_vars => SiIInv'
<1> SUFFICES ASSUME SiIInv, [Next]_vars
             PROVE  SiIInv'
  OBVIOUS
<1> USE CyclesAssumption, FaultsAssumption, IndeterminateAssumption,
        ValueIsValue, ValuesAreValues
<1> USE DEF SiIInv, SiTypeOK, Transfers, NoAnswer
<1>1. CASE Call
  BY <1>1 DEF Call, values, Ages, Leftovers, HumidityRead, Misses, Fresh,
              HumidityMixUpNeedsTwo, TemperatureFromHumidity, PairedReadings, Returned
<1>2. CASE RhCommand
  BY <1>2 DEF RhCommand, values, Works, Fails, Ages, Leftovers, HumidityRead,
              Misses, Fresh, HumidityMixUpNeedsTwo, TemperatureFromHumidity,
              PairedReadings, Returned
<1>3. CASE RhRead
  BY <1>3 DEF RhRead, ReadBytes, Unfilled, Works, Fails, Ages, Leftovers, HumidityRead,
              Misses, Fresh, HumidityMixUpNeedsTwo, TemperatureFromHumidity,
              PairedReadings, Returned
<1>4. CASE TempCommand
  BY <1>4 DEF TempCommand, Asked, values, Works, Fails, Ages, Leftovers, HumidityRead,
              Misses, Fresh, HumidityMixUpNeedsTwo, TemperatureFromHumidity,
              PairedReadings, Returned
<1>5. CASE TempRead
  BY <1>5 DEF TempRead, ReadBytes, Unfilled, Works, Fails, Ages, Leftovers, HumidityRead,
              Misses, Fresh, HumidityMixUpNeedsTwo, TemperatureFromHumidity,
              PairedReadings, Returned
<1>6. CASE Restart \/ Reset
  <2>1. /\ pc' = "idle" /\ call' = 0
        /\ humidity' = Indeterminate /\ temperature' = Indeterminate
        /\ measured' = IF measured = Indeterminate THEN measured ELSE 0
        /\ missedBefore' = missedBefore
    BY <1>6 DEF Restart, Reset, Boot
  <2>2. /\ answer' \in {Indeterminate} \cup Values
        /\ answer' # Indeterminate => answer # Indeterminate /\ answer'.call = 0
    BY <1>6 DEF Restart, Reset, Boot, Aged, Values
  <2>3. missed' \in 0 .. 4 /\ faults' \in 0 .. MaxFaults
    BY <1>6 DEF Restart, Reset, Misses
  <2>4. answer # Indeterminate => missed' >= 1
    BY <1>6 DEF Restart, Reset, Leftovers
  <2> QED
    BY <2>1, <2>2, <2>3, <2>4
       DEF Ages, Leftovers, HumidityRead, Misses, Fresh, HumidityMixUpNeedsTwo,
           TemperatureFromHumidity, PairedReadings, Returned
<1>7. CASE UNCHANGED vars
  BY <1>7 DEF vars, values, Ages, Leftovers, HumidityRead, Misses, Fresh,
              HumidityMixUpNeedsTwo, TemperatureFromHumidity, PairedReadings, Returned
<1> QED
  BY <1>1, <1>2, <1>3, <1>4, <1>5, <1>6, <1>7 DEF Next

-----------------------------------------------------------------------------
(* The inductive invariant holds for any number of calls and of faults. *)
THEOREM SiInvariance == Spec => []SiIInv
<1>1. Init => SiIInv
  BY InitSiIInv
<1>2. SiIInv /\ [Next]_vars => SiIInv'
  BY StepSiIInv
<1> QED
  BY <1>1, <1>2, PTL DEF Spec

(* It takes a failed transfer in each of two successive calls to compute a  *)
(* humidity from bytes that are not this call's humidity.                   *)
THEOREM HumidityMixUps == Spec => []HumidityMixUpNeedsTwo
<1>1. SiIInv => HumidityMixUpNeedsTwo
  BY DEF SiIInv
<1> QED
  BY <1>1, SiInvariance, PTL

(* A temperature computed from a humidity's bytes is computed from the ones *)
(* of this call's humidity, left on the stack by a failed read, or takes    *)
(* two failed transfers and a call without a humidity.                      *)
THEOREM TemperatureSources == Spec => []TemperatureFromHumidity
<1>1. SiIInv => TemperatureFromHumidity
  BY DEF SiIInv
<1> QED
  BY <1>1, SiInvariance, PTL

(* A humidity of this call never comes with a temperature of another one. *)
THEOREM PairsMatch == Spec => []PairedReadings
<1>1. SiIInv => PairedReadings
  BY DEF SiIInv
<1> QED
  BY <1>1, SiInvariance, PTL

(* read_temp_rh keeps the promise of Climate: values of this boot or an     *)
(* older one, or undefined, and never paired across calls.                  *)
THEOREM KeepsClimate == Spec => ImplementsClimate
<1>1. Init => Promise!Init
  BY DEF Init, Promise!Init, When
<1>2. SiIInv /\ SiIInv' /\ [Next]_vars => [Promise!Next]_(Promise!vars)
  <2> SUFFICES ASSUME SiIInv, SiIInv', [Next]_vars
               PROVE  [Promise!Next]_(Promise!vars)
    OBVIOUS
  <2> USE DEF Promise!Next, Promise!Call, Promise!Humidity, Promise!Temperature,
              Promise!Restart, Promise!Reset, Promise!Sources, Promise!vars
  <2>1. CASE Call
    BY <2>1 DEF Call, values
  <2>2. CASE RhCommand
    BY <2>2 DEF RhCommand, values
  <2>3. CASE RhRead
    <3>1. When(humidity)' \in Promise!Sources
      BY <2>3, CyclesAssumption
         DEF RhRead, ReadBytes, Unfilled, SiIInv, SiTypeOK, Ages, NoAnswer, Values, When
    <3> QED
      BY <2>3, <3>1 DEF RhRead
  <2>4. CASE TempCommand
    BY <2>4 DEF TempCommand, values
  <2>5. CASE TempRead
    <3>1. When(temperature)' \in Promise!Sources
      BY <2>5, CyclesAssumption
         DEF TempRead, ReadBytes, Unfilled, SiIInv, SiTypeOK, Ages, NoAnswer, Values, When
    <3>2. ASSUME When(humidity) = call
          PROVE  When(temperature)' \in {call, Indeterminate}
      <4>1. Fresh
        BY <3>2, IndeterminateAssumption, CyclesAssumption
           DEF When, Fresh, SiIInv, SiTypeOK
      <4>2. answer \in {NoAnswer, Value("temperature", call)}
        BY <4>1, <2>5 DEF SiIInv, HumidityRead, TempRead
      <4>3. temperature' \in {Indeterminate, humidity, Value("temperature", call)}
        BY <4>2, <2>5 DEF TempRead, ReadBytes, Unfilled, NoAnswer
      <4>4. CASE temperature' = humidity
        BY <3>2, <4>4 DEF When
      <4>5. CASE temperature' = Value("temperature", call)
        BY <4>5 DEF When, Value
      <4> QED
        BY <4>3, <4>4, <4>5 DEF When
    <3> QED
      BY <2>5, <3>1, <3>2 DEF TempRead
  <2>6. CASE Restart \/ Reset
    BY <2>6 DEF Restart, Reset, Boot, When
  <2>7. CASE UNCHANGED vars
    BY <2>7 DEF vars
  <2> QED
    BY <2>1, <2>2, <2>3, <2>4, <2>5, <2>6, <2>7 DEF Next
<1> QED
  BY <1>1, <1>2, SiInvariance, PTL DEF Spec, ImplementsClimate, Promise!Spec

=============================================================================
