# A TLA+ model of the ESP32 air monitor

The program (`src/src/main.c` and the libraries under `src/lib`) runs on an ESP32. It reads a BMP280
pressure sensor and a Si7021 humidity sensor over I2C and a CO2 sensor over a UART, and posts the
readings to a web server over Wi-Fi, 100 times every 15 seconds and a bit; then it restarts the chip.

This directory holds modules that model it, configurations with which TLC checks them on small
instances, and proofs that TLAPS checks for every value of the constants. `PROJECT.json` relates every
definition to the lines it stands for, and lists runs, theorems, hazards and findings.

## The system

| Component | State it keeps | Operations | Hard about it |
|---|---|---|---|
| Application (`main.c`: `app_main`, `postWeatherServer`, `nvs_init`) | `counter`, `data` (on the stack, never initialised), socket and address list of the current report, the NVS partition | boot, one cycle, restart | the connection changes between any two calls; four ways out of `postWeatherServer`; old values stay in `data` |
| Connection (`wifi.c`) | `CONNECTED_BIT`, the driver's station, the system event queue | `event_handler` (event task), `start_wifi` (main task), the driver's own moves | three parties interleaved; a queue of bounded length; reconnection hangs on one event; the loss of an address has an event that is ignored |
| CO2 sensor (`co2.c`) | the UART driver's ring buffer; commands the sensor has not answered | `co2_init`, `co2_read` | answers have no number, and may be late, lost, damaged, cut or glued together; an unbounded loop |
| Pressure reading (`pressure.c`) | nothing of its own but `bmp280`, which survives the call | `read_pressure`, `pressure_init`, `pressure_setup`, `pressure_reset`, the bus functions | every failure is only logged; an unbounded loop; the sensor changes state by itself |
| BMP280 driver (`bosch_bmp280.c`) | a copy of two register fields, the calibration, `t_fine` | setters, getters, modes, reset, forced measurement, compensation | the copy and the sensor's registers drift apart; 32-bit fixed point |
| Humidity sensor (`si7021.c`) | none; the sensor keeps its last measurement | `read_temp_rh`, two commands and two reads | results ignored, buffer not initialised |
| Sensor tasks (`reporter_task`, `co2_task`, `co2_tx_task`, `pressure_task`, `temperature_humidity_task`) | one `climateData` for all of them, without a lock | a round of each task, the composing of a request | nothing in the sources creates them, so their order, their phases and their being there at all are open; a `double` is stored in two words |
| Unused code (`wifi_task`, `scan_networks`, `getAuthModeName`, `stop_wifi`, `wake_wifi`, `blink_task`, the driver's float and 64-bit compensation) | | | not called by the program |

`app_main` calls everything else from one task. Only `event_handler` runs in another one; they share the
event group. The sensors, the access point, the server and the lines to them act on their own, and the
chip may reset at any moment. The sensor tasks are an alternative to `app_main`'s loop.

What makes each component correct:

* a report carries current values: a CO2 value of this cycle or the one before, a pressure of this boot or
  no pressure at all, and with a humidity of this cycle no temperature of another one;
* cycles go on unless a sensor call never returns, and after any outage every cycle reports again, without help;
* nothing is leaked or freed twice in a cycle that fails half-way;
* the station is never left without an event that will make it reconnect;
* `CONNECTED_BIT` is wrong only for a reason;
* `co2_read` always returns, nothing older than one call, no value that one damaged byte has changed, and none from
  pieces of several answers unless three things go wrong;
* `read_pressure` stores nothing that was computed from missing data, leaves the sensor configured, and
  returns, unless it is stuck in one of the known ways;
* the driver's copy differs from the sensor only for a reason, and what a call has said of a setting
  stays true until a call that may change it;
* a request composed by `reporter_task` mixes rounds only where a task ran during its composition, and
  each request carries newer values than the one before.

## Modules

```
Co2Meter   Barometer   Climate     what the sensor calls promise: abstract specifications
   |           |          |
  Co2      Pressure     Si7021     each call, step by step; shown to implement the promise
   |           |  \
Co2Frame       |  PressureTask     the answer's bytes; pressure_task over the same driver and sensor
               |
            Bmp280 -- Bmp280Api    the driver and the sensor; its calls in any order
               |
         Compensation -- CompensationRun   the numbers behind read_pressure

 Wifi  <--  AirMonitor             the connection; the whole program on top of it, shown to be a
                                   caller as the three abstract specifications describe it
 Tasks                             the sensor tasks and reporter_task sharing climateData

 Proofs: Co2Proofs (Co2, then Co2Frame), Si7021Proofs, TasksProofs, CompensationProofs,
         AirProofs (Wifi, then AirMonitor), and
         Bmp280Proofs (fields of registers) <-- PressureProofs (Pressure, PressureTask),
                                                Bmp280ApiProofs
```

Composition is by these promises: `Co2`, `Pressure` and `Si7021` implement `Co2Meter`, `Barometer` and
`Climate` (refinement, checked), and `AirMonitor`, which uses the promises in place of the calls,
implements the same three specifications on its side (`DrivesMeter`, ...). So the caller asks for no
more than the callee gives, and neither is larger than it must be. `AirMonitor` extends `Wifi` and runs
its actions interleaved with its own; nothing of the connection is abstracted there.

* **Wifi.** `station`, `events` and `ap` belong to the driver (external), `bit` and `main` to the
  program. `event_handler` is one action per case, but for `STA_DISCONNECTED`, which is two: the driver
  can act between `esp_wifi_connect` and `xEventGroupClearBits`. `main` is where `start_wifi` is. An address is lost
  with the association or alone, when its lease ends (`lapsed`); either starts `timer`, the IP lost timer of
  `sdkconfig.h`, whose `STA_LOST_IP` `event_handler` ignores.
* **AirMonitor.** `step` is the program counter of `app_main`; every network call is an action of its
  own that works or fails. A measured value is represented by the number of the cycle it was measured
  in, because what the properties ask of a value is where it comes from. Network calls are taken
  to return (lwIP's own timeouts are not modelled), and so are the two transfers of `read_temp_rh`. `read_pressure` and
  `co2_read` are loops without a bound (`UnboundedStep`) and have no fairness here: when they return is the matter of
  `Pressure` and `Co2`.
  `Reset` is a reset nobody planned, possible at every step; `owed` remembers that the CO2 sensor may then
  still send an answer to a command of the boot before.
* **Co2.** `rx` is the ring buffer as a sequence of answers and pieces of answers with their sizes, `bytes` how many
  bytes they are, which is what the code counts; `awaited` are the commands on their way, `partial` is what has
  arrived of the next answer. A window of 100 ms may close before an answer arrives, or in the middle of one: a
  fault of its own. Nine bytes that are one answer pass the tests if it is undamaged; of nine bytes from several
  pieces the module only knows that the tests may pass or fail (`MayPass`, `MayFail`) and, if they pass, that the
  value is one of those the pieces come from (`NoMixedValue` proves this for the head of one answer followed by
  the tail of another; pieces in another order or more of them are taken to give one of their values, too).
  `late` and `lost` remember in
  which calls faults happened, `before` and `during` how many, for the properties that say what it takes to get an old
  value, or one from several pieces. A reset
  in the middle of a call empties the ring buffer and leaves in `awaited` what the sensor still sends;
  a planned restart comes 15 seconds after the last command, when nothing is on its way any more.
* **Co2Meter**, **Barometer**, **Climate.** Each has the reset too, so that the promise of a call says
  what it may return in the first cycles after one: a CO2 value of the boot before (`owed`), no pressure of
  another boot, a humidity or a temperature the sensor has kept.
* **Co2Frame.** `checkCRC` and `readCO2` on nine bytes, of which the line changes some.
* **Bmp280.** The control and configuration registers as integers, with the code's bit slices, the
  driver's copy, and what the data registers hold: `live` or `void` (0x80000). Every bus transaction
  works or fails, and a failed write may have reached the sensor. `bmp280_init` that fails leaves the
  calibration as it was, zero, complete, or without its last byte: `BMP280_I2C_bus_read` reads all bytes
  but one, then the last one. After a soft reset or a brown-out the sensor is `starting` for up to 2 ms and
  refuses every transaction (`Refused`, which is not a fault); the driver waits for nothing.
* **Bmp280Api.** Every call of the driver but the null-pointer tests, in any order: setters, getters, work
  modes, `bmp280_read_register` and `bmp280_write_register`, the soft reset, and the forced measurement in two
  steps (start and read). There is no clock: the sensor may or may not have finished when it is read. `drift`
  remembers that the copy may be wrong, `known` one setting that a successful call has told the caller.
* **Pressure.** `read_pressure` call by call over `Bmp280`. What it reads is abstracted to what its tests
  tell apart: `none`, `low`, `ok`, `outside` (operator `Kinds`). What a void temperature register is taken for depends
  on the sensor's calibration: it is a constant, `VoidKinds`, `{"none"}` for the sensor the test `temp != 2323` was
  written for, and any set with `none` for others. `clean` means that no fault has hit the
  call so far.
* **PressureTask.** `pressure_task`: the actions of `Pressure`, but the driver is initialised and the sensor
  set up before the loop, once, and every round ends with the delay. Its start is the model's one call.
* **Tasks.** A value is its age, in ticks of 2.5 s, the largest unit in which the tasks' periods are whole
  numbers and different; a round of a task takes less than a tick. Every word a task stores, and every word the
  reporter loads, is an action, so tasks preempt each other anywhere in between; the reporter loads in the
  order of the request, `Tick` waits until nobody is in a round. How `pressure_task` gets its value is left to
  `PressureTask`: here a round gives a pressure or nothing.
* **Compensation**, **CompensationRun.** The 32-bit arithmetic and those tests on numbers; they check
  that `Kinds` is right, including reads that deliver no byte, five, or six. Signed overflow, undefined
  in C, is taken to wrap, as the ESP32's multiplication does (`Mul`); within the range of the
  sensor it does not happen; it does for a read that delivered nothing, six zeros.
* **Si7021.** Four transfers, each of which may fail, and the answer the sensor holds, which neither a restart
  nor a reset of the host clears. The two bytes `read_value` does not initialise lie in the same place of the
  stack in both calls of it, so a failed read of the temperature may find those of the humidity there
  (`Unfilled`).

Operators whose name ends in `_Bug` are wrong versions of the definition that follows them, kept to show
that the properties notice; nothing in the specifications uses them.

## Runs

| Run | Shows | Bounds, and why they are enough |
|---|---|---|
| `air_monitor` | what reports carry; nothing leaks; cycles go on and report again; the callee's promises are used as promised | 2 cycles per boot: a cycle can inherit from the one before it, from none, or from another boot. 1 outage and 2 other failures, resets included: they can follow each other in one cycle or hit the restart. Queue of 4, the shortest that loses nothing |
| `wifi` | when the bit and the station may disagree; the station is never stranded; nothing is dropped; reconnection | 4 outages of the access point or the lease: one can hit a reconnection. Queue of 4 |
| `wifi_lease` | a comment that is wrong about the code: after the end of a lease the bit stays set | 1 outage, no fairness: the property is about states |
| `co2` | age of a value, what a value from several pieces takes, the call returns (liveness of `Co2Meter`), refinement of `Co2Meter` | 3 calls, 5 faults: late, late again or lost, a reset, then recovery. Answers are cut after 3, 4 or 5 bytes: two and three pieces can make nine |
| `co2_frame` | one damaged byte is always noticed; an answer that arrives whole is taken | byte values at the ends and the middle of the range, and one that makes the sum 0 modulo 256; two damaged bytes, one more than is needed |
| `pressure` | what is stored, sensor configured, the three ways to get stuck of a sensor with `VoidKinds = {"none"}`, refinement of `Barometer` | 3 calls per boot, 3 faults: one can undo what another did, across a restart or a reset |
| `pressure_task` | a clean start configures the sensor and the loop never resets it; what keeps the loop from storing | 3 faults, as above; resets start the task again |
| `tasks` | what one request can mix; requests carry newer values | two of the three sensors at a time, each pair: no property relates more than one to the reporter, the second is there to interfere (all three, with one fault, has been checked once: 15 million states). Ages up to 12.5 s, more than the reporter's period. 2 faults |
| `compensation` | `Kinds` agrees with the numbers; results follow the measurements | two sensors' calibrations, whole, cut and zero; a grid over -10 to 50 degrees and 750 to 1100 hPa and beyond |
| `bmp280_api` | when the driver's copy may be wrong; that what one call said of a setting stays true | 1 fault is enough to make them differ; two values for each field |
| `si7021` | which mix-ups failures can cause; refinement of `Climate` | 3 calls, 5 faults, more than the transfers of one call |
| `bmp280_power_mode` | a comment that is wrong about the code | no fault needed |

### What the runs taught

* An old CO2 value takes an answer that missed its window in one call and another miss in the next
  (`StaleNeedsTwoMisses`). What prevents it otherwise is that any window that does not hold exactly nine
  bytes is thrown away, leftovers and all.
* The test for nine bytes does not see that they are one answer. Two cut answers that add up take three faults in two
  successive calls, or two with a reset in the middle of an answer (`GluedNeedsThreeFaults`), and what they give is,
  where they are the head of one and the tail of the other, the value of one of the two (`NoMixedValue`).
* The bit may be wrong in both directions: while the event that corrects it is queued or being handled, and,
  unlike that, for any length of time while the station is associated but its lease has ended (`BitExplained`),
  because `STA_LOST_IP` is ignored. It ends with the next lease or the loss of the access point (`Reconnects`).
  The program reads the bit once per boot, in `start_wifi`, before a lease can have ended. `esp_wifi_connect`
  before `xEventGroupClearBits` is harmless since the event of the new connection is handled by the same task,
  later.
* `read_pressure`, with a sensor whose void temperature register means 23.23 degrees, does not return in three
  cases: all reads of the calibration of the boot have failed (the calibration is read before the loop, never in
  it); the sensor measures pressure but skips temperature because `bmp280_set_oversamp_temperature` failed the
  first time (the test that leads to a reset asks for both registers to be void); or each time it resets the
  sensor it writes the setup before the sensor has started (`TooEarly`), so that the sensor goes on sleeping.
  `ReturnsUnlessStuck` says there is no fourth one for such a sensor. With another calibration void registers
  may stand for a low pressure: the branch that resets the sensor then has no delay, and the next reading comes
  before the first measurement (`VoidLooksLow`, excused by name); or for a good pressure, which is stored though
  nothing was measured (excused in `StoredIsMeasured` and `CleanCallConfigures`). The third ends when the first
  write is heard once: this setting is the one that makes the sensor measure, so a sensor half configured by a
  setup that came too early always sleeps and is reset again.
* The first reading after a power-up comes before the first measurement is over, finds void registers and makes
  `read_pressure` reset a sensor that was fine: every boot after a power-up goes through the race above.
  `pressure_task`, which waits before it reads, never does (`LoopConfigured`).
* `pressure_task` in turn never mends what `read_pressure` mends in the next call: a calibration that could not be
  read, or one oversampling that was lost, lasts until the next boot (`StoresUnlessLasting`).
* A reset of the chip between a command to the CO2 sensor and its answer can give the first cycle after it a
  concentration measured before the reset; it never goes beyond that cycle (`ReportsAreCurrent`).
* A getter of the driver stores what it read even when the transfer failed, and the next
  `bmp280_set_power_mode` writes that to the sensor.
* With the sensor tasks, a torn `double`, or a humidity with another round's temperature, needs a task running
  while the request is composed (`OneRound`), and since every sensor is read twice as often as the reporter
  reports, no value is sent twice unless a reading failed (`ReportsMoveOn`).
* A temperature of exactly 0.00 or 23.23 degrees is taken for no measurement; 2323 is the value of a void
  register for one sensor's calibration only. At an altitude of some 2500 m, where the pressure is below
  750 hPa, the sensor is reset for ever; the models assume the station stands lower.
* A failed transfer to the humidity sensor can make the program report the other quantity's bytes, or
  those of an earlier cycle, but not a fresh humidity with an old temperature. A single failed read is enough to
  compute the temperature from the humidity's bytes, left on the stack (`TemperatureFromHumidity`).

### Findings

Two comments are not what the code does. `bmp280_set_power_mode` sets more than bits 0 and 1: it writes the whole
register from the driver's copy, which `bmp280_write_register` (the shortest way to see it), a reset of the sensor or a
restart of the host leaves behind; the later calls of `pressure_setup` repair the effect. And `CONNECTED_BIT`, which is
to say whether the station is connected with an address, stays set when the lease ends; the program does not look at
it then.

### Fairness

* The main task and the event task are scheduled (FreeRTOS, no task of higher priority that spins), the
  Wi-Fi driver keeps working on a connection it was told to make, and the access point comes back
  (`WF` on each, of the steps of `app_main` on `BoundedStep` only). `CyclesGoOn` therefore says that cycles go on unless
  the program stays in `read_pressure` or `co2_read`: neither `start_wifi`'s unlimited wait nor a failure, an outage or
  a reset stops it anywhere else. Outages and failures are finitely many (`MaxOutages`, `MaxFaults`): liveness is about
  what happens after the last one.
* The CO2 sensor answers each command that is not lost (`WF` on `Deliver`). `Co2Meter` asks for `WF` on its
  task, which is what its liveness amounts to: `Co2` implements that, too.
* `Pressure` and `PressureTask`: a sensor that was reset starts (`WF` on `Start`), but no fairness says that it
  starts before the setup writes to it, as the code has no delay there. A delay of 50 ms is mostly long enough
  for a measurement of at most 43.2 ms, so a measurement is completed in infinitely many of them (`SF` on `pc =
  "delay" /\ Measure`), and the room's temperature is not 0.00 or 23.23 degrees at every reading for ever (`SF`
  on a reading that is not `none`). `pressure_task` waits 5 s and its delay includes the measurement; `SF` on a
  reading it stores says that the pressure is not out of range for ever.
* `Tasks` states no fairness: its two properties say what a step may never do.

## Proofs

TLAPS checks these for all values of the constants, as the modules' assumptions allow them.

* `Co2Proofs`: the inductive invariant `IInv` and from it the three safety properties of `co2_read`, and that
  its specification implements `Co2Meter`'s. The properties alone are not inductive: that an old value takes two
  misses follows only from what can be in the ring buffer (`Leftovers`), from the fact that an answer still
  unread after a call was late (`UnreadAreLate`), and from the fact that until the first read the call's own
  answer is somewhere or lost (`AnswerAccounted`). That nine bytes from several pieces take three faults follows
  from what each piece, each answer unread and each one half received has cost (`FaultsAccounted`), where the
  faults of the call before count as long as the first read of this one has not returned, and no longer. An
  answer to the boot before counts as one to call 0 of this one, so the reset needs no case of its own there.
  Then the bytes (`Co2Frame`): one damaged byte is always noticed, and an answer that arrives whole is never
  refused, for all byte values, by arithmetic modulo 256; and the head of one accepted answer with the tail of
  another, if it is accepted, has the value of one of them (`NoMixedValue`).
* `AirProofs`: first the connection alone. `WifiIInv` says which events the queue can hold in each state of the
  station (`Pending`), in which order (`Ordered`: none twice, and `STA_LOST_IP` anywhere), and from it that four
  entries are enough, that the station is never stranded and that the bit is explained. Then the same for the
  whole program, with `AirIInv` = types, connection, resources, and what `data` holds at each step (`AtStep`);
  and the safety part of the three refinements on the caller's side. A step of the application changes the
  connection only through `start_wifi` and the restart, so the lemmas of the connection are used again.
* `PressureProofs`: `PressureIInv` for any number of calls and faults. The properties rest on what is true
  half-way through a call: in a call no fault has hit, each setting `pressure_setup` has gone through is in the
  sensor and in the driver's copy and stays there while the later ones are made (`SetUp`), whatever the earlier
  calls left; a sensor that is starting has its registers cleared (`StartsAsleep`), so what the first settings
  miss shows; the calibration is read before anything is returned (`CalibrationRead`); the control register is
  never in forced mode and the low bits of the configuration are clear. `KeepsPromise` is the whole refinement
  of `Barometer`, which has no liveness part. `pressure_task` takes the same steps in another order, so the part
  of the invariant that is about the sensor and the driver (`SensorIInv`) is proved once, for a step of either,
  and its loop needs only what a start that met no fault leaves behind (`StartedWell`, in `TaskIInv`): a loop
  that never sets the sensor up again keeps it configured because nothing else that it calls writes a setting,
  which is what `LoopConfigured` says.
* `TasksProofs`: `TasksIInv` for any choice of tasks. `OneRound` follows from `Coherent` (between its rounds a task's
  words are of one round, and stay so while a request is composed without it) and that from `RoundsUnderWay`: what a
  round has stored is new, or excused. `ReportsMoveOn` is about time: a word still to load is as old as the last
  request (`Reported`), and a task that is not in a round renews its words before they are older than its period, or
  before the reporter's delay is over (`Punctual`); `Busy` keeps the two apart, because a round that is due may be
  under way when the reporter is. `TasksIInv` has been checked by TLC at the bounds of the run.
* `Bmp280Proofs`: lemmas about `BMP280_SET_BITSLICE` and `BMP280_GET_BITSLICE`: for every value of a register, a
  field that was set reads back as set, and the other fields, and the bits outside the register's fields, are what
  they were. The two modules above and below it cite them and never look inside a register.
* `Bmp280ApiProofs`: `ApiIInv`, and so `DriftExplained` and `KnownIsTrue`, for every sequence of calls with any
  codes and any number of faults. Most calls fall under three lemmas: one field is set, one is read, or the
  register is written whole from the copy; what the caller knows is kept by the field lemmas when the call is
  about another setting (`KnownKept`), and learnt when the call succeeded (`KnownLearnt`).
* `Si7021Proofs`: `SiIInv` says how many transfers must have failed for an answer nobody asked for to be there, at
  each step (`Leftovers`), how the humidity read is related to what can still come (`HumidityRead`), and that an
  answer is no younger than the last measurement (`Ages`). `KeepsClimate` is the whole refinement of `Climate`.

* `CompensationProofs`: `KindsRight` and `Monotone` for every raw value in the station's range instead of a coarse
  grid: any grid whose steps are at least 100 (temperature) and 50 (pressure) raw units, below which neighbours can
  round to the same number. The expressions of the code are named one by one (`TempParts`, `OffsetParts`,
  `DivisorParts`, `RestParts`) and bounded in turn, each shift being a number between two multiples (`Cut`).
  `NothingOverflows` says that in the range no product or sum leaves 32 bits, so that integers stand for the code's
  words there and the results are monotone; the six zeros of a read that delivered nothing do overflow, and
  `NothingCorrected` computes what they give with `MulWraps`, the proof that `Mul` is multiplication modulo 2^32.
  `QuotientIs` shows that `Quotient` is the code's two divisions. It is about the two sensors of `CompensationRun`:
  the coefficients are numbers, not parameters, because the bounds depend on them.

Assumptions: the `ASSUME`s of the modules, e.g. a queue of at least 4 entries (`sdkconfig.h` has 32), and `VoidAssumption`: that a reading of void
registers may be taken for none, and for nothing but the four kinds. That of `Tasks`
on `MaxAge` is about the abstraction: ages have to be told apart up to the reporter's period. That of `CompensationRun`
(`GridAssumption`) is the range of the station and the smallest steps of the grid.
TLC evaluates them in the runs.

Only model-checked: liveness (that of `ImplementsMeter`, `StartReturns`, `Reconnects`, `EveryCycleReports`,
`CyclesGoOn`, `ReturnsUnlessStuck`, `StoresUnlessLasting`), which the prover does not cover as it needs fairness
and `ENABLED`.

## Not modelled

* The text of reports and logs, and so the overrun of `requestData` an indeterminate pressure could cause; the
  conversions of the humidity sensor's bytes to floating point.
* The float and 64-bit variants of the compensation, compiled only with macros nothing defines.
* `wifi_task`, which waits for the connection and never starts it: neither it nor `initialise_wifi` calls
  `esp_wifi_start`, so what it does depends on a caller the sources do not have. `scan_networks`,
  `getAuthModeName`, `stop_wifi`, `wake_wifi`, `blink_task`: a listing on the console and calls nobody makes.
* A sensor that ends its forced measurement between the read and the write of a setter: the two transactions of
  a setter are one step with respect to the sensor.
* Time, but for the ticks of `Tasks`: so whether `BMP280_delay_msek`, which rounds down to ticks of 10 ms, waits long
  enough for a forced measurement, which nothing calls. That windows of 100 ms and cycles of 15 s are long enough for
  what `Co2` says of them is taken from their lengths.
* The bytes of cut CO2 answers glued in another way than head and tail; which bytes of the stack survive between two
  calls, other than those of the humidity.
* Two tasks on the I2C bus at once: `i2c_master_cmd_begin` has a lock of its own, and the two sensors share
  nothing else.
* lwIP's and the server's own behaviour, beyond each call working or failing.

`PROJECT.json` gives the reason for each component.

## Plan

Done, in this order: `Co2Meter`, `Co2`, `Co2Frame` with proofs; `Wifi` with proofs; `Bmp280`, `Bmp280Api`;
`Barometer`, `Pressure` with proofs; `Climate`, `Si7021` with proofs; `AirMonitor` with proofs; `Compensation`;
then the unplanned reset in all of them and in the three promises, the start-up time of the pressure sensor, the
rest of its driver with proofs, `PressureTask` and `Tasks`; the proofs of the last two and of `Compensation`.

Left:

1. The duty cycle the commented-out lines of `app_main` sketch, with `stop_wifi` and `start_wifi` in every
   cycle: `CONNECTED_BIT` is still set when `start_wifi` waits for it.
2. An abstract specification of the reports the server sees, implemented by `AirMonitor`.
3. Proofs: `Compensation` for a range of coefficients instead of two sensors.
