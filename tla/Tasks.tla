------------------------------- MODULE Tasks -------------------------------
(***************************************************************************)
(* The program as one task per sensor: reporter_task of main.c,             *)
(* temperature_humidity_task, pressure_task, co2_task and co2_tx_task of    *)
(* lib/, which share one struct climateData without a lock.  Nothing in the *)
(* sources creates these tasks; whoever does passes each the same data.     *)
(*                                                                          *)
(* A double is stored and loaded in two words, and the tasks preempt each   *)
(* other between any two of them.  A value is abstracted to its age, in     *)
(* ticks of 2.5 s: how long ago the sensor measured it.                     *)
(***************************************************************************)
EXTENDS Integers, Sequences, SequencesExt, FiniteSetsExt

CONSTANTS
  Together,    \* bound: sensors whose tasks exist beside the reporter
  MaxAge,      \* bound: ages above count as MaxAge, and so does no value
  MaxFaults    \* bound: readings and answers that fail

ASSUME TogetherAssumption == Together \in 1 .. 3
ASSUME MaxAgeAssumption == MaxAge \in Nat /\ MaxAge >= 4   \* ReportDelay, below
ASSUME FaultsAssumption == MaxFaults \in Nat

VARIABLES
  created,   \* the sensors' tasks somebody has created
  data,      \* climateData: the age of what each word was computed from
  report,    \* the same of the request composed last, or being composed
  todo,      \* words reporter_task has still to load; none: it waits or posts
  left,      \* what each writer has still to store in its round: words, ages
  timer,     \* ticks until a task is late (writers) or may run (the others)
  uart,      \* [asked, rx, rest, intact]: the command, the bytes received,
             \* those still to come, and whether they are undamaged
  spoilt,    \* history: words whose last round gave nothing, since the load
  overlap,   \* history: writers that ran since the request was begun
  faults     \* faults so far, at most MaxFaults

vars == <<created, data, report, todo, left, timer, uart, spoilt, overlap, faults>>

Halves(field) == << <<field, "hi">>, <<field, "lo">> >>

(* What each task stores in a round, in this order; an int is one word. *)
Words ==
  [temperature_humidity_task |-> Halves("humidity") \o Halves("temperature"),
   pressure_task             |-> Halves("pressure"),
   co2_task                  |-> << <<"co2", "lo">> >>]

Writers == DOMAIN Words
WordsOf(task) == ToSet(Words[task])
FieldsOf(task) == {word[1] : word \in WordsOf(task)}
AllWords == UNION {WordsOf(task) : task \in Writers}

(* A round's words; those of a field that failed hold no value. *)
Round(task, failed) ==
  [i \in DOMAIN Words[task] |->
     [word |-> Words[task][i],
      age  |-> IF Words[task][i][1] \in failed THEN MaxAge ELSE 0]]

(* Tasks that wait for vTaskDelay. *)
Delayed ==
  (created \ {"co2_task"}) \cup (IF "co2_task" \in created THEN {"co2_tx_task"} ELSE {})

Ticks(ms) == ms \div 2500

(* A zero too many. *)
SensorDelay_Bug == Ticks(50000)

(* vTaskDelay(5000 / portTICK_PERIOD_MS) and (10000 / portTICK_PERIOD_MS).  *)
SensorDelay == Ticks(5000)
ReportDelay == Ticks(10000)

(* A round and what delays it take less than a tick: a task that is due, at *)
(* 1, has finished its round when it would be later than 0.                 *)
Due(task) == task \in Delayed /\ timer[task] <= 1
Wait(task) == timer' = [timer EXCEPT ![task] = SensorDelay + 1]

Idle == [asked |-> FALSE, rx |-> 0, rest |-> 0, intact |-> TRUE]

-----------------------------------------------------------------------------
Init ==
  /\ created \in kSubset(Together, Writers)
  /\ data = [word \in AllWords |-> MaxAge]
  /\ report = data
  /\ todo = <<>>
  /\ left = [task \in Writers |-> <<>>]
  /\ timer = [task \in Delayed \cup {"reporter_task"} |->
                IF task = "reporter_task" THEN ReportDelay ELSE 1]
  /\ uart = Idle
  /\ spoilt = {}
  /\ overlap = {}
  /\ faults = 0

(* The words a round has not renewed. *)
Spoil(task, fields) ==
  spoilt' = spoilt \cup {word \in WordsOf(task) : word[1] \in fields}

(* A round of temperature_humidity_task begins: both transfers of a reading *)
(* may fail, and whatever the buffer or the sensor holds becomes the value, *)
(* which counts as old.  Otherwise the temperature is the one measured with *)
(* the humidity.                                                            *)
ReadTempRh ==
  LET task == "temperature_humidity_task"
  IN  /\ left[task] = <<>> /\ Due(task)
      /\ \E failed \in SUBSET FieldsOf(task) :
           /\ faults' = faults + (IF failed = {} THEN 0 ELSE 1) /\ faults' <= MaxFaults
           /\ left' = [left EXCEPT ![task] = Round(task, failed)]
           /\ Spoil(task, failed)
      /\ UNCHANGED <<created, data, report, todo, timer, uart, overlap>>

(* A round of pressure_task (module PressureTask) gives a pressure, or      *)
(* nothing.                                                                 *)
ReadPressure ==
  LET task == "pressure_task"
  IN  /\ left[task] = <<>> /\ Due(task)
      /\ \/ /\ left' = [left EXCEPT ![task] = Round(task, {})]
            /\ UNCHANGED <<timer, spoilt, faults>>
         \/ /\ faults < MaxFaults /\ faults' = faults + 1
            /\ Wait(task)
            /\ Spoil(task, {"pressure"})
            /\ UNCHANGED left
      /\ UNCHANGED <<created, data, report, todo, uart, overlap>>

(* co2_tx_task asks, whatever became of the command before. *)
SendData ==
  /\ Due("co2_tx_task")
  /\ uart' = [uart EXCEPT !.asked = TRUE]
  /\ Wait("co2_tx_task")
  /\ UNCHANGED <<created, data, report, todo, left, spoilt, overlap, faults>>

(* The sensor's answer (external): all nine bytes at once, or five of them  *)
(* before co2_task's 100 ms are over and four after; or damaged; or none.   *)
Answer ==
  /\ \/ /\ uart.asked
        /\ \E part \in {5, 9} :
             uart' = [uart EXCEPT !.asked = FALSE, !.rx = part, !.rest = 9 - part]
        /\ UNCHANGED <<spoilt, faults>>
     \/ /\ uart.rest > 0
        /\ uart' = [uart EXCEPT !.rx = @ + uart.rest, !.rest = 0]
        /\ UNCHANGED <<spoilt, faults>>
     \/ /\ uart.asked
        /\ faults < MaxFaults /\ faults' = faults + 1
        /\ uart' \in {Idle, [Idle EXCEPT !.rx = 9, !.intact = FALSE]}
        /\ Spoil("co2_task", {"co2"})
  /\ UNCHANGED <<created, data, report, todo, left, timer, overlap>>

(* co2_task takes what there is, and drops it unless it is one intact       *)
(* answer.                                                                  *)
ReadUart ==
  /\ left["co2_task"] = <<>>
  /\ uart.rx > 0
  /\ uart' = [uart EXCEPT !.rx = 0, !.intact = TRUE]
  /\ IF uart.rx = 9 /\ uart.intact
     THEN left' = [left EXCEPT !["co2_task"] = Round("co2_task", {})] /\ UNCHANGED spoilt
     ELSE Spoil("co2_task", {"co2"}) /\ UNCHANGED left
  /\ UNCHANGED <<created, data, report, todo, timer, overlap, faults>>

(* A reading that failed is not stored: the value stays what it was. *)
Stored_Bug(item) == IF item.age = MaxAge THEN data[item.word] ELSE item.age

(* What a store leaves in a word. *)
Stored(item) == item.age

(* A writer stores its next word, and after the last one its round is over. *)
Store(task) ==
  /\ left[task] # <<>>
  /\ data' = [data EXCEPT ![Head(left[task]).word] = Stored(Head(left[task]))]
  /\ left' = [left EXCEPT ![task] = Tail(@)]
  /\ IF Len(left[task]) = 1 /\ task # "co2_task" THEN Wait(task) ELSE UNCHANGED timer
  /\ overlap' = IF todo = <<>> THEN overlap ELSE overlap \cup {task}
  /\ UNCHANGED <<created, report, todo, uart, spoilt, faults>>

(* What postWeatherServer's first sprintf loads, in this order. *)
ReportOrder ==
  Halves("temperature") \o Halves("humidity") \o Halves("pressure") \o << <<"co2", "lo">> >>

(* reporter_task composes a request. *)
Compose ==
  /\ todo = <<>>
  /\ timer["reporter_task"] = 0
  /\ todo' = ReportOrder
  /\ overlap' = {task \in Writers : left[task] # <<>>}
  /\ UNCHANGED <<created, data, report, left, timer, uart, spoilt, faults>>

Load ==
  /\ todo # <<>>
  /\ todo' = Tail(todo)
  /\ report' = [report EXCEPT ![Head(todo)] = data[Head(todo)]]
  /\ spoilt' = spoilt \ {Head(todo)}
  /\ IF todo' # <<>> THEN UNCHANGED <<timer, overlap>>
     ELSE timer' = [timer EXCEPT !["reporter_task"] = ReportDelay] /\ overlap' = {}
  /\ UNCHANGED <<created, data, left, uart, faults>>

(* 2.5 s pass, unless a sensor's task is late.  Everything but the post,    *)
(* which is up to the network, is much faster.                              *)
Tick ==
  /\ \A task \in Delayed : timer[task] > 0
  /\ uart = Idle /\ todo = <<>> /\ \A task \in Writers : left[task] = <<>>
  /\ timer' = [task \in DOMAIN timer |-> IF timer[task] = 0 THEN 0 ELSE timer[task] - 1]
  /\ LET Older(ages) == [x \in DOMAIN ages |-> IF ages[x] = MaxAge THEN MaxAge ELSE ages[x] + 1]
     IN  data' = Older(data) /\ report' = Older(report)
  /\ UNCHANGED <<created, todo, left, uart, spoilt, overlap, faults>>

Next ==
  \/ ReadTempRh \/ ReadPressure \/ SendData \/ Answer \/ ReadUart
  \/ \E task \in Writers : Store(task)
  \/ Compose \/ Load \/ Tick

Spec == Init /\ [][Next]_vars

-----------------------------------------------------------------------------
(* The words of a task hold values of one round, or no value. *)
Agree(ages, task) ==
  \A v, w \in WordsOf(task) : ages[v] = ages[w] \/ MaxAge \in {ages[v], ages[w]}

(* A value is torn, or a humidity reported with another round's             *)
(* temperature, only when its writer ran while the request was composed; a  *)
(* reading that failed never leaves the value of an earlier round behind.   *)
OneRound ==
  [][Load /\ todo' = <<>> => \A task \in Writers \ overlap : Agree(report', task)]_vars

(* Every request carries values measured after those of the request before, *)
(* unless a reading or an answer has failed since: no task is slower than   *)
(* the reporter.                                                            *)
ReportsMoveOn ==
  [][Load => LET word == Head(todo)
              IN  \/ report'[word] < report[word] \/ word \in spoilt
                  \/ \A task \in created : word \notin WordsOf(task)]_vars

=============================================================================
