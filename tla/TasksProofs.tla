---------------------------- MODULE TasksProofs ----------------------------
(***************************************************************************)
(* OneRound and ReportsMoveOn for any choice of tasks and any number of     *)
(* faults.                                                                  *)
(***************************************************************************)
EXTENDS Tasks, SequenceTheorems, TLAPS

Items == [word : AllWords, age : {0, MaxAge}]

TasksTypeOK ==
  /\ created \subseteq Writers
  /\ data \in [AllWords -> 0 .. MaxAge]
  /\ report \in [AllWords -> 0 .. MaxAge]
  /\ todo \in Seq(AllWords)
  /\ left \in [Writers -> Seq(Items)]
  /\ timer \in [Delayed \cup {"reporter_task"} -> 0 .. ReportDelay]
  /\ \A task \in Delayed : timer[task] <= SensorDelay + 1
  /\ uart \in [asked : BOOLEAN, rx : Nat, rest : Nat, intact : BOOLEAN]
  /\ spoilt \subseteq AllWords
  /\ overlap \subseteq Writers

(* The reporter has loaded this word for the request it composes. *)
Loaded(word) == todo # <<>> /\ \A i \in DOMAIN todo : todo[i] # word

(* Why a word may hold no value in spite of its task: the last round gave   *)
(* none, and the request that shows it is not over yet.                     *)
Excused(word) == word \in spoilt \/ timer["reporter_task"] = ReportDelay \/ Loaded(word)

(* The task still has to store this word. *)
Pending(task, word) == \E i \in DOMAIN left[task] : left[task][i].word = word

(* What delays a task's rounds. *)
TimerOf(task) == timer[IF task = "co2_task" THEN "co2_tx_task" ELSE task]

Busy(task) == left[task] # <<>> \/ (task = "co2_task" /\ uart # Idle)

(* What a round still has to store, and what it has stored. *)
RoundsUnderWay ==
  \A task \in Writers :
    /\ \A i \in DOMAIN left[task] :
         /\ left[task][i].word \in WordsOf(task)
         /\ left[task][i].age = MaxAge => Excused(left[task][i].word)
    /\ left[task] # <<>> =>
         \A word \in WordsOf(task) :
           \/ Pending(task, word)
           \/ data[word] = 0
           \/ data[word] = MaxAge /\ Excused(word)

(* Between rounds, and while a request is composed without the task, its    *)
(* words are of one round; the request has them from there.                 *)
Coherent ==
  \A task \in Writers :
    /\ left[task] = <<>> => Agree(data, task)
    /\ todo # <<>> /\ task \notin overlap =>
         /\ Agree(data, task)
         /\ \A word \in WordsOf(task) : Loaded(word) => report[word] = data[word]

(* What a request shows is as old as the request; the words it has still to *)
(* load are those of the one before.                                        *)
Reported ==
  /\ todo = <<>> => \A word \in AllWords : report[word] + timer["reporter_task"] >= ReportDelay
  /\ todo # <<>> => timer["reporter_task"] = 0
  /\ \A i \in DOMAIN todo : report[todo[i]] >= ReportDelay
  /\ \A i, j \in DOMAIN todo : i # j => todo[i] # todo[j]

(* A task renews its words before they are as old as a reporter's period,   *)
(* or before the first request, unless its round fails.                     *)
Paced(task, word) ==
  \/ Loaded(word)
  \/ /\ Busy(task)
     /\ data[word] <= SensorDelay + 1 \/ timer["reporter_task"] > 0
  \/ /\ ~Busy(task)
     /\ \/ data[word] + TimerOf(task) <= SensorDelay + 1
        \/ timer["reporter_task"] > TimerOf(task)

Punctual == \A task \in created : \A word \in WordsOf(task) \ spoilt : Paced(task, word)

TasksIInv == TasksTypeOK /\ RoundsUnderWay /\ Coherent /\ Reported /\ Punctual


-----------------------------------------------------------------------------
LEMMA Delays == SensorDelay = 2 /\ ReportDelay = 4 /\ MaxAge \in Nat /\ MaxAge >= 4
  BY MaxAgeAssumption DEF SensorDelay, ReportDelay, Ticks

LEMMA WritersAre ==
  /\ Writers = {"temperature_humidity_task", "pressure_task", "co2_task"}
  /\ Words["pressure_task"] = Halves("pressure")
  /\ Words["co2_task"] = << <<"co2", "lo">> >>
  /\ Words["temperature_humidity_task"] = Halves("humidity") \o Halves("temperature")
BY DEF Writers, Words

(* A field after another. *)
LEMMA FourWords ==
  ASSUME NEW a, NEW b, NEW c, NEW d
  PROVE  <<a, b>> \o <<c, d>> = <<a, b, c, d>>
<1> DEFINE s == <<a, b>> \o <<c, d>>
<1>1. s \in Seq({a, b, c, d})
  OBVIOUS
<1>2. Len(s) = 4 /\ s[1] = a /\ s[2] = b /\ s[3] = c /\ s[4] = d
  OBVIOUS
<1> HIDE DEF s
<1>3. s = <<a, b, c, d>>
  BY <1>1, <1>2
<1> QED
  BY <1>3 DEF s

(* The words of each task. *)
LEMMA WordsAre ==
  /\ Words["temperature_humidity_task"]
       = << <<"humidity", "hi">>, <<"humidity", "lo">>, <<"temperature", "hi">>, <<"temperature", "lo">> >>
  /\ Words["pressure_task"] = << <<"pressure", "hi">>, <<"pressure", "lo">> >>
  /\ Words["co2_task"] = << <<"co2", "lo">> >>
BY WritersAre, FourWords DEF Halves

LEMMA WordsOfAre ==
  /\ WordsOf("temperature_humidity_task")
       = {<<"humidity", "hi">>, <<"humidity", "lo">>, <<"temperature", "hi">>, <<"temperature", "lo">>}
  /\ WordsOf("pressure_task") = {<<"pressure", "hi">>, <<"pressure", "lo">>}
  /\ WordsOf("co2_task") = {<<"co2", "lo">>}
<1>1. ToSet(Words["temperature_humidity_task"])
       = {<<"humidity", "hi">>, <<"humidity", "lo">>, <<"temperature", "hi">>, <<"temperature", "lo">>}
  <2> DEFINE a == <<"humidity", "hi">>    b == <<"humidity", "lo">>
             c == <<"temperature", "hi">> d == <<"temperature", "lo">>
  <2>1. Words["temperature_humidity_task"] = <<a, b, c, d>>
    BY WordsAre
  <2> HIDE DEF a, b, c, d
  <2>2. ToSet(<<a, b, c, d>>) = {a, b, c, d}
    BY DEF ToSet
  <2> QED
    <3>1. ToSet(Words["temperature_humidity_task"]) = {a, b, c, d}
      BY <2>1, <2>2
    <3> QED
      BY <3>1 DEF a, b, c, d
<1>2. ToSet(Words["pressure_task"]) = {<<"pressure", "hi">>, <<"pressure", "lo">>}
  BY WordsAre DEF ToSet
<1>3. ToSet(Words["co2_task"]) = {<<"co2", "lo">>}
  BY WordsAre DEF ToSet
<1> QED
  BY <1>1, <1>2, <1>3 DEF WordsOf

(* Every word is one task's. *)
LEMMA OneWriter ==
  /\ \A task \in Writers : WordsOf(task) \subseteq AllWords
  /\ \A s, t \in Writers : \A word \in WordsOf(s) : word \in WordsOf(t) => s = t
<1>1. \A task \in Writers : WordsOf(task) \subseteq AllWords
  BY DEF AllWords
<1>2. ASSUME NEW s \in Writers, NEW t \in Writers, NEW word \in WordsOf(s), word \in WordsOf(t)
      PROVE  s = t
  BY <1>2, WritersAre, WordsOfAre
<1> QED
  BY <1>1, <1>2

(* A round has words of its task, each a field that failed or a value.  *)
LEMMA RoundLength ==
  ASSUME NEW task \in Writers
  PROVE  \E n \in Nat \ {0} : DOMAIN Words[task] = 1 .. n
<1>1. CASE task = "temperature_humidity_task"
  BY <1>1, WordsAre
<1>2. CASE task = "pressure_task"
  BY <1>2, WordsAre
<1>3. CASE task = "co2_task"
  BY <1>3, WordsAre
<1> QED
  BY <1>1, <1>2, <1>3, WritersAre

LEMMA RoundSeq ==
  ASSUME NEW task \in Writers, NEW failed
  PROVE  Round(task, failed) \in Seq(Items) /\ Round(task, failed) # <<>>
<1>1. PICK n \in Nat \ {0} : DOMAIN Words[task] = 1 .. n /\ DOMAIN Round(task, failed) = 1 .. n
  BY RoundLength DEF Round
<1>2. \A i \in 1 .. n : Words[task][i] \in AllWords
  BY <1>1, OneWriter DEF WordsOf, ToSet
<1>3. Round(task, failed) \in [1 .. n -> Items]
  BY <1>1, <1>2 DEF Round, Items
<1> QED
  BY <1>3

LEMMA RoundIs ==
  ASSUME NEW task \in Writers, NEW failed
  PROVE  /\ \A i \in DOMAIN Round(task, failed) :
              /\ Round(task, failed)[i].word \in WordsOf(task)
              /\ Round(task, failed)[i].age = MaxAge => Round(task, failed)[i].word[1] \in failed
         /\ \A word \in WordsOf(task) :
              \E i \in DOMAIN Round(task, failed) : Round(task, failed)[i].word = word
<1>1. PICK n \in Nat \ {0} : DOMAIN Words[task] = 1 .. n
  BY RoundLength
<1>2. \A word : word \in WordsOf(task) <=> \E i \in 1 .. n : Words[task][i] = word
  BY <1>1 DEF WordsOf, ToSet
<1> DEFINE r == Round(task, failed)
<1>3. DOMAIN r = 1 .. n
  BY <1>1 DEF Round
<1>4. \A i \in 1 .. n :
        /\ r[i].word = Words[task][i]
        /\ r[i].age = IF Words[task][i][1] \in failed THEN MaxAge ELSE 0
  BY <1>1 DEF Round
<1> HIDE DEF r
<1>5. \A i \in 1 .. n :
        r[i].word \in WordsOf(task) /\ (r[i].age = MaxAge => r[i].word[1] \in failed)
  BY <1>2, <1>4, Delays
<1>6. \A word \in WordsOf(task) : \E i \in 1 .. n : r[i].word = word
  BY <1>2, <1>4
<1> QED
  BY <1>3, <1>5, <1>6 DEF r

(* A request has every word, once. *)
LEMMA ReportOrderIs ==
  /\ ReportOrder \in Seq(AllWords) /\ ReportOrder # <<>>
  /\ \A i, j \in DOMAIN ReportOrder : i # j => ReportOrder[i] # ReportOrder[j]
  /\ \A word \in AllWords : \E i \in DOMAIN ReportOrder : ReportOrder[i] = word
<1> DEFINE s == << <<"temperature", "hi">>, <<"temperature", "lo">>,
                   <<"humidity", "hi">>, <<"humidity", "lo">>,
                   <<"pressure", "hi">>, <<"pressure", "lo">>, <<"co2", "lo">> >>
<1>1. ReportOrder = s
  <2> DEFINE a == <<"temperature", "hi">> b == <<"temperature", "lo">>
             c == <<"humidity", "hi">>    d == <<"humidity", "lo">>
             e == <<"pressure", "hi">>    f == <<"pressure", "lo">>
             g == <<"co2", "lo">>
  <2>1. ReportOrder = <<a, b>> \o <<c, d>> \o <<e, f>> \o <<g>> /\ s = <<a, b, c, d, e, f, g>>
    BY DEF ReportOrder, Halves
  <2> HIDE DEF a, b, c, d, e, f, g, s
  <2> QED
    <3> DEFINE q == <<a, b>> \o <<c, d>> \o <<e, f>> \o <<g>>
    <3>1. q \in Seq({a, b, c, d, e, f, g})
      OBVIOUS
    <3>2. /\ Len(q) = 7 /\ q[1] = a /\ q[2] = b /\ q[3] = c /\ q[4] = d
          /\ q[5] = e /\ q[6] = f /\ q[7] = g
      OBVIOUS
    <3> HIDE DEF q
    <3>3. q = <<a, b, c, d, e, f, g>>
      BY <3>1, <3>2
    <3> QED
      BY <2>1, <3>3 DEF q
<1>2. AllWords = {<<"temperature", "hi">>, <<"temperature", "lo">>,
                  <<"humidity", "hi">>, <<"humidity", "lo">>,
                  <<"pressure", "hi">>, <<"pressure", "lo">>, <<"co2", "lo">>}
  BY WritersAre, WordsOfAre DEF AllWords
<1>3. s \in Seq(AllWords) /\ s # <<>>
  BY <1>2
<1>4. \A i, j \in 1 .. 7 : i # j => s[i] # s[j]
  OBVIOUS
<1>5. DOMAIN s = 1 .. 7
  OBVIOUS
<1>6. \A word \in AllWords : \E i \in 1 .. 7 : s[i] = word
  BY <1>2
<1> QED
  BY <1>1, <1>3, <1>4, <1>5, <1>6

(* A queue and its tail. *)
LEMMA TailOf ==
  ASSUME NEW S, NEW s \in Seq(S), s # <<>>
  PROVE  /\ Head(s) \in S /\ Tail(s) \in Seq(S)
         /\ 1 \in DOMAIN s /\ Head(s) = s[1]
         /\ \A i \in DOMAIN Tail(s) : i + 1 \in DOMAIN s /\ i + 1 # 1 /\ Tail(s)[i] = s[i + 1]
         /\ \A i \in DOMAIN s : i = 1 \/ (i - 1 \in DOMAIN Tail(s) /\ Tail(s)[i - 1] = s[i])
         /\ \A i, j \in DOMAIN Tail(s) : i # j => i + 1 # j + 1
         /\ Tail(s) = <<>> <=> Len(s) = 1
<1>1. Head(s) \in S /\ Tail(s) \in Seq(S) /\ Len(Tail(s)) = Len(s) - 1 /\ Len(s) \in Nat /\ Len(s) >= 1
      /\ \A i \in 1 .. Len(Tail(s)) : Tail(s)[i] = s[i + 1]
  BY HeadTailProperties, EmptySeq
<1>2. DOMAIN s = 1 .. Len(s) /\ DOMAIN Tail(s) = 1 .. Len(s) - 1 /\ Head(s) = s[1]
  BY <1>1
<1>3. Tail(s) = <<>> <=> Len(s) = 1
  BY <1>1, EmptySeq
<1> QED
  BY <1>1, <1>2, <1>3

-----------------------------------------------------------------------------
(* Whom vTaskDelay delays. *)
LEMMA DelayedAre ==
  ASSUME created \subseteq Writers
  PROVE  /\ "reporter_task" \notin Delayed /\ "reporter_task" \notin Writers
         /\ "co2_task" \notin Delayed
         /\ \A task \in created : task # "co2_task" => task \in Delayed
         /\ "co2_task" \in created => "co2_tx_task" \in Delayed
         /\ "co2_tx_task" \notin Writers
BY WritersAre DEF Delayed

LEMMA Numbers ==
  ASSUME TasksTypeOK
  PROVE  /\ \A word \in AllWords : data[word] \in 0 .. MaxAge /\ report[word] \in 0 .. MaxAge
         /\ timer["reporter_task"] \in 0 .. ReportDelay
         /\ \A task \in Delayed : timer[task] \in 0 .. 3
         /\ \A task \in created : TimerOf(task) \in 0 .. 3
<1>1. \A word \in AllWords : data[word] \in 0 .. MaxAge /\ report[word] \in 0 .. MaxAge
  BY DEF TasksTypeOK
<1>2. \A x \in Delayed \cup {"reporter_task"} : timer[x] \in 0 .. ReportDelay
  BY DEF TasksTypeOK
<1>3. \A task \in Delayed : timer[task] <= SensorDelay + 1
  BY DEF TasksTypeOK
<1>4. \A task \in Delayed : timer[task] \in 0 .. 3
  BY <1>2, <1>3, Delays
<1>5. ASSUME NEW task \in created PROVE TimerOf(task) \in 0 .. 3
  <2>1. CASE task = "co2_task"
    BY <1>4, <2>1, DelayedAre DEF TimerOf, TasksTypeOK
  <2>2. CASE task # "co2_task"
    BY <1>4, <2>2, DelayedAre DEF TimerOf, TasksTypeOK
  <2> QED
    BY <2>1, <2>2
<1> QED
  BY <1>1, <1>2, <1>4, <1>5

LEMMA TasksInit == Init => TasksIInv
<1> SUFFICES ASSUME Init PROVE TasksIInv
  OBVIOUS
<1> USE Delays
<1>1. created \subseteq Writers
  BY DEF Init, kSubset
<1>2. TasksTypeOK
  <2>1. data \in [AllWords -> 0 .. MaxAge] /\ report \in [AllWords -> 0 .. MaxAge]
    BY DEF Init
  <2>2. todo \in Seq(AllWords) /\ left \in [Writers -> Seq(Items)]
    BY DEF Init
  <2>3. /\ timer \in [Delayed \cup {"reporter_task"} -> 0 .. ReportDelay]
        /\ \A task \in Delayed : timer[task] <= SensorDelay + 1
    BY <1>1, DelayedAre DEF Init
  <2>4. uart \in [asked : BOOLEAN, rx : Nat, rest : Nat, intact : BOOLEAN]
    BY DEF Init, Idle
  <2> QED
    BY <1>1, <2>1, <2>2, <2>3, <2>4 DEF TasksTypeOK, Init
<1>3. todo = <<>> /\ DOMAIN todo = {} /\ \A task \in Writers : left[task] = <<>> /\ DOMAIN left[task] = {}
  BY DEF Init
<1>4. RoundsUnderWay
  BY <1>3 DEF RoundsUnderWay
<1>5. \A word \in AllWords : data[word] = MaxAge /\ report[word] = MaxAge
  BY DEF Init
<1>6. Coherent
  BY <1>3, <1>5, OneWriter DEF Coherent, Agree
<1>7. timer["reporter_task"] = ReportDelay
  BY DEF Init
<1>8. Reported
  BY <1>3, <1>5, <1>7 DEF Reported
<1>9. Punctual
  <2> SUFFICES ASSUME NEW task \in created, NEW word \in WordsOf(task)
               PROVE  ~Busy(task) /\ timer["reporter_task"] > TimerOf(task)
    BY DEF Punctual, Paced
  <2>1. ~Busy(task)
    BY <1>1, <1>3 DEF Busy, Init
  <2>2. TimerOf(task) = 1
    BY <1>1, DelayedAre DEF TimerOf, Init
  <2> QED
    BY <1>7, <2>1, <2>2
<1> QED
  BY <1>2, <1>4, <1>6, <1>8, <1>9 DEF TasksIInv

(* The steps that leave the values alone: rounds begin, or fail, and the    *)
(* UART works.                                                              *)
Quiet ==
  /\ UNCHANGED <<created, data, report, todo, overlap>>
  /\ timer'["reporter_task"] = timer["reporter_task"]
  /\ spoilt \subseteq spoilt' /\ spoilt' \subseteq AllWords

Begins(task, failed) ==
  /\ left[task] = <<>>
  /\ left' = [left EXCEPT ![task] = Round(task, failed)]
  /\ \A word \in WordsOf(task) : word[1] \in failed => word \in spoilt'

(* A task whose words count stays busy, or waits as before. *)
KeepsPace ==
  \A task \in created : \A word \in WordsOf(task) \ spoilt' :
    (Busy(task))' \/ (~Busy(task) /\ (TimerOf(task))' = TimerOf(task))

LEMMA QuietTypeOK ==
  ASSUME TasksIInv, Quiet,
         left' = left \/ \E task \in Writers : \E failed : Begins(task, failed)
  PROVE  left' \in [Writers -> Seq(Items)]
<1>1. left \in [Writers -> Seq(Items)]
  BY DEF TasksIInv, TasksTypeOK
<1>2. ASSUME NEW task \in Writers, NEW failed, Begins(task, failed)
      PROVE  left' \in [Writers -> Seq(Items)]
  BY <1>1, <1>2, RoundSeq DEF Begins
<1> QED
  BY <1>1, <1>2

LEMMA QuietPunctual ==
  ASSUME TasksIInv, Quiet, KeepsPace
  PROVE  Punctual'
<1>1. /\ created' = created /\ data' = data /\ spoilt \subseteq spoilt'
      /\ timer'["reporter_task"] = timer["reporter_task"]
  BY DEF Quiet
<1> SUFFICES ASSUME NEW t \in created, NEW word \in WordsOf(t) \ spoilt'
             PROVE  (Paced(t, word))'
  BY <1>1 DEF Punctual
<1>2. Paced(t, word)
  BY <1>1 DEF TasksIInv, Punctual
<1>3. TasksTypeOK
  BY DEF TasksIInv
<1>4. TimerOf(t) \in Nat
  BY <1>3, Numbers
<1>5. data[word] \in Nat /\ timer["reporter_task"] \in Nat
  <2>1. t \in Writers /\ word \in WordsOf(t)
    BY <1>3 DEF TasksTypeOK
  <2>2. word \in AllWords
    BY <2>1, OneWriter
  <2>3. data[word] \in 0 .. MaxAge /\ timer["reporter_task"] \in 0 .. ReportDelay
    BY <1>3, <2>2, Numbers
  <2> QED
    BY <2>3, Delays
<1>6. (Busy(t))' \/ (~Busy(t) /\ (TimerOf(t))' = TimerOf(t))
  BY DEF KeepsPace
<1>7. (Loaded(word))' <=> Loaded(word)
  BY DEF Quiet, Loaded
<1>8. CASE (Busy(t))'
  BY <1>1, <1>2, <1>4, <1>5, <1>7, <1>8, Delays DEF Paced
<1>9. CASE ~Busy(t) /\ ~(Busy(t))' /\ (TimerOf(t))' = TimerOf(t)
  BY <1>1, <1>2, <1>7, <1>9, Delays DEF Paced
<1> QED
  BY <1>6, <1>8, <1>9

LEMMA QuietStep ==
  ASSUME TasksIInv, Quiet,
         left' = left \/ \E task \in Writers : \E failed : Begins(task, failed)
  PROVE  RoundsUnderWay' /\ Coherent' /\ Reported'
<1>1. TasksTypeOK /\ RoundsUnderWay /\ Coherent /\ Reported /\ Punctual
  BY DEF TasksIInv
<1>2. \A word : (Loaded(word))' = Loaded(word) /\ (Excused(word) => (Excused(word))')
  BY DEF Loaded, Excused, Quiet
<1>3. Reported'
  BY <1>1 DEF Reported, Quiet
<1>5. CASE left' = left
  <2>1. RoundsUnderWay'
    BY <1>1, <1>2, <1>5 DEF RoundsUnderWay, Pending, Quiet
  <2>2. Coherent'
    BY <1>1, <1>2, <1>5 DEF Coherent, Agree, Quiet
  <2> QED
    BY <1>3, <2>1, <2>2
<1>6. ASSUME NEW task \in Writers, NEW failed, Begins(task, failed)
      PROVE  RoundsUnderWay' /\ Coherent'
  <2>2. /\ left'[task] = Round(task, failed) /\ left'[task] # <<>>
        /\ \A t \in Writers : t # task => left'[t] = left[t]
    BY <1>1, <1>6, RoundSeq DEF TasksTypeOK, Begins
  <2>3. Coherent'
    BY <1>1, <1>2, <1>6, <2>2 DEF Coherent, Agree, Begins, Quiet
  <2>4. RoundsUnderWay'
    <3> SUFFICES ASSUME NEW t \in Writers
                 PROVE  (/\ \A i \in DOMAIN left[t] :
                             /\ left[t][i].word \in WordsOf(t)
                             /\ left[t][i].age = MaxAge => Excused(left[t][i].word)
                         /\ left[t] # <<>> =>
                              \A word \in WordsOf(t) :
                                \/ Pending(t, word)
                                \/ data[word] = 0
                                \/ data[word] = MaxAge /\ Excused(word))'
      BY DEF RoundsUnderWay
    <3>1. CASE t = task
      <4>1. \A i \in DOMAIN left'[t] :
              /\ left'[t][i].word \in WordsOf(t)
              /\ left'[t][i].age = MaxAge => left'[t][i].word \in spoilt'
        <5>1. left'[t] = Round(t, failed)
          BY <2>2, <3>1
        <5>2. \A i \in DOMAIN Round(t, failed) :
                /\ Round(t, failed)[i].word \in WordsOf(t)
                /\ Round(t, failed)[i].age = MaxAge => Round(t, failed)[i].word[1] \in failed
          BY RoundIs
        <5> QED
          BY <1>6, <3>1, <5>1, <5>2 DEF Begins
      <4>2. \A word \in WordsOf(t) : (Pending(t, word))'
        <5>1. left'[t] = Round(t, failed)
          BY <2>2, <3>1
        <5>2. \A word \in WordsOf(t) :
                \E i \in DOMAIN Round(t, failed) : Round(t, failed)[i].word = word
          BY RoundIs
        <5> QED
          BY <5>1, <5>2 DEF Pending
      <4> QED
        BY <4>1, <4>2 DEF Excused
    <3>2. CASE t # task
      BY <1>1, <1>2, <2>2, <3>2 DEF RoundsUnderWay, Pending, Quiet
    <3> QED
      BY <3>1, <3>2
  <2> QED
    BY <2>3, <2>4
<1> QED
  BY <1>3, <1>5, <1>6

TimersOK ==
  /\ timer \in [Delayed \cup {"reporter_task"} -> 0 .. ReportDelay]
  /\ \A task \in Delayed : timer[task] <= SensorDelay + 1

UartOK == uart \in [asked : BOOLEAN, rx : Nat, rest : Nat, intact : BOOLEAN]

LEMMA QuietIInv ==
  ASSUME TasksIInv, Quiet, KeepsPace, TimersOK', UartOK',
         left' = left \/ \E task \in Writers : \E failed : Begins(task, failed)
  PROVE  TasksIInv'
<1>1. TasksTypeOK'
  BY QuietTypeOK DEF TasksIInv, TasksTypeOK, Quiet, TimersOK, UartOK
<1> QED
  BY <1>1, QuietPunctual, QuietStep DEF TasksIInv

(* vTaskDelay. *)
LEMMA WaitIs ==
  ASSUME TasksTypeOK, created' = created, NEW task, task # "reporter_task", Wait(task)
  PROVE  /\ TimersOK' /\ timer'["reporter_task"] = timer["reporter_task"]
         /\ task \in Delayed => timer'[task] = 3
         /\ \A t \in Delayed : t # task => timer'[t] = timer[t]
<1>1. Delayed' = Delayed /\ "reporter_task" \notin Delayed
  BY DelayedAre DEF Delayed, TasksTypeOK
<1>2. /\ timer \in [Delayed \cup {"reporter_task"} -> 0 .. ReportDelay]
      /\ \A t \in Delayed : timer[t] <= SensorDelay + 1
  BY DEF TasksTypeOK
<1>3. timer' = [timer EXCEPT ![task] = SensorDelay + 1]
  BY DEF Wait
<1>4. SensorDelay + 1 = 3 /\ SensorDelay + 1 \in 0 .. ReportDelay
  BY Delays
<1>5. /\ task \in Delayed => timer'[task] = SensorDelay + 1
      /\ \A t \in Delayed \cup {"reporter_task"} : t # task => timer'[t] = timer[t]
      /\ timer' \in [Delayed \cup {"reporter_task"} -> 0 .. ReportDelay]
  BY <1>2, <1>3, <1>4
<1>6. \A t \in Delayed : timer'[t] <= SensorDelay + 1
  BY <1>2, <1>4, <1>5
<1> QED
  BY <1>1, <1>4, <1>5, <1>6 DEF TimersOK

LEMMA Unwaited ==
  ASSUME TasksTypeOK, UNCHANGED <<created, timer>>
  PROVE  TimersOK' /\ timer'["reporter_task"] = timer["reporter_task"]
BY DEF TimersOK, TasksTypeOK, Delayed

(* A round that gives nothing, of the whole task or of some fields. *)
LEMMA SpoilIs ==
  ASSUME TasksTypeOK, NEW task \in Writers, NEW fields, Spoil(task, fields)
  PROVE  /\ spoilt \subseteq spoilt' /\ spoilt' \subseteq AllWords
         /\ \A word \in WordsOf(task) : word[1] \in fields => word \in spoilt'
BY OneWriter DEF Spoil, TasksTypeOK

LEMMA ReadTempRhStep ==
  ASSUME TasksIInv, ReadTempRh
  PROVE  TasksIInv'
<1> DEFINE task == "temperature_humidity_task"
<1>1. TasksTypeOK
  BY DEF TasksIInv
<1>2. task \in Writers /\ task # "co2_task" /\ task # "pressure_task"
  BY WritersAre
<1>3. PICK failed \in SUBSET FieldsOf(task) :
        left' = [left EXCEPT ![task] = Round(task, failed)] /\ Spoil(task, failed)
  BY DEF ReadTempRh
<1>4. left[task] = <<>> /\ UNCHANGED <<created, data, report, todo, timer, uart, overlap>>
  BY DEF ReadTempRh
<1>5. Begins(task, failed)
  BY <1>1, <1>2, <1>3, <1>4, SpoilIs DEF Begins
<1>6. Quiet
  BY <1>1, <1>2, <1>3, <1>4, SpoilIs DEF Quiet
<1>7. left'[task] # <<>> /\ \A t \in Writers : t # task => left'[t] = left[t]
  BY <1>1, <1>2, <1>3, RoundSeq DEF TasksTypeOK
<1>8. KeepsPace
  BY <1>1, <1>4, <1>7 DEF KeepsPace, Busy, TimerOf, TasksTypeOK
<1>9. TimersOK' /\ UartOK'
  BY <1>1, <1>4, Unwaited DEF UartOK, TasksTypeOK
<1> QED
  BY <1>2, <1>5, <1>6, <1>8, <1>9, QuietIInv

LEMMA ReadPressureStep ==
  ASSUME TasksIInv, ReadPressure
  PROVE  TasksIInv'
<1> DEFINE task == "pressure_task"
<1>1. TasksTypeOK
  BY DEF TasksIInv
<1>2. task \in Writers /\ task # "co2_task" /\ task \in Delayed
  BY WritersAre DEF ReadPressure, Due
<1>3. left[task] = <<>> /\ UNCHANGED <<created, data, report, todo, uart, overlap>>
  BY DEF ReadPressure
<1>4. UartOK'
  BY <1>1, <1>3 DEF UartOK, TasksTypeOK
<1>5. CASE /\ left' = [left EXCEPT ![task] = Round(task, {})]
           /\ UNCHANGED <<timer, spoilt, faults>>
  <2>1. Begins(task, {})
    BY <1>3, <1>5 DEF Begins
  <2>2. Quiet /\ TimersOK'
    BY <1>1, <1>3, <1>5, Unwaited DEF Quiet, TasksTypeOK
  <2>3. left'[task] # <<>> /\ \A t \in Writers : t # task => left'[t] = left[t]
    BY <1>1, <1>2, <1>5, RoundSeq DEF TasksTypeOK
  <2>4. KeepsPace
    BY <1>1, <1>3, <1>5, <2>3 DEF KeepsPace, Busy, TimerOf, TasksTypeOK
  <2> QED
    BY <1>2, <1>4, <2>1, <2>2, <2>4, QuietIInv
<1>6. CASE Wait(task) /\ Spoil(task, {"pressure"}) /\ UNCHANGED left
  <2>1. /\ TimersOK' /\ timer'["reporter_task"] = timer["reporter_task"]
        /\ \A t \in Delayed : t # task => timer'[t] = timer[t]
    BY <1>1, <1>2, <1>3, <1>6, WaitIs
  <2>2. Quiet
    BY <1>1, <1>2, <1>3, <1>6, <2>1, SpoilIs DEF Quiet
  <2>3. \A word \in WordsOf(task) : word \in spoilt'
    BY <1>1, <1>2, <1>6, SpoilIs, WordsOfAre
  <2>4. KeepsPace
    <3> SUFFICES ASSUME NEW t \in created, t # task
                 PROVE  (Busy(t))' \/ (~Busy(t) /\ (TimerOf(t))' = TimerOf(t))
      BY <2>3 DEF KeepsPace
    <3>1. (Busy(t))' <=> Busy(t)
      BY <1>3, <1>6 DEF Busy
    <3>2. (TimerOf(t))' = TimerOf(t)
      BY <1>1, <2>1, DelayedAre, WritersAre DEF TimerOf, TasksTypeOK
    <3> QED
      BY <3>1, <3>2
  <2> QED
    BY <1>4, <1>6, <2>1, <2>2, <2>4, QuietIInv
<1> QED
  BY <1>5, <1>6 DEF ReadPressure

LEMMA SendDataStep ==
  ASSUME TasksIInv, SendData
  PROVE  TasksIInv'
<1>1. TasksTypeOK
  BY DEF TasksIInv
<1>2. /\ "co2_tx_task" \in Delayed /\ Wait("co2_tx_task")
      /\ uart' = [uart EXCEPT !.asked = TRUE]
      /\ UNCHANGED <<created, data, report, todo, left, spoilt, overlap, faults>>
  BY DEF SendData, Due
<1>3. /\ TimersOK' /\ timer'["reporter_task"] = timer["reporter_task"]
      /\ \A t \in Delayed : t # "co2_tx_task" => timer'[t] = timer[t]
  BY <1>1, <1>2, WaitIs
<1>4. UartOK' /\ uart' # Idle
  BY <1>1, <1>2 DEF UartOK, TasksTypeOK, Idle
<1>5. Quiet
  BY <1>1, <1>2, <1>3 DEF Quiet, TasksTypeOK
<1>6. KeepsPace
  <2> SUFFICES ASSUME NEW t \in created
               PROVE  (Busy(t))' \/ (~Busy(t) /\ (TimerOf(t))' = TimerOf(t))
    BY DEF KeepsPace
  <2>1. CASE t = "co2_task"
    BY <1>4, <2>1 DEF Busy
  <2>2. CASE t # "co2_task"
    <3>1. (Busy(t))' <=> Busy(t)
      BY <1>2, <2>2 DEF Busy
    <3>2. (TimerOf(t))' = TimerOf(t)
      BY <1>1, <1>3, <2>2, DelayedAre DEF TimerOf, TasksTypeOK
    <3> QED
      BY <3>1, <3>2
  <2> QED
    BY <2>1, <2>2
<1> QED
  BY <1>2, <1>3, <1>4, <1>5, <1>6, QuietIInv

(* What a step of the UART changes beside it. *)
LEMMA UartStep ==
  ASSUME TasksIInv, UNCHANGED <<created, data, report, todo, timer, overlap>>,
         UartOK', spoilt \subseteq spoilt', spoilt' \subseteq AllWords,
         left' = left \/ Begins("co2_task", {}),
         \/ uart' # Idle
         \/ left'["co2_task"] # <<>>
         \/ \A word \in WordsOf("co2_task") : word \in spoilt'
  PROVE  TasksIInv'
<1>1. TasksTypeOK /\ "co2_task" \in Writers
  BY WritersAre DEF TasksIInv
<1>2. TimersOK' /\ Quiet
  BY <1>1, Unwaited DEF Quiet
<1>3. \A t \in Writers : t # "co2_task" => left'[t] = left[t]
  BY <1>1 DEF TasksTypeOK, Begins
<1>4. KeepsPace
  <2> SUFFICES ASSUME NEW t \in created, NEW word \in WordsOf(t) \ spoilt'
               PROVE  (Busy(t))' \/ (~Busy(t) /\ (TimerOf(t))' = TimerOf(t))
    BY DEF KeepsPace
  <2>1. CASE t = "co2_task"
    BY <2>1 DEF Busy
  <2>2. CASE t # "co2_task"
    <3>1. (Busy(t))' <=> Busy(t)
      BY <1>1, <1>3, <2>2 DEF Busy, TasksTypeOK
    <3>2. (TimerOf(t))' = TimerOf(t)
      BY DEF TimerOf
    <3> QED
      BY <3>1, <3>2
  <2> QED
    BY <2>1, <2>2
<1> QED
  BY <1>1, <1>2, <1>4, QuietIInv

LEMMA AnswerStep ==
  ASSUME TasksIInv, Answer
  PROVE  TasksIInv'
<1>1. TasksTypeOK /\ "co2_task" \in Writers
  BY WritersAre DEF TasksIInv
<1>2. UNCHANGED <<created, data, report, todo, timer, overlap>> /\ left' = left
  BY DEF Answer
<1>3. uart \in [asked : BOOLEAN, rx : Nat, rest : Nat, intact : BOOLEAN]
  BY <1>1 DEF TasksTypeOK
<1>4. ASSUME NEW part \in {5, 9},
             uart' = [uart EXCEPT !.asked = FALSE, !.rx = part, !.rest = 9 - part],
             UNCHANGED spoilt
      PROVE  TasksIInv'
  <2>1. UartOK' /\ uart'.rx = part
    <3>1. uart' = [asked |-> FALSE, rx |-> part, rest |-> 9 - part, intact |-> uart.intact]
      BY <1>3, <1>4
    <3>2. part \in Nat /\ 9 - part \in Nat /\ uart.intact \in BOOLEAN
      BY <1>3
    <3> QED
      BY <3>1, <3>2 DEF UartOK
  <2>2. uart' # Idle
    BY <2>1 DEF Idle
  <2>3. spoilt \subseteq spoilt' /\ spoilt' \subseteq AllWords
    BY <1>1, <1>4 DEF TasksTypeOK
  <2> QED
    BY <1>2, <2>1, <2>2, <2>3, UartStep
<1>5. CASE /\ uart.rest > 0
           /\ uart' = [uart EXCEPT !.rx = @ + uart.rest, !.rest = 0]
           /\ UNCHANGED spoilt
  <2>1. UartOK' /\ uart'.rx > 0
    <3>1. uart' = [asked |-> uart.asked, rx |-> uart.rx + uart.rest, rest |-> 0, intact |-> uart.intact]
      BY <1>3, <1>5
    <3>2. uart.rx \in Nat /\ uart.rest \in Nat /\ uart.asked \in BOOLEAN /\ uart.intact \in BOOLEAN
      BY <1>3
    <3> QED
      BY <1>5, <3>1, <3>2 DEF UartOK
  <2>2. uart' # Idle
    BY <2>1 DEF Idle
  <2>3. spoilt \subseteq spoilt' /\ spoilt' \subseteq AllWords
    BY <1>1, <1>5 DEF TasksTypeOK
  <2> QED
    BY <1>2, <2>1, <2>2, <2>3, UartStep
<1>6. CASE /\ uart' \in {Idle, [Idle EXCEPT !.rx = 9, !.intact = FALSE]}
           /\ Spoil("co2_task", {"co2"})
  <2>1. UartOK'
    <3> DEFINE Uarts == [asked : BOOLEAN, rx : Nat, rest : Nat, intact : BOOLEAN]
    <3>1. Idle \in Uarts
      BY DEF Idle
    <3>2. [Idle EXCEPT !.rx = 9] \in Uarts
      BY <3>1
    <3>3. \A u \in Uarts : [u EXCEPT !.intact = FALSE] \in Uarts
      OBVIOUS
    <3>4. [Idle EXCEPT !.rx = 9, !.intact = FALSE] \in Uarts
      BY <3>2, <3>3
    <3> QED
      BY <1>6, <3>1, <3>4 DEF UartOK
  <2>2. /\ spoilt \subseteq spoilt' /\ spoilt' \subseteq AllWords
        /\ \A word \in WordsOf("co2_task") : word \in spoilt'
    BY <1>1, <1>6, SpoilIs, WordsOfAre
  <2> QED
    BY <1>2, <2>1, <2>2, UartStep
<1> QED
  BY <1>4, <1>5, <1>6 DEF Answer

LEMMA ReadUartStep ==
  ASSUME TasksIInv, ReadUart
  PROVE  TasksIInv'
<1>1. TasksTypeOK /\ "co2_task" \in Writers
  BY WritersAre DEF TasksIInv
<1>2. /\ left["co2_task"] = <<>>
      /\ uart' = [uart EXCEPT !.rx = 0, !.intact = TRUE]
      /\ UNCHANGED <<created, data, report, todo, timer, overlap>>
  BY DEF ReadUart
<1>3. UartOK'
  BY <1>1, <1>2 DEF UartOK, TasksTypeOK
<1>4. CASE left' = [left EXCEPT !["co2_task"] = Round("co2_task", {})] /\ UNCHANGED spoilt
  <2>1. Begins("co2_task", {})
    BY <1>2, <1>4 DEF Begins
  <2>2. left'["co2_task"] # <<>>
    BY <1>1, <1>4, RoundSeq DEF TasksTypeOK
  <2> QED
    BY <1>1, <1>2, <1>3, <1>4, <2>1, <2>2, UartStep DEF TasksTypeOK
<1>5. CASE Spoil("co2_task", {"co2"}) /\ UNCHANGED left
  <2>1. /\ spoilt \subseteq spoilt' /\ spoilt' \subseteq AllWords
        /\ \A word \in WordsOf("co2_task") : word \in spoilt'
    BY <1>1, <1>5, SpoilIs, WordsOfAre
  <2> QED
    BY <1>2, <1>3, <1>5, <2>1, UartStep
<1> QED
  BY <1>4, <1>5 DEF ReadUart

(* The reporter begins a request. *)
LEMMA ComposeStep ==
  ASSUME TasksIInv, Compose
  PROVE  TasksIInv'
<1>1. TasksTypeOK /\ RoundsUnderWay /\ Coherent /\ Reported /\ Punctual
  BY DEF TasksIInv
<1>2. /\ todo = <<>> /\ timer["reporter_task"] = 0 /\ todo' = ReportOrder
      /\ overlap' = {task \in Writers : left[task] # <<>>}
      /\ UNCHANGED <<created, data, report, left, timer, uart, spoilt>>
  BY DEF Compose
<1>3. TasksTypeOK'
  <2>1. todo' \in Seq(AllWords)
    BY <1>2, ReportOrderIs
  <2>2. overlap' \subseteq Writers
    BY <1>2
  <2>3. Delayed' = Delayed
    BY <1>2 DEF Delayed
  <2> QED
    BY <1>1, <1>2, <2>1, <2>2, <2>3 DEF TasksTypeOK
<1>4. \A word : ~Loaded(word)
  BY <1>2 DEF Loaded
<1>5. \A word \in AllWords : ~(Loaded(word))'
  BY <1>2, ReportOrderIs DEF Loaded
<1>6. \A word : Excused(word) => word \in spoilt
  BY <1>2, <1>4, Delays DEF Excused
<1>7. \A word : Excused(word) => (Excused(word))'
  BY <1>2, <1>6 DEF Excused
<1>8. RoundsUnderWay'
  BY <1>1, <1>2, <1>7 DEF RoundsUnderWay, Pending
<1>9. Coherent'
  BY <1>1, <1>2, <1>5, OneWriter DEF Coherent, Agree
<1>10. Reported'
  <2>1. \A i \in DOMAIN ReportOrder : ReportOrder[i] \in AllWords
    BY ReportOrderIs
  <2>2. \A word \in AllWords : report[word] >= ReportDelay
    BY <1>1, <1>2, Numbers, Delays DEF Reported
  <2> QED
    BY <1>2, <2>1, <2>2, ReportOrderIs DEF Reported
<1>11. Punctual'
  <2> SUFFICES ASSUME NEW t \in created, NEW word \in WordsOf(t) \ spoilt
               PROVE  (Paced(t, word))'
    BY <1>2 DEF Punctual
  <2>1. Paced(t, word)
    BY <1>1 DEF Punctual
  <2>2. ((Busy(t))' <=> Busy(t)) /\ (TimerOf(t))' = TimerOf(t)
    BY <1>2 DEF Busy, TimerOf
  <2> QED
    BY <1>2, <1>4, <2>1, <2>2 DEF Paced
<1> QED
  BY <1>3, <1>8, <1>9, <1>10, <1>11 DEF TasksIInv

(* A sensor's task stores a word. *)
LEMMA StoreStep ==
  ASSUME TasksIInv, NEW task \in Writers, Store(task)
  PROVE  TasksIInv'
<1> DEFINE item == Head(left[task])
<1>1. TasksTypeOK /\ RoundsUnderWay /\ Coherent /\ Reported /\ Punctual
  BY DEF TasksIInv
<1>2. /\ left[task] # <<>>
      /\ data' = [data EXCEPT ![item.word] = item.age]
      /\ left' = [left EXCEPT ![task] = Tail(left[task])]
      /\ UNCHANGED <<created, report, todo, uart, spoilt>>
  BY DEF Store, Stored
<1>3. /\ Len(left[task]) = 1 /\ task # "co2_task" => Wait(task)
      /\ ~(Len(left[task]) = 1 /\ task # "co2_task") => UNCHANGED timer
      /\ todo # <<>> => overlap' = overlap \cup {task}
      /\ todo = <<>> => overlap' = overlap
  BY DEF Store
<1>4. left[task] \in Seq(Items)
  BY <1>1 DEF TasksTypeOK
<1>5. /\ item \in Items /\ Tail(left[task]) \in Seq(Items)
      /\ 1 \in DOMAIN left[task] /\ item = left[task][1]
      /\ \A i \in DOMAIN Tail(left[task]) :
           i + 1 \in DOMAIN left[task] /\ Tail(left[task])[i] = left[task][i + 1]
      /\ \A i \in DOMAIN left[task] :
           i = 1 \/ (i - 1 \in DOMAIN Tail(left[task]) /\ Tail(left[task])[i - 1] = left[task][i])
      /\ Tail(left[task]) = <<>> <=> Len(left[task]) = 1
  BY <1>2, <1>4, TailOf
<1> HIDE DEF item
<1>6. item.word \in WordsOf(task) /\ (item.age = 0 \/ (item.age = MaxAge /\ Excused(item.word)))
  <2>1. item.word \in WordsOf(task) /\ (item.age = MaxAge => Excused(item.word))
    BY <1>1, <1>5 DEF RoundsUnderWay
  <2>2. item.age \in {0, MaxAge}
    BY <1>5 DEF Items
  <2> QED
    BY <2>1, <2>2
<1>7. /\ left'[task] = Tail(left[task])
      /\ \A t \in Writers : t # task => left'[t] = left[t]
      /\ left' \in [Writers -> Seq(Items)]
  BY <1>1, <1>2, <1>5 DEF TasksTypeOK
<1>8. /\ data'[item.word] = item.age
      /\ \A word \in AllWords : word # item.word => data'[word] = data[word]
      /\ data' \in [AllWords -> 0 .. MaxAge]
  <2>1. item.word \in AllWords
    BY <1>6, OneWriter
  <2>2. item.age \in 0 .. MaxAge
    BY <1>6, Delays
  <2> QED
    BY <1>1, <1>2, <2>1, <2>2 DEF TasksTypeOK
<1>9. \A t \in Writers : t # task => \A word \in WordsOf(t) : data'[word] = data[word]
  BY <1>6, <1>8, OneWriter
<1>10. /\ TimersOK' /\ timer'["reporter_task"] = timer["reporter_task"]
       /\ \A t \in Delayed : t # task => timer'[t] = timer[t]
       /\ Len(left[task]) = 1 /\ task \in Delayed => timer'[task] = 3
  <2>1. CASE Wait(task)
    BY <1>1, <1>2, <2>1, WaitIs, WritersAre
  <2>2. CASE UNCHANGED timer /\ ~(Len(left[task]) = 1 /\ task # "co2_task")
    <3>1. task \in Delayed => ~(Len(left[task]) = 1)
      BY <1>1, <2>2, DelayedAre DEF TasksTypeOK
    <3> QED
      BY <1>1, <1>2, <2>2, <3>1, Unwaited
  <2> QED
    BY <1>3, <2>1, <2>2
<1>11. \A word : ((Loaded(word))' <=> Loaded(word)) /\ ((Excused(word))' <=> Excused(word))
  BY <1>2, <1>10 DEF Loaded, Excused
<1>12. TasksTypeOK'
  <2>1. overlap' \subseteq Writers
    BY <1>1, <1>3 DEF TasksTypeOK
  <2> QED
    BY <1>1, <1>2, <1>7, <1>8, <1>10, <2>1 DEF TasksTypeOK, TimersOK
\* What is stored of the round: nothing left out.
<1>13. \A word \in WordsOf(task) :
         \/ (Pending(task, word))'
         \/ data'[word] = 0
         \/ data'[word] = MaxAge /\ Excused(word)
  <2> SUFFICES ASSUME NEW word \in WordsOf(task), ~(Pending(task, word))'
               PROVE  data'[word] = 0 \/ (data'[word] = MaxAge /\ Excused(word))
    OBVIOUS
  <2>1. CASE word = item.word
    BY <1>6, <1>8, <2>1
  <2>2. CASE word # item.word
    <3>1. ~Pending(task, word)
      <4> SUFFICES ASSUME NEW i \in DOMAIN left[task], left[task][i].word = word
                   PROVE  FALSE
        BY DEF Pending
      <4>1. i # 1
        BY <1>5, <2>2
      <4>2. i - 1 \in DOMAIN left'[task] /\ left'[task][i - 1].word = word
        BY <1>5, <1>7, <4>1
      <4> QED
        BY <4>2 DEF Pending
    <3>2. data'[word] = data[word]
      BY <1>8, <2>2, OneWriter
    <3> QED
      BY <1>1, <1>2, <3>1, <3>2 DEF RoundsUnderWay
  <2> QED
    BY <2>1, <2>2
<1>14. left'[task] = <<>> => \A word \in WordsOf(task) :
         data'[word] = 0 \/ (data'[word] = MaxAge /\ Excused(word))
  <2>1. left'[task] = <<>> => \A word : ~(Pending(task, word))'
    BY DEF Pending
  <2> QED
    BY <1>13, <2>1
<1>15. RoundsUnderWay'
  <2> SUFFICES ASSUME NEW t \in Writers
               PROVE  (/\ \A i \in DOMAIN left[t] :
                           /\ left[t][i].word \in WordsOf(t)
                           /\ left[t][i].age = MaxAge => Excused(left[t][i].word)
                       /\ left[t] # <<>> =>
                            \A word \in WordsOf(t) :
                              \/ Pending(t, word)
                              \/ data[word] = 0
                              \/ data[word] = MaxAge /\ Excused(word))'
    BY DEF RoundsUnderWay
  <2>1. CASE t = task
    <3>1. \A i \in DOMAIN left'[t] :
            /\ left'[t][i].word \in WordsOf(t)
            /\ left'[t][i].age = MaxAge => Excused(left'[t][i].word)
      <4>1. \A i \in DOMAIN left'[t] :
              i + 1 \in DOMAIN left[t] /\ left'[t][i] = left[t][i + 1]
        BY <1>5, <1>7, <2>1
      <4>2. \A j \in DOMAIN left[t] :
              /\ left[t][j].word \in WordsOf(t)
              /\ left[t][j].age = MaxAge => Excused(left[t][j].word)
        BY <1>1 DEF RoundsUnderWay
      <4> QED
        BY <4>1, <4>2
    <3> QED
      BY <1>11, <1>13, <2>1, <3>1
  <2>2. CASE t # task
    BY <1>1, <1>7, <1>9, <1>11, <2>2 DEF RoundsUnderWay, Pending
  <2> QED
    BY <2>1, <2>2
<1>16. Coherent'
  <2> SUFFICES ASSUME NEW t \in Writers
               PROVE  /\ left'[t] = <<>> => Agree(data', t)
                      /\ todo # <<>> /\ t \notin overlap' =>
                           /\ Agree(data', t)
                           /\ \A word \in WordsOf(t) : Loaded(word) => report[word] = data'[word]
    BY <1>2, <1>11 DEF Coherent, Agree
  <2>1. CASE t = task
    BY <1>3, <1>14, <2>1 DEF Agree
  <2>2. CASE t # task
    <3>1. left'[t] = left[t] /\ (t \notin overlap' => t \notin overlap)
      BY <1>3, <1>7, <2>2
    <3> QED
      BY <1>1, <1>9, <2>2, <3>1 DEF Coherent, Agree
  <2> QED
    BY <2>1, <2>2
<1>17. Reported'
  BY <1>1, <1>2, <1>10 DEF Reported
<1>18. Punctual'
  <2> SUFFICES ASSUME NEW t \in created, NEW word \in WordsOf(t) \ spoilt, ~Loaded(word)
               PROVE  (Paced(t, word))'
    BY <1>2, <1>11 DEF Punctual, Paced
  <2>1. Paced(t, word)
    BY <1>1 DEF Punctual
  <2>2. t \in Writers /\ (TimerOf(t))' \in 0 .. 3 /\ timer["reporter_task"] \in 0 .. ReportDelay
    <3>1. t \in Writers /\ timer["reporter_task"] \in 0 .. ReportDelay
      BY <1>1, Numbers DEF TasksTypeOK
    <3>2. \A x \in Delayed : timer'[x] \in 0 .. 3
      <4>1. Delayed' = Delayed
        BY <1>2 DEF Delayed
      <4>2. \A x \in Delayed : timer'[x] \in 0 .. ReportDelay /\ timer'[x] <= SensorDelay + 1
        BY <1>10, <4>1 DEF TimersOK
      <4> QED
        BY <4>2, Delays
    <3>3. (TimerOf(t))' \in 0 .. 3
      BY <1>1, <3>2, DelayedAre DEF TimerOf, TasksTypeOK
    <3> QED
      BY <3>1, <3>3
  <2>3. CASE t = task
    <3>1. CASE left'[task] = <<>>
      <4>1. data'[word] = 0 \/ timer["reporter_task"] = ReportDelay
        BY <1>14, <2>3, <3>1 DEF Excused
      <4> QED
        BY <1>10, <2>2, <4>1, Delays DEF Paced
    <3>2. CASE left'[task] # <<>>
      <4>1. (Busy(t))' /\ Busy(t)
        BY <1>2, <2>3, <3>2 DEF Busy
      <4>2. data'[word] = data[word] \/ data'[word] = 0 \/ timer["reporter_task"] = ReportDelay
        <5>1. word \in AllWords
          BY <2>2, OneWriter
        <5> QED
          BY <1>6, <1>8, <5>1 DEF Excused
      <4> QED
        BY <1>10, <2>1, <4>1, <4>2, Delays DEF Paced
    <3> QED
      BY <3>1, <3>2
  <2>4. CASE t # task
    <3>1. (Busy(t))' <=> Busy(t)
      BY <1>2, <1>7, <2>2, <2>4 DEF Busy
    <3>2. (TimerOf(t))' = TimerOf(t)
      BY <1>1, <1>10, <2>4, DelayedAre, WritersAre DEF TimerOf, TasksTypeOK
    <3>3. data'[word] = data[word]
      BY <1>9, <2>2, <2>4
    <3> QED
      BY <1>10, <2>1, <3>1, <3>2, <3>3, Delays DEF Paced
  <2> QED
    BY <2>3, <2>4
<1> QED
  BY <1>12, <1>15, <1>16, <1>17, <1>18 DEF TasksIInv

(* The reporter loads a word. *)
LEMMA LoadStep ==
  ASSUME TasksIInv, Load
  PROVE  TasksIInv'
<1> DEFINE word0 == Head(todo)
<1>1. TasksTypeOK /\ RoundsUnderWay /\ Coherent /\ Reported /\ Punctual
  BY DEF TasksIInv
<1>2. /\ todo # <<>> /\ todo' = Tail(todo)
      /\ report' = [report EXCEPT ![word0] = data[word0]]
      /\ spoilt' = spoilt \ {word0}
      /\ UNCHANGED <<created, data, left, uart>>
  BY DEF Load
<1>3. /\ todo' # <<>> => UNCHANGED <<timer, overlap>>
      /\ todo' = <<>> => timer' = [timer EXCEPT !["reporter_task"] = ReportDelay] /\ overlap' = {}
  BY DEF Load
<1>4. todo \in Seq(AllWords)
  BY <1>1 DEF TasksTypeOK
<1>5. /\ word0 \in AllWords /\ Tail(todo) \in Seq(AllWords)
      /\ 1 \in DOMAIN todo /\ word0 = todo[1]
      /\ \A i \in DOMAIN Tail(todo) : i + 1 \in DOMAIN todo /\ i + 1 # 1 /\ Tail(todo)[i] = todo[i + 1]
      /\ \A i \in DOMAIN todo : i = 1 \/ (i - 1 \in DOMAIN Tail(todo) /\ Tail(todo)[i - 1] = todo[i])
      /\ \A i, j \in DOMAIN Tail(todo) : i # j => i + 1 # j + 1
  BY <1>2, <1>4, TailOf
<1> HIDE DEF word0
<1>6. \A i \in DOMAIN todo' : todo'[i] # word0
  BY <1>1, <1>2, <1>5 DEF Reported
\* What is loaded stays so, and the word is loaded now.
<1>7. \A word : (Loaded(word))' <=> todo' # <<>> /\ (Loaded(word) \/ word = word0)
  <2> SUFFICES ASSUME NEW word, todo' # <<>>
               PROVE  (\A i \in DOMAIN todo' : todo'[i] # word)
                        <=> (\A i \in DOMAIN todo : todo[i] # word) \/ word = word0
    BY <1>2 DEF Loaded
  <2>1. ASSUME NEW i \in DOMAIN todo, \A k \in DOMAIN todo' : todo'[k] # word, word # word0
        PROVE  todo[i] # word
    BY <1>2, <1>5, <2>1
  <2>2. ASSUME NEW i \in DOMAIN todo', \A k \in DOMAIN todo : todo[k] # word
        PROVE  todo'[i] # word
    BY <1>2, <1>5, <2>2
  <2> QED
    BY <1>6, <2>1, <2>2
<1>8. timer["reporter_task"] = 0
  BY <1>1, <1>2 DEF Reported
<1>9. /\ todo' = <<>> => timer'["reporter_task"] = ReportDelay
      /\ todo' # <<>> => timer'["reporter_task"] = 0
      /\ \A x \in Delayed : timer'[x] = timer[x]
      /\ timer' \in [Delayed \cup {"reporter_task"} -> 0 .. ReportDelay]
  <2>1. timer \in [Delayed \cup {"reporter_task"} -> 0 .. ReportDelay] /\ "reporter_task" \notin Delayed
    BY <1>1, DelayedAre DEF TasksTypeOK
  <2>2. CASE todo' # <<>>
    BY <1>3, <1>8, <2>1, <2>2
  <2>3. CASE todo' = <<>>
    BY <1>3, <2>1, <2>3, Delays
  <2> QED
    BY <2>2, <2>3
<1>10. /\ report'[word0] = data[word0]
       /\ \A word \in AllWords : word # word0 => report'[word] = report[word]
       /\ report' \in [AllWords -> 0 .. MaxAge]
  BY <1>1, <1>2, <1>5 DEF TasksTypeOK
<1>11. TasksTypeOK'
  <2>1. Delayed' = Delayed
    BY <1>2 DEF Delayed
  <2>2. overlap' \subseteq Writers
    BY <1>1, <1>3 DEF TasksTypeOK
  <2> QED
    BY <1>1, <1>2, <1>5, <1>9, <1>10, <2>1, <2>2 DEF TasksTypeOK
<1>12. \A word : Excused(word) => (Excused(word))'
  BY <1>2, <1>7, <1>8, <1>9, Delays DEF Excused
<1>13. RoundsUnderWay'
  BY <1>1, <1>2, <1>12 DEF RoundsUnderWay, Pending
<1>14. Coherent'
  <2> SUFFICES ASSUME NEW t \in Writers
               PROVE  /\ left[t] = <<>> => Agree(data, t)
                      /\ todo' # <<>> /\ t \notin overlap =>
                           /\ Agree(data, t)
                           /\ \A word \in WordsOf(t) :
                                (Loaded(word))' => report'[word] = data[word]
    BY <1>2, <1>3 DEF Coherent, Agree
  <2>1. /\ left[t] = <<>> => Agree(data, t)
        /\ t \notin overlap => Agree(data, t)
        /\ t \notin overlap => \A word \in WordsOf(t) : Loaded(word) => report[word] = data[word]
    BY <1>1, <1>2 DEF Coherent
  <2>2. \A word \in WordsOf(t) : (Loaded(word))' => Loaded(word) \/ word = word0
    BY <1>7
  <2>3. \A word \in WordsOf(t) : word \in AllWords
    BY OneWriter
  <2> QED
    BY <1>10, <2>1, <2>2, <2>3
<1>15. Reported'
  <2>1. todo' = <<>> => \A word \in AllWords : report'[word] + timer'["reporter_task"] >= ReportDelay
    <3>1. \A word \in AllWords : report'[word] \in 0 .. MaxAge
      BY <1>10
    <3> QED
      BY <1>9, <3>1, Delays
  <2>2. \A i \in DOMAIN todo' : report'[todo'[i]] >= ReportDelay
    <3> SUFFICES ASSUME NEW i \in DOMAIN todo' PROVE report'[todo'[i]] >= ReportDelay
      OBVIOUS
    <3>1. i + 1 \in DOMAIN todo /\ todo'[i] = todo[i + 1] /\ todo'[i] # word0
      BY <1>2, <1>5, <1>6
    <3>2. todo[i + 1] \in AllWords
      BY <1>4, <3>1
    <3>3. report[todo[i + 1]] >= ReportDelay
      BY <1>1, <3>1 DEF Reported
    <3> QED
      BY <1>10, <3>1, <3>2, <3>3
  <2>3. \A i, j \in DOMAIN todo' : i # j => todo'[i] # todo'[j]
    BY <1>1, <1>2, <1>5 DEF Reported
  <2> QED
    BY <1>9, <2>1, <2>2, <2>3 DEF Reported
<1>16. Punctual'
  <2> SUFFICES ASSUME NEW t \in created, NEW word \in WordsOf(t) \ spoilt',
                      ~(Loaded(word))'
               PROVE  (Paced(t, word))'
    BY <1>2 DEF Punctual, Paced
  <2>1. ((Busy(t))' <=> Busy(t)) /\ (TimerOf(t))' = TimerOf(t) /\ TimerOf(t) \in 0 .. 3
    <3>1. (Busy(t))' <=> Busy(t)
      BY <1>2 DEF Busy
    <3>2. (TimerOf(t))' = TimerOf(t)
      BY <1>1, <1>9, DelayedAre DEF TimerOf, TasksTypeOK
    <3>3. TimerOf(t) \in 0 .. 3
      BY <1>1, Numbers
    <3> QED
      BY <3>1, <3>2, <3>3
  <2>2. CASE todo' = <<>>
    BY <1>9, <2>1, <2>2, Delays DEF Paced
  <2>3. CASE todo' # <<>>
    <3>1. word # word0 /\ ~Loaded(word) /\ word \notin spoilt
      BY <1>2, <1>7, <2>3
    <3>2. Paced(t, word)
      BY <1>1, <3>1 DEF Punctual
    <3> QED
      BY <1>2, <1>8, <1>9, <2>1, <2>3, <3>1, <3>2 DEF Paced
  <2> QED
    BY <2>2, <2>3
<1> QED
  BY <1>11, <1>13, <1>14, <1>15, <1>16 DEF TasksIInv

(* Time passes. *)
LEMMA TickStep ==
  ASSUME TasksIInv, Tick
  PROVE  TasksIInv'
<1>1. TasksTypeOK /\ RoundsUnderWay /\ Coherent /\ Reported /\ Punctual
  BY DEF TasksIInv
<1>2. /\ \A task \in Delayed : timer[task] > 0
      /\ uart = Idle /\ todo = <<>>
      /\ \A task \in Writers : left[task] = <<>>
      /\ timer' = [task \in DOMAIN timer |-> IF timer[task] = 0 THEN 0 ELSE timer[task] - 1]
      /\ data' = [x \in DOMAIN data |-> IF data[x] = MaxAge THEN MaxAge ELSE data[x] + 1]
      /\ report' = [x \in DOMAIN report |-> IF report[x] = MaxAge THEN MaxAge ELSE report[x] + 1]
      /\ UNCHANGED <<created, todo, left, uart, spoilt, overlap>>
  BY DEF Tick
<1>3. \A word \in AllWords :
        /\ data[word] \in 0 .. MaxAge /\ report[word] \in 0 .. MaxAge
        /\ data'[word] = IF data[word] = MaxAge THEN MaxAge ELSE data[word] + 1
        /\ report'[word] = IF report[word] = MaxAge THEN MaxAge ELSE report[word] + 1
  BY <1>1, <1>2, Numbers DEF TasksTypeOK
<1>4. data' \in [AllWords -> 0 .. MaxAge] /\ report' \in [AllWords -> 0 .. MaxAge]
  BY <1>1, <1>2, <1>3, Delays DEF TasksTypeOK
<1>5. \A x \in Delayed \cup {"reporter_task"} :
        timer[x] \in 0 .. 4 /\ timer'[x] = IF timer[x] = 0 THEN 0 ELSE timer[x] - 1
  BY <1>1, <1>2, Delays DEF TasksTypeOK
<1>6. \A task \in Delayed : timer[task] \in 1 .. 3 /\ timer'[task] = timer[task] - 1
  BY <1>1, <1>2, <1>5, Numbers
<1>7. TasksTypeOK'
  <2>1. Delayed' = Delayed
    BY <1>2 DEF Delayed
  <2>2. timer' \in [Delayed \cup {"reporter_task"} -> 0 .. ReportDelay]
    BY <1>1, <1>2, <1>5, Delays DEF TasksTypeOK
  <2>3. \A task \in Delayed : timer'[task] <= SensorDelay + 1
    BY <1>6, Delays
  <2> QED
    BY <1>1, <1>2, <1>4, <2>1, <2>2, <2>3 DEF TasksTypeOK
<1>8. DOMAIN todo = {} /\ \A task \in Writers : DOMAIN left[task] = {}
  BY <1>2
<1>9. RoundsUnderWay'
  BY <1>2, <1>8 DEF RoundsUnderWay
<1>10. Coherent'
  <2> SUFFICES ASSUME NEW t \in Writers PROVE Agree(data', t)
    BY <1>2 DEF Coherent, Agree
  <2>1. Agree(data, t)
    BY <1>1, <1>2 DEF Coherent
  <2>2. WordsOf(t) \subseteq AllWords
    BY OneWriter
  <2> QED
    BY <1>3, <2>1, <2>2 DEF Agree
<1>11. Reported'
  <2> SUFFICES ASSUME NEW word \in AllWords
               PROVE  report'[word] + timer'["reporter_task"] >= ReportDelay
    BY <1>2, <1>8 DEF Reported
  <2>1. report[word] + timer["reporter_task"] >= ReportDelay
    BY <1>1, <1>2 DEF Reported
  <2> QED
    BY <1>3, <1>5, <2>1, Delays
<1>12. Punctual'
  <2> SUFFICES ASSUME NEW t \in created, NEW word \in WordsOf(t) \ spoilt
               PROVE  (Paced(t, word))'
    BY <1>2 DEF Punctual
  <2>1. t \in Writers /\ word \in AllWords
    BY <1>1, OneWriter DEF TasksTypeOK
  <2>2. ~Loaded(word) /\ ~Busy(t) /\ ~(Busy(t))'
    BY <1>2, <2>1 DEF Loaded, Busy
  <2>3. \/ data[word] + TimerOf(t) <= SensorDelay + 1
        \/ timer["reporter_task"] > TimerOf(t)
    BY <1>1, <2>2 DEF Punctual, Paced
  <2>4. TimerOf(t) \in 1 .. 3 /\ (TimerOf(t))' = TimerOf(t) - 1
    <3>1. CASE t = "co2_task"
      BY <1>1, <1>6, <3>1, DelayedAre DEF TimerOf, TasksTypeOK
    <3>2. CASE t # "co2_task"
      BY <1>1, <1>6, <3>2, DelayedAre DEF TimerOf, TasksTypeOK
    <3> QED
      BY <3>1, <3>2
  <2>5. data[word] \in Nat /\ (data'[word] = data[word] + 1 \/ data'[word] = data[word])
    BY <1>3, <2>1, Delays
  <2>6. /\ timer["reporter_task"] \in 0 .. 4
        /\ timer'["reporter_task"] = IF timer["reporter_task"] = 0 THEN 0 ELSE timer["reporter_task"] - 1
    BY <1>5
  <2>7. \/ data'[word] + (TimerOf(t))' <= SensorDelay + 1
        \/ timer'["reporter_task"] > (TimerOf(t))'
    BY <2>3, <2>4, <2>5, <2>6, Delays
  <2> QED
    BY <2>2, <2>7 DEF Paced
<1> QED
  BY <1>7, <1>9, <1>10, <1>11, <1>12 DEF TasksIInv

LEMMA TasksStep == TasksIInv /\ [Next]_vars => TasksIInv'
<1> SUFFICES ASSUME TasksIInv, [Next]_vars PROVE TasksIInv'
  OBVIOUS
<1>1. CASE UNCHANGED vars
  BY <1>1 DEF vars, TasksIInv, TasksTypeOK, Delayed, RoundsUnderWay, Pending, Excused, Loaded,
              Coherent, Agree, Reported, Punctual, Paced, Busy, TimerOf
<1>2. CASE Next
  BY <1>2, ReadTempRhStep, ReadPressureStep, SendDataStep, AnswerStep, ReadUartStep, StoreStep,
     ComposeStep, LoadStep, TickStep DEF Next
<1> QED
  BY <1>1, <1>2

(* In every state, what the tasks have stored and the reporter has loaded   *)
(* fits together as TasksIInv says.                                         *)
THEOREM TasksInvariance == Spec => []TasksIInv
BY TasksInit, TasksStep, PTL DEF Spec

(* OneRound: while the reporter of postWeatherServer loads a word at a time *)
(* and the sensors' tasks store theirs, a request whose writer did not run  *)
(* meanwhile has that writer's values of one round.                         *)
THEOREM RequestsAreOfOneRound == Spec => OneRound
<1>1. ASSUME TasksIInv, Load, todo' = <<>>, NEW task \in Writers \ overlap
      PROVE  Agree(report', task)
  <2>1. TasksTypeOK /\ Coherent
    BY <1>1 DEF TasksIInv
  <2>2. /\ todo # <<>> /\ todo' = Tail(todo)
        /\ report' = [report EXCEPT ![Head(todo)] = data[Head(todo)]]
    BY <1>1 DEF Load
  <2>3. Agree(data, task) /\ \A word \in WordsOf(task) : Loaded(word) => report[word] = data[word]
    BY <2>1, <2>2 DEF Coherent
  <2>4. todo \in Seq(AllWords)
    BY <2>1 DEF TasksTypeOK
  <2>5. Head(todo) \in AllWords /\ Head(todo) = todo[1]
        /\ \A i \in DOMAIN todo : i = 1 \/ i - 1 \in DOMAIN Tail(todo)
    BY <2>2, <2>4, TailOf
  <2>6. DOMAIN Tail(todo) = {}
    BY <1>1, <2>2
  <2>7. \A word : word # Head(todo) => Loaded(word)
    BY <2>2, <2>5, <2>6 DEF Loaded
  <2>8. \A word \in WordsOf(task) : report'[word] = data[word]
    BY <2>1, <2>2, <2>3, <2>5, <2>7, OneWriter DEF TasksTypeOK
  <2> QED
    BY <2>3, <2>8 DEF Agree
<1>2. TasksIInv => [Load /\ todo' = <<>> =>
                     \A task \in Writers \ overlap : Agree(report', task)]_vars
  BY <1>1
<1> QED
  BY <1>2, TasksInvariance, PTL DEF OneRound

(* ReportsMoveOn: the delays of the tasks are such that what reporter_task  *)
(* loads was measured after what it loaded before, unless a reading or an   *)
(* answer failed in between.                                                *)
THEOREM EveryReportIsNewer == Spec => ReportsMoveOn
<1>1. ASSUME TasksIInv, Load
      PROVE  LET word == Head(todo)
             IN  \/ report'[word] < report[word] \/ word \in spoilt
                 \/ \A task \in created : word \notin WordsOf(task)
  <2> DEFINE word == Head(todo)
  <2>1. TasksTypeOK /\ Reported /\ Punctual
    BY <1>1 DEF TasksIInv
  <2>2. todo # <<>> /\ report' = [report EXCEPT ![word] = data[word]]
    BY <1>1 DEF Load
  <2>3. word \in AllWords /\ 1 \in DOMAIN todo /\ word = todo[1]
    BY <2>1, <2>2, TailOf DEF TasksTypeOK
  <2> HIDE DEF word
  <2>4. report[word] >= ReportDelay /\ timer["reporter_task"] = 0 /\ ~Loaded(word)
    BY <2>1, <2>2, <2>3 DEF Reported, Loaded
  <2>5. report'[word] = data[word]
    BY <2>1, <2>2, <2>3 DEF TasksTypeOK
  <2>6. ASSUME NEW task \in created, word \in WordsOf(task), word \notin spoilt
        PROVE  data[word] < report[word]
    <3>1. Paced(task, word)
      BY <2>1, <2>6 DEF Punctual
    <3>2. TimerOf(task) \in 0 .. 3 /\ data[word] \in 0 .. MaxAge /\ report[word] \in 0 .. MaxAge
      BY <2>1, <2>3, Numbers
    <3>3. data[word] <= 3
      BY <2>4, <3>1, <3>2, Delays DEF Paced
    <3> QED
      BY <2>4, <3>2, <3>3, Delays
  <2>7. \/ report'[word] < report[word] \/ word \in spoilt
        \/ \A task \in created : word \notin WordsOf(task)
    BY <2>5, <2>6
  <2> QED
    BY <2>7 DEF word
<1>2. TasksIInv => [Load => LET word == Head(todo)
                            IN  \/ report'[word] < report[word] \/ word \in spoilt
                                \/ \A task \in created : word \notin WordsOf(task)]_vars
  BY <1>1
<1> QED
  BY <1>2, TasksInvariance, PTL DEF ReportsMoveOn

=============================================================================
