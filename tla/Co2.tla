-------------------------------- MODULE Co2 --------------------------------
(***************************************************************************)
(* The CO2 sensor on UART1: co2_read() of lib/co2/co2.c, as app_main calls  *)
(* it once per cycle.                                                       *)
(*                                                                          *)
(* co2_read sends the 9-byte "read gas concentration" command and then      *)
(* loops: uart_read_bytes returns everything received up to the first 100   *)
(* ms of silence; a silent window makes it send the command again; anything *)
(* but exactly nine bytes with command byte 0x86 and a matching checksum is *)
(* thrown away.  Commands carry no sequence number and the UART driver's    *)
(* receive ring buffer survives from one call to the next, so a late answer *)
(* of one call can be read by the next.  The chip may also reset unasked at *)
(* any moment: the sensor knows nothing of it and still answers what the    *)
(* boot before had sent.                                                    *)
(*                                                                          *)
(* The line may also cut an answer: some of its bytes are lost, or come so  *)
(* late that a window ends between the two parts.  The code counts bytes,   *)
(* not answers, so the ring buffer holds pieces with their sizes.           *)
(*                                                                          *)
(* The bytes of an answer are abstracted to what the tests of the loop tell *)
(* apart (Kinds); module Co2Frame has the checksum itself.                  *)
(***************************************************************************)
EXTENDS Naturals, Sequences

CONSTANTS
  Cycles,      \* calls between two restarts (100 in app_main)
  MaxFaults,   \* bound: answers lost, damaged, cut or late, and resets
  Sizes,       \* sizes, in bytes, of the first part of an answer that is cut
  NoReading    \* no call has returned since the boot

ASSUME CyclesAssumption == Cycles \in Nat \ {0}
ASSUME FaultsAssumption == MaxFaults \in Nat
ASSUME SizesAssumption == Sizes \subseteq 1 .. 8
ASSUME NoReadingAssumption == NoReading \notin Nat

VARIABLES
  pc,         \* "idle": outside co2_read; "reading": in its while loop
  call,       \* number of the current, or of the last, call since the boot
  awaited,    \* commands the sensor has not answered yet: of this call, or,
              \* while call is 0, of the boot before
  partial,    \* bytes of the next answer that are received already
  rx,         \* UART driver's receive ring buffer: the pieces not read yet
  bytes,      \* and how many bytes they are
  reading,    \* history: the call whose command the returned value answers,
              \* 0 for one of the boot before
  glued,      \* history: the value was read from pieces of several answers
  opening,    \* history: no read of this call has returned yet
  late,       \* history: calls in which a read returned before an answer came
  lost,       \* history: calls in which the sensor did not answer a command
  before,     \* history: faults of the call before this one
  during,     \* history: faults since the beginning of this call
  faults      \* number of faults so far, at most MaxFaults

link    == <<awaited, partial, rx, bytes>>
history == <<reading, glued, opening, late, lost, before, during, faults>>
vars    == <<pc, call, link, history>>

(* What the last two tests of co2_read tell apart in nine bytes: both pass, *)
(* another command byte, a checksum that does not match.                    *)
Kinds == {"good", "other", "badcrc"}

(* A piece of an answer; nine bytes are all of it. *)
Answer == [call : 0 .. Cycles, size : 1 .. 9, kind : Kinds]

Fault ==
  /\ faults < MaxFaults
  /\ faults' = faults + 1
  /\ during' = during + 1

NoFault == UNCHANGED <<during, faults>>

-----------------------------------------------------------------------------
(* Seeded faults.  An operator whose name ends in _Bug is a wrong version   *)
(* of the definition of the same name that follows it; PROJECT.json says    *)
(* which property notices it.  Nothing in the specification uses them.      *)

(* "rxBytes >= 9". *)
NineBytes_Bug == bytes >= 9

(* "rxBytes == 9", however many pieces they are. *)
NineBytes == bytes = 9

(* The tests of the loop body, before readCO2: what they say of nine bytes  *)
(* that are one answer, and what they may say of several pieces, whose      *)
(* bytes this module does not have.                                         *)
MayPass == NineBytes /\ (Len(rx) = 1 => rx[1].kind = "good")
MayFail == ~ NineBytes \/ Len(rx) > 1 \/ rx[1].kind # "good"

(* A read of the bytes of one answer: what follows stays. *)
TakeAll_Bug == rx' = Tail(rx) /\ bytes' = bytes - rx[1].size

(* uart_read_bytes takes all the bytes there are, up to 1024. *)
TakeAll == rx' = <<>> /\ bytes' = 0

(* A window of 100 ms closes.  It may do so while an answer is still on its *)
(* way, or half received: that is one fault, and the call is remembered in  *)
(* late.                                                                    *)
WindowCloses ==
  /\ opening' = FALSE
  /\ \/ awaited = 0 /\ NoFault /\ UNCHANGED late
     \/ awaited > 0 /\ Fault /\ late' = late \cup {call}

-----------------------------------------------------------------------------
Init ==
  /\ pc = "idle"
  /\ call = 0
  /\ awaited = 0
  /\ partial = 0
  /\ rx = <<>>
  /\ bytes = 0
  /\ reading = NoReading
  /\ glued = FALSE
  /\ opening = FALSE
  /\ late = {}
  /\ lost = {}
  /\ before = 0
  /\ during = 0
  /\ faults = 0

(* app_main calls co2_read, which sends the command.  app_main sleeps 15 s  *)
(* between two calls, 150 windows: by then the sensor has sent what it had  *)
(* to send (awaited = 0), but nobody has read it.                           *)
Call ==
  /\ pc = "idle"
  /\ call < Cycles
  /\ awaited = 0
  /\ pc' = "reading"
  /\ call' = call + 1
  /\ awaited' = 1
  /\ opening' = TRUE
  /\ before' = during
  /\ during' = 0
  /\ UNCHANGED <<partial, rx, bytes, reading, glued, late, lost, faults>>

(* uart_read_bytes returned 0: the command is sent again. *)
ReadSilence ==
  /\ pc = "reading"
  /\ rx = <<>>
  /\ WindowCloses
  /\ awaited' = awaited + 1
  /\ UNCHANGED <<pc, call, partial, rx, bytes, reading, glued, lost, before>>

(* uart_read_bytes returned bytes that one of the tests rejects: they are   *)
(* dropped and the loop reads again, without sending the command.           *)
ReadRejected ==
  /\ pc = "reading"
  /\ rx # <<>>
  /\ MayFail
  /\ WindowCloses
  /\ TakeAll
  /\ UNCHANGED <<pc, call, awaited, partial, reading, glued, lost, before>>

(* uart_read_bytes returned nine bytes that pass the tests: co2_read        *)
(* returns their value, of the answer one of the pieces belongs to.         *)
ReadAccepted ==
  /\ pc = "reading"
  /\ rx # <<>>
  /\ MayPass
  /\ WindowCloses
  /\ TakeAll
  /\ pc' = "idle"
  /\ \E i \in 1 .. Len(rx) : reading' = rx[i].call
  /\ glued' = (rx[1].size < 9)
  /\ UNCHANGED <<call, awaited, partial, lost, before>>

(* Whatever resets the chip, co2_init installs a fresh UART driver. *)
Boot ==
  /\ pc' = "idle"
  /\ call' = 0
  /\ rx' = <<>>
  /\ bytes' = 0
  /\ reading' = NoReading
  /\ glued' = FALSE
  /\ opening' = FALSE
  /\ lost' = {}
  /\ before' = 0

(* esp_restart after the last cycle: the sensor owes nothing. *)
Restart ==
  /\ pc = "idle"
  /\ call = Cycles
  /\ awaited = 0
  /\ Boot
  /\ late' = {}
  /\ during' = 0
  /\ UNCHANGED <<awaited, partial, faults>>

(* A watchdog, a panic or a dip of the supply resets the chip anywhere.  Of *)
(* the answers still to come, those that arrive before co2_init are lost,   *)
(* and one of them perhaps in part.                                         *)
Reset ==
  /\ Fault
  /\ Boot
  /\ awaited' \in 0 .. awaited
  /\ partial' \in {0, partial} \cup Sizes
  /\ awaited' = 0 => partial' = 0
  /\ awaited' = awaited => partial' >= partial
  /\ late' = IF awaited' > 0 THEN {0} ELSE {}

-----------------------------------------------------------------------------
(* Bytes of the sensor's answer to the oldest command reach the ring buffer. *)
Receive(size, kind) ==
  /\ rx' = Append(rx, [call |-> call, size |-> size, kind |-> kind])
  /\ bytes' = bytes + size

(* The second part of an answer follows the first, if that is not read yet. *)
Complete(kind) ==
  /\ rx' = [rx EXCEPT ![Len(rx)] = [call |-> call, size |-> 9, kind |-> kind]]
  /\ bytes' = bytes + (9 - partial)

(* An answer, or what is missing of it, arrives, perhaps damaged. *)
Deliver ==
  /\ awaited > 0
  /\ awaited' = awaited - 1
  /\ partial' = 0
  /\ \/ partial > 0 /\ rx = <<>> /\ Receive(9 - partial, "good") /\ NoFault
     \/ \E kind \in Kinds :
          /\ IF kind = "good" THEN NoFault ELSE Fault
          /\ \/ partial = 0 /\ Receive(9, kind)
             \/ partial > 0 /\ rx # <<>> /\ Complete(kind)
  /\ UNCHANGED <<pc, call, reading, glued, opening, late, lost, before>>

(* Some bytes of an answer arrive.  The others are lost or come later. *)
DeliverPart ==
  /\ awaited > 0
  /\ partial = 0
  /\ Fault
  /\ \E size \in Sizes :
       /\ Receive(size, "good")
       /\ \/ awaited' = awaited - 1 /\ UNCHANGED partial
          \/ partial' = size /\ UNCHANGED awaited
  /\ UNCHANGED <<pc, call, reading, glued, opening, late, lost, before>>

(* A command, the answer to it, or the rest of the answer is lost. *)
Lose ==
  /\ awaited > 0
  /\ Fault
  /\ awaited' = awaited - 1
  /\ partial' = 0
  /\ lost' = lost \cup {call}
  /\ UNCHANGED <<pc, call, rx, bytes, reading, glued, opening, late, before>>

Task == Call \/ ReadSilence \/ ReadRejected \/ ReadAccepted \/ Restart

Next == Task \/ Reset \/ Deliver \/ DeliverPart \/ Lose

Spec == Init /\ [][Next]_vars

(* The main task is scheduled; every command not lost is answered. *)
FairSpec == Spec /\ WF_vars(Task) /\ WF_vars(Deliver)

-----------------------------------------------------------------------------
(* Every variable stays in its domain. *)
TypeOK ==
  /\ pc \in {"idle", "reading"}
  /\ call \in 0 .. Cycles
  /\ awaited \in Nat
  /\ partial \in 0 .. 8
  /\ rx \in Seq(Answer)
  /\ bytes \in Nat
  /\ reading \in {NoReading} \cup (0 .. Cycles)
  /\ glued \in BOOLEAN
  /\ opening \in BOOLEAN
  /\ late \subseteq 0 .. Cycles
  /\ lost \subseteq 0 .. Cycles
  /\ before \in Nat
  /\ during \in Nat
  /\ faults \in 0 .. MaxFaults

(* The test for nine bytes lets a value through that no answer carries      *)
(* whole only when pieces of several answers happen to add up: an answer    *)
(* cut, left unread by the call before or not in time in this one, and the  *)
(* next one cut to match.  These are three faults in two successive calls,  *)
(* or two when the first one is a reset in the middle of an answer.         *)
GluedNeedsThreeFaults ==
  pc = "idle" /\ glued =>
    before + during >= IF call = 1 /\ 0 \in late THEN 2 ELSE 3

(* A returned value was measured for this call or for the previous one, the *)
(* last of the boot before included: what a late answer leaves in the ring  *)
(* buffer never lives longer.                                               *)
AtMostOneCallOld ==
  pc = "idle" /\ reading # NoReading => reading \in {call - 1, call}

(* Discarding every window that does not hold exactly nine bytes is what    *)
(* keeps a leftover answer from being taken for a fresh one: a whole answer *)
(* that is stale needs one that missed its window in the previous call, or  *)
(* that a reset left unread, and, in this call, one late again or lost.     *)
StaleNeedsTwoMisses ==
  pc = "idle" /\ reading # NoReading /\ reading # call /\ ~ glued
    => call - 1 \in late /\ call \in late \cup lost

(* What the ring buffer may hold.  An answer to an earlier call is in it    *)
(* only until the first read of the next call, and only if that earlier     *)
(* call gave up waiting for it.                                             *)
Leftovers ==
  \A i \in 1 .. Len(rx) :
    \/ rx[i].call = call
    \/ /\ pc = "reading" /\ opening
       /\ rx[i].call = call - 1
       /\ rx[i].call \in late

(* Answers still unread, or on their way, after a call are late ones. *)
UnreadAreLate == pc = "idle" /\ (rx # <<>> \/ awaited > 0) => call \in late

(* Until its first read returns, a call's own answer is on its way, in the  *)
(* ring buffer, or lost.                                                    *)
AnswerAccounted ==
  pc = "reading" /\ opening =>
    \/ awaited > 0
    \/ \E i \in 1 .. Len(rx) : rx[i].call = call
    \/ call \in lost

(* The count of bytes is that of the pieces, as far as the test for nine    *)
(* depends on it, and the first part of an answer is the last piece.        *)
ByteCount ==
  /\ rx = <<>> => bytes = 0
  /\ Len(rx) = 1 => bytes = rx[1].size
  /\ Len(rx) >= 2 => bytes >= rx[1].size + rx[2].size
  /\ partial > 0 => awaited > 0
  /\ partial > 0 /\ rx # <<>> =>
       rx[Len(rx)] = [call |-> call, size |-> partial, kind |-> "good"]
  /\ opening => pc = "reading" /\ (partial > 0 => rx # <<>>)

(* Answers on their way or unread; one that is both counts once. *)
Unread ==
  awaited + Len(rx) - (IF partial > 0 /\ rx # <<>> THEN 1 ELSE 0)

(* The faults that can have left what the first read of a call finds. *)
Counted == IF opening THEN before + during ELSE during

Cut(i) == i <= Len(rx) /\ rx[i].size < 9

(* What an answer that is unread, cut, or both has cost in faults; a reset  *)
(* can be both in one.                                                      *)
FaultsAccounted ==
  /\ Unread >= 2 => Counted >= 1
  /\ pc = "idle" /\ (rx # <<>> \/ awaited > 0) => during >= 1
  /\ partial > 0 => during >= 1
  /\ partial > 0 /\ rx = <<>> => during >= IF call = 0 THEN 1 ELSE 2
  /\ pc = "idle" /\ Cut(1) => during >= IF rx[1].call = 0 THEN 1 ELSE 2
  /\ Cut(1) /\ Unread >= 2 => Counted >= IF rx[1].call = 0 THEN 1 ELSE 2
  /\ Cut(1) /\ Cut(2) => Counted >= IF rx[1].call = 0 THEN 2 ELSE 3

(* The inductive invariant behind the safety properties above (Co2Proofs). *)
IInv ==
  /\ TypeOK
  /\ pc = "reading" => call > 0
  /\ Leftovers
  /\ UnreadAreLate
  /\ AnswerAccounted
  /\ ByteCount
  /\ FaultsAccounted
  /\ AtMostOneCallOld
  /\ StaleNeedsTwoMisses
  /\ GluedNeedsThreeFaults

Meter == INSTANCE Co2Meter WITH owed <- late \cap {0}

(* co2_read keeps the promise of Co2Meter: a reset lets one answer of the   *)
(* boot before through, and only to the first call; and every call returns, *)
(* no pattern of silence, doubled answers and rejected bytes keeps the loop *)
(* of co2_read going once the faults are over.                              *)
ImplementsMeter == Meter!FairSpec

=============================================================================
