----------------------------- MODULE Co2Proofs -----------------------------
(***************************************************************************)
(* Proofs about module Co2, for every number of cycles and of faults.  IInv *)
(* is inductive: the ring buffer's discipline (Leftovers), the accounting   *)
(* of this call's answer (AnswerAccounted) and of unread ones               *)
(* (UnreadAreLate) carry the two statements about the age of a reading; the *)
(* count of bytes (ByteCount) and of the faults behind an unread or cut     *)
(* answer (FaultsAccounted) the one about values read from several answers. *)
(*                                                                          *)
(* Then about module Co2Frame, the bytes of an answer, for all byte values  *)
(* and any number of damaged bytes.                                         *)
(***************************************************************************)
EXTENDS Co2, Co2Frame, FiniteSetTheorems, TLAPS

(* A ring buffer has no piece, one, or two and more. *)
LEMMA NoneOneMore ==
  ASSUME NEW n \in Nat
  PROVE  /\ n = 0 \/ n = 1 \/ n >= 2
         /\ n = 0 => ~ (1 <= n)
         /\ n + 0 - 0 = n
  OBVIOUS

(* Counts of faults only grow. *)
LEMMA StillEnough ==
  ASSUME NEW a \in Nat, NEW b \in Nat, NEW c \in Nat, NEW n \in Nat,
         c >= b, a + b >= n
  PROVE  a + c >= n
  OBVIOUS

(* More than enough is enough. *)
LEMMA MoreThanEnough ==
  ASSUME NEW a \in Nat, NEW b \in Nat, NEW m \in Nat, NEW n \in Nat,
         a + b >= m, m >= n
  PROVE  a + b >= n
  OBVIOUS

(* A window closes only inside a call; it keeps late, faults and opening in *)
(* their domains, forgets no late call, and costs a fault when an answer is *)
(* on its way.                                                              *)
LEMMA WindowType ==
  ASSUME TypeOK, pc = "reading" => call > 0, pc = "reading", WindowCloses
  PROVE  /\ call \in 1 .. Cycles
         /\ opening' = FALSE
         /\ late \subseteq late'
         /\ late' \subseteq 0 .. Cycles
         /\ late' \ late \subseteq {call}
         /\ faults' \in 0 .. MaxFaults
         /\ during' \in Nat /\ during' >= during
         /\ awaited > 0 => call \in late' /\ during' = during + 1
<1> USE CyclesAssumption, FaultsAssumption
<1>1. call \in 1 .. Cycles
  BY DEF TypeOK
<1>2. CASE awaited = 0 /\ NoFault /\ late' = late
  BY <1>1, <1>2 DEF TypeOK, WindowCloses, NoFault
<1>3. CASE awaited > 0 /\ Fault /\ late' = late \cup {call}
  <2>1. faults' \in 0 .. MaxFaults
    BY <1>3 DEF TypeOK, Fault
  <2> QED
    BY <1>1, <1>3, <2>1 DEF TypeOK, WindowCloses, Fault
<1> QED
  BY <1>2, <1>3 DEF WindowCloses

(* A fault, or none, keeps the counts in their domains. *)
LEMMA FaultType ==
  ASSUME TypeOK, Fault \/ NoFault
  PROVE  /\ faults' \in 0 .. MaxFaults
         /\ during' \in Nat /\ during' >= during
         /\ Fault => during' = during + 1
  BY FaultsAssumption DEF TypeOK, Fault, NoFault

(* What a received piece adds to the ring buffer. *)
LEMMA Received ==
  ASSUME TypeOK, NEW size \in 1 .. 9, NEW kind \in Kinds, Receive(size, kind)
  PROVE  /\ rx' \in Seq(Answer) /\ rx' # <<>>
         /\ Len(rx') = Len(rx) + 1
         /\ \A i \in 1 .. Len(rx) : rx'[i] = rx[i]
         /\ rx'[Len(rx) + 1] = [call |-> call, size |-> size, kind |-> kind]
         /\ bytes' \in Nat /\ bytes' = bytes + size
<1> DEFINE piece == [call |-> call, size |-> size, kind |-> kind]
<1>1. piece \in Answer
  BY DEF Answer, TypeOK
<1>2. rx' = Append(rx, piece) /\ rx \in Seq(Answer)
  BY DEF Receive, TypeOK
<1> HIDE DEF piece
<1>3. /\ rx' \in Seq(Answer) /\ Len(rx') = Len(rx) + 1
      /\ \A i \in 1 .. Len(rx) : rx'[i] = rx[i]
      /\ rx'[Len(rx) + 1] = piece
  BY <1>1, <1>2
<1>4. rx' # <<>>
  BY <1>2, <1>3
<1>5. bytes' \in Nat /\ bytes' = bytes + size
  BY DEF Receive, TypeOK
<1> QED
  BY <1>3, <1>4, <1>5 DEF piece

(* What the rest of an answer makes of the ring buffer's last piece. *)
LEMMA Completed ==
  ASSUME TypeOK, ByteCount, partial > 0, rx # <<>>,
         NEW kind \in Kinds, Complete(kind)
  PROVE  /\ rx' \in Seq(Answer) /\ rx' # <<>>
         /\ Len(rx') = Len(rx) /\ Len(rx) \in Nat \ {0}
         /\ \A i \in 1 .. Len(rx) : i < Len(rx) => rx'[i] = rx[i]
         /\ \A i \in 1 .. Len(rx) : rx'[i].call = rx[i].call
         /\ rx[Len(rx)] = [call |-> call, size |-> partial, kind |-> "good"]
         /\ rx'[Len(rx)] = [call |-> call, size |-> 9, kind |-> kind]
         /\ bytes' \in Nat /\ bytes' = bytes + (9 - partial)
<1> DEFINE piece == [call |-> call, size |-> 9, kind |-> kind]
           old   == [call |-> call, size |-> partial, kind |-> "good"]
<1>1. piece \in Answer /\ piece.call = call /\ old.call = call
  BY DEF Answer, TypeOK
<1>2. rx \in Seq(Answer) /\ Len(rx) \in Nat \ {0} /\ rx[Len(rx)] = old
  BY DEF TypeOK, ByteCount
<1>3. rx' = [rx EXCEPT ![Len(rx)] = piece]
  BY DEF Complete
<1> HIDE DEF piece, old
<1>4. /\ rx' \in Seq(Answer) /\ Len(rx') = Len(rx)
      /\ \A i \in 1 .. Len(rx) : i < Len(rx) => rx'[i] = rx[i]
      /\ rx'[Len(rx)] = piece
  BY <1>1, <1>2, <1>3
<1>5. rx' # <<>>
  BY <1>2, <1>4
<1>6. \A i \in 1 .. Len(rx) : rx'[i].call = rx[i].call
  BY <1>1, <1>2, <1>4
<1>7. bytes' \in Nat /\ bytes' = bytes + (9 - partial)
  BY DEF Complete, TypeOK
<1> QED
  BY <1>2, <1>4, <1>5, <1>6, <1>7 DEF piece, old

(* The sizes of the pieces are numbers. *)
LEMMA Pieces ==
  ASSUME TypeOK
  PROVE  /\ Len(rx) \in Nat
         /\ \A i \in 1 .. Len(rx) : /\ rx[i].size \in 1 .. 9
                                    /\ rx[i].call \in 0 .. Cycles
                                    /\ rx[i].kind \in Kinds
<1>1. rx \in Seq(Answer)
  BY DEF TypeOK
<1>2. Len(rx) \in Nat /\ \A i \in 1 .. Len(rx) : rx[i] \in Answer
  BY <1>1
<1>3. \A a \in Answer : a.size \in 1 .. 9 /\ a.call \in 0 .. Cycles /\ a.kind \in Kinds
  BY DEF Answer
<1> QED
  BY <1>2, <1>3

(* The sum of the first two pieces, after one more. *)
LEMMA Appending ==
  ASSUME TypeOK, ByteCount, rx' \in Seq(Answer), Len(rx') = Len(rx) + 1,
         \A i \in 1 .. Len(rx) : rx'[i] = rx[i],
         NEW size \in 1 .. 9, rx'[Len(rx) + 1].size = size, bytes' = bytes + size
  PROVE  /\ rx' # <<>>
         /\ Len(rx') = 1 => bytes' = rx'[1].size
         /\ Len(rx') >= 2 => bytes' >= rx'[1].size + rx'[2].size
<1>1. Len(rx) \in Nat /\ rx' # <<>> /\ bytes \in Nat
  BY DEF TypeOK
<1>2. CASE Len(rx) = 0
  <2>1. rx = <<>>
    BY <1>2 DEF TypeOK
  <2> QED
    BY <1>1, <1>2, <2>1 DEF ByteCount
<1>3. CASE Len(rx) = 1
  BY <1>1, <1>3, Pieces DEF ByteCount
<1>4. CASE Len(rx) >= 2
  <2>1. rx'[1] = rx[1] /\ rx'[2] = rx[2] /\ rx[1].size \in Nat /\ rx[2].size \in Nat
    BY <1>1, <1>4, Pieces
  <2> QED
    BY <1>1, <1>4, <2>1 DEF ByteCount
<1>5. Len(rx) = 0 \/ Len(rx) = 1 \/ Len(rx) >= 2
  BY <1>1, NoneOneMore
<1> QED
  BY <1>2, <1>3, <1>4, <1>5

(* The boot state satisfies the inductive invariant. *)
LEMMA InitIInv == Init => IInv
<1> SUFFICES ASSUME Init PROVE IInv
  OBVIOUS
<1>1. glued \in BOOLEAN /\ opening \in BOOLEAN
  BY DEF Init
<1>2. TypeOK
  BY <1>1, CyclesAssumption, FaultsAssumption DEF Init, TypeOK
<1>3. ByteCount /\ FaultsAccounted
  BY DEF Init, ByteCount, FaultsAccounted, Unread, Cut
<1> QED
  BY <1>2, <1>3
  DEF Init, IInv, Leftovers, UnreadAreLate, AnswerAccounted,
      AtMostOneCallOld, StaleNeedsTwoMisses, GluedNeedsThreeFaults

(* What the steps of a call that does not return leave. *)
LEMMA StillReading ==
  ASSUME IInv, pc = "reading", WindowCloses, rx' = <<>>, bytes' = 0,
         awaited' = awaited \/ (rx = <<>> /\ awaited' = awaited + 1),
         UNCHANGED <<pc, call, partial, reading, glued, lost, before>>
  PROVE  IInv'
<1> USE CyclesAssumption, FaultsAssumption
<1>1. /\ call \in 1 .. Cycles /\ opening' = FALSE
      /\ late' \subseteq 0 .. Cycles /\ faults' \in 0 .. MaxFaults
      /\ during' \in Nat /\ during' >= during
      /\ awaited > 0 => during' = during + 1
  BY WindowType DEF IInv
<1>2. opening' \in BOOLEAN
  BY <1>1
<1>3. TypeOK'
  BY <1>1, <1>2 DEF IInv, TypeOK
<1>4. ByteCount'
  BY <1>1 DEF IInv, TypeOK, ByteCount
<1>5. FaultsAccounted'
  <2>1. ~ Cut(1)' /\ Unread' = awaited' /\ Counted' = during'
    <3>1. Len(rx') = 0 /\ awaited' \in Nat
      BY <1>3 DEF TypeOK
    <3>2. ~ Cut(1)'
      BY <3>1, NoneOneMore DEF Cut
    <3>3. Unread' = awaited'
      <4> DEFINE both == IF partial' > 0 /\ rx' # <<>> THEN 1 ELSE 0
      <4>1. Unread' = awaited' + Len(rx') - both
        BY DEF Unread
      <4>2. both = 0
        OBVIOUS
      <4> HIDE DEF both
      <4>3. awaited' + 0 - 0 = awaited'
        BY <3>1, NoneOneMore
      <4> QED
        BY <3>1, <4>1, <4>2, <4>3
    <3>4. Counted' = during'
      BY <1>1 DEF Counted
    <3> QED
      BY <3>2, <3>3, <3>4
  <2>2. awaited' >= 2 => during' >= 1
    BY <1>1 DEF IInv, TypeOK
  <2>3. partial' > 0 => during' >= 2
    BY <1>1 DEF IInv, TypeOK, ByteCount, FaultsAccounted
  <2> QED
    BY <1>1, <2>1, <2>2, <2>3 DEF FaultsAccounted
<1> QED
  BY <1>1, <1>3, <1>4, <1>5
  DEF IInv, Leftovers, UnreadAreLate, AnswerAccounted,
      AtMostOneCallOld, StaleNeedsTwoMisses, GluedNeedsThreeFaults

(* What the sensor, or the line, does to the counts: pieces are added at    *)
(* the end of the ring buffer or the last one completed, and nothing else   *)
(* of co2_read's state changes.                                             *)
LEMMA Arrival ==
  ASSUME IInv, awaited > 0, Fault \/ NoFault,
         rx' \in Seq(Answer), bytes' \in Nat, partial' \in 0 .. 8,
         \/ awaited' = awaited - 1
         \/ awaited' = awaited /\ rx' # <<>>,
         UNCHANGED <<pc, call, reading, glued, opening, late, before>>,
         lost \subseteq lost', lost' \subseteq 0 .. Cycles,
         awaited' = awaited - 1 =>
           call \in lost' \/ \E i \in 1 .. Len(rx') : rx'[i].call = call,
         \A i \in 1 .. Len(rx') :
           \/ rx'[i].call = call
           \/ i \in 1 .. Len(rx) /\ rx'[i].call = rx[i].call,
         \A i \in 1 .. Len(rx) : i \in 1 .. Len(rx') /\ rx'[i].call = rx[i].call,
         ByteCount', FaultsAccounted'
  PROVE  IInv'
<1>1. /\ faults' \in 0 .. MaxFaults /\ during' \in Nat /\ during' >= during
  BY FaultType DEF IInv
<1>2. TypeOK'
  BY <1>1 DEF IInv, TypeOK
<1>3. Leftovers'
  BY DEF IInv, Leftovers
<1>4. AnswerAccounted'
  <2> SUFFICES ASSUME pc = "reading", opening
               PROVE  \/ awaited' > 0
                      \/ \E i \in 1 .. Len(rx') : rx'[i].call = call
                      \/ call \in lost'
    BY DEF AnswerAccounted
  <2> QED
    BY DEF IInv, TypeOK
<1>5. UnreadAreLate'
  BY DEF IInv, UnreadAreLate
<1>6. GluedNeedsThreeFaults'
  <2>1. /\ before \in Nat /\ during \in Nat /\ during' \in Nat /\ during' >= during
        /\ before' = before /\ pc' = pc /\ glued' = glued
    BY <1>1 DEF IInv, TypeOK
  <2> DEFINE enough == IF call = 1 /\ 0 \in late THEN 2 ELSE 3
  <2>2. enough \in Nat /\ (pc = "idle" /\ glued => before + during >= enough)
    BY DEF IInv, GluedNeedsThreeFaults
  <2>3. enough = IF call' = 1 /\ 0 \in late' THEN 2 ELSE 3
    OBVIOUS
  <2> HIDE DEF enough
  <2>4. pc' = "idle" /\ glued' => before' + during' >= enough
    <3>1. pc = "idle" /\ glued => before + during' >= enough
      BY <2>1, <2>2, StillEnough
    <3> QED
      BY <2>1, <3>1
  <2> QED
    BY <2>3, <2>4 DEF GluedNeedsThreeFaults
<1>7. StaleNeedsTwoMisses' /\ AtMostOneCallOld'
  BY DEF IInv, StaleNeedsTwoMisses, AtMostOneCallOld
<1> QED
  BY <1>2, <1>3, <1>4, <1>5, <1>6, <1>7 DEF IInv

(* Every step of the task, the sensor and the line preserves it. *)
LEMMA StepIInv == IInv /\ [Next]_vars => IInv'
<1> SUFFICES ASSUME IInv, [Next]_vars PROVE IInv'
  OBVIOUS
<1> USE CyclesAssumption, FaultsAssumption, NoReadingAssumption, SizesAssumption
<1>0. TypeOK /\ ByteCount /\ FaultsAccounted /\ Leftovers
  BY DEF IInv
<1>1. CASE Call
  <2>1. /\ pc = "idle" /\ pc' = "reading" /\ call' = call + 1 /\ awaited = 0
        /\ awaited' = 1 /\ opening' /\ before' = during /\ during' = 0
        /\ rx' = rx /\ bytes' = bytes /\ partial' = partial
        /\ ~ opening /\ partial = 0
    BY <1>0, <1>1 DEF Call, TypeOK, ByteCount
  <2>2. opening' \in BOOLEAN
    BY <1>1 DEF Call
  <2>3. TypeOK'
    BY <1>0, <1>1, <2>2 DEF Call, TypeOK
  <2>4. ByteCount'
    BY <1>0, <2>1 DEF ByteCount
  <2>5. /\ Counted' = during /\ Counted = during /\ during \in Nat
        /\ Unread' = 1 + Len(rx) /\ Len(rx) \in Nat
        /\ Len(rx) >= 1 => rx # <<>>
    BY <1>0, <2>1, Pieces DEF Counted, Unread, TypeOK
  <2>6. (Cut(1) <=> Cut(1)') /\ (Cut(2) <=> Cut(2)')
    BY <2>1 DEF Cut
  <2>7. FaultsAccounted'
    BY <1>0, <2>1, <2>5, <2>6 DEF FaultsAccounted
  <2> QED
    BY <1>1, <2>1, <2>3, <2>4, <2>7
    DEF Call, IInv, TypeOK, Leftovers, UnreadAreLate, AnswerAccounted,
        AtMostOneCallOld, StaleNeedsTwoMisses, GluedNeedsThreeFaults
<1>2. CASE ReadSilence
  BY <1>0, <1>2, StillReading DEF ReadSilence, ByteCount
<1>3. CASE ReadRejected
  BY <1>3, StillReading DEF ReadRejected, TakeAll
<1>4. CASE ReadAccepted
  <2>1. /\ call \in 1 .. Cycles
        /\ opening' = FALSE
        /\ late \subseteq late'
        /\ late' \subseteq 0 .. Cycles
        /\ faults' \in 0 .. MaxFaults
        /\ during' \in Nat /\ during' >= during
        /\ awaited > 0 => call \in late' /\ during' = during + 1
    BY <1>4, WindowType DEF ReadAccepted, IInv
  <2>2. /\ pc = "reading" /\ pc' = "idle" /\ rx # <<>> /\ bytes = 9
        /\ call' = call /\ awaited' = awaited /\ lost' = lost
        /\ partial' = partial /\ before' = before
        /\ rx' = <<>> /\ bytes' = 0
    BY <1>4 DEF ReadAccepted, TakeAll, MayPass, NineBytes
  <2>3. PICK i \in 1 .. Len(rx) : reading' = rx[i].call
    BY <1>4 DEF ReadAccepted
  <2>4. rx[i].call \in 0 .. Cycles /\ Len(rx) \in Nat \ {0}
    <3>1. rx[i].call \in 0 .. Cycles /\ Len(rx) \in Nat
      BY <1>0, Pieces
    <3>2. Len(rx) # 0
      BY <1>0, <2>2 DEF TypeOK
    <3> QED
      BY <3>1, <3>2
  <2>5. opening' \in BOOLEAN /\ glued' \in BOOLEAN
    <3>1. opening' = FALSE /\ glued' = (rx[1].size < 9)
      BY <1>4, <2>1 DEF ReadAccepted
    <3>2. glued' = TRUE \/ glued' = FALSE
      BY <3>1
    <3> QED
      BY <3>1, <3>2
  <2>6. TypeOK'
    BY <1>0, <2>1, <2>2, <2>3, <2>4, <2>5 DEF TypeOK
  <2>7. \/ rx[i].call = call
        \/ /\ opening
           /\ rx[i].call = call - 1
           /\ rx[i].call \in late
    BY <1>0, <2>3 DEF Leftovers
  <2>8. AtMostOneCallOld'
    BY <2>2, <2>3, <2>7 DEF AtMostOneCallOld
  <2>9. Len(rx) >= 2 => Cut(1) /\ Cut(2)
    <3>1. ASSUME Len(rx) >= 2
          PROVE  rx[1].size \in 1 .. 9 /\ rx[2].size \in 1 .. 9
      BY <1>0, <3>1, Pieces
    <3> QED
      BY <1>0, <2>2, <2>4, <3>1 DEF ByteCount, Cut
  <2>10. Len(rx) = 1 => rx[1].size = 9
    BY <1>0, <2>2 DEF ByteCount
  <2>11. GluedNeedsThreeFaults'
    <3> SUFFICES ASSUME glued'
                 PROVE  before' + during' >= IF call' = 1 /\ 0 \in late' THEN 2 ELSE 3
      BY DEF GluedNeedsThreeFaults
    <3>1. rx[1].size < 9
      BY <1>4 DEF ReadAccepted
    <3>2. Len(rx) >= 2
      <4>1. Len(rx) # 1
        BY <2>10, <3>1
      <4> QED
        BY <2>4, <4>1, NoneOneMore
    <3>3. Counted >= IF rx[1].call = 0 THEN 2 ELSE 3
      BY <1>0, <2>9, <3>2 DEF FaultsAccounted
    <3>4. rx[1].call = 0 => call = 1 /\ 0 \in late
      <4>1. \/ rx[1].call = call
            \/ rx[1].call = call - 1 /\ rx[1].call \in late
        BY <1>0, <2>4 DEF Leftovers
      <4> QED
        BY <2>1, <4>1
    <3>5. before \in Nat /\ during \in Nat /\ during' \in Nat /\ during' >= during
      BY <1>0, <2>1 DEF TypeOK
    <3> DEFINE enough == IF rx[1].call = 0 THEN 2 ELSE 3
    <3>6. enough \in Nat /\ Counted >= enough
      BY <3>3
    <3>7. enough >= IF call' = 1 /\ 0 \in late' THEN 2 ELSE 3
      BY <2>1, <2>2, <3>4
    <3> HIDE DEF enough
    <3>8. before + during >= enough
      <4>1. CASE opening
        BY <3>6, <4>1 DEF Counted
      <4>2. CASE ~ opening
        <5>1. during >= enough
          BY <3>6, <4>2 DEF Counted
        <5> QED
          BY <3>5, <3>6, <5>1
      <4> QED
        BY <4>1, <4>2
    <3>9. before' + during' >= enough
      BY <2>2, <3>5, <3>6, <3>8, StillEnough
    <3> QED
      <4> DEFINE needed == IF call' = 1 /\ 0 \in late' THEN 2 ELSE 3
      <4>1. needed \in Nat /\ enough >= needed
        BY <3>7
      <4>2. before' \in Nat
        BY <2>2, <3>5
      <4> HIDE DEF needed
      <4>3. before' + during' >= needed
        BY <3>5, <3>6, <3>9, <4>1, <4>2, MoreThanEnough
      <4> QED
        BY <4>3 DEF needed
  <2>12. StaleNeedsTwoMisses'
    <3>1. SUFFICES ASSUME rx[i].call # call, ~ glued'
                   PROVE  call - 1 \in late' /\ call \in late' \cup lost
      BY <2>2, <2>3 DEF StaleNeedsTwoMisses
    <3>2. opening /\ call - 1 \in late
      BY <2>7, <3>1
    <3>3. ~ (rx[1].size < 9)
      BY <1>4, <3>1 DEF ReadAccepted
    <3>4. Len(rx) = 1
      <4>1. ~ (Len(rx) >= 2)
        BY <2>9, <3>3 DEF Cut
      <4> QED
        BY <2>4, <4>1, NoneOneMore
    <3>5. awaited > 0 \/ call \in lost
      BY <2>2, <2>3, <3>1, <3>2, <3>4 DEF IInv, AnswerAccounted
    <3> QED
      BY <2>1, <3>2, <3>5
  <2>13. ByteCount'
    BY <1>0, <2>1, <2>2 DEF ByteCount
  <2>14. FaultsAccounted'
    <3>1. ~ Cut(1)' /\ Unread' = awaited /\ Counted' = during' /\ awaited \in Nat
      BY <1>0, <2>1, <2>2 DEF Cut, Unread, Counted, TypeOK
    <3>2. awaited > 0 => during' >= 1
      BY <1>0, <2>1 DEF TypeOK
    <3>3. partial > 0 => during' >= 2
      BY <1>0, <2>1 DEF TypeOK, ByteCount, FaultsAccounted
    <3> QED
      BY <2>1, <2>2, <3>1, <3>2, <3>3 DEF FaultsAccounted
  <2>15. Leftovers' /\ UnreadAreLate' /\ AnswerAccounted'
    BY <1>0, <2>1, <2>2
    DEF TypeOK, Leftovers, UnreadAreLate, AnswerAccounted
  <2> QED
    BY <2>2, <2>6, <2>8, <2>11, <2>12, <2>13, <2>14, <2>15 DEF IInv
<1>5. CASE Restart
  <2>1. /\ pc' = "idle" /\ call' = 0 /\ rx' = <<>> /\ bytes' = 0 /\ awaited = 0
        /\ awaited' = 0 /\ partial' = partial /\ partial = 0
        /\ reading' = NoReading /\ late' = {} /\ lost' = {}
        /\ before' = 0 /\ during' = 0 /\ faults' = faults
    BY <1>0, <1>5 DEF Restart, Boot, ByteCount, TypeOK
  <2>2. glued' \in BOOLEAN /\ opening' \in BOOLEAN /\ ~ glued' /\ ~ opening'
    BY <1>5 DEF Restart, Boot
  <2>3. TypeOK'
    BY <1>0, <2>1, <2>2 DEF TypeOK
  <2>4. ByteCount' /\ FaultsAccounted'
    BY <2>1, <2>2 DEF ByteCount, FaultsAccounted, Unread, Cut
  <2> QED
    BY <2>1, <2>2, <2>3, <2>4
    DEF IInv, Leftovers, UnreadAreLate, AnswerAccounted,
        AtMostOneCallOld, StaleNeedsTwoMisses, GluedNeedsThreeFaults
<1>6. CASE Reset
  <2>1. /\ pc' = "idle" /\ call' = 0 /\ rx' = <<>> /\ bytes' = 0
        /\ reading' = NoReading /\ lost' = {} /\ before' = 0
        /\ late' = IF awaited' > 0 THEN {0} ELSE {}
        /\ awaited' = 0 => partial' = 0
    BY <1>6 DEF Reset, Boot
  <2>2. glued' \in BOOLEAN /\ opening' \in BOOLEAN /\ ~ glued' /\ ~ opening'
    BY <1>6 DEF Reset, Boot
  <2>3. faults' \in 0 .. MaxFaults /\ during' \in Nat /\ during' >= 1
    BY <1>0, <1>6, FaultType DEF Reset, TypeOK
  <2>4. awaited' \in Nat /\ partial' \in 0 .. 8
    BY <1>0, <1>6 DEF Reset, TypeOK
  <2>5. TypeOK'
    BY <2>1, <2>2, <2>3, <2>4 DEF TypeOK
  <2>6. ByteCount'
    BY <2>1, <2>2, <2>4 DEF ByteCount
  <2>7. FaultsAccounted'
    BY <2>1, <2>2, <2>3 DEF FaultsAccounted, Unread, Counted, Cut
  <2> QED
    BY <2>1, <2>2, <2>5, <2>6, <2>7
    DEF IInv, Leftovers, UnreadAreLate, AnswerAccounted,
        AtMostOneCallOld, StaleNeedsTwoMisses, GluedNeedsThreeFaults
<1>7. CASE Deliver
  <2>1. /\ awaited > 0 /\ awaited \in Nat /\ awaited' = awaited - 1 /\ partial' = 0
        /\ UNCHANGED <<pc, call, reading, glued, opening, late, before>>
        /\ lost' = lost
    BY <1>0, <1>7 DEF Deliver, TypeOK
  <2>2. Fault \/ NoFault
    BY <1>7 DEF Deliver
  <2>3. /\ during' \in Nat /\ during' >= during /\ during \in Nat /\ before \in Nat
        /\ Counted' >= Counted /\ Counted \in Nat /\ Counted' \in Nat
    BY <1>0, <2>1, <2>2, FaultType DEF TypeOK, Counted
  <2>4. Len(rx) \in Nat /\ (rx # <<>> => Len(rx) > 0) /\ (rx = <<>> => Len(rx) = 0)
    BY <1>0 DEF TypeOK
  <2>5. CASE partial > 0 /\ rx # <<>>
    <3>1. PICK kind \in Kinds : Complete(kind)
      BY <1>7, <2>5 DEF Deliver
    <3>2. /\ rx' \in Seq(Answer) /\ rx' # <<>>
          /\ Len(rx') = Len(rx) /\ Len(rx) \in Nat \ {0}
          /\ \A i \in 1 .. Len(rx) : i < Len(rx) => rx'[i] = rx[i]
          /\ \A i \in 1 .. Len(rx) : rx'[i].call = rx[i].call
          /\ rx[Len(rx)] = [call |-> call, size |-> partial, kind |-> "good"]
          /\ rx'[Len(rx)] = [call |-> call, size |-> 9, kind |-> kind]
          /\ bytes' \in Nat /\ bytes' = bytes + (9 - partial)
      BY <1>0, <2>5, <3>1, Completed
    <3>3. rx'[Len(rx)].call = call /\ rx'[Len(rx)].size = 9 /\ rx[Len(rx)].size = partial
      BY <3>2
    <3>4. ByteCount'
      <4>1. Len(rx) = 1 => bytes' = rx'[1].size
        BY <1>0, <3>2, <3>3 DEF ByteCount, TypeOK
      <4>2. Len(rx) = 2 => bytes' >= rx'[1].size + rx'[2].size
        <5> SUFFICES ASSUME Len(rx) = 2 PROVE bytes' >= rx'[1].size + rx'[2].size
          OBVIOUS
        <5>1. rx'[1].size = rx[1].size /\ rx'[2].size = 9 /\ rx[2].size = partial
          BY <3>2, <3>3
        <5>2. bytes >= rx[1].size + rx[2].size /\ rx[1].size \in Nat
          BY <1>0, Pieces DEF ByteCount
        <5>3. bytes \in Nat /\ partial \in Nat /\ bytes' = bytes + (9 - partial)
          BY <1>0, <3>2 DEF TypeOK
        <5> QED
          BY <5>1, <5>2, <5>3
      <4>3. Len(rx) > 2 => bytes' >= rx'[1].size + rx'[2].size
        <5> SUFFICES ASSUME Len(rx) > 2 PROVE bytes' >= rx'[1].size + rx'[2].size
          OBVIOUS
        <5>1. rx'[1].size = rx[1].size /\ rx'[2].size = rx[2].size
          BY <3>2
        <5>2. rx[1].size \in Nat /\ rx[2].size \in Nat
          BY <1>0, Pieces
        <5>3. bytes >= rx[1].size + rx[2].size
          BY <1>0 DEF ByteCount
        <5>4. bytes \in Nat /\ partial \in 0 .. 8 /\ bytes' = bytes + (9 - partial)
          BY <1>0, <3>2 DEF TypeOK
        <5> QED
          BY <5>1, <5>2, <5>3, <5>4
      <4> QED
        BY <1>0, <2>1, <3>2, <4>1, <4>2, <4>3 DEF ByteCount
    <3>5. FaultsAccounted'
      <4>1. Unread' = Unread
        BY <2>1, <2>5, <3>2 DEF Unread
      <4>2. /\ Cut(1)' => Cut(1) /\ rx'[1] = rx[1]
            /\ Cut(2)' => Cut(2)
        BY <3>2, <3>3 DEF Cut
      <4> QED
        BY <1>0, <2>1, <2>3, <2>5, <4>1, <4>2 DEF FaultsAccounted
    <3> QED
      BY <2>1, <2>2, <3>2, <3>3, <3>4, <3>5, Arrival DEF IInv, TypeOK
  <2>6. CASE partial = 0 \/ rx = <<>>
    <3>1. PICK size \in 1 .. 9, kind \in Kinds :
            /\ Receive(size, kind)
            /\ partial = 0 => size = 9
      BY <1>0, <1>7, <2>6 DEF Deliver, TypeOK, Kinds
    <3>2. /\ rx' \in Seq(Answer) /\ rx' # <<>>
          /\ Len(rx') = Len(rx) + 1
          /\ \A i \in 1 .. Len(rx) : rx'[i] = rx[i]
          /\ rx'[Len(rx) + 1] = [call |-> call, size |-> size, kind |-> kind]
          /\ bytes' \in Nat /\ bytes' = bytes + size
      BY <1>0, <3>1, Received
    <3>3. rx'[Len(rx) + 1].call = call /\ rx'[Len(rx) + 1].size = size
      BY <3>2
    <3>4. ByteCount'
      BY <1>0, <2>1, <2>4, <3>2, <3>3, Appending DEF ByteCount
    <3>5. FaultsAccounted'
      <4>1. CASE partial = 0
        <5>1. Unread' = Unread
          BY <2>1, <2>4, <3>2, <4>1 DEF Unread
        <5>2. /\ Cut(1)' => Cut(1) /\ rx'[1] = rx[1]
              /\ Cut(2)' => Cut(2)
          BY <2>4, <3>1, <3>2, <3>3, <4>1 DEF Cut
        <5> QED
          BY <1>0, <2>1, <2>3, <4>1, <5>1, <5>2 DEF FaultsAccounted
      <4>2. CASE partial # 0
        <5>1. rx = <<>> /\ partial > 0 /\ ~ opening
          BY <1>0, <2>6, <4>2 DEF TypeOK, ByteCount
        <5>2. /\ Len(rx') = 1 /\ rx'[1].call = call /\ Unread' = awaited
              /\ Unread = awaited /\ ~ Cut(2)' /\ Counted' = during'
              /\ Counted = during
          BY <2>1, <2>4, <3>2, <3>3, <5>1 DEF Unread, Counted, Cut
        <5>3. during >= IF call = 0 THEN 1 ELSE 2
          BY <1>0, <5>1 DEF FaultsAccounted
        <5>4. during' >= IF call = 0 THEN 1 ELSE 2
          BY <2>3, <5>3
        <5> QED
          BY <1>0, <2>1, <2>3, <5>1, <5>2, <5>4 DEF FaultsAccounted
      <4> QED
        BY <4>1, <4>2
    <3> QED
      BY <2>1, <2>2, <2>4, <3>2, <3>3, <3>4, <3>5, Arrival DEF IInv, TypeOK
  <2> QED
    BY <1>0, <2>5, <2>6 DEF TypeOK
<1>8. CASE DeliverPart
  <2>1. /\ awaited > 0 /\ awaited \in Nat /\ partial = 0 /\ Fault
        /\ UNCHANGED <<pc, call, reading, glued, opening, late, before>>
        /\ lost' = lost
    BY <1>0, <1>8 DEF DeliverPart, TypeOK
  <2>2. PICK size \in Sizes :
          /\ Receive(size, "good")
          /\ \/ awaited' = awaited - 1 /\ partial' = 0
             \/ partial' = size /\ awaited' = awaited
    BY <1>8, <2>1 DEF DeliverPart
  <2>3. /\ during' \in Nat /\ during' = during + 1 /\ during \in Nat /\ before \in Nat
        /\ Counted' = Counted + 1 /\ Counted \in Nat /\ Counted' \in Nat
    BY <1>0, <2>1, FaultType DEF TypeOK, Counted
  <2>4. /\ Len(rx) \in Nat /\ (rx # <<>> => Len(rx) > 0) /\ (rx = <<>> => Len(rx) = 0)
        /\ size \in 1 .. 8 /\ "good" \in Kinds
    BY <1>0 DEF TypeOK, Kinds
  <2>5. /\ rx' \in Seq(Answer) /\ rx' # <<>>
        /\ Len(rx') = Len(rx) + 1
        /\ \A i \in 1 .. Len(rx) : rx'[i] = rx[i]
        /\ rx'[Len(rx) + 1] = [call |-> call, size |-> size, kind |-> "good"]
        /\ bytes' \in Nat /\ bytes' = bytes + size
    BY <1>0, <2>2, <2>4, Received
  <2>6. rx'[Len(rx) + 1].call = call /\ rx'[Len(rx) + 1].size = size
    BY <2>5
  <2>7. /\ partial' > 0 => awaited' > 0
        /\ partial' > 0 =>
             rx'[Len(rx')] = [call |-> call', size |-> partial', kind |-> "good"]
    BY <2>1, <2>2, <2>5
  <2>8. ByteCount'
    BY <1>0, <2>1, <2>4, <2>5, <2>6, <2>7, Appending DEF ByteCount
  <2>9. Unread' = Unread
    BY <2>1, <2>2, <2>4, <2>5 DEF Unread
  <2>10. FaultsAccounted'
    <3>1. CASE rx = <<>>
      <4>1. Len(rx') = 1 /\ rx'[1].call = call /\ ~ Cut(2)' /\ Unread = awaited
        BY <2>1, <2>4, <2>5, <2>6, <3>1 DEF Cut, Unread
      <4>2. pc = "idle" => during' >= 2
        BY <1>0, <2>1, <2>3 DEF FaultsAccounted
      <4>3. awaited >= 2 => Counted' >= 2
        BY <1>0, <2>3, <4>1 DEF FaultsAccounted
      <4> QED
        BY <2>1, <2>3, <2>5, <2>9, <4>1, <4>2, <4>3 DEF FaultsAccounted
    <3>2. CASE rx # <<>>
      <4>1. rx'[1] = rx[1] /\ (Cut(1)' <=> Cut(1)) /\ Unread >= 2
        BY <2>1, <2>4, <2>5, <3>2 DEF Cut, Unread
      <4>2. Cut(1) => Counted >= IF rx[1].call = 0 THEN 1 ELSE 2
        BY <1>0, <4>1 DEF FaultsAccounted
      <4>3. Cut(1)' => Counted' >= IF rx'[1].call = 0 THEN 2 ELSE 3
        BY <2>3, <4>1, <4>2
      <4>4. /\ Counted' >= 1 /\ during' >= 1
            /\ pc = "idle" /\ Cut(1)' => during' >= IF rx'[1].call = 0 THEN 1 ELSE 2
        BY <1>0, <2>3, <4>1 DEF FaultsAccounted
      <4> QED
        BY <2>1, <2>3, <2>5, <4>3, <4>4 DEF FaultsAccounted
    <3> QED
      BY <3>1, <3>2
  <2>11. /\ partial' \in 0 .. 8 /\ lost' \subseteq 0 .. Cycles
         /\ awaited' = awaited - 1 \/ awaited' = awaited
    BY <1>0, <2>1, <2>2, <2>4 DEF TypeOK
  <2>12. Len(rx) + 1 \in 1 .. Len(rx')
    BY <2>4, <2>5
  <2>13. /\ \E i \in 1 .. Len(rx') : rx'[i].call = call
         /\ \A i \in 1 .. Len(rx') :
              \/ rx'[i].call = call
              \/ i \in 1 .. Len(rx) /\ rx'[i].call = rx[i].call
         /\ \A i \in 1 .. Len(rx) : i \in 1 .. Len(rx') /\ rx'[i].call = rx[i].call
    BY <2>4, <2>5, <2>6, <2>12
  <2> QED
    BY <2>1, <2>5, <2>8, <2>10, <2>11, <2>13, Arrival
<1>9. CASE Lose
  <2>1. /\ awaited > 0 /\ awaited \in Nat /\ awaited' = awaited - 1 /\ partial' = 0
        /\ Fault /\ rx' = rx /\ bytes' = bytes /\ lost' = lost \cup {call}
        /\ UNCHANGED <<pc, call, reading, glued, opening, late, before>>
    BY <1>0, <1>9 DEF Lose, TypeOK
  <2>2. /\ during' \in Nat /\ during' = during + 1 /\ during \in Nat /\ before \in Nat
        /\ Counted' = Counted + 1 /\ Counted \in Nat /\ Counted' \in Nat
    BY <1>0, <2>1, FaultType DEF TypeOK, Counted
  <2>3. ByteCount'
    BY <1>0, <2>1 DEF ByteCount
  <2>4. Unread' <= Unread /\ Unread \in Int /\ Unread' \in Int
    BY <1>0, <2>1 DEF Unread, TypeOK
  <2>5. (Cut(1)' <=> Cut(1)) /\ (Cut(2)' <=> Cut(2))
    BY <2>1 DEF Cut
  <2>6. FaultsAccounted'
    BY <1>0, <2>1, <2>2, <2>4, <2>5 DEF FaultsAccounted
  <2>7. /\ rx' \in Seq(Answer) /\ bytes' \in Nat
        /\ lost \subseteq lost' /\ lost' \subseteq 0 .. Cycles /\ call \in lost'
    BY <1>0, <2>1 DEF TypeOK
  <2> QED
    BY <1>0, <2>1, <2>3, <2>6, <2>7, Arrival DEF IInv, TypeOK
<1>10. CASE UNCHANGED vars
  BY <1>10
  DEF vars, link, history, IInv, TypeOK, Leftovers, UnreadAreLate,
      AnswerAccounted, ByteCount, FaultsAccounted, Unread, Counted, Cut,
      AtMostOneCallOld, StaleNeedsTwoMisses, GluedNeedsThreeFaults
<1> QED
  BY <1>1, <1>2, <1>3, <1>4, <1>5, <1>6, <1>7, <1>8, <1>9, <1>10 DEF Next, Task

(* IInv holds in every state co2_read, the sensor and the line can reach. *)
THEOREM Invariance == Spec => []IInv
  BY InitIInv, StepIInv, PTL DEF Spec

(* Every variable stays in its domain, whatever the faults. *)
THEOREM TypeCorrect == Spec => []TypeOK
<1>1. IInv => TypeOK
  BY DEF IInv
<1> QED
  BY Invariance, <1>1, PTL

(* A value read from pieces of several answers takes three faults in two    *)
(* successive calls, or two of which one is a reset, however long the parts *)
(* of a cut answer are.                                                     *)
THEOREM ThreeFaults == Spec => []GluedNeedsThreeFaults
<1>1. IInv => GluedNeedsThreeFaults
  BY DEF IInv
<1> QED
  BY Invariance, <1>1, PTL

(* A returned value is at most one call old, for any number of late answers. *)
THEOREM Freshness == Spec => []AtMostOneCallOld
<1>1. IInv => AtMostOneCallOld
  BY DEF IInv
<1> QED
  BY Invariance, <1>1, PTL

(* A stale value needs a late answer in the call before and another late or *)
(* lost one in this call.                                                   *)
THEOREM TwoMisses == Spec => []StaleNeedsTwoMisses
<1>1. IInv => StaleNeedsTwoMisses
  BY DEF IInv
<1> QED
  BY Invariance, <1>1, PTL

-----------------------------------------------------------------------------
(* A step of co2_read is a step of the promise, or changes nothing of it. *)
LEMMA StepMeter == IInv /\ IInv' /\ [Next]_vars => [Meter!Next]_Meter!vars
<1> SUFFICES ASSUME IInv, IInv', [Next]_vars PROVE [Meter!Next]_Meter!vars
  OBVIOUS
<1>1. CASE Call
  BY <1>1 DEF Call, Meter!Next, Meter!Task, Meter!Call
<1>2. CASE ReadAccepted
  <2>1. /\ pc = "reading" /\ pc' = "idle" /\ call' = call
        /\ \E i \in 1 .. Len(rx) : reading' = rx[i].call
    BY <1>2 DEF ReadAccepted
  <2>2. reading' \in {call - 1, call} \cap ((late \cap {0}) \cup (1 .. call))
    BY <2>1 DEF IInv, TypeOK, Leftovers
  <2>3. late \subseteq late' /\ late' \ late \subseteq {call} /\ call # 0
    BY <1>2, WindowType DEF ReadAccepted, IInv
  <2>4. (late \cap {0})' = late \cap {0}
    BY <2>3
  <2> QED
    BY <2>1, <2>2, <2>4 DEF Meter!Next, Meter!Task, Meter!Return
<1>3. CASE Restart
  BY <1>3 DEF Restart, Boot, Meter!Next, Meter!Task, Meter!Restart
<1>4. CASE Reset
  BY <1>4 DEF Reset, Boot, Meter!Next, Meter!Reset
<1>5. CASE ReadSilence \/ ReadRejected
  <2>1. late \subseteq late' /\ late' \ late \subseteq {call} /\ call # 0
    <3>1. pc = "reading" /\ WindowCloses
      BY <1>5 DEF ReadSilence, ReadRejected
    <3> QED
      BY <3>1, WindowType DEF IInv
  <2>2. (late \cap {0})' = late \cap {0}
    BY <2>1
  <2> QED
    BY <1>5, <2>2 DEF ReadSilence, ReadRejected, Meter!vars
<1>6. CASE Deliver \/ DeliverPart \/ Lose \/ UNCHANGED vars
  BY <1>6 DEF Deliver, DeliverPart, Lose, vars, link, history, Meter!vars
<1> QED
  BY <1>1, <1>2, <1>3, <1>4, <1>5, <1>6 DEF Next, Task

(* co2_read implements the safety part of what Co2Meter promises. *)
THEOREM Implements == Spec => Meter!Spec
<1>1. Init => Meter!Init
  BY DEF Init, Meter!Init
<1> QED
  BY Invariance, <1>1, StepMeter, PTL DEF Spec, Meter!Spec

-----------------------------------------------------------------------------
(* A remainder modulo 256 tells apart numbers less than 256 apart. *)
LEMMA Remainder ==
  ASSUME NEW a \in Nat, NEW b \in Nat, a % 256 = b % 256,
         a - b \in -255 .. 255
  PROVE  a = b
  OBVIOUS

(* The checksum byte determines the sum modulo 256. *)
LEMMA Checksum ==
  ASSUME NEW a \in Nat, NEW b \in Nat,
         (255 - (a % 256) + 1) % 256 = (255 - (b % 256) + 1) % 256
  PROVE  a % 256 = b % 256
<1>1. a % 256 \in 0 .. 255 /\ b % 256 \in 0 .. 255
  OBVIOUS
<1>2. ASSUME NEW r \in 0 .. 255
      PROVE  (255 - r + 1) % 256 = IF r = 0 THEN 0 ELSE 256 - r
  OBVIOUS
<1> QED
  BY <1>1, <1>2

(* Equal sums whose difference is that of two bytes: the bytes are equal. *)
LEMMA Cancel ==
  ASSUME NEW a \in 0 .. 255, NEW b \in 0 .. 255, NEW s \in Nat, NEW t \in Nat,
         s % 256 = t % 256, s - t = a - b
  PROVE  a = b
<1>1. s - t \in -255 .. 255
  OBVIOUS
<1>2. s = t
  BY <1>1, Remainder
<1> QED
  BY <1>2

(* The entries of a frame are natural numbers. *)
LEMMA Bytewise == \A f \in Frame : \A i \in 1 .. 8 : f[i] \in Nat /\ f[i] \in Int
  BY DEF Frame, Index, Byte

(* The sum of seven bytes, named one by one. *)
LEMMA TotalNat ==
  ASSUME NEW f \in Frame
  PROVE  Total(f) \in Nat
<1>1. /\ f[1] \in Nat /\ f[2] \in Nat /\ f[3] \in Nat /\ f[4] \in Nat
      /\ f[5] \in Nat /\ f[6] \in Nat /\ f[7] \in Nat
  BY Bytewise
<1> QED
  BY <1>1 DEF Total

(* Two frames that differ in one checked byte are not both accepted. *)
LEMMA OneErrorDetected ==
  ASSUME NEW f \in Frame, NEW g \in Frame, NEW k \in 1 .. 8,
         \A i \in 1 .. 8 : i # k => f[i] = g[i],
         checkCRC(f), checkCRC(g)
  PROVE  f[k] = g[k]
<1>1. Total(f) \in Nat /\ Total(g) \in Nat
  BY TotalNat
<1>2. CASE k = 8
  <2>1. Total(f) = Total(g)
    BY <1>2 DEF Total
  <2> QED
    BY <1>2, <2>1 DEF checkCRC
<1>3. CASE k \in 1 .. 7
  <2>1. f[8] = g[8]
    BY <1>3
  <2>2. Total(f) % 256 = Total(g) % 256
    BY <1>1, <2>1, Checksum DEF checkCRC
  <2>3. /\ f[1] \in Int /\ f[2] \in Int /\ f[3] \in Int /\ f[4] \in Int
        /\ f[5] \in Int /\ f[6] \in Int /\ f[7] \in Int
    BY Bytewise
  <2>4. /\ g[1] \in Int /\ g[2] \in Int /\ g[3] \in Int /\ g[4] \in Int
        /\ g[5] \in Int /\ g[6] \in Int /\ g[7] \in Int
    BY Bytewise
  <2>5. Total(f) - Total(g) = f[k] - g[k]
    <3>1. CASE k = 1
      <4>1. /\ f[2] = g[2] /\ f[3] = g[3] /\ f[4] = g[4]
            /\ f[5] = g[5] /\ f[6] = g[6] /\ f[7] = g[7]
        BY <3>1
      <4> QED
        BY <2>3, <2>4, <3>1, <4>1 DEF Total
    <3>2. CASE k = 2
      <4>1. /\ f[1] = g[1] /\ f[3] = g[3] /\ f[4] = g[4]
            /\ f[5] = g[5] /\ f[6] = g[6] /\ f[7] = g[7]
        BY <3>2
      <4> QED
        BY <2>3, <2>4, <3>2, <4>1 DEF Total
    <3>3. CASE k = 3
      <4>1. /\ f[1] = g[1] /\ f[2] = g[2] /\ f[4] = g[4]
            /\ f[5] = g[5] /\ f[6] = g[6] /\ f[7] = g[7]
        BY <3>3
      <4> QED
        BY <2>3, <2>4, <3>3, <4>1 DEF Total
    <3>4. CASE k = 4
      <4>1. /\ f[1] = g[1] /\ f[2] = g[2] /\ f[3] = g[3]
            /\ f[5] = g[5] /\ f[6] = g[6] /\ f[7] = g[7]
        BY <3>4
      <4> QED
        BY <2>3, <2>4, <3>4, <4>1 DEF Total
    <3>5. CASE k = 5
      <4>1. /\ f[1] = g[1] /\ f[2] = g[2] /\ f[3] = g[3]
            /\ f[4] = g[4] /\ f[6] = g[6] /\ f[7] = g[7]
        BY <3>5
      <4> QED
        BY <2>3, <2>4, <3>5, <4>1 DEF Total
    <3>6. CASE k = 6
      <4>1. /\ f[1] = g[1] /\ f[2] = g[2] /\ f[3] = g[3]
            /\ f[4] = g[4] /\ f[5] = g[5] /\ f[7] = g[7]
        BY <3>6
      <4> QED
        BY <2>3, <2>4, <3>6, <4>1 DEF Total
    <3>7. CASE k = 7
      <4>1. /\ f[1] = g[1] /\ f[2] = g[2] /\ f[3] = g[3]
            /\ f[4] = g[4] /\ f[5] = g[5] /\ f[6] = g[6]
        BY <3>7
      <4> QED
        BY <2>3, <2>4, <3>7, <4>1 DEF Total
    <3> QED
      BY <1>3, <3>1, <3>2, <3>3, <3>4, <3>5, <3>6, <3>7
  <2>6. f[k] \in 0 .. 255 /\ g[k] \in 0 .. 255
    BY <1>3 DEF Frame, Index, Byte
  <2> QED
    BY <1>1, <2>2, <2>5, <2>6, Cancel
<1> QED
  BY <1>2, <1>3

(* The command the code sends carries the checksum checkCRC computes. *)
THEOREM CommandWellFormed == checkCRC(cmd)
<1>1. cmd[1] = 1 /\ cmd[2] = 134 /\ cmd[8] = 121
  BY DEF cmd, Index
<1>2. cmd[3] = 0 /\ cmd[4] = 0 /\ cmd[5] = 0 /\ cmd[6] = 0 /\ cmd[7] = 0
  BY DEF cmd, Index
<1> QED
  BY <1>1, <1>2 DEF checkCRC, Total

(* Different pairs of value bytes are different concentrations. *)
THEOREM ValueInjective ==
  ASSUME NEW f \in Frame, NEW g \in Frame, readCO2(f) = readCO2(g)
  PROVE  f[2] = g[2] /\ f[3] = g[3]
<1>1. /\ f[2] \in 0 .. 255 /\ f[3] \in 0 .. 255
      /\ g[2] \in 0 .. 255 /\ g[3] \in 0 .. 255
  BY DEF Frame, Index, Byte
<1>2. PICK a \in 0 .. 255, b \in 0 .. 255 : a = f[2] /\ b = f[3]
  BY <1>1
<1>3. PICK c \in 0 .. 255, d \in 0 .. 255 : c = g[2] /\ d = g[3]
  BY <1>1
<1>4. 256 * a + b = 256 * c + d
  BY <1>2, <1>3 DEF readCO2
<1>5. a = c /\ b = d
  BY <1>4
<1> QED
  BY <1>2, <1>3, <1>5

-----------------------------------------------------------------------------
(* What stays true while the line damages an answer: the sent answer is     *)
(* well formed, and heard differs from it only where damaged says.          *)
FInv ==
  /\ FrameTypeOK
  /\ Accepted(sent)
  /\ readCO2(sent) = ppm
  /\ \A i \in Index \ damaged : heard[i] = sent[i]

(* The sensor's answers are frames with a matching checksum. *)
LEMMA AnswerWellFormed ==
  ASSUME NEW high \in Byte, NEW low \in Byte, NEW temp \in Byte, NEW status \in Byte
  PROVE  /\ SensorAnswer(high, low, temp, status) \in Frame
         /\ Accepted(SensorAnswer(high, low, temp, status))
         /\ readCO2(SensorAnswer(high, low, temp, status)) = 256 * high + low
<1> DEFINE body == 134 + high + low + temp + status
           crc  == (256 - (body % 256)) % 256
           f    == SensorAnswer(high, low, temp, status)
<1>1. body \in Int /\ body % 256 \in Int
  BY DEF Byte
<1>2. crc \in 0 .. 255
  BY <1>1
<1> HIDE DEF crc
<1>3. f = [i \in Index |-> <<255, 134, high, low, temp, status, 0, 0, crc>>[i + 1]]
  BY DEF SensorAnswer, crc
<1> HIDE DEF f
<1>4. /\ f[1] = 134 /\ f[2] = high /\ f[3] = low
      /\ f[4] = temp /\ f[5] = status /\ f[6] = 0 /\ f[7] = 0
      /\ f[8] = crc
  BY <1>3 DEF Index
<1>5. f \in Frame
  <2>1. ASSUME NEW i \in Index
        PROVE  <<255, 134, high, low, temp, status, 0, 0, crc>>[i + 1] \in Byte
    <3>1. \/ i = 0 \/ i = 1 \/ i = 2 \/ i = 3 \/ i = 4
          \/ i = 5 \/ i = 6 \/ i = 7 \/ i = 8
      BY DEF Index
    <3> QED
      BY <1>2, <3>1 DEF Byte
  <2> QED
    BY <1>3, <2>1 DEF Frame
<1>6. Total(f) = body
  BY <1>4 DEF Total, Byte
<1> HIDE DEF body
<1>7. checkCRC(f)
  <2>1. 255 - (body % 256) + 1 = 256 - (body % 256)
    BY <1>1
  <2> QED
    BY <1>4, <1>6, <2>1 DEF checkCRC, crc
<1>8. readCO2(f) = 256 * high + low
  BY <1>4 DEF readCO2
<1> QED
  BY <1>4, <1>5, <1>7, <1>8 DEF f, Accepted

(* Every answer starts undamaged. *)
LEMMA InitFInv == FrameInit => FInv
<1> SUFFICES ASSUME FrameInit PROVE FInv
  OBVIOUS
<1>1. PICK high, low, temp, status \in Bytes :
        /\ ppm = 256 * high + low
        /\ sent = SensorAnswer(high, low, temp, status)
  BY DEF FrameInit
<1>2. high \in Byte /\ low \in Byte /\ temp \in Byte /\ status \in Byte
  BY BytesAssumption DEF Byte
<1>3. ppm \in Nat
  BY <1>1, <1>2 DEF Byte
<1>4. /\ SensorAnswer(high, low, temp, status) \in Frame
      /\ Accepted(SensorAnswer(high, low, temp, status))
      /\ readCO2(SensorAnswer(high, low, temp, status)) = 256 * high + low
  BY <1>2, AnswerWellFormed
<1>5. sent \in Frame /\ Accepted(sent) /\ readCO2(sent) = ppm
  BY <1>1, <1>4
<1>6. heard = sent /\ damaged = {}
  BY DEF FrameInit
<1> QED
  BY <1>3, <1>5, <1>6 DEF FInv, FrameTypeOK

(* Damage to one more byte keeps the account of damaged bytes right. *)
LEMMA StepFInv == FInv /\ [FrameNext]_frameVars => FInv'
<1> SUFFICES ASSUME FInv, [FrameNext]_frameVars PROVE FInv'
  OBVIOUS
<1>1. CASE FrameNext
  <2>1. PICK i \in Index : Damage(i)
    BY <1>1 DEF FrameNext
  <2>2. PICK b \in Bytes : heard' = [heard EXCEPT ![i] = b]
    BY <2>1 DEF Damage
  <2>3. b \in Byte
    BY BytesAssumption DEF Byte
  <2>4. heard' \in Frame
    BY <2>2, <2>3 DEF FInv, FrameTypeOK, Frame
  <2>5. \A j \in Index \ damaged' : heard'[j] = sent'[j]
    BY <2>1, <2>2 DEF Damage, FInv, FrameTypeOK, Frame
  <2>6. ppm' = ppm /\ sent' = sent /\ damaged' = damaged \cup {i}
    BY <2>1 DEF Damage
  <2>7. FrameTypeOK'
    BY <2>4, <2>6 DEF FInv, FrameTypeOK
  <2>8. Accepted(sent)' /\ (readCO2(sent) = ppm)'
    BY <2>6 DEF FInv, Accepted, checkCRC, Total, readCO2
  <2> QED
    BY <2>5, <2>7, <2>8 DEF FInv
<1>2. CASE UNCHANGED frameVars
  BY <1>2 DEF frameVars, FInv, FrameTypeOK, Accepted, checkCRC, Total, readCO2
<1> QED
  BY <1>1, <1>2

(* The account of damaged bytes is kept for every answer. *)
LEMMA FInvariance == FrameSpec => []FInv
  BY InitFInv, StepFInv, PTL DEF FrameSpec

(* The damaged positions are finitely many. *)
LEMMA FiniteDamage == FrameTypeOK => IsFiniteSet(damaged \ {0})
<1> SUFFICES ASSUME FrameTypeOK PROVE IsFiniteSet(damaged \ {0})
  OBVIOUS
<1>1. 0 \in Int /\ 8 \in Int
  OBVIOUS
<1>2. IsFiniteSet(0 .. 8)
  BY <1>1, FS_Interval
<1>3. damaged \ {0} \in SUBSET (0 .. 8)
  BY DEF FrameTypeOK, Index
<1> QED
  BY <1>2, <1>3, FS_Subset

(* Two different elements are two. *)
LEMMA TwoElements ==
  ASSUME NEW k, NEW l, k # l
  PROVE  Cardinality({k, l}) = 2
<1>1. Cardinality({k}) = 1 /\ IsFiniteSet({k})
  BY FS_Singleton
<1>2. Cardinality({k} \cup {l}) = Cardinality({k}) + 1
  BY <1>1, FS_AddElement, l \notin {k}
<1>3. {k} \cup {l} = {k, l}
  OBVIOUS
<1> QED
  BY <1>1, <1>2, <1>3

(* Fewer than two damaged bytes after the first leave the value unchanged. *)
LEMMA OneErrorHarmless == FInv => WrongValueNeedsTwoErrors
<1> SUFFICES ASSUME FInv, Accepted(heard), readCO2(heard) # ppm
             PROVE  Cardinality(damaged \ {0}) >= 2
  BY DEF WrongValueNeedsTwoErrors
<1>6. Cardinality(damaged \ {0}) \in Nat
  <2>1. IsFiniteSet(damaged \ {0})
    BY FiniteDamage DEF FInv
  <2> QED
    BY <2>1, FS_CardinalityType
<1> SUFFICES ASSUME Cardinality(damaged \ {0}) < 2 PROVE FALSE
  BY <1>6
<1>1. \E k \in 1 .. 8 : damaged \ {0} \subseteq {k}
  <2>1. damaged \ {0} \subseteq 1 .. 8
    BY DEF FInv, FrameTypeOK, Index
  <2>2. CASE damaged \ {0} = {}
    BY <2>2, 1 \in 1 .. 8
  <2>3. CASE damaged \ {0} # {}
    <3>1. PICK k \in damaged \ {0} : TRUE
      BY <2>3
    <3>2. ASSUME NEW l \in damaged \ {0}, l # k PROVE FALSE
      <4>1. {k, l} \in SUBSET (damaged \ {0})
        BY <3>1, <3>2
      <4>2. IsFiniteSet(damaged \ {0})
        BY FiniteDamage DEF FInv
      <4>3. Cardinality({k, l}) <= Cardinality(damaged \ {0})
        BY <4>1, <4>2, FS_Subset
      <4>4. Cardinality({k, l}) = 2
        BY <3>2, TwoElements
      <4>5. Cardinality(damaged \ {0}) \in Nat
        BY <4>2, FS_CardinalityType
      <4> QED
        BY <4>3, <4>4, <4>5
    <3> QED
      BY <2>1, <3>1, <3>2
  <2> QED
    BY <2>2, <2>3
<1>2. PICK k \in 1 .. 8 : damaged \ {0} \subseteq {k}
  BY <1>1
<1>3. \A i \in 1 .. 8 : i # k => heard[i] = sent[i]
  BY <1>2 DEF FInv, Index
<1>4. heard[k] = sent[k]
  BY <1>3, OneErrorDetected DEF FInv, FrameTypeOK, Accepted
<1>5. heard[2] = sent[2] /\ heard[3] = sent[3]
  BY <1>3, <1>4
<1> QED
  BY <1>5 DEF readCO2, FInv

(* co2_read takes a wrong value only from an answer with two damaged bytes. *)
THEOREM TwoErrors == FrameSpec => []WrongValueNeedsTwoErrors
  BY FInvariance, OneErrorHarmless, PTL

(* An answer undamaged from its second byte on is accepted, and its value   *)
(* is the one the sensor measured.                                          *)
THEOREM NoneRefused == FrameSpec => []IntactAccepted
<1>1. FInv => IntactAccepted
  <2> SUFFICES ASSUME FInv, damaged \subseteq {0}
               PROVE  Accepted(heard) /\ readCO2(heard) = ppm
    BY DEF IntactAccepted
  <2>1. \A i \in 1 .. 8 : heard[i] = sent[i]
    BY DEF FInv, Index
  <2>2. /\ heard[1] = sent[1] /\ heard[2] = sent[2] /\ heard[3] = sent[3]
        /\ heard[4] = sent[4] /\ heard[5] = sent[5] /\ heard[6] = sent[6]
        /\ heard[7] = sent[7] /\ heard[8] = sent[8]
    BY <2>1
  <2> QED
    BY <2>2 DEF FInv, Accepted, checkCRC, Total, readCO2
<1> QED
  BY FInvariance, <1>1, PTL

(* Pieces of two answers that fill a window: the first k bytes of one and   *)
(* the rest of the other, which begins with its own.                        *)
LEMMA Spliced ==
  ASSUME NEW f \in Frame, NEW g \in Frame, NEW h \in Frame, NEW k \in 1 .. 8,
         \A i \in Index : h[i] = IF i < k THEN f[i] ELSE g[i]
  PROVE  \/ h[2] = f[2] /\ h[3] = f[3]
         \/ h[2] = g[2] /\ h[3] = g[3]
         \/ k = 3 /\ h[2] = f[2] /\ \A i \in 3 .. 8 : h[i] = g[i]
<1>1. CASE k \in {1, 2}
  BY <1>1 DEF Index
<1>2. CASE k = 3
  BY <1>2 DEF Index
<1>3. CASE k \in 4 .. 8
  BY <1>3 DEF Index
<1> QED
  BY <1>1, <1>2, <1>3

(* What co2_read can make of pieces of two answers.  Nine bytes that begin  *)
(* like one accepted answer and end like another pass the test only with    *)
(* the value of one of them: the checksum at the end excludes a value made  *)
(* of one byte of each, unless the two bytes are equal anyway.              *)
THEOREM NoMixedValue ==
  ASSUME NEW f \in Frame, NEW g \in Frame, NEW h \in Frame, NEW k \in 1 .. 8,
         Accepted(f), Accepted(g), Accepted(h),
         \A i \in Index : h[i] = IF i < k THEN f[i] ELSE g[i]
  PROVE  readCO2(h) \in {readCO2(f), readCO2(g)}
<1>1. CASE h[2] = f[2] /\ h[3] = f[3]
  BY <1>1 DEF readCO2
<1>2. CASE h[2] = g[2] /\ h[3] = g[3]
  BY <1>2 DEF readCO2
<1>3. CASE k = 3 /\ h[2] = f[2] /\ \A i \in 3 .. 8 : h[i] = g[i]
  <2>1. h[1] = 134 /\ g[1] = 134 /\ checkCRC(g) /\ checkCRC(h)
    BY DEF Accepted
  <2>2. \A i \in 1 .. 8 : i # 2 => g[i] = h[i]
    BY <1>3, <2>1
  <2>3. g[2] = h[2]
    BY <2>1, <2>2, 2 \in 1 .. 8, OneErrorDetected
  <2> QED
    BY <1>3, <2>3 DEF readCO2
<1> QED
  BY <1>1, <1>2, <1>3, Spliced

=============================================================================
