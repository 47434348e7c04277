---------------------------- MODULE CtrlTaskProofs ----------------------------
(***************************************************************************)
(* Proofs about CtrlTask for every size of the line and read buffers and   *)
(* whatever the PC sends: the line buffer never overflows, callbacks are   *)
(* there as long as a task may call them, and lines are dispatched in      *)
(* order.                                                                  *)
(***************************************************************************)
EXTENDS CtrlTask, SequenceTheorems, WellFoundedInduction, TLAPS

USE CtrlAssumption DEF CtrlAssumption

-----------------------------------------------------------------------------
(* Lines.                                                                   *)

LEMMA MinFacts ==
  ASSUME NEW S \in SUBSET Nat, S # {}
  PROVE  Min(S) \in S
<1>1. PICK x \in S : \A y \in S : ~ (<<y, x>> \in OpToRel(<, Nat))
  BY NatLessThanWellFounded, WFMin
<1>2. ASSUME NEW y \in S, y < x
      PROVE  FALSE
  <2>1. <<y, x>> \in OpToRel(<, Nat)
    BY <1>2 DEF OpToRel
  <2> QED
    BY <1>1, <2>1
<1>3. \A y \in S : x <= y
  BY <1>2
<1> QED
  BY <1>3 DEF Min

LEMMA PartOfSeq ==
  ASSUME NEW S, NEW s \in Seq(S), NEW m \in Nat \ {0}, NEW n \in 0..Len(s)
  PROVE  /\ SubSeq(s, m, n) \in Seq(S)
         /\ Len(SubSeq(s, m, n)) = IF m <= n THEN n - m + 1 ELSE 0
<1>1. \A i \in m..n : s[i] \in S
  BY LenProperties, ElementOfSeq
<1> QED
  BY <1>1, LenProperties, SubSeqProperties

LEMMA AppendLine ==
  ASSUME NEW s \in Seq(Seq(Byte)), NEW l \in Seq(Byte)
  PROVE  Append(s, l) \in Seq(Seq(Byte))
<1> DEFINE L == Seq(Byte)
<1>1. s \in Seq(L) /\ l \in L
  OBVIOUS
<1> HIDE DEF L
<1>2. Append(s, l) \in Seq(L)
  BY <1>1, AppendProperties
<1> QED
  BY <1>2 DEF L

(* What a line holds besides leading blanks is text.                        *)
LEMMA BodyFacts ==
  ASSUME NEW l \in Seq(Byte)
  PROVE  Body(l) \in Seq(Byte)
<1> DEFINE text == {i \in DOMAIN l : l[i] # Blank}
<1>1. CASE text = {}
  BY <1>1, EmptySeq DEF Body
<1>2. CASE text # {}
  <2>1. text \in SUBSET Nat /\ \A i \in text : i \in 1..Len(l)
    BY LenProperties
  <2>2. Min(text) \in 1..Len(l)
    BY <1>2, <2>1, MinFacts
  <2>3. Min(text) \in Nat \ {0} /\ Len(l) \in 0..Len(l)
    BY <2>2, LenProperties
  <2>4. SubSeq(l, Min(text), Len(l)) \in Seq(Byte)
    BY <2>3, PartOfSeq
  <2> QED
    BY <1>2, <2>4 DEF Body
<1> QED
  BY <1>1, <1>2

(* A line keeps its last place free, whatever character comes.              *)
LEMMA KeepFacts ==
  ASSUME NEW l \in Seq(Byte \ {Eol}), Len(l) <= LineMax - 1, NEW c \in Byte \ {Eol}
  PROVE  Keep(l, c) \in Seq(Byte \ {Eol}) /\ Len(Keep(l, c)) <= LineMax - 1
  BY AppendProperties, LenProperties DEF Keep

-----------------------------------------------------------------------------
LEMMA InitCtrlInv == Init => CtrlInv
<1> SUFFICES ASSUME Init PROVE CtrlInv
  OBVIOUS
<1>1. /\ rx \in Seq(Byte) /\ line \in Seq(Byte \ {Eol}) /\ incoming \in Seq(Byte)
      /\ ctrl_running \in BOOLEAN
      /\ sent \in Seq(Seq(Byte)) /\ dispatched \in Seq(Seq(Byte))
      /\ Len(rx) = 0 /\ Len(line) = 0
  BY EmptySeq DEF Init
<1>2. /\ ctrl_running = FALSE /\ ctrl_cbs = "none" /\ cpc = "off" /\ mpc = "idle"
      /\ lines = 0 /\ breaks = 0 /\ starts = 0
  BY DEF Init
<1>3. Len(rx) <= RxMax /\ Len(line) <= LineMax - 1
  BY <1>1
<1> QED
  BY <1>1, <1>2, <1>3 DEF CtrlInv, TypeOK, LineFits, CallbacksWhileRunning, StoppedMeansGone

(* The task reads: some bytes move from the transport to rx.                *)
LEMMA ReadStep ==
  ASSUME CtrlInv, ctrl_read
  PROVE  CtrlInv'
<1> USE DEF CtrlInv, TypeOK, LineFits, CallbacksWhileRunning, StoppedMeansGone
<1>1. /\ rx' \in Seq(Byte) /\ Len(rx') <= RxMax /\ incoming' \in Seq(Byte)
      /\ cpc = "read" /\ cpc' \in {"bytes", "test"}
  <2>1. CASE UNCHANGED <<rx, incoming>>
    BY <2>1 DEF ctrl_read
  <2>2. CASE ~ UNCHANGED <<rx, incoming>>
    <3>1. PICK n \in 1..RxMax :
            /\ n <= Len(incoming)
            /\ rx' = SubSeq(incoming, 1, n)
            /\ incoming' = SubSeq(incoming, n + 1, Len(incoming))
            /\ cpc' = "bytes"
      BY <2>2 DEF ctrl_read
    <3>2. n \in 0..Len(incoming) /\ n + 1 \in Nat \ {0} /\ Len(incoming) \in 0..Len(incoming)
      BY <3>1, LenProperties
    <3>3. rx' \in Seq(Byte) /\ Len(rx') = n
      BY <3>1, <3>2, PartOfSeq
    <3>4. incoming' \in Seq(Byte)
      BY <3>1, <3>2, PartOfSeq
    <3> QED
      BY <3>1, <3>3, <3>4 DEF ctrl_read
  <2> QED
    BY <2>1, <2>2
<1> QED
  BY <1>1 DEF ctrl_read, pc

(* The task takes one byte: it ends the line, which is dispatched, or is    *)
(* kept while there is room.                                                *)
LEMMA ByteStep ==
  ASSUME CtrlInv, ctrl_byte
  PROVE  CtrlInv'
<1> USE DEF CtrlInv, LineFits, CallbacksWhileRunning, StoppedMeansGone
<1>1. rx' \in Seq(Byte) /\ Len(rx') <= RxMax /\ Head(rx) \in Byte
  <2>1. rx \in Seq(Byte) /\ rx # <<>> /\ rx' = Tail(rx) /\ Len(rx) <= RxMax
    BY DEF ctrl_byte, TypeOK
  <2> QED
    BY <2>1, HeadTailProperties, LenProperties
<1>2. /\ line' \in Seq(Byte \ {Eol}) /\ Len(line') <= LineMax - 1
      /\ dispatched' \in Seq(Seq(Byte))
  <2>1. CASE Head(rx) = Eol
    <3>1. line' \in Seq(Byte \ {Eol}) /\ Len(line') = 0
      <4>1. line' = <<>>
        BY <2>1 DEF ctrl_byte, AfterEol
      <4> QED
        BY <4>1, EmptySeq
    <3>2. line \in Seq(Byte)
      BY DEF TypeOK
    <3>3. Body(line) \in Seq(Byte)
      BY <3>2, BodyFacts
    <3>4. dispatched' \in {dispatched, Append(dispatched, Body(line))}
      BY <2>1 DEF ctrl_byte, dispatch_line
    <3>5. dispatched' \in Seq(Seq(Byte))
      BY <3>3, <3>4, AppendLine DEF TypeOK
    <3> QED
      BY <3>1, <3>5
  <2>2. CASE Head(rx) # Eol
    <3>1. line' = Keep(line, Head(rx)) /\ dispatched' = dispatched
      BY <2>2 DEF ctrl_byte
    <3> QED
      BY <1>1, <2>2, <3>1, KeepFacts DEF TypeOK
  <2> QED
    BY <2>1, <2>2
<1> QED
  BY <1>1, <1>2 DEF ctrl_byte, TypeOK, pc

(* The steps that move no byte.                                             *)
LEMMA ControlStep ==
  ASSUME CtrlInv,
         \/ ctrl_test \/ ctrl_chunk_done \/ ctrl_exit
         \/ esp_audio_pcm_ctrl_start \/ esp_audio_pcm_ctrl_stop \/ ctrl_stop_return
  PROVE  CtrlInv'
<1> USE DEF CtrlInv, TypeOK, LineFits, CallbacksWhileRunning, StoppedMeansGone, task, pc
<1>1. CASE ctrl_test
  BY <1>1 DEF ctrl_test
<1>2. CASE ctrl_chunk_done
  BY <1>2 DEF ctrl_chunk_done
<1>3. CASE ctrl_exit
  BY <1>3 DEF ctrl_exit
<1>4. CASE esp_audio_pcm_ctrl_start
  <2>1. /\ rx' \in Seq(Byte) /\ line' \in Seq(Byte \ {Eol})
        /\ Len(rx') = 0 /\ Len(line') = 0
    BY <1>4, EmptySeq DEF esp_audio_pcm_ctrl_start
  <2>2. starts' \in 0..MaxStarts
    BY <1>4 DEF esp_audio_pcm_ctrl_start
  <2>3. /\ ctrl_cbs' = "set" /\ ctrl_running' = TRUE /\ cpc' = "test" /\ mpc' = mpc
        /\ incoming' = incoming /\ sent' = sent /\ lines' = lines /\ breaks' = breaks
        /\ dispatched' = dispatched
    BY <1>4 DEF esp_audio_pcm_ctrl_start
  <2> QED
    BY <2>1, <2>2, <2>3
<1>5. CASE esp_audio_pcm_ctrl_stop
  <2>1. ctrl_running' \in BOOLEAN
    BY <1>5, Zenon DEF esp_audio_pcm_ctrl_stop
  <2> QED
    BY <1>5, <2>1 DEF esp_audio_pcm_ctrl_stop
<1>6. CASE ctrl_stop_return
  BY <1>6 DEF ctrl_stop_return, TaskGone
<1> QED
  BY <1>1, <1>2, <1>3, <1>4, <1>5, <1>6

(* The PC sends a line.                                                     *)
LEMMA SendStep ==
  ASSUME CtrlInv, SendLine
  PROVE  CtrlInv'
<1> USE DEF CtrlInv, LineFits, CallbacksWhileRunning, StoppedMeansGone
<1>1. PICK len \in 0..MaxLineLen, blanks \in 0..1, eols \in 1..2 :
        LET text == [i \in 1..blanks |-> Blank] \o [i \in 1..len |-> lines + 1]
            body == Body(Truncated(text))
        IN  /\ incoming' = incoming \o text \o [i \in 1..eols |-> Eol]
            /\ sent' = IF body = <<>> THEN sent ELSE Append(sent, body)
  BY DEF SendLine
<1> DEFINE text == [i \in 1..blanks |-> Blank] \o [i \in 1..len |-> lines + 1]
           body == Body(Truncated(text))
<1>2. lines + 1 \in Byte /\ lines' \in 0..MaxLines
  BY DEF SendLine, TypeOK, Byte
<1>3. /\ [i \in 1..blanks |-> Blank] \in Seq(Byte)
      /\ [i \in 1..len |-> lines + 1] \in Seq(Byte)
      /\ [i \in 1..eols |-> Eol] \in Seq(Byte)
  BY <1>2, IsASeq DEF Byte
<1>4. text \in Seq(Byte)
  BY <1>3, ConcatProperties
<1>5. Truncated(text) \in Seq(Byte)
  <2> DEFINE n == IF Len(text) < LineMax THEN Len(text) ELSE LineMax - 1
  <2> HIDE DEF text
  <2>1. n \in 0..Len(text) /\ 1 \in Nat \ {0}
    BY <1>4, LenProperties
  <2>2. Truncated(text) = SubSeq(text, 1, n)
    BY DEF Truncated
  <2> HIDE DEF n
  <2> QED
    BY <1>4, <2>1, <2>2, PartOfSeq
<1>6. body \in Seq(Byte)
  BY <1>5, BodyFacts
<1>7. incoming' \in Seq(Byte)
  <2>1. incoming \o text \in Seq(Byte)
    BY <1>4, ConcatProperties DEF TypeOK
  <2> QED
    BY <1>1, <1>3, <2>1, ConcatProperties
<1>8. sent' \in Seq(Seq(Byte))
  <2> HIDE DEF body
  <2>1. sent' = sent \/ sent' = Append(sent, body)
    BY <1>1 DEF body
  <2> QED
    BY <1>6, <2>1, AppendLine DEF TypeOK
<1> QED
  BY <1>2, <1>7, <1>8 DEF SendLine, TypeOK, task

(* Bytes under way are lost.                                                *)
LEMMA BreakStep ==
  ASSUME CtrlInv, Break
  PROVE  CtrlInv'
<1>1. PICK n \in 0..(Len(incoming) - 1) : incoming' = SubSeq(incoming, 1, n)
  BY DEF Break
<1>2. incoming \in Seq(Byte) /\ breaks' \in 0..MaxBreaks
  BY DEF Break, CtrlInv, TypeOK
<1>3. incoming' \in Seq(Byte)
  <2>1. n \in 0..Len(incoming)
    BY <1>2, LenProperties
  <2> QED
    BY <1>1, <1>2, <2>1, PartOfSeq
<1> QED
  BY <1>2, <1>3
     DEF Break, CtrlInv, TypeOK, LineFits, CallbacksWhileRunning, StoppedMeansGone, task

LEMMA StutterStep ==
  ASSUME CtrlInv, UNCHANGED vars
  PROVE  CtrlInv'
  BY DEF CtrlInv, TypeOK, LineFits, CallbacksWhileRunning, StoppedMeansGone, vars, task, pc

LEMMA NextCtrlInv == CtrlInv /\ [Next]_vars => CtrlInv'
  BY ReadStep, ByteStep, ControlStep, SendStep, BreakStep, StutterStep DEF Next, Ctrl, Rest

(* Whatever lines arrive, however reads cut them and whenever the task is   *)
(* started and stopped: a line stays inside the line buffer, its NUL        *)
(* included, the callbacks are set as long as the task lives, and once      *)
(* ctrl_stop has returned there is no task.                                 *)
THEOREM CtrlSafe == Spec => []CtrlInv
  BY InitCtrlInv, NextCtrlInv, PTL DEF Spec

-----------------------------------------------------------------------------
(* LinesInOrder.  Bytes under way are those the task holds and those of the *)
(* transport.  The line and the dispatches the task will have made after    *)
(* each of them are given as two functions of the position; the last        *)
(* position has dispatched what the PC sent, and none is ahead of it.       *)
UnderWay == Len(rx) + Len(incoming)
ByteAt(i) == IF i <= Len(rx) THEN rx[i] ELSE incoming[i - Len(rx)]

LineAfter(l, c) == IF c = Eol THEN <<>> ELSE Keep(l, c)
DispatchedAfter(l, d, c) ==
  IF c # Eol \/ Body(l) = <<>> THEN d ELSE Append(d, Body(l))

Foretells(L, D) ==
  /\ D \in [0..UnderWay -> Seq(Seq(Byte))]
  /\ L[0] = line /\ D[0] = dispatched
  /\ L[UnderWay] = <<>> /\ D[UnderWay] = sent
  /\ \A i \in 1..UnderWay :
       /\ L[i] = LineAfter(L[i - 1], ByteAt(i))
       /\ D[i] = DispatchedAfter(L[i - 1], D[i - 1], ByteAt(i))
  /\ \A i \in 0..UnderWay : IsPrefix(D[i], sent)

OrderInv ==
  /\ CtrlInv
  /\ cpc # "bytes" => rx = <<>>
  /\ starts = 0 => cpc = "off" /\ line = <<>>
  /\ breaks = 0 /\ starts <= 1 => \E L, D : Foretells(L, D)

(* Sequences of lines.                                                      *)
LEMMA PrefixFacts ==
  ASSUME NEW S, NEW s \in Seq(S)
  PROVE  /\ IsPrefix(s, s)
         /\ \A t \in Seq(S), e \in S : IsPrefix(s, t) => IsPrefix(s, Append(t, e))
<1>1. IsPrefix(s, s)
  BY LenProperties DEF IsPrefix
<1>2. ASSUME NEW t \in Seq(S), NEW e \in S, IsPrefix(s, t)
      PROVE  IsPrefix(s, Append(t, e))
  <2> DEFINE u == Append(t, e)
             n == Len(s)
  <2>1. /\ u \in Seq(S) /\ Len(u) = Len(t) + 1 /\ n \in Nat /\ Len(t) \in Nat /\ n <= Len(t)
        /\ \A i \in 1..Len(t) : u[i] = t[i]
    BY <1>2, AppendProperties, LenProperties DEF IsPrefix
  <2> HIDE DEF u, n
  <2>2. \A i \in 1..n : i \in 1..Len(t) /\ t[i] \in S /\ u[i] = t[i]
    BY <2>1, ElementOfSeq
  <2>3. /\ SubSeq(t, 1, n) \in Seq(S) /\ SubSeq(u, 1, n) \in Seq(S)
        /\ Len(SubSeq(t, 1, n)) = n /\ Len(SubSeq(u, 1, n)) = n
        /\ \A i \in 1..n : SubSeq(t, 1, n)[i] = t[i]
        /\ \A i \in 1..n : SubSeq(u, 1, n)[i] = u[i]
    <3>1. \A i \in 1..n : u[i] \in S
      BY <2>2
    <3>2. 1 \in Int /\ n \in Int /\ n - 1 + 1 = n /\ \A i \in 1..n : 1 + i - 1 = i
      BY <2>1
    <3>3. /\ SubSeq(t, 1, n) \in Seq(S)
          /\ Len(SubSeq(t, 1, n)) = IF 1 <= n THEN n - 1 + 1 ELSE 0
          /\ \A i \in 1..(n - 1 + 1) : SubSeq(t, 1, n)[i] = t[1 + i - 1]
      BY <2>2, <3>2, SubSeqProperties
    <3>4. /\ SubSeq(u, 1, n) \in Seq(S)
          /\ Len(SubSeq(u, 1, n)) = IF 1 <= n THEN n - 1 + 1 ELSE 0
          /\ \A i \in 1..(n - 1 + 1) : SubSeq(u, 1, n)[i] = u[1 + i - 1]
      BY <3>1, <3>2, SubSeqProperties
    <3>5. (IF 1 <= n THEN n - 1 + 1 ELSE 0) = n
      BY <2>1
    <3> QED
      BY <3>2, <3>3, <3>4, <3>5
  <2>4. \A i \in 1..n : SubSeq(t, 1, n)[i] = SubSeq(u, 1, n)[i]
    BY <2>2, <2>3
  <2>5. SubSeq(t, 1, n) = SubSeq(u, 1, n)
    BY <2>3, <2>4, SeqEqual
  <2>6. SubSeq(s, 1, n) = SubSeq(t, 1, n)
    BY <1>2 DEF IsPrefix, n
  <2>7. n <= Len(u)
    BY <2>1
  <2> QED
    BY <2>5, <2>6, <2>7 DEF IsPrefix, n, u
<1> QED
  BY <1>1, <1>2

(* What is foretold depends on what is under way and on nothing else.       *)
LEMMA ForetellsSame ==
  ASSUME NEW L, NEW D, Foretells(L, D),
         UNCHANGED <<line, dispatched, sent>>, UnderWay' = UnderWay,
         \A i \in 1..UnderWay : ByteAt(i)' = ByteAt(i)
  PROVE  Foretells(L, D)'
<1> QED
  BY DEF Foretells

LEMMA OrderInit == Init => OrderInv
<1> SUFFICES ASSUME Init PROVE OrderInv
  OBVIOUS
<1>1. /\ rx = <<>> /\ incoming = <<>> /\ line = <<>> /\ sent = <<>> /\ dispatched = <<>>
      /\ cpc = "off"
  BY DEF Init
<1>2. UnderWay = 0
  BY <1>1, EmptySeq DEF UnderWay
<1> DEFINE N == [i \in 0..0 |-> <<>>]
<1>3. N[0] = <<>> /\ N \in [0..0 -> Seq(Seq(Byte))] /\ IsPrefix(<<>>, <<>>)
  <2>1. <<>> \in Seq(Seq(Byte))
    BY EmptySeq
  <2>2. IsPrefix(<<>>, <<>>)
    BY <2>1, PrefixFacts
  <2> QED
    BY <2>1, <2>2
<1> HIDE DEF N
<1>4. Foretells(N, N)
  BY <1>1, <1>2, <1>3 DEF Foretells
<1> QED
  BY <1>1, <1>4, InitCtrlInv DEF OrderInv

(* One byte is processed: what was foretold moves one place.                *)
LEMMA OrderByte ==
  ASSUME OrderInv, CtrlInv', ctrl_byte
  PROVE  OrderInv'
<1>1. /\ cpc = "bytes" /\ rx # <<>> /\ rx' = Tail(rx) /\ incoming' = incoming
      /\ sent' = sent /\ cpc' = cpc /\ starts' = starts /\ breaks' = breaks
      /\ starts # 0
  BY DEF ctrl_byte, pc, OrderInv
<1>2. /\ line' = LineAfter(line, Head(rx))
      /\ dispatched' = DispatchedAfter(line, dispatched, Head(rx))
  BY <1>1 DEF ctrl_byte, dispatch_line, AfterEol, LineAfter, DispatchedAfter, OrderInv, CtrlInv, CallbacksWhileRunning
<1>3. SUFFICES ASSUME NEW L, NEW D, Foretells(L, D)
               PROVE  \E M, E : Foretells(M, E)'
  BY <1>1 DEF OrderInv
<1>4. /\ Len(rx) \in Nat \ {0} /\ Len(incoming) \in Nat /\ Len(rx') = Len(rx) - 1
      /\ Head(rx) = rx[1] /\ \A i \in 1..(Len(rx) - 1) : rx'[i] = rx[i + 1]
  <2>1. rx \in Seq(Byte) /\ incoming \in Seq(Byte)
    BY DEF OrderInv, CtrlInv, TypeOK
  <2> QED
    BY <1>1, <2>1, HeadTailProperties, LenProperties
<1>n. PICK n : n = UnderWay
  OBVIOUS
<1>m. PICK M, E : /\ M = [i \in 0..(n - 1) |-> L[i + 1]]
                  /\ E = [i \in 0..(n - 1) |-> D[i + 1]]
  OBVIOUS
<1>5. n \in Nat \ {0} /\ UnderWay' = n - 1
  BY <1>1, <1>4, <1>n DEF UnderWay
<1>6. ByteAt(1) = Head(rx) /\ \A i \in 1..(n - 1) : ByteAt(i)' = ByteAt(i + 1)
  BY <1>1, <1>4, <1>5, <1>n DEF ByteAt, UnderWay
<1>7. /\ D \in [0..n -> Seq(Seq(Byte))]
      /\ L[0] = line /\ D[0] = dispatched /\ L[n] = <<>> /\ D[n] = sent
      /\ \A i \in 1..n : /\ L[i] = LineAfter(L[i - 1], ByteAt(i))
                         /\ D[i] = DispatchedAfter(L[i - 1], D[i - 1], ByteAt(i))
      /\ \A i \in 0..n : IsPrefix(D[i], sent)
  BY <1>3, <1>n DEF Foretells
<1>8. \A i \in 0..(n - 1) : i + 1 \in 1..n /\ i + 1 \in 0..n /\ (i + 1) - 1 = i
  BY <1>5
<1>9. E \in [0..(n - 1) -> Seq(Seq(Byte))] /\ \A i \in 0..(n - 1) : IsPrefix(E[i], sent)
  BY <1>7, <1>8, <1>m
<1>10. L[1] = line' /\ D[1] = dispatched'
  <2>1. 1 \in 1..n /\ 1 - 1 = 0
    BY <1>5
  <2> QED
    BY <1>2, <1>6, <1>7, <2>1
<1>11. M[0] = line' /\ E[0] = dispatched' /\ M[n - 1] = <<>> /\ E[n - 1] = sent
  <2>1. 0 \in 0..(n - 1) /\ n - 1 \in 0..(n - 1) /\ 0 + 1 = 1 /\ (n - 1) + 1 = n
    BY <1>5
  <2> QED
    BY <1>7, <1>10, <2>1, <1>m
<1>12. ASSUME NEW i \in 1..(n - 1)
       PROVE  /\ M[i] = LineAfter(M[i - 1], ByteAt(i)')
              /\ E[i] = DispatchedAfter(M[i - 1], E[i - 1], ByteAt(i)')
  <2>1. i \in 0..(n - 1) /\ i - 1 \in 0..(n - 1) /\ i + 1 \in 1..n /\ (i + 1) - 1 = i /\ (i - 1) + 1 = i
    BY <1>5
  <2>2. M[i] = L[i + 1] /\ M[i - 1] = L[i] /\ E[i] = D[i + 1] /\ E[i - 1] = D[i]
    BY <2>1, <1>m
  <2> QED
    BY <1>6, <1>7, <2>1, <2>2
<1>13. Foretells(M, E)'
  <2>1. /\ E \in [0..UnderWay' -> Seq(Seq(Byte))]
        /\ M[0] = line' /\ E[0] = dispatched'
        /\ M[UnderWay'] = <<>> /\ E[UnderWay'] = sent'
    BY <1>1, <1>5, <1>9, <1>11
  <2>2. \A i \in 1..UnderWay' :
          /\ M[i] = LineAfter(M[i - 1], ByteAt(i)')
          /\ E[i] = DispatchedAfter(M[i - 1], E[i - 1], ByteAt(i)')
    BY <1>5, <1>12
  <2>3. \A i \in 0..UnderWay' : IsPrefix(E[i], sent')
    BY <1>1, <1>5, <1>9
  <2> QED
    BY <2>1, <2>2, <2>3 DEF Foretells, LineAfter, DispatchedAfter
<1> QED
  BY <1>13

(* A read moves bytes from the transport to the task and loses none.        *)
LEMMA OrderRead ==
  ASSUME OrderInv, CtrlInv', ctrl_read
  PROVE  OrderInv'
<1>1. /\ cpc = "read" /\ rx = <<>> /\ starts # 0
      /\ UNCHANGED <<line, sent, dispatched, starts, breaks>>
  BY DEF ctrl_read, OrderInv
<1>2. rx \in Seq(Byte) /\ incoming \in Seq(Byte) /\ Len(rx) = 0 /\ Len(incoming) \in Nat
  BY <1>1, LenProperties DEF OrderInv, CtrlInv, TypeOK
<1>3. /\ cpc' # "bytes" => rx' = <<>>
      /\ UnderWay' = UnderWay
      /\ \A i \in 1..UnderWay : ByteAt(i)' = ByteAt(i)
  <2>1. CASE cpc' = "test" /\ UNCHANGED <<rx, incoming>>
    BY <1>1, <2>1 DEF UnderWay, ByteAt
  <2>2. ASSUME NEW n \in 1..RxMax, n <= Len(incoming),
               rx' = SubSeq(incoming, 1, n),
               incoming' = SubSeq(incoming, n + 1, Len(incoming)),
               cpc' = "bytes"
        PROVE  UnderWay' = UnderWay /\ \A i \in 1..UnderWay : ByteAt(i)' = ByteAt(i)
    <3>1. Len(rx') = n /\ \A i \in 1..n : rx'[i] = incoming[i]
      <4>1. \A i \in 1..n : incoming[i] \in Byte
        BY <1>2, <2>2, ElementOfSeq
      <4>2. 1 \in Int /\ n \in Int /\ 1 <= n /\ n - 1 + 1 = n /\ \A i \in 1..n : 1 + i - 1 = i
        OBVIOUS
      <4>3. /\ Len(SubSeq(incoming, 1, n)) = IF 1 <= n THEN n - 1 + 1 ELSE 0
            /\ \A i \in 1..(n - 1 + 1) : SubSeq(incoming, 1, n)[i] = incoming[1 + i - 1]
        BY <4>1, <4>2, SubSeqProperties
      <4> QED
        BY <2>2, <4>2, <4>3
    <3>2. /\ Len(incoming') = Len(incoming) - n
          /\ \A i \in 1..(Len(incoming) - n) : incoming'[i] = incoming[i + n]
      <4> DEFINE m == Len(incoming)
      <4>1. \A i \in (n + 1)..m : incoming[i] \in Byte
        BY <1>2, ElementOfSeq
      <4>2. /\ m \in Int /\ n + 1 \in Int /\ m - (n + 1) + 1 = m - n
            /\ \A i \in 1..(m - n) : (n + 1) + i - 1 = i + n
            /\ (IF n + 1 <= m THEN m - (n + 1) + 1 ELSE 0) = m - n
        BY <1>2, <2>2
      <4> HIDE DEF m
      <4>3. /\ Len(SubSeq(incoming, n + 1, m)) = IF n + 1 <= m THEN m - (n + 1) + 1 ELSE 0
            /\ \A i \in 1..(m - (n + 1) + 1) :
                 SubSeq(incoming, n + 1, m)[i] = incoming[(n + 1) + i - 1]
        BY <4>1, <4>2, SubSeqProperties
      <4>4. incoming' = SubSeq(incoming, n + 1, m)
        BY <2>2 DEF m
      <4>5. Len(incoming') = m - n /\ \A i \in 1..(m - n) : incoming'[i] = incoming[i + n]
        BY <4>2, <4>3, <4>4
      <4> QED
        BY <4>5 DEF m
    <3>3. ASSUME NEW i \in 1..Len(incoming)
          PROVE  (IF i <= n THEN rx'[i] ELSE incoming'[i - n]) = incoming[i]
      <4>1. CASE i <= n
        BY <3>1, <4>1
      <4>2. CASE i > n
        <5>1. i - n \in 1..(Len(incoming) - n) /\ (i - n) + n = i
          BY <1>2, <4>2
        <5> QED
          BY <3>2, <4>2, <5>1
      <4> QED
        BY <1>2, <4>1, <4>2
    <3>4. UnderWay = Len(incoming) /\ \A i \in 1..Len(incoming) : ByteAt(i) = incoming[i]
      BY <1>2 DEF UnderWay, ByteAt
    <3>5. UnderWay' = Len(incoming)
      BY <1>2, <3>1, <3>2 DEF UnderWay
    <3> QED
      BY <3>1, <3>3, <3>4, <3>5 DEF ByteAt
  <2> QED
    BY <2>1, <2>2, <1>1 DEF ctrl_read
<1> QED
  BY <1>1, <1>3, ForetellsSame DEF OrderInv

(* The steps that move no byte; the first start finds nothing assembled.    *)
LEMMA OrderControl ==
  ASSUME OrderInv, CtrlInv',
         \/ ctrl_test \/ ctrl_chunk_done \/ ctrl_exit
         \/ esp_audio_pcm_ctrl_start \/ esp_audio_pcm_ctrl_stop \/ ctrl_stop_return
         \/ UNCHANGED vars
  PROVE  OrderInv'
<1>1. CASE ~ esp_audio_pcm_ctrl_start
  <2>1. UNCHANGED <<rx, incoming, line, sent, dispatched, starts, breaks>>
    BY <1>1 DEF ctrl_test, ctrl_chunk_done, ctrl_exit, esp_audio_pcm_ctrl_stop,
                ctrl_stop_return, vars, task, pc
  <2>2. (cpc' # "bytes" => rx' = <<>>) /\ (starts' = 0 => cpc' = "off" /\ line' = <<>>)
    BY <1>1 DEF OrderInv, ctrl_test, ctrl_chunk_done, ctrl_exit, esp_audio_pcm_ctrl_stop,
                ctrl_stop_return, vars, task
  <2>3. UnderWay' = UnderWay /\ \A i \in 1..UnderWay : ByteAt(i)' = ByteAt(i)
    BY <2>1 DEF UnderWay, ByteAt
  <2> QED
    BY <2>1, <2>2, <2>3, ForetellsSame DEF OrderInv
<1>2. CASE esp_audio_pcm_ctrl_start
  <2>1. /\ starts' = starts + 1 /\ starts \in Nat /\ rx' = <<>> /\ line' = <<>>
        /\ UNCHANGED <<incoming, sent, dispatched, breaks>>
    BY <1>2 DEF esp_audio_pcm_ctrl_start, pc, OrderInv, CtrlInv, TypeOK
  <2>2. CASE starts = 0
    <3>1. rx = <<>> /\ line = <<>>
      BY <2>2 DEF OrderInv
    <3>2. UnderWay' = UnderWay /\ \A i \in 1..UnderWay : ByteAt(i)' = ByteAt(i)
      BY <2>1, <3>1 DEF UnderWay, ByteAt
    <3>3. UNCHANGED <<line, dispatched, sent>> /\ (breaks' = 0 => breaks = 0) /\ starts' # 0 /\ starts <= 1
      BY <2>1, <2>2, <3>1
    <3> QED
      BY <2>1, <3>2, <3>3, ForetellsSame DEF OrderInv
  <2>3. CASE starts # 0
    <3>1. starts' # 0 /\ ~(starts' <= 1)
      BY <2>1, <2>3
    <3> QED
      BY <2>1, <3>1 DEF OrderInv
  <2> QED
    BY <2>2, <2>3
<1> QED
  BY <1>1, <1>2

(* Nothing is promised once bytes are lost.                                 *)
LEMMA OrderBreak ==
  ASSUME OrderInv, CtrlInv', Break
  PROVE  OrderInv'
<1>1. breaks' # 0
  BY DEF Break, OrderInv, CtrlInv, TypeOK
<1> QED
  BY <1>1 DEF OrderInv, Break, task

(* The part of a line that the task has kept after j of its characters.     *)
Kept(t, j) == SubSeq(t, 1, IF j < LineMax THEN j ELSE LineMax - 1)

LEMMA KeptFacts ==
  ASSUME NEW t \in Seq(Byte)
  PROVE  /\ Kept(t, 0) = <<>>
         /\ Kept(t, Len(t)) = Truncated(t)
         /\ \A j \in 1..Len(t) : Keep(Kept(t, j - 1), t[j]) = Kept(t, j)
<1>1. Kept(t, 0) = <<>>
  BY SubSeqEmpty DEF Kept
<1>2. Kept(t, Len(t)) = Truncated(t)
  BY DEF Kept, Truncated
<1>3. ASSUME NEW j \in 1..Len(t)
      PROVE  Keep(Kept(t, j - 1), t[j]) = Kept(t, j)
  <2>0. Len(t) \in Nat /\ j \in Nat \ {0} /\ j <= Len(t) /\ t[j] \in Byte
    BY LenProperties, ElementOfSeq
  <2>1. CASE j < LineMax
    <3>1. Kept(t, j) = SubSeq(t, 1, j) /\ Kept(t, j - 1) = SubSeq(t, 1, j - 1)
      BY <2>0, <2>1 DEF Kept
    <3> DEFINE s == SubSeq(t, 1, j - 1)
               u == SubSeq(t, 1, j)
    <3>2. \A i \in 1..j : i \in 1..Len(t) /\ t[i] \in Byte /\ 1 + i - 1 = i
      BY <2>0, ElementOfSeq
    <3>3. /\ u \in Seq(Byte) /\ Len(u) = j /\ \A i \in 1..j : u[i] = t[i]
      <4>1. 1 \in Int /\ j \in Int /\ 1 <= j /\ j - 1 + 1 = j
        BY <2>0
      <4>2. /\ u \in Seq(Byte) /\ Len(u) = IF 1 <= j THEN j - 1 + 1 ELSE 0
            /\ \A i \in 1..(j - 1 + 1) : u[i] = t[1 + i - 1]
        BY <3>2, <4>1, SubSeqProperties
      <4> QED
        BY <3>2, <4>1, <4>2
    <3>4. /\ s \in Seq(Byte) /\ Len(s) = j - 1 /\ \A i \in 1..(j - 1) : s[i] = t[i]
      <4> DEFINE k == j - 1
      <4>1. 1 \in Int /\ k \in Int /\ k - 1 + 1 = k /\ (IF 1 <= k THEN k - 1 + 1 ELSE 0) = k
        BY <2>0
      <4>2. \A i \in 1..k : t[i] \in Byte /\ 1 + i - 1 = i
        BY <2>0, <3>2
      <4> HIDE DEF k
      <4>3. /\ SubSeq(t, 1, k) \in Seq(Byte)
            /\ Len(SubSeq(t, 1, k)) = IF 1 <= k THEN k - 1 + 1 ELSE 0
            /\ \A i \in 1..(k - 1 + 1) : SubSeq(t, 1, k)[i] = t[1 + i - 1]
        BY <4>1, <4>2, SubSeqProperties
      <4>4. /\ SubSeq(t, 1, k) \in Seq(Byte) /\ Len(SubSeq(t, 1, k)) = k
            /\ \A i \in 1..k : SubSeq(t, 1, k)[i] = t[i]
        BY <4>1, <4>2, <4>3
      <4> QED
        BY <4>4 DEF k
    <3> HIDE DEF s, u
    <3>5. /\ Append(s, t[j]) \in Seq(Byte) /\ Len(Append(s, t[j])) = j
          /\ \A i \in 1..(j - 1) : Append(s, t[j])[i] = s[i]
          /\ Append(s, t[j])[j] = t[j]
      BY <2>0, <3>4, AppendProperties
    <3>6. \A i \in 1..j : Append(s, t[j])[i] = u[i]
      <4>1. ASSUME NEW i \in 1..j PROVE Append(s, t[j])[i] = u[i]
        <5>1. CASE i = j
          BY <3>3, <3>5, <5>1
        <5>2. CASE i # j
          BY <2>0, <3>3, <3>4, <3>5, <5>2
        <5> QED
          BY <5>1, <5>2
      <4> QED
        BY <4>1
    <3>7. Append(s, t[j]) = u
      BY <3>3, <3>5, <3>6, SeqEqual
    <3>8. Len(s) < LineMax - 1
      BY <2>0, <2>1, <3>4
    <3> QED
      BY <3>1, <3>7, <3>8 DEF Keep, s, u
  <2>2. CASE j >= LineMax
    <3>1. Kept(t, j) = SubSeq(t, 1, LineMax - 1) /\ Kept(t, j - 1) = SubSeq(t, 1, LineMax - 1)
      BY <2>0, <2>2 DEF Kept
    <3>2. Len(SubSeq(t, 1, LineMax - 1)) = LineMax - 1
      BY <2>0, <2>2, PartOfSeq
    <3> QED
      BY <3>1, <3>2 DEF Keep
  <2> QED
    BY <2>0, <2>1, <2>2
<1> QED
  BY <1>1, <1>2, <1>3

(* A line is sent: behind what was under way come its characters, kept one  *)
(* by one, and its end, which dispatches what should be dispatched.         *)
LEMMA OrderSend ==
  ASSUME OrderInv, CtrlInv', SendLine
  PROVE  OrderInv'
<1>1. PICK len \in 0..MaxLineLen, blanks \in 0..1, eols \in 1..2 :
        LET text == [i \in 1..blanks |-> Blank] \o [i \in 1..len |-> lines + 1]
            body == Body(Truncated(text))
        IN  /\ incoming' = incoming \o text \o [i \in 1..eols |-> Eol]
            /\ sent' = IF body = <<>> THEN sent ELSE Append(sent, body)
  BY DEF SendLine
<1>2. PICK t : t = [i \in 1..blanks |-> Blank] \o [i \in 1..len |-> lines + 1]
  OBVIOUS
<1>3. PICK e : e = [i \in 1..eols |-> Eol]
  OBVIOUS
<1>4. /\ incoming' = incoming \o t \o e
      /\ sent' = IF Body(Truncated(t)) = <<>> THEN sent ELSE Append(sent, Body(Truncated(t)))
      /\ UNCHANGED <<rx, line, cpc, dispatched, starts, breaks>>
  BY <1>1, <1>2, <1>3 DEF SendLine, task
<1>5. SUFFICES ASSUME NEW L, NEW D, Foretells(L, D)
               PROVE  \E M, E : Foretells(M, E)'
  BY <1>4 DEF OrderInv
<1>6. t \in Seq(Byte) /\ \A i \in 1..Len(t) : t[i] # Eol
  <2>1. lines + 1 \in 1..MaxLines
    BY DEF SendLine, OrderInv, CtrlInv, TypeOK
  <2>2. lines + 1 \in Byte \ {Eol} /\ Blank \in Byte \ {Eol}
    BY <2>1 DEF Byte, Blank, Eol
  <2>3. /\ [i \in 1..blanks |-> Blank] \in Seq(Byte \ {Eol})
        /\ [i \in 1..len |-> lines + 1] \in Seq(Byte \ {Eol})
    BY <2>2, IsASeq
  <2>4. t \in Seq(Byte \ {Eol})
    BY <1>2, <2>3, ConcatProperties
  <2>5. \A i \in 1..Len(t) : t[i] \in Byte \ {Eol}
    BY <2>4, ElementOfSeq
  <2>6. t \in Seq(Byte)
    BY <2>4, SeqMonotonic
  <2> QED
    BY <2>5, <2>6
<1>7. e \in Seq(Byte) /\ Len(e) = eols /\ \A i \in 1..eols : e[i] = Eol
  BY <1>3, IsASeq DEF Byte
<1>8. PICK n, m : n = UnderWay /\ m = Len(t)
  OBVIOUS
<1>9. n \in Nat /\ m \in Nat /\ UnderWay' = n + m + eols /\ eols \in {1, 2}
  <2>1. incoming \in Seq(Byte) /\ rx \in Seq(Byte)
    BY DEF OrderInv, CtrlInv, TypeOK
  <2>2. incoming \o t \in Seq(Byte) /\ Len(incoming \o t) = Len(incoming) + m
    BY <1>6, <1>8, <2>1, ConcatProperties
  <2>3. Len(incoming') = Len(incoming) + m + eols
    BY <1>4, <1>7, <2>2, ConcatProperties
  <2> QED
    BY <1>4, <1>6, <1>8, <2>1, <2>3, LenProperties DEF UnderWay
<1>10. /\ \A i \in 1..n : ByteAt(i)' = ByteAt(i)
       /\ \A i \in 1..m : ByteAt(n + i)' = t[i]
       /\ \A i \in 1..eols : ByteAt(n + m + i)' = Eol
  <2>1. /\ incoming \in Seq(Byte) /\ Len(rx) \in Nat /\ Len(incoming) \in Nat
        /\ n = Len(rx) + Len(incoming)
    BY <1>8, LenProperties DEF OrderInv, CtrlInv, TypeOK, UnderWay
  <2>2. PICK k : k = Len(incoming)
    OBVIOUS
  <2>3. /\ incoming \o t \in Seq(Byte) /\ Len(incoming \o t) = k + m
        /\ \A i \in 1..(k + m) :
             (incoming \o t)[i] = IF i <= k THEN incoming[i] ELSE t[i - k]
    BY <1>6, <1>8, <2>1, <2>2, ConcatProperties
  <2>4. \A i \in 1..(k + m + eols) :
          incoming'[i] = IF i <= k + m THEN (incoming \o t)[i] ELSE e[i - (k + m)]
    BY <1>4, <1>7, <2>3, ConcatProperties
  <2>5. ASSUME NEW i \in 1..n PROVE ByteAt(i)' = ByteAt(i)
    <3>1. CASE i <= Len(rx)
      BY <1>4, <3>1 DEF ByteAt
    <3>2. CASE i > Len(rx)
      <4>1. i - Len(rx) \in 1..k /\ i - Len(rx) \in 1..(k + m) /\ i - Len(rx) \in 1..(k + m + eols)
        BY <1>9, <2>1, <2>2, <3>2
      <4>2. i - Len(rx) <= k /\ i - Len(rx) <= k + m
        BY <1>9, <2>1, <2>2, <4>1
      <4>3. incoming'[i - Len(rx)] = incoming[i - Len(rx)]
        BY <2>3, <2>4, <4>1, <4>2
      <4> QED
        BY <1>4, <2>1, <3>2, <4>3 DEF ByteAt
    <3> QED
      BY <2>1, <3>1, <3>2
  <2>6. ASSUME NEW i \in 1..m PROVE ByteAt(n + i)' = t[i]
    <3>1. /\ ~(n + i <= Len(rx)) /\ (n + i) - Len(rx) = k + i
          /\ k + i \in 1..(k + m) /\ k + i \in 1..(k + m + eols)
          /\ ~(k + i <= k) /\ k + i <= k + m /\ (k + i) - k = i
      BY <1>9, <2>1, <2>2
    <3>2. incoming'[k + i] = t[i]
      BY <2>3, <2>4, <3>1
    <3> QED
      BY <1>4, <3>1, <3>2 DEF ByteAt
  <2>7. ASSUME NEW i \in 1..eols PROVE ByteAt(n + m + i)' = Eol
    <3>1. /\ ~(n + m + i <= Len(rx)) /\ (n + m + i) - Len(rx) = k + m + i
          /\ k + m + i \in 1..(k + m + eols)
          /\ ~(k + m + i <= k + m) /\ (k + m + i) - (k + m) = i
      BY <1>9, <2>1, <2>2
    <3>2. incoming'[k + m + i] = Eol
      BY <1>7, <2>4, <3>1
    <3> QED
      BY <1>4, <3>1, <3>2 DEF ByteAt
  <2> QED
    BY <2>5, <2>6, <2>7
<1>11. PICK M, E :
         /\ M = [i \in 0..(n + m + eols) |->
                   IF i <= n THEN L[i] ELSE IF i <= n + m THEN Kept(t, i - n) ELSE <<>>]
         /\ E = [i \in 0..(n + m + eols) |->
                   IF i <= n THEN D[i] ELSE IF i <= n + m THEN sent ELSE sent']
  OBVIOUS
<1>12. /\ D \in [0..n -> Seq(Seq(Byte))]
       /\ L[0] = line /\ D[0] = dispatched /\ L[n] = <<>> /\ D[n] = sent
       /\ \A i \in 1..n : /\ L[i] = LineAfter(L[i - 1], ByteAt(i))
                          /\ D[i] = DispatchedAfter(L[i - 1], D[i - 1], ByteAt(i))
       /\ \A i \in 0..n : IsPrefix(D[i], sent)
  BY <1>5, <1>8 DEF Foretells
<1>13. /\ \A i \in 0..n : M[i] = L[i] /\ E[i] = D[i]
       /\ \A i \in 0..m : M[n + i] = Kept(t, i) /\ E[n + i] = sent
       /\ \A i \in 1..eols : M[n + m + i] = <<>> /\ E[n + m + i] = sent'
  <2>1. \A i \in 0..n : i \in 0..(n + m + eols) /\ i <= n
    BY <1>9
  <2>2. ASSUME NEW i \in 0..m PROVE M[n + i] = Kept(t, i) /\ E[n + i] = sent
    <3>1. CASE i = 0
      <4>1. n + i = n /\ n \in 0..(n + m + eols) /\ n <= n
        BY <1>9, <3>1
      <4> QED
        BY <1>6, <1>11, <1>12, <3>1, <4>1, KeptFacts
    <3>2. CASE i # 0
      <4>1. n + i \in 0..(n + m + eols) /\ ~(n + i <= n) /\ n + i <= n + m /\ (n + i) - n = i
        BY <1>9, <3>2
      <4> QED
        BY <1>11, <4>1
    <3> QED
      BY <3>1, <3>2
  <2>3. \A i \in 1..eols : /\ n + m + i \in 0..(n + m + eols)
                           /\ ~(n + m + i <= n) /\ ~(n + m + i <= n + m)
    BY <1>9
  <2> QED
    BY <1>11, <2>1, <2>2, <2>3
<1>14. /\ sent \in Seq(Seq(Byte)) /\ sent' \in Seq(Seq(Byte))
       /\ \A s \in Seq(Seq(Byte)) : IsPrefix(s, sent) => IsPrefix(s, sent')
       /\ IsPrefix(sent, sent')
  <2>1. sent \in Seq(Seq(Byte)) /\ sent' \in Seq(Seq(Byte))
    BY DEF OrderInv, CtrlInv, TypeOK
  <2>2. Truncated(t) \in Seq(Byte)
    <3>1. (IF Len(t) < LineMax THEN Len(t) ELSE LineMax - 1) \in 0..Len(t) /\ 1 \in Nat \ {0}
      BY <1>8, <1>9
    <3> QED
      BY <1>6, <3>1, PartOfSeq DEF Truncated
  <2>3. Body(Truncated(t)) \in Seq(Byte)
    BY <2>2, BodyFacts
  <2>4. ASSUME NEW s \in Seq(Seq(Byte)), IsPrefix(s, sent)
        PROVE  IsPrefix(s, sent')
    <3> DEFINE B == Seq(Byte)
    <3>1. s \in Seq(B) /\ sent \in Seq(B) /\ Body(Truncated(t)) \in B
      BY <2>1, <2>3
    <3> HIDE DEF B
    <3>2. IsPrefix(s, Append(sent, Body(Truncated(t))))
      BY <2>4, <3>1, PrefixFacts
    <3> QED
      BY <1>4, <2>4, <3>2
  <2>5. IsPrefix(sent, sent)
    BY <2>1, PrefixFacts
  <2> QED
    BY <2>1, <2>4, <2>5
<1>15. /\ M[0] = line /\ E[0] = dispatched
       /\ M[n + m + eols] = <<>> /\ E[n + m + eols] = sent'
  <2>1. 0 \in 0..n /\ eols \in 1..eols
    BY <1>9
  <2> QED
    BY <1>12, <1>13, <2>1
<1>16. ASSUME NEW i \in 0..(n + m + eols)
       PROVE  E[i] \in Seq(Seq(Byte)) /\ IsPrefix(E[i], sent')
  <2>0. CASE i \in 0..n
    BY <1>12, <1>13, <1>14, <2>0
  <2>1. CASE i > n
    <3>1. E[i] = sent \/ E[i] = sent'
      BY <1>9, <1>11, <2>1
    <3>2. IsPrefix(sent', sent')
      BY <1>14, PrefixFacts
    <3> QED
      BY <1>14, <3>1, <3>2
  <2> QED
    BY <1>9, <2>0, <2>1
<1>17. ASSUME NEW i \in 1..(n + m + eols)
       PROVE  /\ M[i] = LineAfter(M[i - 1], ByteAt(i)')
              /\ E[i] = DispatchedAfter(M[i - 1], E[i - 1], ByteAt(i)')
  <2>1. CASE i <= n
    <3>1. i \in 1..n /\ i \in 0..n /\ i - 1 \in 0..n
      BY <1>9, <2>1
    <3> QED
      BY <1>10, <1>12, <1>13, <3>1
  <2>2. CASE i > n /\ i <= n + m
    <3>1. PICK j \in 1..m : i = n + j
      <4>1. i - n \in 1..m /\ i = n + (i - n)
        BY <1>9, <2>2
      <4> QED
        BY <4>1
    <3>2. i - 1 = n + (j - 1) /\ j - 1 \in 0..m /\ j \in 0..m
      BY <1>9, <3>1
    <3>3. /\ M[i] = Kept(t, j) /\ M[i - 1] = Kept(t, j - 1) /\ E[i] = sent /\ E[i - 1] = sent
      BY <1>13, <3>1, <3>2
    <3>4. ByteAt(i)' = t[j] /\ t[j] # Eol
      BY <1>6, <1>8, <1>10, <3>1
    <3>5. Keep(Kept(t, j - 1), t[j]) = Kept(t, j)
      BY <1>6, <1>8, <3>1, KeptFacts
    <3> QED
      BY <3>3, <3>4, <3>5 DEF LineAfter, DispatchedAfter
  <2>3. CASE i = n + m + 1
    <3>1. 1 \in 1..eols /\ i - 1 = n + m /\ m \in 0..m
      BY <1>9, <2>3
    <3>2. M[i] = <<>> /\ E[i] = sent' /\ M[i - 1] = Truncated(t) /\ E[i - 1] = sent
      BY <1>6, <1>8, <1>13, <2>3, <3>1, KeptFacts
    <3>3. ByteAt(i)' = Eol
      BY <1>10, <2>3, <3>1
    <3> QED
      BY <1>4, <3>2, <3>3 DEF LineAfter, DispatchedAfter
  <2>4. CASE i = n + m + 2
    <3>1. 1 \in 1..eols /\ 2 \in 1..eols /\ i - 1 = n + m + 1
      BY <1>9, <2>4
    <3>2. M[i] = <<>> /\ E[i] = sent' /\ M[i - 1] = <<>> /\ E[i - 1] = sent'
      BY <1>13, <2>4, <3>1
    <3>3. ByteAt(i)' = Eol
      BY <1>10, <2>4, <3>1
    <3>4. Body(<<>>) = <<>>
      BY EmptySeq DEF Body
    <3> QED
      BY <3>2, <3>3, <3>4 DEF LineAfter, DispatchedAfter
  <2> QED
    BY <1>9, <2>1, <2>2, <2>3, <2>4
<1>18. E \in [0..(n + m + eols) -> Seq(Seq(Byte))]
  BY <1>11, <1>16
<1>19. Foretells(M, E)'
  <2>1. /\ E \in [0..UnderWay' -> Seq(Seq(Byte))]
        /\ M[0] = line' /\ E[0] = dispatched'
        /\ M[UnderWay'] = <<>> /\ E[UnderWay'] = sent'
    BY <1>4, <1>9, <1>15, <1>18
  <2>2. \A i \in 1..UnderWay' :
          /\ M[i] = LineAfter(M[i - 1], ByteAt(i)')
          /\ E[i] = DispatchedAfter(M[i - 1], E[i - 1], ByteAt(i)')
    BY <1>9, <1>17
  <2>3. \A i \in 0..UnderWay' : IsPrefix(E[i], sent')
    BY <1>9, <1>16
  <2> QED
    BY <2>1, <2>2, <2>3 DEF Foretells, LineAfter, DispatchedAfter
<1> QED
  BY <1>19

LEMMA OrderNext == OrderInv /\ [Next]_vars => OrderInv'
<1> SUFFICES ASSUME OrderInv, [Next]_vars PROVE OrderInv'
  OBVIOUS
<1>1. CtrlInv'
  BY NextCtrlInv DEF OrderInv
<1> QED
  BY <1>1, OrderRead, OrderByte, OrderControl, OrderBreak, OrderSend DEF Next, Ctrl, Rest

LEMMA OrderLines == OrderInv => LinesInOrder
<1>1. ASSUME OrderInv, NEW L, NEW D, Foretells(L, D)
      PROVE  IsPrefix(dispatched, sent)
  <2>1. UnderWay \in Nat
    BY <1>1, LenProperties DEF OrderInv, CtrlInv, TypeOK, UnderWay
  <2>2. 0 \in 0..UnderWay
    BY <2>1
  <2> QED
    BY <1>1, <2>2 DEF Foretells
<1> QED
  BY <1>1 DEF OrderInv, LinesInOrder

LEMMA OrderLinesNext == OrderInv' => LinesInOrder'
  BY OrderLines, PTL

(* Whatever the lines, however reads cut them and wherever stop comes: the  *)
(* callbacks see the PC's lines, each once and in order, while no byte is   *)
(* lost and the task is not started again.                                  *)
THEOREM CtrlOrdered == Spec => []LinesInOrder
  BY OrderInit, OrderNext, OrderLines, PTL DEF Spec

-----------------------------------------------------------------------------
(* CommandsSpec.  A step of the task, of the application or of the PC is a  *)
(* step of PcmCommands or leaves its variables alone.                       *)
Phase == IF ctrl_running THEN "on" ELSE IF mpc = "stopping" THEN "stopping" ELSE "off"
Disturbed == breaks > 0 \/ starts > 1
Seen == <<Phase, Disturbed, sent, dispatched>>

LEMMA OneLineMore ==
  ASSUME NEW s \in Seq(Seq(Byte)), NEW l \in Seq(Byte)
  PROVE  /\ Commands!OneMore(s, Append(s, l))
         /\ Append(s, l)[Len(s) + 1] = l
<1> DEFINE L == Seq(Byte)
<1>1. s \in Seq(L) /\ l \in L
  OBVIOUS
<1> HIDE DEF L
<1>2. PICK u, n : u = Append(s, l) /\ n = Len(s)
  OBVIOUS
<1>3. /\ n \in Nat /\ u \in Seq(L) /\ Len(u) = n + 1
      /\ u[n + 1] = l /\ \A i \in 1..n : u[i] = s[i]
  BY <1>1, <1>2, AppendProperties, LenProperties
<1>4. \A i \in 1..n : u[i] \in L
  BY <1>1, <1>2, <1>3, ElementOfSeq
<1>5. /\ SubSeq(u, 1, n) \in Seq(L) /\ Len(SubSeq(u, 1, n)) = n
      /\ \A i \in 1..n : SubSeq(u, 1, n)[i] = u[i]
  <2>1. 1 \in Int /\ n \in Int /\ n - 1 + 1 = n /\ \A i \in 1..n : 1 + i - 1 = i
    BY <1>3
  <2>2. /\ SubSeq(u, 1, n) \in Seq(L)
        /\ Len(SubSeq(u, 1, n)) = IF 1 <= n THEN n - 1 + 1 ELSE 0
        /\ \A i \in 1..(n - 1 + 1) : SubSeq(u, 1, n)[i] = u[1 + i - 1]
    BY <1>4, <2>1, SubSeqProperties
  <2>3. (IF 1 <= n THEN n - 1 + 1 ELSE 0) = n
    BY <1>3
  <2> QED
    BY <2>1, <2>2, <2>3
<1>6. SubSeq(u, 1, n) = s
  BY <1>1, <1>2, <1>3, <1>5, SeqEqual
<1> QED
  BY <1>2, <1>3, <1>6 DEF Commands!OneMore

(* The last line of a prefix is the line at its place.                      *)
LEMMA PrefixLast ==
  ASSUME NEW s \in Seq(Seq(Byte)), NEW t \in Seq(Seq(Byte)), NEW n \in Nat,
         IsPrefix(s, t), Len(s) = n + 1
  PROVE  n < Len(t) /\ s[n + 1] = t[n + 1]
<1> DEFINE L == Seq(Byte)
<1>1. s \in Seq(L) /\ t \in Seq(L)
  OBVIOUS
<1> HIDE DEF L
<1>2. Len(t) \in Nat /\ n + 1 <= Len(t) /\ SubSeq(s, 1, n + 1) = SubSeq(t, 1, n + 1)
  BY <1>1, LenProperties DEF IsPrefix
<1>3. ASSUME NEW u \in Seq(L), n + 1 <= Len(u), Len(u) \in Nat
      PROVE  SubSeq(u, 1, n + 1)[n + 1] = u[n + 1]
  <2>1. \A i \in 1..(n + 1) : i \in 1..Len(u)
    BY <1>3
  <2>2. \A i \in 1..(n + 1) : u[i] \in L
    BY <1>3, <2>1, ElementOfSeq
  <2>3. /\ 1 \in Int /\ n + 1 \in Int
        /\ n + 1 \in 1..((n + 1) - 1 + 1) /\ 1 + (n + 1) - 1 = n + 1
    OBVIOUS
  <2>4. \A i \in 1..((n + 1) - 1 + 1) : SubSeq(u, 1, n + 1)[i] = u[1 + i - 1]
    BY <2>2, <2>3, SubSeqProperties
  <2> QED
    BY <2>3, <2>4
<1> QED
  BY <1>1, <1>2, <1>3

(* An end of line dispatches the next line of the PC, while there is a task *)
(* to do it; any other byte is not seen from outside.                       *)
LEMMA ByteRefines ==
  ASSUME OrderInv, OrderInv', ctrl_byte
  PROVE  Commands!Dispatch \/ UNCHANGED Seen
<1>1. /\ UNCHANGED <<ctrl_running, mpc, sent, breaks, starts>>
      /\ cpc = "bytes"
  BY DEF ctrl_byte, pc
<1>2. UNCHANGED <<Phase, Disturbed, sent>>
  <2>1. Phase' = Phase
    BY <1>1 DEF Phase
  <2>2. Disturbed' = Disturbed
    BY <1>1, Zenon DEF Disturbed
  <2> QED
    BY <1>1, <2>1, <2>2, Zenon
<1>3. dispatched' = dispatched \/ dispatched' = Append(dispatched, Body(line))
  BY DEF ctrl_byte, dispatch_line
<1>4. CASE dispatched' = dispatched
  BY <1>2, <1>4, Zenon DEF Seen
<1>5. CASE dispatched' = Append(dispatched, Body(line))
  <2>1. /\ dispatched \in Seq(Seq(Byte)) /\ dispatched' \in Seq(Seq(Byte))
        /\ sent \in Seq(Seq(Byte)) /\ line \in Seq(Byte)
    BY <1>1 DEF OrderInv, CtrlInv, TypeOK
  <2>2. Body(line) \in Seq(Byte)
    BY <2>1, BodyFacts
  <2>3. Commands!OneMore(dispatched, dispatched')
    BY <1>5, <2>1, <2>2, OneLineMore
  <2>4. Phase # "off"
    BY <1>1 DEF OrderInv, CtrlInv, TypeOK, StoppedMeansGone, Phase
  <2>5. ASSUME ~ Disturbed
        PROVE  /\ Len(dispatched) < Len(sent)
               /\ dispatched'[Len(dispatched) + 1] = sent[Len(dispatched) + 1]
    <3>1. breaks \in Nat /\ starts \in Nat
      BY DEF OrderInv, CtrlInv, TypeOK
    <3>2. breaks' = 0 /\ starts' <= 1
      BY <1>1, <2>5, <3>1 DEF Disturbed
    <3>3. IsPrefix(dispatched', sent')
      BY <3>2, OrderLinesNext DEF LinesInOrder
    <3>4. Len(dispatched) \in Nat /\ Len(dispatched') = Len(dispatched) + 1
      BY <2>1, <2>3, LenProperties DEF Commands!OneMore
    <3> QED
      BY <1>1, <2>1, <3>3, <3>4, PrefixLast
  <2> QED
    BY <1>2, <2>3, <2>4, <2>5, Zenon DEF Commands!Dispatch, Phase, Disturbed
<1> QED
  BY <1>3, <1>4, <1>5

(* A line that says something is a line more in sent.                       *)
LEMMA SendRefines ==
  ASSUME OrderInv, SendLine
  PROVE  Commands!Send \/ UNCHANGED Seen
<1>1. PICK len \in 0..MaxLineLen, blanks \in 0..1, eols \in 1..2 :
        LET text == [i \in 1..blanks |-> Blank] \o [i \in 1..len |-> lines + 1]
            body == Body(Truncated(text))
        IN  /\ incoming' = incoming \o text \o [i \in 1..eols |-> Eol]
            /\ sent' = IF body = <<>> THEN sent ELSE Append(sent, body)
  BY DEF SendLine
<1>2. PICK t : t = [i \in 1..blanks |-> Blank] \o [i \in 1..len |-> lines + 1]
  OBVIOUS
<1>3. sent' = sent \/ sent' = Append(sent, Body(Truncated(t)))
  BY <1>1, <1>2
<1>4. UNCHANGED <<ctrl_running, mpc, breaks, starts, dispatched>>
  BY DEF SendLine
<1>5. UNCHANGED <<Phase, Disturbed, dispatched>>
  <2>1. Phase' = Phase
    BY <1>4 DEF Phase
  <2>2. Disturbed' = Disturbed
    BY <1>4, Zenon DEF Disturbed
  <2> QED
    BY <1>4, <2>1, <2>2, Zenon
<1>6. CASE sent' = sent
  BY <1>5, <1>6, Zenon DEF Seen
<1>7. CASE sent' = Append(sent, Body(Truncated(t)))
  <2>1. Body(Truncated(t)) \in Seq(Byte)
    <3>1. lines + 1 \in Byte
      BY DEF SendLine, OrderInv, CtrlInv, TypeOK, Byte
    <3>2. /\ [i \in 1..blanks |-> Blank] \in Seq(Byte)
          /\ [i \in 1..len |-> lines + 1] \in Seq(Byte)
      BY <3>1, IsASeq DEF Byte
    <3>3. t \in Seq(Byte)
      BY <1>2, <3>2, ConcatProperties
    <3>4. (IF Len(t) < LineMax THEN Len(t) ELSE LineMax - 1) \in 0..Len(t) /\ 1 \in Nat \ {0}
      BY <3>3, LenProperties
    <3>5. Truncated(t) \in Seq(Byte)
      BY <3>3, <3>4, PartOfSeq DEF Truncated
    <3> QED
      BY <3>5, BodyFacts
  <2>2. sent \in Seq(Seq(Byte))
    BY DEF OrderInv, CtrlInv, TypeOK
  <2>3. Commands!OneMore(sent, sent')
    BY <1>7, <2>1, <2>2, OneLineMore
  <2> QED
    BY <1>5, <2>3, Zenon DEF Commands!Send, Phase, Disturbed
<1> QED
  BY <1>3, <1>6, <1>7

(* Bytes are lost.                                                          *)
LEMMA BreakRefines ==
  ASSUME OrderInv, Break
  PROVE  Commands!Disturb
<1>1. /\ UNCHANGED <<ctrl_running, mpc, sent, dispatched>>
      /\ breaks' > 0
  BY DEF Break, OrderInv, CtrlInv, TypeOK
<1>2. Phase' = Phase
  BY <1>1 DEF Phase
<1>3. Disturbed' = TRUE
  BY <1>1, Zenon DEF Disturbed
<1> QED
  BY <1>1, <1>2, <1>3, Zenon DEF Commands!Disturb, Phase, Disturbed

(* The application: ctrl_start, ctrl_stop and its return.                   *)
LEMMA AppRefines ==
  ASSUME OrderInv,
         esp_audio_pcm_ctrl_start \/ esp_audio_pcm_ctrl_stop \/ ctrl_stop_return
  PROVE  \/ Commands!Start \/ Commands!StopRequest \/ Commands!Stopped
         \/ UNCHANGED Seen
<1>1. CASE esp_audio_pcm_ctrl_start
  <2>1. /\ UNCHANGED <<mpc, breaks, sent, dispatched>>
        /\ mpc = "idle" /\ ctrl_running = FALSE /\ ctrl_running' = TRUE
        /\ starts' = starts + 1 /\ starts \in Nat
    BY <1>1 DEF esp_audio_pcm_ctrl_start, pc, OrderInv, CtrlInv, TypeOK
  <2>2. Phase = "off" /\ Phase' = "on"
    BY <2>1 DEF Phase
  <2>3. starts > 1 => starts' > 1
    BY <2>1
  <2>4. Disturbed => Disturbed'
    BY <2>1, <2>3, Zenon DEF Disturbed
  <2>5. Disturbed \in BOOLEAN /\ Disturbed' \in BOOLEAN
    BY Zenon DEF Disturbed
  <2>6. Disturbed' \in {Disturbed, TRUE}
    BY <2>4, <2>5, Zenon
  <2> QED
    BY <2>1, <2>2, <2>6, Zenon DEF Commands!Start, Phase, Disturbed
<1>2. CASE esp_audio_pcm_ctrl_stop
  <2>1. /\ UNCHANGED <<starts, breaks, sent, dispatched>>
        /\ mpc' = "stopping" /\ ctrl_running = TRUE /\ ctrl_running' = FALSE
    BY <1>2 DEF esp_audio_pcm_ctrl_stop, pc, OrderInv, CtrlInv, TypeOK
  <2>2. Phase = "on" /\ Phase' = "stopping"
    BY <2>1 DEF Phase
  <2>3. Disturbed' = Disturbed
    BY <2>1, Zenon DEF Disturbed
  <2> QED
    BY <2>1, <2>2, <2>3, Zenon DEF Commands!StopRequest, Phase, Disturbed
<1>3. CASE ctrl_stop_return
  <2>1. /\ UNCHANGED <<ctrl_running, starts, breaks, sent, dispatched>>
        /\ mpc = "stopping" /\ mpc' = "idle"
    BY <1>3 DEF ctrl_stop_return, pc
  <2>2. Disturbed' = Disturbed
    BY <2>1, Zenon DEF Disturbed
  <2>3. CASE ctrl_running
    <3>1. Phase' = Phase
      BY <2>1, <2>3 DEF Phase
    <3> QED
      BY <2>1, <2>2, <3>1, Zenon DEF Seen
  <2>4. CASE ~ ctrl_running
    <3>1. Phase = "stopping" /\ Phase' = "off"
      BY <2>1, <2>4 DEF Phase
    <3> QED
      BY <2>1, <2>2, <3>1, Zenon DEF Commands!Stopped, Phase, Disturbed
  <2> QED
    BY <2>3, <2>4
<1> QED
  BY <1>1, <1>2, <1>3

(* The other steps of the task move bytes and places only.                  *)
LEMMA QuietSteps ==
  ASSUME \/ ctrl_test \/ ctrl_read \/ ctrl_chunk_done \/ ctrl_exit
         \/ UNCHANGED vars
  PROVE  UNCHANGED Seen
<1>1. UNCHANGED <<ctrl_running, mpc, starts, breaks, sent, dispatched>>
  BY DEF ctrl_test, ctrl_read, ctrl_chunk_done, ctrl_exit, vars, task, pc
<1>2. Phase' = Phase
  BY <1>1 DEF Phase
<1>3. Disturbed' = Disturbed
  BY <1>1, Zenon DEF Disturbed
<1> QED
  BY <1>1, <1>2, <1>3, Zenon DEF Seen

LEMMA CommandsInit == Init => Commands!Init
<1> SUFFICES ASSUME Init PROVE Commands!Init
  OBVIOUS
<1>1. Phase = "off"
  BY DEF Init, Phase
<1>2. ~ (breaks > 0) /\ ~ (starts > 1)
  BY DEF Init
<1>3. Disturbed = FALSE
  BY <1>2, Zenon DEF Disturbed
<1>4. sent = <<>> /\ dispatched = <<>>
  BY DEF Init
<1> QED
  BY <1>1, <1>3, <1>4, Zenon DEF Commands!Init, Phase, Disturbed

LEMMA CommandsStep ==
  OrderInv /\ OrderInv' /\ [Next]_vars => [Commands!Next]_(Commands!cmdVars)
<1> SUFFICES ASSUME OrderInv, OrderInv', [Next]_vars
             PROVE  Commands!Next \/ UNCHANGED Seen
  BY Zenon DEF Commands!cmdVars, Seen, Phase, Disturbed
<1>1. CASE ctrl_byte
  BY <1>1, ByteRefines, Zenon DEF Commands!Next
<1>2. CASE SendLine
  BY <1>2, SendRefines, Zenon DEF Commands!Next
<1>3. CASE Break
  BY <1>3, BreakRefines, Zenon DEF Commands!Next
<1>4. CASE esp_audio_pcm_ctrl_start \/ esp_audio_pcm_ctrl_stop \/ ctrl_stop_return
  BY <1>4, AppRefines, Zenon DEF Commands!Next
<1>5. CASE \/ ctrl_test \/ ctrl_read \/ ctrl_chunk_done \/ ctrl_exit
           \/ UNCHANGED vars
  BY <1>5, QuietSteps
<1> QED
  BY <1>1, <1>2, <1>3, <1>4, <1>5, Zenon DEF Next, Ctrl, Rest

(* The task that assembles lines out of bytes, with ctrl_start and          *)
(* ctrl_stop around it, implements the channel that hands whole lines to    *)
(* callbacks: a callback runs only between ctrl_start and the return of     *)
(* ctrl_stop, and each call gives it the next line of the PC (any line once *)
(* bytes were lost or the task was started again).                          *)
THEOREM CtrlRefinesCommands == Spec => CommandsSpec
<1>1. Spec => []OrderInv
  BY OrderInit, OrderNext, PTL DEF Spec
<1> QED
  BY <1>1, CommandsInit, CommandsStep, PTL DEF Spec, CommandsSpec, Commands!Spec
===============================================================================
