------------------------------- MODULE PcmFifo -------------------------------
(***************************************************************************)
(* What the TCP transmit ring promises to its two users, the producer      *)
(* (tcp_write) and the transmit task: a bounded FIFO of bytes in which a   *)
(* write takes as long a prefix of the data as fits, a read returns the    *)
(* oldest bytes, and a high-water mark remembers the fullest it has been.  *)
(* PcmRing, the ring as the code builds it, is shown to implement this.    *)
(***************************************************************************)
EXTENDS Naturals, Sequences

CONSTANTS
  Byte,     \* the byte values
  Cap,      \* capacity in bytes
  MaxWrite, \* longest write offered
  MaxRead   \* longest read asked for

VARIABLES
  offered,  \* the bytes of the last write
  queue,    \* the bytes held, oldest first
  taken,    \* the bytes the last read returned
  ret,      \* the count the last operation returned
  peak      \* the largest Len(queue) so far

fifoVars == <<offered, queue, taken, ret, peak>>

Lesser(a, b) == IF a < b THEN a ELSE b

Writes == UNION {[1..k -> Byte] : k \in 1..MaxWrite}

Init ==
  /\ offered = <<>>
  /\ queue = <<>>
  /\ taken = <<>>
  /\ ret = 0
  /\ peak = 0

Put(data) ==
  LET n == Lesser(Len(data), Cap - Len(queue)) IN
  /\ offered' = data
  /\ queue' = queue \o SubSeq(data, 1, n)
  /\ peak' = IF Len(queue) + n > peak THEN Len(queue) + n ELSE peak
  /\ ret' = n
  /\ UNCHANGED taken

Take(len) ==
  LET n == Lesser(len, Len(queue)) IN
  /\ taken' = SubSeq(queue, 1, n)
  /\ queue' = SubSeq(queue, n + 1, Len(queue))
  /\ ret' = n
  /\ UNCHANGED <<offered, peak>>

Next ==
  \/ \E data \in Writes : Put(data)
  \/ \E len \in 1..MaxRead : Take(len)

Spec == Init /\ [][Next]_fifoVars
=============================================================================
