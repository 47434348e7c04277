------------------------------- MODULE PcmRing -------------------------------
(***************************************************************************)
(* The transmit ring of src/esp_audio_pcm_tcp.c: the fields tx_buf, tx_wr, *)
(* tx_rd, tx_used and tx_ring_high_water of tcp_ctx_t, with the two        *)
(* operations that touch them, ring_write_locked and ring_read_locked.     *)
(* Both run with tx_mux held, so each is one step.  The reader copies into *)
(* tx_chunk; only its first `ret` bytes are meaningful and only those are  *)
(* kept here.  offered holds the argument of the last write, so that what  *)
(* the buffer holds can be compared with what was given to it.             *)
(***************************************************************************)
EXTENDS Naturals, Sequences

CONSTANTS
  Byte,     \* the byte values
  Uninit,   \* content of malloc'ed memory nobody wrote
  Cap,      \* tx_cap
  MaxWrite, \* longest write tcp_write offers (bound of the model)
  MaxRead   \* longest read; the code reads TCP_TX_CHUNK bytes

ASSUME RingAssumption ==
  /\ Uninit \notin Byte
  /\ Cap \in Nat \ {0}
  /\ MaxWrite \in Nat \ {0}
  /\ MaxRead \in Nat \ {0}

VARIABLES tx_buf, tx_wr, tx_rd, tx_used, tx_ring_high_water, offered, tx_chunk, ret

vars == <<tx_buf, tx_wr, tx_rd, tx_used, tx_ring_high_water, offered, tx_chunk, ret>>

Slot == 0..(Cap - 1)

Lesser(a, b) == IF a < b THEN a ELSE b

Writes == UNION {[1..k -> Byte] : k \in 1..MaxWrite}

(* calloc clears the cursors; heap_caps_malloc leaves the buffer as it was. *)
Init ==
  /\ tx_buf = [i \in Slot |-> Uninit]
  /\ tx_wr = 0
  /\ tx_rd = 0
  /\ tx_used = 0
  /\ tx_ring_high_water = 0
  /\ offered = <<>>
  /\ tx_chunk = <<>>
  /\ ret = 0

-----------------------------------------------------------------------------
(* ring_free_locked *)
ring_free_locked == Cap - tx_used

(* Cursor arithmetic. Wrap is the "% tx_cap" of lines 131 and 180. *)
Wrap_AtMax(i) == IF i > Cap THEN i - Cap ELSE i
Wrap(i) == i % Cap

(* The two memcpy of a write: `first` bytes up to the end of the buffer,    *)
(* the rest at its start.                                                   *)
CopyIn_Restart(buf, wr, data, first, n) ==
  [i \in Slot |->
     IF i < n - first THEN data[i + 1]
     ELSE IF i \in wr..(wr + first - 1) THEN data[i - wr + 1]
     ELSE buf[i]]
CopyIn(buf, wr, data, first, n) ==
  [i \in Slot |->
     IF i < n - first THEN data[first + i + 1]
     ELSE IF i \in wr..(wr + first - 1) THEN data[i - wr + 1]
     ELSE buf[i]]

(* The two memcpy of a read.                                                *)
CopyOut(buf, rd, first, n) ==
  [j \in 1..n |-> IF j <= first THEN buf[rd + j - 1] ELSE buf[j - first - 1]]

ring_write_locked(data) ==
  LET n     == Lesser(Len(data), ring_free_locked)
      first == Lesser(Cap - tx_wr, n)
  IN  /\ offered' = data
      /\ IF ring_free_locked = 0
         THEN /\ ret' = 0
              /\ UNCHANGED <<tx_buf, tx_wr, tx_rd, tx_used, tx_ring_high_water, tx_chunk>>
         ELSE /\ tx_buf' = CopyIn(tx_buf, tx_wr, data, first, n)
              /\ tx_wr' = Wrap(tx_wr + n)
              /\ tx_used' = tx_used + n
              /\ tx_ring_high_water' = IF tx_used + n > tx_ring_high_water
                                       THEN tx_used + n ELSE tx_ring_high_water
              /\ ret' = n
              /\ UNCHANGED <<tx_rd, tx_chunk>>

ring_read_locked(len) ==
  LET n     == Lesser(len, tx_used)
      first == Lesser(Cap - tx_rd, n)
  IN  IF tx_used = 0
      THEN /\ ret' = 0
           /\ tx_chunk' = <<>>
           /\ UNCHANGED <<tx_buf, tx_wr, tx_rd, tx_used, tx_ring_high_water, offered>>
      ELSE /\ tx_chunk' = CopyOut(tx_buf, tx_rd, first, n)
           /\ tx_rd' = Wrap(tx_rd + n)
           /\ tx_used' = tx_used - n
           /\ ret' = n
           /\ UNCHANGED <<tx_buf, tx_wr, tx_ring_high_water, offered>>

Next ==
  \/ \E data \in Writes : ring_write_locked(data)
  \/ \E len \in 1..MaxRead : ring_read_locked(len)

Spec == Init /\ [][Next]_vars

-----------------------------------------------------------------------------
TypeOK ==
  /\ tx_buf \in [Slot -> Byte \cup {Uninit}]
  /\ tx_wr \in Slot
  /\ tx_rd \in Slot
  /\ tx_used \in 0..Cap
  /\ tx_ring_high_water \in 0..Cap
  /\ offered \in Seq(Byte)
  /\ tx_chunk \in Seq(Byte)
  /\ ret \in Nat

(* The slot that holds the i-th oldest byte (i from 0).                     *)
At(i) == (tx_rd + i) % Cap

(* The write cursor is always exactly tx_used slots ahead of the read       *)
(* cursor: tx_wr is kept separately by the code, and full and empty are     *)
(* told apart by tx_used alone.                                             *)
CursorsAgree == tx_wr = At(tx_used)

(* Every slot the reader may still return was written by the producer: no   *)
(* read ever hands uninitialised memory to send().                          *)
LiveSlotsWritten == \A i \in 0..(tx_used - 1) : tx_buf[At(i)] \in Byte

(* The mark never understates the fill level it is logged against.          *)
HighWaterBounds == tx_used <= tx_ring_high_water

RingInv == TypeOK /\ CursorsAgree /\ LiveSlotsWritten /\ HighWaterBounds

(* The ring as a queue: the abstraction function of the refinement.         *)
Contents == [i \in 1..tx_used |-> tx_buf[At(i - 1)]]

Fifo == INSTANCE PcmFifo WITH queue <- Contents, taken <- tx_chunk,
                              peak <- tx_ring_high_water

(* Whatever the fill level and wherever the cursors are, the ring behaves   *)
(* as a bounded byte FIFO: bytes come out in the order they went in, none   *)
(* is duplicated, lost or overwritten, and the returned counts are exact.   *)
FifoSpec == Fifo!Spec
=============================================================================
