---------------------------- MODULE PcmRingProofs ----------------------------
(***************************************************************************)
(* Proofs about PcmRing for every capacity, every byte set and every       *)
(* write and read length: its inductive invariant RingInv, and that it     *)
(* implements the bounded FIFO of PcmFifo.                                 *)
(***************************************************************************)
EXTENDS PcmRing, SequenceTheorems, TLAPS

(* A cursor advanced by at most Cap from inside the buffer wraps at most    *)
(* once: "% tx_cap" (lines 131 and 180) is one conditional subtraction.     *)
LEMMA WrapOnce ==
  ASSUME NEW c \in Slot, NEW n \in 0..Cap
  PROVE  /\ Wrap(c + n) = IF c + n < Cap THEN c + n ELSE c + n - Cap
         /\ Wrap(c + n) \in Slot
BY RingAssumption DEF Wrap, Slot

(* Slots counted from the read cursor stay inside the buffer, and two       *)
(* different counts below Cap name two different slots.                     *)
LEMMA AtFacts ==
  ASSUME tx_rd \in Slot
  PROVE  /\ \A i \in 0..Cap : At(i) = IF tx_rd + i < Cap THEN tx_rd + i ELSE tx_rd + i - Cap
         /\ \A i \in 0..Cap : At(i) \in Slot
<1>1. ASSUME NEW i \in 0..Cap
      PROVE  At(i) = IF tx_rd + i < Cap THEN tx_rd + i ELSE tx_rd + i - Cap
  BY RingAssumption DEF At, Slot
<1>2. QED
  BY <1>1, RingAssumption DEF Slot

(* A write takes a whole number of bytes that the datum has and that fit.   *)
LEMMA WriteCount ==
  ASSUME TypeOK, NEW data \in Writes
  PROVE  /\ Len(data) \in Nat /\ data \in Seq(Byte)
         /\ \A j \in 1..Len(data) : data[j] \in Byte
         /\ Lesser(Len(data), Cap - tx_used) \in 0..(Cap - tx_used)
         /\ Lesser(Len(data), Cap - tx_used) <= Len(data)
<1>1. PICK k \in 1..MaxWrite : data \in [1..k -> Byte]
  BY DEF Writes
<1>2. Len(data) = k /\ k \in Nat /\ data \in Seq(Byte)
  BY <1>1, RingAssumption
<1>3. QED
  BY <1>1, <1>2, RingAssumption DEF TypeOK, Lesser

(* The initial state: an empty ring with both cursors at slot 0.            *)
LEMMA InitInv == Init => RingInv
<1> SUFFICES ASSUME Init PROVE RingInv
  OBVIOUS
<1>1. TypeOK
  BY RingAssumption, EmptySeq DEF Init, TypeOK, Slot
<1>2. At(0) = 0
  BY <1>1, AtFacts, RingAssumption DEF Init, TypeOK
<1>3. QED
  BY <1>1, <1>2 DEF Init, RingInv, CursorsAgree, LiveSlotsWritten, HighWaterBounds

(* What a write changes, with the two memcpy resolved: slot At(tx_used + j) *)
(* receives data[j + 1] for j below n, and the live slots keep their bytes. *)
LEMMA WriteEffect ==
  ASSUME RingInv, NEW data \in Writes, ring_write_locked(data), tx_used # Cap,
         NEW n, n = Lesser(Len(data), Cap - tx_used)
  PROVE  /\ n \in 0..(Cap - tx_used) /\ n <= Len(data)
         /\ tx_buf' \in [Slot -> Byte \cup {Uninit}]
         /\ tx_wr' \in Slot
         /\ tx_wr' = At(tx_used + n)
         /\ tx_used' = tx_used + n
         /\ tx_rd' = tx_rd
         /\ \A i \in 0..(tx_used - 1) : tx_buf'[At(i)] = tx_buf[At(i)]
         /\ \A i \in tx_used..(tx_used + n - 1) : tx_buf'[At(i)] = data[i - tx_used + 1]
<1> DEFINE first == Lesser(Cap - tx_wr, n)
<1>1. TypeOK /\ CursorsAgree
  BY DEF RingInv
<1>2. n \in 0..(Cap - tx_used) /\ n <= Len(data) /\ Len(data) \in Nat
  BY <1>1, WriteCount
<1>3. tx_wr \in Slot /\ tx_rd \in Slot /\ tx_used \in 0..Cap /\ Cap \in Nat \ {0}
  BY <1>1, RingAssumption DEF TypeOK
<1>4. /\ tx_buf' = CopyIn(tx_buf, tx_wr, data, first, n)
      /\ tx_wr' = Wrap(tx_wr + n)
      /\ tx_used' = tx_used + n
      /\ tx_rd' = tx_rd
  BY <1>3 DEF ring_write_locked, ring_free_locked
<1>5. \A i \in 0..Cap : /\ At(i) = IF tx_rd + i < Cap THEN tx_rd + i ELSE tx_rd + i - Cap
                        /\ At(i) \in Slot
  BY <1>3, AtFacts
<1>6. tx_wr = IF tx_rd + tx_used < Cap THEN tx_rd + tx_used ELSE tx_rd + tx_used - Cap
  BY <1>1, <1>3, <1>5 DEF CursorsAgree
<1>7. first \in 0..n /\ first = IF Cap - tx_wr < n THEN Cap - tx_wr ELSE n
  BY <1>2, <1>3 DEF Lesser, Slot
<1> HIDE DEF first
<1>8. tx_wr' \in Slot /\ tx_wr' = IF tx_wr + n < Cap THEN tx_wr + n ELSE tx_wr + n - Cap
  <2>1. n \in 0..Cap
    BY <1>2, <1>3
  <2>2. QED BY <1>3, <1>4, <2>1, WrapOnce
<1>9. tx_wr' = At(tx_used + n)
  <2>1. tx_used + n \in 0..Cap /\ tx_used \in 0..Cap
    BY <1>2, <1>3
  <2>2. At(tx_used + n) = IF tx_rd + (tx_used + n) < Cap THEN tx_rd + (tx_used + n)
                                                         ELSE tx_rd + (tx_used + n) - Cap
    BY <1>5, <2>1
  <2>3. QED BY <1>2, <1>3, <1>6, <1>8, <2>2, SMTT(60) DEF Slot
<1>10. \A s \in Slot : tx_buf'[s] = IF s < n - first THEN data[first + s + 1]
                                    ELSE IF s \in tx_wr..(tx_wr + first - 1)
                                         THEN data[s - tx_wr + 1] ELSE tx_buf[s]
  BY <1>4 DEF CopyIn
<1>11. tx_buf' \in [Slot -> Byte \cup {Uninit}]
  <2>1. \A j \in 1..Len(data) : data[j] \in Byte
    BY <1>1, WriteCount
  <2>2. tx_buf \in [Slot -> Byte \cup {Uninit}]
    BY <1>1 DEF TypeOK
  <2>3. ASSUME NEW s \in Slot PROVE tx_buf'[s] \in Byte \cup {Uninit}
    <3>1. CASE s < n - first
      <4>1. first + s + 1 \in 1..Len(data)
        BY <1>2, <1>3, <1>7, <3>1 DEF Slot
      <4>2. QED BY <1>10, <2>1, <3>1, <4>1
    <3>2. CASE ~(s < n - first) /\ s \in tx_wr..(tx_wr + first - 1)
      <4>1. s - tx_wr + 1 \in 1..Len(data)
        BY <1>2, <1>3, <1>7, <3>2 DEF Slot
      <4>2. QED BY <1>10, <2>1, <3>2, <4>1
    <3>3. CASE ~(s < n - first) /\ ~(s \in tx_wr..(tx_wr + first - 1))
      BY <1>10, <2>2, <3>3
    <3>4. QED BY <3>1, <3>2, <3>3
  <2>4. QED BY <1>4, <2>3 DEF CopyIn
<1>12. ASSUME NEW i \in 0..(tx_used - 1) PROVE tx_buf'[At(i)] = tx_buf[At(i)]
  <2>1. /\ At(i) \in Slot /\ i \in 0..Cap
        /\ At(i) = IF tx_rd + i < Cap THEN tx_rd + i ELSE tx_rd + i - Cap
    BY <1>3, <1>5
  <2>2. ~(At(i) < n - first) /\ ~(At(i) \in tx_wr..(tx_wr + first - 1))
    BY <1>2, <1>3, <1>6, <1>7, <2>1 DEF Slot
  <2>3. QED BY <1>10, <2>1, <2>2
<1>13. ASSUME NEW i \in tx_used..(tx_used + n - 1)
       PROVE  tx_buf'[At(i)] = data[i - tx_used + 1]
  <2> DEFINE j == i - tx_used
  <2>1. /\ j \in 0..(n - 1) /\ i = tx_used + j /\ i \in 0..Cap /\ At(i) \in Slot
        /\ At(i) = IF tx_rd + i < Cap THEN tx_rd + i ELSE tx_rd + i - Cap
    BY <1>2, <1>3, <1>5
  <2> HIDE DEF j
  <2>2. CASE j < first
    <3>1. At(i) = tx_wr + j
      BY <1>2, <1>3, <1>6, <1>7, <2>1, <2>2, SMTT(60) DEF Slot
    <3>2. ~(At(i) < n - first)
      <4>1. tx_wr \in Nat /\ j \in Nat /\ n \in Nat /\ n <= Cap /\ Cap \in Nat
        BY <1>2, <1>3, <2>1 DEF Slot
      <4>2. n - first <= tx_wr
        BY <1>7, <4>1
      <4>3. QED BY <1>7, <3>1, <4>1, <4>2
    <3>3. At(i) \in tx_wr..(tx_wr + first - 1) /\ At(i) - tx_wr + 1 = i - tx_used + 1
      BY <1>3, <1>7, <2>1, <2>2, <3>1, SMTT(60) DEF Slot
    <3>4. QED BY <1>10, <2>1, <3>2, <3>3
  <2>3. CASE ~(j < first)
    <3>1. At(i) = j - first /\ At(i) < n - first
      BY <1>2, <1>3, <1>6, <1>7, <2>1, <2>3, SMTT(60) DEF Slot
    <3>2. first + At(i) + 1 = i - tx_used + 1
      BY <1>3, <1>7, <2>1, <3>1
    <3>3. QED BY <1>10, <2>1, <3>1, <3>2
  <2>4. QED BY <2>2, <2>3
<1>14. QED
  BY <1>2, <1>4, <1>8, <1>9, <1>11, <1>12, <1>13

(* What a read changes: it hands over the n oldest live bytes and moves the *)
(* read cursor past them; the byte that was i + n-th oldest is now i-th.    *)
LEMMA ReadEffect ==
  ASSUME RingInv, NEW len \in 1..MaxRead, ring_read_locked(len), tx_used # 0,
         NEW n, n = Lesser(len, tx_used)
  PROVE  /\ n \in 1..tx_used
         /\ tx_chunk' = [j \in 1..n |-> tx_buf[At(j - 1)]]
         /\ tx_rd' \in Slot
         /\ tx_used' = tx_used - n
         /\ \A i \in 0..(tx_used - n) : At(i)' = At(n + i)
<1> DEFINE first == Lesser(Cap - tx_rd, n)
<1>1. TypeOK
  BY DEF RingInv
<1>2. tx_rd \in Slot /\ tx_used \in 1..Cap /\ Cap \in Nat \ {0}
  BY <1>1, RingAssumption DEF TypeOK
<1>3. n \in 1..tx_used
  BY <1>2, RingAssumption DEF Lesser
<1>4. /\ tx_chunk' = CopyOut(tx_buf, tx_rd, first, n)
      /\ tx_rd' = Wrap(tx_rd + n)
      /\ tx_used' = tx_used - n
  BY DEF ring_read_locked
<1>5. \A i \in 0..Cap : At(i) = IF tx_rd + i < Cap THEN tx_rd + i ELSE tx_rd + i - Cap
  BY <1>2, AtFacts
<1>6. first \in 0..n /\ first = IF Cap - tx_rd < n THEN Cap - tx_rd ELSE n
  BY <1>2, <1>3 DEF Lesser, Slot
<1> HIDE DEF first
<1>7. tx_rd' \in Slot /\ tx_rd' = IF tx_rd + n < Cap THEN tx_rd + n ELSE tx_rd + n - Cap
  <2>1. n \in 0..Cap
    BY <1>2, <1>3
  <2>2. QED BY <1>2, <1>4, <2>1, WrapOnce
<1>8. ASSUME NEW j \in 1..n
      PROVE  (IF j <= first THEN tx_buf[tx_rd + j - 1] ELSE tx_buf[j - first - 1])
             = tx_buf[At(j - 1)]
  <2>1. j - 1 \in 0..Cap
    BY <1>2, <1>3
  <2>2. At(j - 1) = IF tx_rd + (j - 1) < Cap THEN tx_rd + (j - 1) ELSE tx_rd + (j - 1) - Cap
    BY <1>5, <2>1
  <2>3. CASE j <= first
    <3>1. At(j - 1) = tx_rd + j - 1
      BY <1>2, <1>3, <1>6, <2>2, <2>3 DEF Slot
    <3>2. QED BY <2>3, <3>1
  <2>4. CASE ~(j <= first)
    <3>1. At(j - 1) = j - first - 1
      BY <1>2, <1>3, <1>6, <2>2, <2>4 DEF Slot
    <3>2. QED BY <2>4, <3>1
  <2>5. QED BY <2>3, <2>4
<1>9. tx_chunk' = [j \in 1..n |-> tx_buf[At(j - 1)]]
  BY <1>4, <1>8 DEF CopyOut
<1>10. ASSUME NEW i \in 0..(tx_used - n)
       PROVE  At(i)' = At(n + i)
  <2>1. At(i)' = Wrap(tx_rd' + i)
    BY DEF At, Wrap
  <2>2. Wrap(tx_rd' + i) = IF tx_rd' + i < Cap THEN tx_rd' + i ELSE tx_rd' + i - Cap
    <3>1. i \in 0..Cap
      BY <1>2, <1>3
    <3>2. QED BY <1>7, <3>1, WrapOnce
  <2>3. n + i \in 0..Cap
    BY <1>2, <1>3
  <2>4. At(n + i) = IF tx_rd + (n + i) < Cap THEN tx_rd + (n + i) ELSE tx_rd + (n + i) - Cap
    BY <1>5, <2>3
  <2>5. QED BY <1>2, <1>3, <1>7, <2>1, <2>2, <2>4 DEF Slot
<1>11. QED
  BY <1>3, <1>4, <1>7, <1>9, <1>10

-----------------------------------------------------------------------------
(* A write keeps the invariant: the slots it fills are free ones, so no     *)
(* live byte is overwritten, and the write cursor stays tx_used slots ahead *)
(* of the read cursor.                                                      *)
LEMMA WriteInv ==
  ASSUME RingInv, NEW data \in Writes, ring_write_locked(data)
  PROVE  RingInv'
<1>1. TypeOK /\ tx_used \in 0..Cap /\ tx_ring_high_water \in 0..Cap /\ Cap \in Nat \ {0}
  BY RingAssumption DEF RingInv, TypeOK
<1>2. CASE tx_used = Cap
  <2>1. /\ UNCHANGED <<tx_buf, tx_wr, tx_rd, tx_used, tx_ring_high_water, tx_chunk>>
        /\ ret' = 0 /\ offered' = data
    BY <1>1, <1>2 DEF ring_write_locked, ring_free_locked
  <2>2. data \in Seq(Byte)
    BY <1>1, WriteCount
  <2>3. QED
    BY <2>1, <2>2 DEF RingInv, TypeOK, CursorsAgree, LiveSlotsWritten, HighWaterBounds, At
<1>3. CASE tx_used # Cap
  <2> DEFINE n == Lesser(Len(data), Cap - tx_used)
  <2>1. /\ n \in 0..(Cap - tx_used) /\ n <= Len(data)
        /\ tx_buf' \in [Slot -> Byte \cup {Uninit}]
        /\ tx_wr' \in Slot
        /\ tx_wr' = At(tx_used + n)
        /\ tx_used' = tx_used + n
        /\ tx_rd' = tx_rd
        /\ \A i \in 0..(tx_used - 1) : tx_buf'[At(i)] = tx_buf[At(i)]
        /\ \A i \in tx_used..(tx_used + n - 1) : tx_buf'[At(i)] = data[i - tx_used + 1]
    BY <1>3, WriteEffect
  <2>2. /\ tx_ring_high_water' = IF tx_used + n > tx_ring_high_water
                                 THEN tx_used + n ELSE tx_ring_high_water
        /\ ret' = n /\ tx_chunk' = tx_chunk /\ offered' = data
    BY <1>1, <1>3 DEF ring_write_locked, ring_free_locked
  <2>3. data \in Seq(Byte) /\ \A j \in 1..Len(data) : data[j] \in Byte
    BY <1>1, WriteCount
  <2> HIDE DEF n
  <2>4. tx_used' \in 0..Cap /\ tx_ring_high_water' \in 0..Cap /\ tx_used' <= tx_ring_high_water'
    BY <1>1, <2>1, <2>2 DEF RingInv, HighWaterBounds
  <2>5. TypeOK'
    BY <1>1, <2>1, <2>2, <2>3, <2>4 DEF TypeOK, Slot
  <2>6. \A i : At(i)' = At(i)
    BY <2>1 DEF At
  <2>7. CursorsAgree'
    BY <2>1 DEF CursorsAgree, At
  <2>8. ASSUME NEW i \in 0..(tx_used' - 1)
        PROVE  tx_buf'[At(i)] \in Byte
    <3>1. CASE i \in 0..(tx_used - 1)
      BY <2>1, <3>1 DEF RingInv, LiveSlotsWritten
    <3>2. CASE i \in tx_used..(tx_used + n - 1)
      <4>1. i - tx_used + 1 \in 1..Len(data)
        BY <1>1, <2>1, <3>2, WriteCount
      <4>2. QED BY <2>1, <2>3, <3>2, <4>1
    <3>3. QED BY <1>1, <2>1, <3>1, <3>2
  <2>9. LiveSlotsWritten'
    BY <2>6, <2>8 DEF LiveSlotsWritten
  <2>10. QED
    BY <2>4, <2>5, <2>7, <2>9 DEF RingInv, HighWaterBounds
<1>4. QED BY <1>2, <1>3

(* A read keeps the invariant: what it hands over was written, and the      *)
(* write cursor, left alone, is still tx_used slots ahead.                  *)
LEMMA ReadInv ==
  ASSUME RingInv, NEW len \in 1..MaxRead, ring_read_locked(len)
  PROVE  RingInv'
<1>1. TypeOK /\ tx_used \in 0..Cap /\ tx_ring_high_water \in 0..Cap /\ Cap \in Nat \ {0}
  BY RingAssumption DEF RingInv, TypeOK
<1>2. CASE tx_used = 0
  <2>1. /\ UNCHANGED <<tx_buf, tx_wr, tx_rd, tx_used, tx_ring_high_water, offered>>
        /\ ret' = 0 /\ tx_chunk' = <<>>
    BY <1>2 DEF ring_read_locked
  <2>2. <<>> \in Seq(Byte)
    BY EmptySeq
  <2>3. QED
    BY <2>1, <2>2 DEF RingInv, TypeOK, CursorsAgree, LiveSlotsWritten, HighWaterBounds, At
<1>3. CASE tx_used # 0
  <2> DEFINE n == Lesser(len, tx_used)
  <2>1. /\ n \in 1..tx_used
        /\ tx_chunk' = [j \in 1..n |-> tx_buf[At(j - 1)]]
        /\ tx_rd' \in Slot
        /\ tx_used' = tx_used - n
        /\ \A i \in 0..(tx_used - n) : At(i)' = At(n + i)
    BY <1>3, ReadEffect
  <2>2. /\ ret' = n
        /\ UNCHANGED <<tx_buf, tx_wr, tx_ring_high_water, offered>>
    BY <1>3 DEF ring_read_locked
  <2> HIDE DEF n
  <2>3. \A j \in 1..n : tx_buf[At(j - 1)] \in Byte
    <3>1. ASSUME NEW j \in 1..n PROVE j - 1 \in 0..(tx_used - 1)
      BY <1>1, <2>1
    <3>2. QED BY <3>1 DEF RingInv, LiveSlotsWritten
  <2>4. tx_chunk' \in Seq(Byte)
    <3>1. n \in Nat
      BY <1>1, <2>1
    <3>2. tx_chunk' \in [1..n -> Byte]
      BY <2>1, <2>3
    <3>3. QED BY <3>1, <3>2
  <2>5. TypeOK'
    BY <1>1, <2>1, <2>2, <2>4 DEF TypeOK
  <2>6. CursorsAgree'
    <3>1. PICK k \in 0..(tx_used - n) : k = tx_used - n
      BY <1>1, <2>1
    <3>2. At(k)' = At(tx_used)
      <4>1. n + k = tx_used
        BY <1>1, <2>1, <3>1
      <4>2. QED BY <2>1, <4>1
    <3>3. At(tx_used)' = At(k)'
      BY <2>1, <3>1 DEF At
    <3>4. QED BY <2>2, <3>2, <3>3 DEF CursorsAgree, RingInv
  <2>7. LiveSlotsWritten'
    <3>1. ASSUME NEW i \in 0..(tx_used' - 1) PROVE tx_buf'[At(i)'] \in Byte
      <4>1. i \in 0..(tx_used - n) /\ n + i \in 0..(tx_used - 1)
        BY <1>1, <2>1
      <4>2. At(i)' = At(n + i)
        BY <2>1, <4>1
      <4>3. QED BY <2>2, <4>1, <4>2 DEF RingInv, LiveSlotsWritten
    <3>2. QED BY <3>1 DEF LiveSlotsWritten
  <2>8. HighWaterBounds'
    BY <1>1, <2>1, <2>2 DEF RingInv, HighWaterBounds
  <2>9. QED
    BY <2>5, <2>6, <2>7, <2>8 DEF RingInv
<1>4. QED BY <1>2, <1>3

(* The ring is well formed in every reachable state, whatever its capacity: *)
(* ring_write_locked and ring_read_locked keep cursors and fill count       *)
(* consistent, never expose memory that was not written and never           *)
(* understate the high-water mark.                                          *)
THEOREM RingSafe == Spec => []RingInv
<1>1. Init => RingInv
  BY InitInv
<1>2. RingInv /\ [Next]_vars => RingInv'
  <2> SUFFICES ASSUME RingInv, [Next]_vars PROVE RingInv'
    OBVIOUS
  <2>1. CASE \E data \in Writes : ring_write_locked(data)
    BY <2>1, WriteInv
  <2>2. CASE \E len \in 1..MaxRead : ring_read_locked(len)
    BY <2>2, ReadInv
  <2>3. CASE UNCHANGED vars
    BY <2>3 DEF RingInv, TypeOK, CursorsAgree, LiveSlotsWritten, HighWaterBounds, At, vars
  <2>4. QED BY <2>1, <2>2, <2>3 DEF Next
<1>3. QED BY <1>1, <1>2, PTL DEF Spec

-----------------------------------------------------------------------------
(* Under the invariant the abstraction is a sequence of tx_used bytes.      *)
ContentsShape ==
  /\ Contents \in Seq(Byte)
  /\ Len(Contents) = tx_used
  /\ \A i \in 1..tx_used : Contents[i] = tx_buf[At(i - 1)]

LEMMA ContentsIsSeq == RingInv => ContentsShape
<1> SUFFICES ASSUME RingInv PROVE ContentsShape
  OBVIOUS
<1>1. tx_used \in Nat
  BY RingAssumption DEF RingInv, TypeOK
<1>2. ASSUME NEW i \in 1..tx_used PROVE tx_buf[At(i - 1)] \in Byte
  <2>1. i - 1 \in 0..(tx_used - 1)
    BY <1>1
  <2>2. QED BY <2>1 DEF RingInv, LiveSlotsWritten
<1>3. Contents \in [1..tx_used -> Byte]
  BY <1>2 DEF Contents
<1>4. QED BY <1>1, <1>3 DEF Contents, ContentsShape

(* The same of the next state.                                              *)
LEMMA ContentsIsSeqNext == RingInv' => ContentsShape'
BY ContentsIsSeq, PTL

(* Init of the ring is Init of the FIFO.                                    *)
LEMMA InitRefines == Init => Fifo!Init
<1> SUFFICES ASSUME Init PROVE Fifo!Init
  OBVIOUS
<1>1. Contents \in Seq(Byte) /\ Len(Contents) = 0
  BY InitInv, ContentsIsSeq DEF Init, ContentsShape
<1>2. Contents = <<>>
  BY <1>1, EmptySeq
<1>3. QED BY <1>2 DEF Init, Fifo!Init

(* A write is Put: the bytes taken are appended in order at the young end.  *)
LEMMA WriteRefines ==
  ASSUME RingInv, RingInv', NEW data \in Writes, ring_write_locked(data)
  PROVE  Fifo!Put(data)
<1> DEFINE n == Lesser(Len(data), Cap - tx_used)
           prefix == SubSeq(data, 1, n)
<1>1. TypeOK /\ tx_used \in 0..Cap /\ tx_ring_high_water \in 0..Cap /\ Cap \in Nat \ {0}
  BY RingAssumption DEF RingInv, TypeOK
<1>2. /\ data \in Seq(Byte) /\ Len(data) \in Nat
      /\ n \in 0..(Cap - tx_used) /\ n <= Len(data)
      /\ \A j \in 1..Len(data) : data[j] \in Byte
  BY <1>1, WriteCount
<1>3. ContentsShape /\ ContentsShape'
  BY ContentsIsSeq, ContentsIsSeqNext
<1>4. n = Fifo!Lesser(Len(data), Cap - Len(Contents))
  BY <1>3 DEF Lesser, Fifo!Lesser, ContentsShape
<1>5. /\ prefix \in Seq(Byte) /\ Len(prefix) = n
      /\ \A j \in 1..n : prefix[j] = data[j]
  <2> HIDE DEF n
  <2>1. \A j \in 1..n : data[j] \in Byte
    BY <1>1, <1>2
  <2>2. 1 \in Int /\ n \in Int /\ (n >= 0)
    BY <1>1, <1>2
  <2>3. QED BY <2>1, <2>2, SubSeqProperties
<1>6. CASE tx_used = Cap
  <2>1. /\ UNCHANGED <<tx_buf, tx_wr, tx_rd, tx_used, tx_ring_high_water, tx_chunk>>
        /\ ret' = 0 /\ offered' = data
    BY <1>1, <1>6 DEF ring_write_locked, ring_free_locked
  <2>2. n = 0
    BY <1>1, <1>2, <1>6
  <2>3. Contents' = Contents
    BY <2>1 DEF Contents, At
  <2>4. prefix = <<>>
    BY <1>5, <2>2, EmptySeq
  <2>5. Contents \o prefix = Contents
    BY <1>3, <2>4, ConcatEmptySeq DEF ContentsShape
  <2>6. tx_used + n <= tx_ring_high_water
    BY <1>1, <2>2 DEF RingInv, HighWaterBounds
  <2> HIDE DEF n
  <2>7. QED
    BY <1>1, <1>3, <1>4, <2>1, <2>2, <2>3, <2>5, <2>6 DEF Fifo!Put, ContentsShape
<1>7. CASE tx_used # Cap
  <2>1. /\ tx_used' = tx_used + n
        /\ tx_rd' = tx_rd
        /\ \A i \in 0..(tx_used - 1) : tx_buf'[At(i)] = tx_buf[At(i)]
        /\ \A i \in tx_used..(tx_used + n - 1) : tx_buf'[At(i)] = data[i - tx_used + 1]
    BY <1>7, WriteEffect
  <2>2. /\ tx_ring_high_water' = IF tx_used + n > tx_ring_high_water
                                 THEN tx_used + n ELSE tx_ring_high_water
        /\ ret' = n /\ tx_chunk' = tx_chunk /\ offered' = data
    BY <1>1, <1>7 DEF ring_write_locked, ring_free_locked
  <2> HIDE DEF n
  <2>3. \A i : At(i)' = At(i)
    BY <2>1 DEF At
  <2>4. /\ Contents \o prefix \in Seq(Byte)
        /\ Len(Contents \o prefix) = tx_used + n
        /\ \A i \in 1..(tx_used + n) :
             (Contents \o prefix)[i] = IF i <= tx_used THEN Contents[i] ELSE prefix[i - tx_used]
    <3> HIDE DEF prefix
    <3>1. QED BY <1>3, <1>5, ConcatProperties, ZenonT(60) DEF ContentsShape
  <2>5. ASSUME NEW i \in 1..(tx_used + n)
        PROVE  Contents'[i] = (Contents \o prefix)[i]
    <3>1. Contents'[i] = tx_buf'[At(i - 1)]
      BY <1>3, <2>1, <2>3 DEF ContentsShape
    <3>2. CASE i <= tx_used
      <4>1. i - 1 \in 0..(tx_used - 1) /\ i \in 1..tx_used
        BY <1>1, <1>2, <3>2
      <4>2. tx_buf'[At(i - 1)] = tx_buf[At(i - 1)]
        BY <2>1, <4>1
      <4>3. QED BY <1>3, <2>4, <3>1, <3>2, <4>1, <4>2 DEF ContentsShape
    <3>3. CASE ~(i <= tx_used)
      <4>1. /\ i - 1 \in tx_used..(tx_used + n - 1)
            /\ (i - 1) - tx_used + 1 = i - tx_used /\ i - tx_used \in 1..n
        BY <1>1, <1>2, <3>3
      <4>2. tx_buf'[At(i - 1)] = data[i - tx_used]
        BY <2>1, <4>1
      <4>3. QED BY <1>5, <2>4, <3>1, <3>3, <4>1, <4>2
    <3>4. QED BY <3>2, <3>3
  <2>6. Contents' = Contents \o prefix
    <3> HIDE DEF prefix
    <3>1. Contents' \in Seq(Byte) /\ Len(Contents') = tx_used + n
      BY <1>3, <2>1 DEF ContentsShape
    <3>2. QED BY <2>4, <2>5, <3>1, SeqEqual
  <2>7. QED
    BY <1>1, <1>3, <1>4, <2>2, <2>6 DEF Fifo!Put, ContentsShape
<1>8. QED BY <1>6, <1>7

(* A read is Take: it removes the n oldest bytes and hands them over.       *)
LEMMA ReadRefines ==
  ASSUME RingInv, RingInv', NEW len \in 1..MaxRead, ring_read_locked(len)
  PROVE  Fifo!Take(len)
<1> DEFINE n == Lesser(len, tx_used)
           oldest == SubSeq(Contents, 1, n)
           rest   == SubSeq(Contents, n + 1, tx_used)
<1>1. tx_used \in 0..Cap /\ Cap \in Nat \ {0} /\ n \in 0..tx_used
  BY RingAssumption DEF RingInv, TypeOK, Lesser
<1>2. ContentsShape /\ ContentsShape'
  BY ContentsIsSeq, ContentsIsSeqNext
<1>3. n = Fifo!Lesser(len, Len(Contents))
  BY <1>2 DEF Lesser, Fifo!Lesser, ContentsShape
<1>4. \A i \in 1..tx_used : Contents[i] \in Byte
  BY <1>2 DEF ContentsShape
<1> HIDE DEF n
<1>5. /\ oldest \in Seq(Byte) /\ Len(oldest) = n
      /\ \A i \in 1..n : oldest[i] = Contents[i]
  <2>1. \A i \in 1..n : Contents[i] \in Byte
    BY <1>1, <1>4
  <2>2. 1 \in Int /\ n \in Int /\ (n >= 0)
    BY <1>1
  <2>3. QED BY <2>1, <2>2, SubSeqProperties
<1>6. /\ rest \in Seq(Byte) /\ Len(rest) = tx_used - n
      /\ \A i \in 1..(tx_used - n) : rest[i] = Contents[n + i]
  <2>1. \A i \in (n + 1)..tx_used : Contents[i] \in Byte
    BY <1>1, <1>4
  <2>2. n + 1 \in Int /\ tx_used \in Int /\ n \in Int /\ n <= tx_used
    BY <1>1
  <2>3. /\ rest \in Seq(Byte)
        /\ Len(rest) = IF n + 1 <= tx_used THEN tx_used - (n + 1) + 1 ELSE 0
        /\ \A i \in 1..(tx_used - (n + 1) + 1) : rest[i] = Contents[(n + 1) + i - 1]
    BY <2>1, <2>2, SubSeqProperties
  <2> HIDE DEF rest
  <2>4. tx_used - (n + 1) + 1 = tx_used - n
    BY <2>2
  <2>5. ASSUME NEW i \in 1..(tx_used - n) PROVE (n + 1) + i - 1 = n + i
    BY <2>2
  <2>6. QED BY <2>2, <2>3, <2>4, <2>5
<1>7. CASE tx_used = 0
  <2>1. /\ UNCHANGED <<tx_buf, tx_wr, tx_rd, tx_used, tx_ring_high_water, offered>>
        /\ ret' = 0 /\ tx_chunk' = <<>>
    BY <1>7 DEF ring_read_locked
  <2>2. n = 0 /\ oldest = <<>> /\ rest = <<>> /\ Contents = <<>>
    BY <1>1, <1>2, <1>5, <1>6, <1>7, EmptySeq DEF ContentsShape
  <2>3. Contents' = Contents
    BY <2>1 DEF Contents, At
  <2>4. QED
    BY <1>2, <1>3, <2>1, <2>2, <2>3 DEF Fifo!Take, ContentsShape
<1>8. CASE tx_used # 0
  <2>1. /\ n \in 1..tx_used
        /\ tx_chunk' = [j \in 1..n |-> tx_buf[At(j - 1)]]
        /\ tx_used' = tx_used - n
        /\ \A i \in 0..(tx_used - n) : At(i)' = At(n + i)
    BY <1>8, ReadEffect DEF n
  <2>2. /\ ret' = n
        /\ UNCHANGED <<tx_buf, tx_wr, tx_ring_high_water, offered>>
    BY <1>8 DEF ring_read_locked, n
  <2>3. tx_chunk' = oldest
    <3>1. \A i \in 1..n : tx_chunk'[i] = oldest[i]
      BY <1>1, <1>2, <1>5, <2>1 DEF ContentsShape
    <3>2. n \in Nat
      BY <1>1
    <3>3. tx_chunk' \in Seq(Byte) /\ Len(tx_chunk') = n
      BY <2>1, <3>2 DEF RingInv, TypeOK
    <3> HIDE DEF oldest
    <3>4. QED BY <1>5, <3>1, <3>3, SeqEqual
  <2>4. Contents' = rest
    <3>1. ASSUME NEW i \in 1..(tx_used - n) PROVE Contents'[i] = rest[i]
      <4>1. /\ i - 1 \in 0..(tx_used - n) /\ n + i \in 1..tx_used
            /\ n + (i - 1) = (n + i) - 1
        BY <1>1
      <4>2. Contents'[i] = tx_buf'[At(i - 1)']
        BY <1>2, <2>1 DEF ContentsShape
      <4>3. At(i - 1)' = At((n + i) - 1)
        BY <2>1, <4>1
      <4>4. Contents[n + i] = tx_buf[At((n + i) - 1)]
        BY <1>2, <4>1 DEF ContentsShape
      <4>5. QED BY <1>6, <2>2, <4>2, <4>3, <4>4
    <3>2. Contents' \in Seq(Byte) /\ Len(Contents') = tx_used - n
      BY <1>2, <2>1 DEF ContentsShape
    <3> HIDE DEF rest
    <3>3. QED BY <1>6, <3>1, <3>2, SeqEqual
  <2>5. QED
    BY <1>2, <1>3, <2>2, <2>3, <2>4 DEF Fifo!Take, ContentsShape
<1>9. QED BY <1>7, <1>8

(* The ring implements the bounded FIFO: whatever the capacity and the      *)
(* lengths written and read, bytes leave in the order they entered, none    *)
(* lost, duplicated or overwritten, and the returned counts are exact.      *)
THEOREM RingRefinesFifo == Spec => FifoSpec
<1>1. Init => Fifo!Init
  BY InitRefines
<1>2. RingInv /\ RingInv' /\ [Next]_vars => [Fifo!Next]_(Fifo!fifoVars)
  <2> SUFFICES ASSUME RingInv, RingInv', [Next]_vars
               PROVE  [Fifo!Next]_(Fifo!fifoVars)
    OBVIOUS
  <2>1. ASSUME NEW data \in Writes, ring_write_locked(data) PROVE Fifo!Next
    BY <2>1, WriteRefines DEF Fifo!Next, Fifo!Writes, Writes
  <2>2. ASSUME NEW len \in 1..MaxRead, ring_read_locked(len) PROVE Fifo!Next
    BY <2>2, ReadRefines DEF Fifo!Next
  <2>3. CASE UNCHANGED vars
    BY <2>3 DEF vars, Fifo!fifoVars, Contents, At
  <2>4. QED BY <2>1, <2>2, <2>3 DEF Next
<1>3. QED BY <1>1, <1>2, RingSafe, PTL DEF Spec, FifoSpec, Fifo!Spec
=============================================================================
