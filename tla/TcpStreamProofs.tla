--------------------------- MODULE TcpStreamProofs ---------------------------
(***************************************************************************)
(* Proofs about TcpStream for every ring, chunk, socket buffer and write   *)
(* length: the bytes the PC gets are in order, every byte is accounted     *)
(* for, a lost connection costs a bounded number of bytes, and the drop    *)
(* counter and BLOCK_ON_FULL keep their promises.                          *)
(***************************************************************************)
EXTENDS TcpStream, FiniteSetTheorems, SequenceTheorems, TLAPS

Rising(s) == \A i, j \in DOMAIN s : i < j => s[i] < s[j]
Below(A, B) == \A x \in A, y \in B : x < y

-----------------------------------------------------------------------------
(* Sequences of byte numbers: what they hold, how they join and divide.     *)

(* A sequence holds no more different bytes than it is long.                *)
LEMMA ItemsFacts ==
  ASSUME NEW s \in Seq(Byte)
  PROVE  /\ Items(s) \subseteq Byte /\ IsFiniteSet(Items(s))
         /\ Cardinality(Items(s)) \in Nat /\ Cardinality(Items(s)) <= Len(s)
<1>1. Len(s) \in Nat /\ s \in [1..Len(s) -> Byte] /\ DOMAIN s = 1..Len(s)
  BY LenProperties
<1>2. s \in Surjection(1..Len(s), Items(s))
  BY <1>1 DEF Surjection, Items
<1>3. IsFiniteSet(1..Len(s)) /\ Cardinality(1..Len(s)) = Len(s)
  BY <1>1, FS_Interval
<1>4. QED
  BY <1>1, <1>2, <1>3, FS_Surjection, FS_CardinalityType DEF Items

LEMMA ItemsEmpty == Items(<<>>) = {} /\ Rising(<<>>)
BY DEF Items, Rising

(* Joining two sequences joins what they hold; the join rises exactly when  *)
(* both rise and all of the first is below all of the second.               *)
LEMMA Join ==
  ASSUME NEW s \in Seq(Byte), NEW t \in Seq(Byte)
  PROVE  /\ s \o t \in Seq(Byte) /\ Len(s \o t) = Len(s) + Len(t)
         /\ Items(s \o t) = Items(s) \cup Items(t)
         /\ Rising(s \o t) <=> Rising(s) /\ Rising(t) /\ Below(Items(s), Items(t))
<1> DEFINE st == s \o t
<1>1. /\ Len(s) \in Nat /\ DOMAIN s = 1..Len(s)
      /\ Len(t) \in Nat /\ DOMAIN t = 1..Len(t)
  BY LenProperties
<1>2. st \in Seq(Byte) /\ Len(st) = Len(s) + Len(t) /\ DOMAIN st = 1..(Len(s) + Len(t))
  BY ConcatProperties, LenProperties
<1>3. \A i \in 1..Len(s) : i \in DOMAIN st /\ st[i] = s[i]
  BY <1>1, <1>2, ConcatProperties
<1>4. \A i \in 1..Len(t) : Len(s) + i \in DOMAIN st /\ st[Len(s) + i] = t[i]
  BY <1>1, <1>2, ConcatProperties
<1>5. \A i \in DOMAIN st : (i \in 1..Len(s)) \/ (\E k \in 1..Len(t) : i = Len(s) + k)
  <2> SUFFICES ASSUME NEW i \in DOMAIN st, i \notin 1..Len(s)
               PROVE  \E k \in 1..Len(t) : i = Len(s) + k
    OBVIOUS
  <2>1. i - Len(s) \in 1..Len(t) /\ i = Len(s) + (i - Len(s))
    BY <1>1, <1>2
  <2>2. QED
    BY <2>1
<1> HIDE DEF st
<1>6. Items(st) = Items(s) \cup Items(t)
  <2>1. /\ Items(s) = {s[i] : i \in 1..Len(s)} /\ Items(t) = {t[i] : i \in 1..Len(t)}
        /\ Items(st) = {st[i] : i \in DOMAIN st}
    BY <1>1 DEF Items
  <2>2. \A i \in DOMAIN st : st[i] \in Items(s) \cup Items(t)
    BY <2>1, <1>3, <1>4, <1>5
  <2>3. \A i \in 1..Len(s) : s[i] \in Items(st)
    BY <2>1, <1>3, Zenon
  <2>4. \A i \in 1..Len(t) : t[i] \in Items(st)
    BY <2>1, <1>4, Zenon
  <2>5. QED
    BY <2>1, <2>2, <2>3, <2>4
<1>7. ASSUME Rising(st)
      PROVE  Rising(s) /\ Rising(t) /\ Below(Items(s), Items(t))
  <2>1. Rising(s)
    BY <1>1, <1>3, <1>7 DEF Rising
  <2>2. Rising(t)
    <3> SUFFICES ASSUME NEW i \in 1..Len(t), NEW j \in 1..Len(t), i < j
                 PROVE  t[i] < t[j]
      BY <1>1 DEF Rising
    <3>1. Len(s) + i < Len(s) + j
      BY <1>1
    <3>2. QED
      BY <3>1, <1>4, <1>7 DEF Rising
  <2>3. Below(Items(s), Items(t))
    <3> SUFFICES ASSUME NEW i \in 1..Len(s), NEW j \in 1..Len(t)
                 PROVE  s[i] < t[j]
      BY <1>1 DEF Below, Items
    <3>1. i < Len(s) + j
      BY <1>1
    <3>2. QED
      BY <3>1, <1>3, <1>4, <1>7 DEF Rising
  <2>4. QED
    BY <2>1, <2>2, <2>3
<1>8. ASSUME Rising(s), Rising(t), Below(Items(s), Items(t))
      PROVE  Rising(st)
  <2> SUFFICES ASSUME NEW i \in DOMAIN st, NEW j \in DOMAIN st, i < j
               PROVE  st[i] < st[j]
    BY DEF Rising
  <2>1. CASE i \in 1..Len(s) /\ j \in 1..Len(s)
    BY <2>1, <1>1, <1>3, <1>8 DEF Rising
  <2>2. CASE i \in 1..Len(s) /\ j \notin 1..Len(s)
    <3>1. PICK l \in 1..Len(t) : j = Len(s) + l
      BY <2>2, <1>5
    <3>2. s[i] \in Items(s) /\ t[l] \in Items(t)
      BY <2>2, <1>1 DEF Items
    <3>3. QED
      BY <3>1, <3>2, <2>2, <1>3, <1>4, <1>8 DEF Below
  <2>3. CASE i \notin 1..Len(s)
    <3>1. PICK k \in 1..Len(t) : i = Len(s) + k
      BY <2>3, <1>5
    <3>2. j \notin 1..Len(s)
      BY <3>1, <1>1, <1>2
    <3>3. PICK l \in 1..Len(t) : j = Len(s) + l
      BY <3>2, <1>5
    <3>4. k < l
      BY <3>1, <3>3, <1>1
    <3>5. t[k] < t[l]
      BY <3>4, <1>1, <1>8 DEF Rising
    <3>6. QED
      BY <3>1, <3>3, <3>5, <1>4
  <2>4. QED
    BY <2>1, <2>2, <2>3
<1>9. QED
  BY <1>2, <1>6, <1>7, <1>8 DEF st

(* A sequence is its first n elements followed by the rest.                 *)
LEMMA Divide ==
  ASSUME NEW s \in Seq(Byte), NEW n \in 0..Len(s)
  PROVE  /\ SubSeq(s, 1, n) \in Seq(Byte) /\ Len(SubSeq(s, 1, n)) = n
         /\ Drop(s, n) \in Seq(Byte) /\ Len(Drop(s, n)) = Len(s) - n
         /\ s = SubSeq(s, 1, n) \o Drop(s, n)
<1>1. Len(s) \in Nat /\ \A i \in 1..Len(s) : s[i] \in Byte
  BY LenProperties, ElementOfSeq
<1> DEFINE a == SubSeq(s, 1, n)
           b == SubSeq(s, n + 1, Len(s))
<1>2. /\ a \in Seq(Byte) /\ Len(a) = n
      /\ \A i \in 1..n : a[i] = s[i]
  <2>1. \A i \in 1..n : s[i] \in Byte
    BY <1>1
  <2>2. /\ a \in Seq(Byte) /\ Len(a) = IF 1 <= n THEN n - 1 + 1 ELSE 0
        /\ \A i \in 1..(n - 1 + 1) : a[i] = s[1 + i - 1]
    BY <2>1, SubSeqProperties
  <2>3. QED
    BY <2>2
<1>3. /\ b \in Seq(Byte) /\ Len(b) = Len(s) - n
      /\ \A i \in 1..(Len(s) - n) : b[i] = s[n + i]
  <2>1. \A i \in (n + 1)..Len(s) : s[i] \in Byte
    BY <1>1
  <2>2. /\ b \in Seq(Byte)
        /\ Len(b) = IF n + 1 <= Len(s) THEN Len(s) - (n + 1) + 1 ELSE 0
        /\ \A i \in 1..(Len(s) - (n + 1) + 1) : b[i] = s[(n + 1) + i - 1]
    BY <2>1, <1>1, SubSeqProperties
  <2>3. Len(s) - (n + 1) + 1 = Len(s) - n
    BY <1>1
  <2>4. (IF n + 1 <= Len(s) THEN Len(s) - (n + 1) + 1 ELSE 0) = Len(s) - n
    BY <1>1
  <2>5. ASSUME NEW i \in 1..(Len(s) - n) PROVE b[i] = s[n + i]
    <3>1. i \in 1..(Len(s) - (n + 1) + 1) /\ (n + 1) + i - 1 = n + i
      BY <1>1, <2>3
    <3>2. QED
      BY <3>1, <2>2
  <2>6. QED
    BY <2>2, <2>4, <2>5
<1> HIDE DEF a, b
<1>4. a \o b \in Seq(Byte) /\ Len(a \o b) = Len(s)
  BY <1>1, <1>2, <1>3, ConcatProperties
<1>5. \A i \in 1..Len(s) : (a \o b)[i] = s[i]
  <2> SUFFICES ASSUME NEW i \in 1..Len(s) PROVE (a \o b)[i] = s[i]
    OBVIOUS
  <2>1. (a \o b)[i] = IF i <= n THEN a[i] ELSE b[i - n]
    BY <1>1, <1>2, <1>3, ConcatProperties
  <2>2. CASE i <= n
    BY <2>1, <2>2, <1>2
  <2>3. CASE ~(i <= n)
    <3>1. i - n \in 1..(Len(s) - n) /\ n + (i - n) = i
      BY <2>3, <1>1
    <3>2. QED
      BY <3>1, <2>1, <2>3, <1>3
  <2>4. QED
    BY <2>2, <2>3
<1>6. s = a \o b
  BY <1>4, <1>5, SeqEqual
<1>7. QED
  BY <1>2, <1>3, <1>6 DEF a, b, Drop

-----------------------------------------------------------------------------
(* The inductive invariant.                                                 *)

(* What each program counter says of the local variables.                   *)
Settled ==
  /\ wpc = "idle" => ptr = end
  /\ wpc \in {"idle", "call"} => written = 0
  /\ wpc = "push" => ptr + written < end
  /\ tpc # "send" => chunk = <<>>

(* InOrder, one inequality for every two places a byte can be in.           *)
Ordered ==
  /\ Rising(recvd) /\ Rising(wire) /\ Rising(chunk) /\ Rising(ring)
  /\ Below(Items(recvd), Items(wire) \cup Items(chunk) \cup Items(ring))
  /\ Below(Items(wire), Items(chunk) \cup Items(ring))
  /\ Below(Items(chunk), Items(ring))

(* Accounted, with the places a byte can be in as sets.                     *)
Entered == ptr + written
Here == Items(recvd) \cup Items(wire) \cup Items(chunk) \cup Items(ring)
Parts ==
  /\ Here \cup refused \cup lost = 0..(Entered - 1)
  /\ Here \cap refused = {} /\ Here \cap lost = {} /\ refused \cap lost = {}

(* The chunks a connection that has already ended may still cost.           *)
Credit ==
  (IF \/ tpc = "send" /\ (swapped \/ sock # "up")
      \/ tpc = "read" /\ sock # "up"
      \/ tpc \notin {"send", "read"} /\ sock = "broken"
   THEN 1 ELSE 0)
  + (IF tpc = "send" /\ swapped /\ sock = "broken" THEN 1 ELSE 0)

Owed == Cardinality(lost) + Chunk * Credit
Paid == Owed <= cuts * (Chunk + SndBuf)

(* Only a working connection holds bytes.                                   *)
WireUp == sock # "up" => wire = <<>>

(* Every drop was noted before esp_audio_pcm_write gives up on the bytes.   *)
DropsNoted ==
  tx_drop_bytes >= Cardinality(refused) + (IF wpc = "ret" THEN end - ptr - written ELSE 0)

(* With BLOCK_ON_FULL tcp_write returns short only once it is stopped.      *)
NothingDropped ==
  block_on_full /\ tx_run =>
    refused = {} /\ tx_drop_bytes = 0 /\ (wpc = "ret" => ptr + written = end)

StreamInv ==
  TypeOK /\ Settled /\ WireUp /\ Ordered /\ Parts /\ Paid /\ DropsNoted /\ NothingDropped

-----------------------------------------------------------------------------
(* Types and program counters.                                              *)

LEMMA InitInv == Init => StreamInv
<1> SUFFICES ASSUME Init PROVE StreamInv
  OBVIOUS
<1>1. TypeOK
  <2>1. <<>> \in Seq(Byte) /\ Len(<<>>) = 0
    BY EmptySeq
  <2>2. 0 \in 0..MaxBytes /\ 0 \in 0..(RetryMax - 1) /\ 0 <= Cap /\ 0 <= Chunk /\ 0 <= SndBuf
    BY StreamAssumption
  <2>3. /\ opened \in BOOLEAN /\ stream_enabled \in BOOLEAN /\ block_on_full \in BOOLEAN
        /\ tx_run \in BOOLEAN /\ swapped \in BOOLEAN /\ rswapped \in BOOLEAN
    BY Zenon DEF Init
  <2>4. /\ sock \in {"none", "up", "broken"}
        /\ wpc \in {"idle", "call", "loop", "push", "ret"}
        /\ tpc \in {"loop", "conn", "dial", "read", "send", "done"}
        /\ mpc \in {"up", "opening", "closing", "deinit", "deleted"}
    BY DEF Init
  <2>5. /\ ring \in Seq(Byte) /\ Len(ring) <= Cap /\ chunk \in Seq(Byte) /\ Len(chunk) <= Chunk
        /\ wire \in Seq(Byte) /\ Len(wire) <= SndBuf /\ recvd \in Seq(Byte)
    BY <2>1, <2>2 DEF Init
  <2>6. /\ ptr \in 0..MaxBytes /\ end \in 0..MaxBytes /\ written \in Nat /\ ptr + written <= end
        /\ retry \in 0..(RetryMax - 1) /\ tx_drop_bytes \in Nat /\ cuts \in Nat
        /\ refused \subseteq Byte /\ lost \subseteq Byte
    BY <2>2 DEF Init
  <2>7. QED
    BY <2>3, <2>4, <2>5, <2>6 DEF TypeOK
<1>2. Settled /\ WireUp /\ NothingDropped
  BY DEF Init, Settled, WireUp, NothingDropped
<1>3. Ordered /\ Parts
  <2>1. Here = {}
    BY ItemsEmpty DEF Init, Here
  <2>2. 0..(Entered - 1) = {}
    BY DEF Init, Entered
  <2>3. QED
    BY <2>1, <2>2, ItemsEmpty DEF Init, Ordered, Parts, Below
<1>4. Paid /\ DropsNoted
  BY FS_EmptySet, StreamAssumption DEF Init, Paid, Owed, Credit, DropsNoted
<1>5. QED
  BY <1>1, <1>2, <1>3, <1>4 DEF StreamInv

(* What the ring gets from a write that finds room.                         *)
LEMMA PushFacts ==
  ASSUME TypeOK, NEW n, n = Lesser(end - (ptr + written), ring_free_locked),
         ring_free_locked > 0
  PROVE  LET new == [i \in 1..n |-> ptr + written + i - 1]
         IN  /\ n \in Nat /\ Len(ring) + n <= Cap /\ ptr + written + n <= end
             /\ new \in Seq(Byte) /\ Len(new) = n
             /\ Rising(new) /\ Items(new) = (ptr + written)..(ptr + written + n - 1)
<1> DEFINE new == [i \in 1..n |-> ptr + written + i - 1]
<1>1. Len(ring) \in Nat /\ Len(ring) <= Cap
  BY LenProperties DEF TypeOK
<1>2. n \in Nat /\ Len(ring) + n <= Cap /\ ptr + written + n <= end
  <2>1. end - (ptr + written) \in Nat
    BY StreamAssumption DEF TypeOK
  <2>2. Cap - Len(ring) \in Nat /\ Cap \in Nat
    BY <1>1, StreamAssumption
  <2>3. n = end - (ptr + written) \/ n = Cap - Len(ring)
    BY DEF Lesser, ring_free_locked
  <2>4. n <= end - (ptr + written) /\ n <= Cap - Len(ring)
    BY <2>1, <2>2 DEF Lesser, ring_free_locked
  <2>5. ptr \in Nat /\ written \in Nat /\ end \in Nat
    BY StreamAssumption DEF TypeOK
  <2>6. QED
    BY <1>1, <2>1, <2>2, <2>3, <2>4, <2>5
<1>3. \A i \in 1..n : ptr + written + i - 1 \in Byte
  BY <1>2, StreamAssumption, SMTT(60) DEF TypeOK, Byte
<1>4. new \in Seq(Byte)
  BY <1>2, <1>3, IsASeq
<1>5. Len(new) = n /\ DOMAIN new = 1..n
  BY <1>2
<1>6. Rising(new)
  BY <1>2, <1>5 DEF Rising, TypeOK
<1>7. Items(new) = (ptr + written)..(ptr + written + n - 1)
  <2>1. \A i \in 1..n : new[i] \in (ptr + written)..(ptr + written + n - 1)
    BY <1>2 DEF TypeOK
  <2>2. ASSUME NEW b \in (ptr + written)..(ptr + written + n - 1)
        PROVE  \E i \in 1..n : new[i] = b
    <3>1. b - (ptr + written) + 1 \in 1..n
      BY <1>2, SMTT(60) DEF TypeOK
    <3>2. new[b - (ptr + written) + 1] = b
      BY <3>1, <1>2 DEF TypeOK
    <3>3. QED
      BY <3>1, <3>2
  <2>3. QED
    BY <2>1, <2>2, <1>5 DEF Items
<1>8. QED
  BY <1>2, <1>4, <1>5, <1>6, <1>7

(* What the transmit task takes from the ring, and from its chunk.          *)
LEMMA TakeFacts ==
  ASSUME NEW s \in Seq(Byte), NEW t \in Seq(Byte), NEW n \in 0..Len(s)
  PROVE  LET a == SubSeq(s, 1, n)
             b == Drop(s, n)
         IN  /\ a \in Seq(Byte) /\ Len(a) = n /\ b \in Seq(Byte) /\ Len(b) = Len(s) - n
             /\ Items(s) = Items(a) \cup Items(b)
             /\ Rising(s) => Rising(a) /\ Rising(b) /\ Below(Items(a), Items(b))
             /\ t \o a \in Seq(Byte) /\ Len(t \o a) = Len(t) + n
             /\ Items(t \o a) = Items(t) \cup Items(a)
             /\ Rising(t) /\ Rising(a) /\ Below(Items(t), Items(a)) => Rising(t \o a)
             /\ n = Len(s) => b = <<>>
<1> DEFINE a == SubSeq(s, 1, n)
           b == Drop(s, n)
<1>1. /\ a \in Seq(Byte) /\ Len(a) = n /\ b \in Seq(Byte) /\ Len(b) = Len(s) - n
      /\ s = a \o b
  BY Divide
<1> HIDE DEF a, b
<1>2. /\ Items(s) = Items(a) \cup Items(b)
      /\ Rising(s) => Rising(a) /\ Rising(b) /\ Below(Items(a), Items(b))
  BY <1>1, Join
<1>3. /\ t \o a \in Seq(Byte) /\ Len(t \o a) = Len(t) + n
      /\ Items(t \o a) = Items(t) \cup Items(a)
      /\ Rising(t) /\ Rising(a) /\ Below(Items(t), Items(a)) => Rising(t \o a)
  BY <1>1, Join
<1>4. n = Len(s) => b = <<>>
  BY <1>1, LenProperties, EmptySeq
<1>5. QED
  BY <1>1, <1>2, <1>3, <1>4 DEF a, b

(* The conjuncts of TypeOK, grouped by what disturbs them.                  *)
Flags ==
  /\ opened \in BOOLEAN /\ stream_enabled \in BOOLEAN /\ block_on_full \in BOOLEAN
  /\ tx_run \in BOOLEAN /\ swapped \in BOOLEAN /\ rswapped \in BOOLEAN
Places ==
  /\ sock \in {"none", "up", "broken"}
  /\ wpc \in {"idle", "call", "loop", "push", "ret"}
  /\ tpc \in {"loop", "conn", "dial", "read", "send", "done"}
  /\ mpc \in {"up", "opening", "closing", "deinit", "deleted"}
Buffers ==
  /\ ring \in Seq(Byte) /\ Len(ring) <= Cap /\ chunk \in Seq(Byte) /\ Len(chunk) <= Chunk
  /\ wire \in Seq(Byte) /\ Len(wire) <= SndBuf /\ recvd \in Seq(Byte)
Call ==
  /\ ptr \in 0..MaxBytes /\ end \in 0..MaxBytes /\ written \in Nat /\ ptr + written <= end
  /\ retry \in 0..(RetryMax - 1) /\ tx_drop_bytes \in Nat
Losses == cuts \in Nat /\ refused \subseteq Byte /\ lost \subseteq Byte

LEMMA TypeParts == TypeOK <=> Flags /\ Places /\ Buffers /\ Call /\ Losses
BY DEF TypeOK, Flags, Places, Buffers, Call, Losses

LEMMA FlagsStep == TypeOK /\ [Next]_vars => Flags'
<1> SUFFICES ASSUME Flags, [Next]_vars PROVE Flags'
  BY TypeParts
<1> USE DEF Flags
<1>1. CASE \E len \in 1..MaxLen : esp_audio_pcm_write(len)
  BY <1>1, Zenon DEF esp_audio_pcm_write, handle, tx, link
<1>2. CASE Producer
  BY <1>2, Zenon DEF Producer, tcp_write_enter, tcp_write_test, tcp_write_push, tcp_write_full,
     esp_audio_pcm_write_return, handle, tx, link
<1>3. SwapReader => rswapped' \in BOOLEAN
  BY Zenon DEF SwapReader
<1>4. CASE TxStep \/ tx_connect
  BY <1>3, <1>4, Zenon DEF TxStep, tx_loop, tx_ensure_connected, tx_connect_fail, tx_read, tx_send,
     tx_send_fail, tx_connect, Publish, handle, link
<1>5. swapped' = (tpc = "send") => swapped' \in BOOLEAN
  BY Zenon
<1>6. CASE tcp_read_error
  BY <1>5, <1>6, Zenon DEF tcp_read_error, CloseByOther, handle
<1>7. stream_enabled' = ~stream_enabled => stream_enabled' \in BOOLEAN
  BY Zenon
<1>8. CASE App
  BY <1>3, <1>5, <1>7, <1>8, Zenon DEF App, esp_audio_pcm_set_stream_enabled, esp_audio_pcm_open,
     esp_audio_pcm_close, esp_audio_pcm_opened, esp_audio_pcm_closed, tcp_deinit_stop,
     tcp_deinit_close, CloseByOther,
     Publish, handle, tx, link
<1>9. CASE Deliver \/ Break \/ Done \/ UNCHANGED vars
  BY <1>9, Zenon DEF Deliver, Break, Done, handle, tx, link, vars
<1>10. QED
  BY <1>1, <1>2, <1>4, <1>6, <1>8, <1>9 DEF Next

LEMMA PlacesStep == TypeOK /\ [Next]_vars => Places'
<1> SUFFICES ASSUME Places, [Next]_vars PROVE Places'
  BY TypeParts
<1> USE DEF Places
<1>1. CASE \E len \in 1..MaxLen : esp_audio_pcm_write(len)
  BY <1>1 DEF esp_audio_pcm_write, tx, link
<1>2. CASE Producer
  BY <1>2 DEF Producer, tcp_write_enter, tcp_write_test, tcp_write_push, tcp_write_full,
     LeaveTcpWrite, esp_audio_pcm_write_return, tx, link
<1>3. CASE TxStep \/ tx_connect
  BY <1>3 DEF TxStep, tx_loop, tx_ensure_connected, tx_connect_fail, tx_read, tx_send,
     tx_send_fail, tx_connect, Publish, producer, link
<1>5. CASE tcp_read_error
  BY <1>5 DEF tcp_read_error, CloseByOther, producer
<1>7. CASE App
  BY <1>7 DEF App, esp_audio_pcm_set_stream_enabled, esp_audio_pcm_open, esp_audio_pcm_close,
     esp_audio_pcm_opened, esp_audio_pcm_closed, tcp_deinit_stop, tcp_deinit_close,
     CloseByOther, Publish, producer, tx, link
<1>8. CASE Deliver \/ Break \/ Done \/ UNCHANGED vars
  BY <1>8 DEF Deliver, Break, Done, producer, tx, link, vars
<1>9. QED
  BY <1>1, <1>2, <1>3, <1>5, <1>7, <1>8 DEF Next

(* The local variables of a write.                                          *)
LEMMA CallStep == TypeOK /\ Settled /\ [Next]_vars => Call'
<1> SUFFICES ASSUME TypeOK, Settled, [Next]_vars PROVE Call'
  OBVIOUS
<1>0. /\ Call /\ ptr \in Nat /\ end \in Nat /\ end <= MaxBytes /\ MaxBytes \in Nat
      /\ RetryMax \in Nat /\ RetryMax > 0 /\ end - ptr - written \in Nat
  BY TypeParts, StreamAssumption DEF Call
<1>1. ASSUME NEW len \in 1..MaxLen, esp_audio_pcm_write(len) PROVE Call'
  BY <1>0, <1>1, StreamAssumption DEF esp_audio_pcm_write, Call
<1>2. CASE tcp_write_enter
  BY <1>0, <1>2 DEF tcp_write_enter, tcp_note_drop, Call
<1>3. CASE tcp_write_test
  BY <1>0, <1>3 DEF tcp_write_test, LeaveTcpWrite, tcp_note_drop, Call
<1>4. CASE tcp_write_push
  <2> DEFINE n == Lesser(end - (ptr + written), ring_free_locked)
  <2>1. n \in Nat /\ ptr + written + n <= end
    BY <1>4, PushFacts DEF tcp_write_push
  <2>2. written' = written + n /\ UNCHANGED <<tx_drop_bytes, ptr, end, retry>>
    BY <1>4 DEF tcp_write_push
  <2> HIDE DEF n
  <2>3. QED
    BY <1>0, <2>1, <2>2 DEF Call
<1>5. CASE tcp_write_full
  BY <1>0, <1>5 DEF tcp_write_full, LeaveTcpWrite, tcp_note_drop, Call
<1>6. CASE esp_audio_pcm_write_return
  BY <1>0, <1>6 DEF esp_audio_pcm_write_return, Resume, Call
<1>7. CASE TxStep \/ tx_connect \/ tcp_read_error \/ App \/ Deliver \/ Break \/ Done \/ UNCHANGED vars
  <2>1. UNCHANGED <<ptr, end, retry, written, tx_drop_bytes>>
    BY <1>7 DEF TxStep, tx_loop, tx_ensure_connected, tx_connect_fail, tx_read, tx_send,
       tx_send_fail, tx_connect, tcp_read_error, App, esp_audio_pcm_set_stream_enabled,
       esp_audio_pcm_open, esp_audio_pcm_close, esp_audio_pcm_opened, esp_audio_pcm_closed,
       tcp_deinit_stop,
       tcp_deinit_close, Deliver, Break, Done, producer, vars
  <2>2. QED
    BY <1>0, <2>1 DEF Call
<1>8. QED
  BY <1>1, <1>2, <1>3, <1>4, <1>5, <1>6, <1>7 DEF Next, Producer

LEMMA SettledStep == TypeOK /\ Settled /\ [Next]_vars => Settled'
<1> SUFFICES ASSUME TypeOK, Settled, [Next]_vars PROVE Settled'
  OBVIOUS
<1> USE DEF Settled
<1>1. CASE \E len \in 1..MaxLen : esp_audio_pcm_write(len)
  BY <1>1 DEF esp_audio_pcm_write, tx
<1>2. CASE Producer
  BY <1>2 DEF Producer, tcp_write_enter, tcp_write_test, tcp_write_push, tcp_write_full,
     KeepWriting, LeaveTcpWrite, esp_audio_pcm_write_return, tx
<1>3. CASE tx_loop \/ tx_ensure_connected \/ tx_connect_fail \/ tx_connect
  BY <1>3 DEF tx_loop, tx_ensure_connected, tx_connect_fail, tx_connect, producer
<1>4. CASE tx_read
  <2> DEFINE n == Lesser(Chunk, Len(ring))
  <2>1. Len(ring) \in Nat /\ ring \in Seq(Byte)
    BY LenProperties DEF TypeOK
  <2>2. n = 0 => SubSeq(ring, 1, n) = <<>>
    BY <2>1, SubSeqEmpty
  <2> HIDE DEF n
  <2>3. chunk' = SubSeq(ring, 1, n) /\ tpc' = (IF n = 0 THEN "loop" ELSE "send") /\ UNCHANGED producer
    BY <1>4 DEF tx_read, n
  <2>4. QED
    BY <2>2, <2>3 DEF producer
<1>5. CASE tx_send
  <2>1. PICK n \in 1..Lesser(Len(chunk), SndBuf - Len(wire)) :
          /\ chunk' = Drop(chunk, n)
          /\ tpc' = (IF n = Len(chunk) THEN "loop" ELSE "send")
    BY <1>5 DEF tx_send
  <2>2. chunk \in Seq(Byte) /\ Len(chunk) \in Nat
    BY LenProperties DEF TypeOK
  <2>3. n = Len(chunk) => Drop(chunk, n) = <<>>
    BY <2>2, SubSeqEmpty DEF Drop
  <2>4. UNCHANGED producer
    BY <1>5 DEF tx_send
  <2>5. QED
    BY <2>1, <2>3, <2>4 DEF producer
<1>6. CASE tx_send_fail
  BY <1>6 DEF tx_send_fail, producer
<1>7. CASE tcp_read_error \/ App \/ Deliver \/ Break \/ Done \/ UNCHANGED vars
  <2>1. UNCHANGED <<ptr, end, written, wpc, tpc, chunk>>
    BY <1>7 DEF tcp_read_error, App, esp_audio_pcm_set_stream_enabled,
       esp_audio_pcm_open, esp_audio_pcm_close, esp_audio_pcm_opened, esp_audio_pcm_closed,
       tcp_deinit_stop,
       tcp_deinit_close, Deliver, Break, Done, producer, tx, vars
  <2>2. QED
    BY <2>1
<1>8. QED
  BY <1>1, <1>2, <1>3, <1>4, <1>5, <1>6, <1>7 DEF Next, TxStep

-----------------------------------------------------------------------------
(* What a step does to the bytes in flight.                                 *)
Quiet ==
  UNCHANGED <<recvd, wire, chunk, ring, refused, lost>> /\ Entered' = Entered
Push ==
  /\ \E n \in Nat :
       LET new == [i \in 1..n |-> ptr + written + i - 1]
       IN  /\ ring' = ring \o new /\ Entered' = Entered + n
           /\ Len(ring) + n <= Cap /\ new \in Seq(Byte) /\ Len(new) = n
           /\ Rising(new) /\ Items(new) = Entered..(Entered + n - 1)
  /\ UNCHANGED <<recvd, wire, chunk, refused, lost>>
Refuse ==
  /\ refused' = refused \cup (Entered..(end - 1))
  /\ Entered' = end
  /\ UNCHANGED <<recvd, wire, chunk, ring, lost>>
TakeChunk ==
  /\ \E n \in 0..Len(ring) : n <= Chunk /\ chunk' = SubSeq(ring, 1, n) /\ ring' = Drop(ring, n)
  /\ chunk = <<>>
  /\ UNCHANGED <<recvd, wire, refused, lost, Entered>>
SendSome ==
  /\ \E n \in 0..Len(chunk) :
       /\ Len(wire) + n <= SndBuf
       /\ wire' = wire \o SubSeq(chunk, 1, n) /\ chunk' = Drop(chunk, n)
  /\ UNCHANGED <<recvd, ring, refused, lost, Entered>>
DeliverOne ==
  /\ wire # <<>> /\ recvd' = Append(recvd, Head(wire)) /\ wire' = Tail(wire)
  /\ UNCHANGED <<chunk, ring, refused, lost, Entered>>
LoseWire ==
  /\ wire' = <<>> /\ lost' = lost \cup Items(wire)
  /\ UNCHANGED <<recvd, chunk, ring, refused, Entered>>
LoseChunk ==
  /\ chunk' = <<>>
  /\ \/ wire' = <<>> /\ lost' = lost \cup Items(chunk) \cup Items(wire)
     \/ wire' = wire /\ lost' = lost \cup Items(chunk)
  /\ UNCHANGED <<recvd, ring, refused, Entered>>

(* The transmit task moves bytes on.                                        *)
LEMMA MoveKinds ==
  ASSUME TypeOK, Settled, tx_read \/ tx_send
  PROVE  TakeChunk \/ SendSome
<1>1. CASE tx_read
  <2>1. Len(ring) \in Nat /\ Chunk \in Nat
    BY LenProperties, StreamAssumption DEF TypeOK
  <2>2. Lesser(Chunk, Len(ring)) \in 0..Len(ring) /\ Lesser(Chunk, Len(ring)) <= Chunk
    BY <2>1 DEF Lesser
  <2>3. TakeChunk
    BY <1>1, <2>2 DEF tx_read, TakeChunk, Entered, Settled, producer, link
  <2>4. QED
    BY <2>3
<1>2. CASE tx_send
  <2>1. PICK n \in 1..Lesser(Len(chunk), SndBuf - Len(wire)) :
          wire' = wire \o SubSeq(chunk, 1, n) /\ chunk' = Drop(chunk, n)
    BY <1>2 DEF tx_send
  <2>2. Len(chunk) \in Nat /\ Len(wire) \in Nat /\ SndBuf \in Nat
    BY LenProperties, StreamAssumption DEF TypeOK
  <2>3. n \in 0..Len(chunk) /\ Len(wire) + n <= SndBuf
    BY <2>2 DEF Lesser
  <2>4. UNCHANGED <<recvd, ring, refused, lost, Entered>>
    BY <1>2 DEF tx_send, producer, Entered
  <2>5. SendSome
    BY <2>1, <2>3, <2>4 DEF SendSome
  <2>6. QED
    BY <2>5
<1>3. QED
  BY <1>1, <1>2

(* A connection ends, or an error on one that has ended.                    *)
LEMMA LossKinds ==
  ASSUME \/ tx_send_fail \/ tx_connect \/ tcp_read_error \/ esp_audio_pcm_open
         \/ esp_audio_pcm_close \/ tcp_deinit_close \/ Break
  PROVE  LoseWire \/ LoseChunk
<1>1. CASE tx_send_fail
  <2>1. LoseChunk
    BY <1>1 DEF tx_send_fail, LoseChunk, Entered, producer
  <2>2. QED
    BY <2>1
<1>2. CASE tx_connect \/ tcp_read_error \/ esp_audio_pcm_open \/ esp_audio_pcm_close \/ tcp_deinit_close \/ Break
  <2>1. LoseWire
    BY <1>2 DEF tx_connect, tcp_read_error, esp_audio_pcm_open, esp_audio_pcm_close, tcp_deinit_close,
       Break, Publish, CloseByOther, EndConnection, LoseWire, Entered, producer, tx
  <2>2. QED
    BY <2>1
<1>3. QED
  BY <1>1, <1>2

LEMMA Kinds ==
  ASSUME TypeOK, Settled, [Next]_vars
  PROVE  \/ Quiet \/ Push \/ Refuse \/ TakeChunk \/ SendSome \/ DeliverOne
         \/ LoseWire \/ LoseChunk
<1>0. ptr \in Nat /\ end \in Nat /\ written \in Nat /\ ptr + written <= end
  BY StreamAssumption DEF TypeOK
<1>1. CASE \E len \in 1..MaxLen : esp_audio_pcm_write(len)
  <2>1. Quiet
    BY <1>0, <1>1 DEF esp_audio_pcm_write, Quiet, Entered, Settled, tx, link
  <2>2. QED
    BY <2>1
<1>2. CASE tcp_write_enter \/ tcp_write_test \/ tcp_write_full
  <2>1. Quiet
    BY <1>0, <1>2 DEF tcp_write_enter, tcp_write_test, tcp_write_full, LeaveTcpWrite, Quiet, Entered, tx, link
  <2>2. QED
    BY <2>1
<1>3. CASE tcp_write_push
  <2> DEFINE n == Lesser(end - (ptr + written), ring_free_locked)
             new == [i \in 1..n |-> ptr + written + i - 1]
  <2>1. /\ n \in Nat /\ Len(ring) + n <= Cap
        /\ new \in Seq(Byte) /\ Len(new) = n
        /\ Rising(new) /\ Items(new) = (ptr + written)..(ptr + written + n - 1)
    BY <1>3, PushFacts DEF tcp_write_push
  <2>2. ring' = ring \o new /\ written' = written + n /\ ptr' = ptr
    BY <1>3 DEF tcp_write_push
  <2>3. UNCHANGED <<recvd, wire, chunk, refused, lost>>
    BY <1>3 DEF tcp_write_push, tx, link
  <2>4. Entered' = Entered + n
    BY <2>1, <2>2, <1>0 DEF Entered
  <2> HIDE DEF n
  <2>5. Push
    BY <2>1, <2>2, <2>3, <2>4 DEF Push, Entered
  <2>6. QED
    BY <2>5
<1>4. CASE esp_audio_pcm_write_return
  <2>1. Quiet \/ Refuse
    BY <1>0, <1>4 DEF esp_audio_pcm_write_return, Resume, Quiet, Refuse, Entered, tx, link
  <2>2. QED
    BY <2>1
<1>5. CASE tx_loop \/ tx_ensure_connected \/ tx_connect_fail
  <2>1. Quiet
    BY <1>5 DEF tx_loop, tx_ensure_connected, tx_connect_fail, Quiet, Entered, producer, link
  <2>2. QED
    BY <2>1
<1>6. CASE tx_read \/ tx_send
  BY <1>6, MoveKinds
<1>7. CASE \/ tx_send_fail \/ tx_connect \/ tcp_read_error \/ esp_audio_pcm_open
           \/ esp_audio_pcm_close \/ tcp_deinit_close \/ Break
  BY <1>7, LossKinds
<1>8. CASE \/ esp_audio_pcm_set_stream_enabled \/ esp_audio_pcm_opened \/ esp_audio_pcm_closed
           \/ tcp_deinit_stop \/ Done \/ UNCHANGED vars
  <2>1. Quiet
    BY <1>8 DEF esp_audio_pcm_set_stream_enabled, esp_audio_pcm_opened, esp_audio_pcm_closed,
       tcp_deinit_stop, Done,
       Quiet, Entered, producer, tx, link, vars
  <2>2. QED
    BY <2>1
<1>9. CASE Deliver
  <2>1. DeliverOne
    BY <1>9 DEF Deliver, DeliverOne, Entered, producer, tx
  <2>2. QED
    BY <2>1
<1>10. QED
  BY <1>1, <1>2, <1>3, <1>4, <1>5, <1>6, <1>7, <1>8, <1>9 DEF Next, Producer, TxStep, App

-----------------------------------------------------------------------------
(* Order and accounts, by what a step does to the bytes.                    *)
LEMMA BuffersStep ==
  ASSUME TypeOK, Settled, [Next]_vars
  PROVE  Buffers' /\ (refused \cup lost \subseteq Byte => (refused \cup lost)' \subseteq Byte)
<1>0. /\ Buffers /\ Len(ring) \in Nat /\ Len(chunk) \in Nat /\ Len(wire) \in Nat
      /\ Cap \in Nat /\ Chunk \in Nat /\ SndBuf \in Nat /\ MaxBytes \in Nat
      /\ ptr \in Nat /\ written \in Nat /\ end \in 0..MaxBytes
  BY TypeParts, LenProperties, StreamAssumption DEF Buffers, Call
<1>e. <<>> \in Seq(Byte) /\ Len(<<>>) = 0
  BY EmptySeq
<1>1. CASE Quiet
  BY <1>0, <1>1 DEF Quiet, Buffers
<1>2. CASE Push
  <2>1. PICK new \in Seq(Byte) : ring' = ring \o new /\ Len(ring) + Len(new) <= Cap
    BY <1>2 DEF Push
  <2>2. ring' \in Seq(Byte) /\ Len(ring') <= Cap
    BY <1>0, <2>1, Join DEF Buffers
  <2>3. QED
    BY <1>0, <1>2, <2>2 DEF Push, Buffers
<1>3. CASE Refuse
  <2>1. Entered..(end - 1) \subseteq Byte
    BY <1>0 DEF Byte, Entered
  <2>2. QED
    BY <1>0, <1>3, <2>1 DEF Refuse, Buffers
<1>4. CASE TakeChunk
  <2>1. PICK n \in 0..Len(ring) : n <= Chunk /\ chunk' = SubSeq(ring, 1, n) /\ ring' = Drop(ring, n)
    BY <1>4 DEF TakeChunk
  <2>2. /\ chunk' \in Seq(Byte) /\ Len(chunk') = n
        /\ ring' \in Seq(Byte) /\ Len(ring') = Len(ring) - n
    BY <1>0, <2>1, Divide DEF Buffers
  <2>3. Len(chunk') <= Chunk /\ Len(ring') <= Cap
    BY <1>0, <2>1, <2>2 DEF Buffers
  <2>4. QED
    BY <1>0, <1>4, <2>2, <2>3 DEF TakeChunk, Buffers
<1>5. CASE SendSome
  <2>1. PICK n \in 0..Len(chunk) : /\ Len(wire) + n <= SndBuf
                                  /\ wire' = wire \o SubSeq(chunk, 1, n) /\ chunk' = Drop(chunk, n)
    BY <1>5 DEF SendSome
  <2>2. /\ wire' \in Seq(Byte) /\ Len(wire') = Len(wire) + n
        /\ chunk' \in Seq(Byte) /\ Len(chunk') = Len(chunk) - n
    <3>1. chunk \in Seq(Byte) /\ wire \in Seq(Byte)
      BY <1>0 DEF Buffers
    <3>2. /\ SubSeq(chunk, 1, n) \in Seq(Byte) /\ Len(SubSeq(chunk, 1, n)) = n
          /\ Drop(chunk, n) \in Seq(Byte) /\ Len(Drop(chunk, n)) = Len(chunk) - n
      BY <3>1, Divide
    <3>3. /\ wire \o SubSeq(chunk, 1, n) \in Seq(Byte)
          /\ Len(wire \o SubSeq(chunk, 1, n)) = Len(wire) + Len(SubSeq(chunk, 1, n))
      BY <3>1, <3>2, Join
    <3>4. QED
      BY <2>1, <3>2, <3>3
  <2>3. Len(wire') <= SndBuf /\ Len(chunk') <= Chunk
    BY <1>0, <2>1, <2>2 DEF Buffers
  <2>4. QED
    BY <1>0, <1>5, <2>2, <2>3 DEF SendSome, Buffers
<1>6. CASE DeliverOne
  <2>1. /\ Head(wire) \in Byte /\ wire' \in Seq(Byte) /\ Len(wire') = Len(wire) - 1
    BY <1>0, <1>6, HeadTailProperties DEF DeliverOne, Buffers
  <2>2. recvd' \in Seq(Byte)
    BY <1>0, <1>6, <2>1, AppendProperties DEF DeliverOne, Buffers
  <2>3. Len(wire') <= SndBuf
    BY <1>0, <2>1 DEF Buffers
  <2>4. QED
    BY <1>0, <1>6, <2>1, <2>2, <2>3 DEF DeliverOne, Buffers
<1>7. CASE LoseWire
  <2>1. Items(wire) \subseteq Byte
    BY <1>0, ItemsFacts DEF Buffers
  <2>2. QED
    BY <1>0, <1>e, <1>7, <2>1 DEF LoseWire, Buffers
<1>8. CASE LoseChunk
  <2>1. Items(wire) \subseteq Byte /\ Items(chunk) \subseteq Byte
    BY <1>0, ItemsFacts DEF Buffers
  <2>2. /\ chunk' \in Seq(Byte) /\ Len(chunk') <= Chunk
        /\ wire' \in Seq(Byte) /\ Len(wire') <= SndBuf
    <3>1. chunk' = <<>> /\ (wire' = <<>> \/ wire' = wire)
      BY <1>8 DEF LoseChunk
    <3>2. 0 <= Chunk /\ 0 <= SndBuf
      BY <1>0
    <3>3. QED
      BY <1>0, <1>e, <3>1, <3>2 DEF Buffers
  <2>3. QED
    BY <1>0, <1>8, <2>1, <2>2 DEF LoseChunk, Buffers
<1>9. QED
  BY <1>1, <1>2, <1>3, <1>4, <1>5, <1>6, <1>7, <1>8, Kinds

LEMMA LossesStep == TypeOK /\ Settled /\ [Next]_vars => Losses'
<1> SUFFICES ASSUME TypeOK, Settled, [Next]_vars PROVE Losses'
  OBVIOUS
<1>1. Losses
  BY TypeParts
<1>2. refused' \subseteq Byte /\ lost' \subseteq Byte
  BY <1>1, BuffersStep DEF Losses
<1>3. cuts' = cuts \/ cuts' = cuts + 1
  <2>1. CASE (\E len \in 1..MaxLen : esp_audio_pcm_write(len)) \/ Producer
    BY <2>1 DEF esp_audio_pcm_write, Producer, tcp_write_enter, tcp_write_test, tcp_write_push,
       tcp_write_full, esp_audio_pcm_write_return, link
  <2>2. CASE TxStep \/ tx_connect \/ tcp_read_error
    BY <2>2 DEF TxStep, tx_loop, tx_ensure_connected, tx_connect_fail, tx_read, tx_send,
       tx_send_fail, tx_connect, tcp_read_error, Publish, CloseByOther, EndConnection, link
  <2>3. CASE App \/ Deliver \/ Break \/ Done \/ UNCHANGED vars
    BY <2>3 DEF App, esp_audio_pcm_set_stream_enabled, esp_audio_pcm_open, esp_audio_pcm_close,
       esp_audio_pcm_opened, esp_audio_pcm_closed, tcp_deinit_stop, tcp_deinit_close, Deliver,
       Break, Done,
       Publish, CloseByOther, EndConnection, link, vars
  <2>4. QED
    BY <2>1, <2>2, <2>3 DEF Next
<1>4. QED
  BY <1>1, <1>2, <1>3 DEF Losses

LEMMA TypeStep == TypeOK /\ Settled /\ [Next]_vars => TypeOK' /\ Settled'
<1> SUFFICES ASSUME TypeOK, Settled, [Next]_vars PROVE TypeOK' /\ Settled'
  OBVIOUS
<1>1. Flags' /\ Places' /\ Buffers' /\ Call' /\ Losses' /\ Settled'
  BY FlagsStep, PlacesStep, BuffersStep, CallStep, LossesStep, SettledStep
<1>2. QED
  BY <1>1 DEF TypeOK, Flags, Places, Buffers, Call, Losses

LEMMA Intervals ==
  ASSUME NEW a \in Nat, NEW b \in Nat, a <= b
  PROVE  (0..(a - 1)) \cup (a..(b - 1)) = 0..(b - 1)
OBVIOUS

LEMMA OrderStep ==
  ASSUME TypeOK, Settled, Ordered, Parts, [Next]_vars
  PROVE  Ordered' /\ Parts'
<1>0. /\ Buffers /\ end \in Nat /\ Entered \in Nat /\ Entered <= end
  BY TypeParts, StreamAssumption DEF Call, Entered
<1>1. CASE Quiet
  <2>1. Here' = Here /\ Ordered'
    BY <1>1 DEF Quiet, Here, Ordered
  <2>2. Entered' = Entered /\ refused' = refused /\ lost' = lost
    BY <1>1 DEF Quiet
  <2>3. Parts'
    BY <1>0, <2>1, <2>2 DEF Parts
  <2>4. QED
    BY <2>1, <2>3
<1>2. CASE Push
  <2>1. PICK n \in Nat, new \in Seq(Byte) :
          /\ ring' = ring \o new /\ Entered' = Entered + n
          /\ Rising(new) /\ Items(new) = Entered..(Entered + n - 1)
    BY <1>2 DEF Push
  <2>2. Items(ring') = Items(ring) \cup Items(new)
    BY <1>0, <2>1, Join DEF Buffers
  <2>3. \A x \in Here : x \in 0..(Entered - 1)
    BY DEF Parts
  <2>4. Below(Here, Items(new))
    BY <1>0, <2>1, <2>3 DEF Below
  <2>5. Rising(ring')
    BY <1>0, <2>1, <2>4, Join DEF Buffers, Ordered, Here, Below
  <2>6. Ordered'
    BY <1>2, <2>2, <2>4, <2>5 DEF Push, Ordered, Here, Below
  <2>7. Here' = Here \cup Items(new)
    BY <1>2, <2>2 DEF Push, Here
  <2>8. (0..(Entered - 1)) \cup Items(new) = 0..(Entered' - 1)
    <3>1. Entered + n \in Nat /\ Entered <= Entered + n
      BY <1>0
    <3>2. QED
      BY <1>0, <2>1, <3>1, Intervals
  <2>9. \A x \in Here \cup refused \cup lost : x \notin Items(new)
    BY <1>0, <2>1 DEF Parts
  <2>10. Parts'
    BY <1>2, <2>7, <2>8, <2>9 DEF Push, Parts
  <2>11. QED
    BY <2>6, <2>10
<1>3. CASE Refuse
  <2>1. Here' = Here /\ Ordered'
    BY <1>3 DEF Refuse, Here, Ordered
  <2>2. (0..(Entered - 1)) \cup (Entered..(end - 1)) = 0..(Entered' - 1)
    BY <1>0, <1>3, Intervals DEF Refuse
  <2>3. \A x \in Here \cup refused \cup lost : x \notin Entered..(end - 1)
    BY <1>0 DEF Parts
  <2>4. Parts'
    BY <1>3, <2>1, <2>2, <2>3 DEF Refuse, Parts
  <2>5. QED
    BY <2>1, <2>4
<1>4. CASE TakeChunk
  <2>1. PICK n \in 0..Len(ring) : chunk' = SubSeq(ring, 1, n) /\ ring' = Drop(ring, n)
    BY <1>4 DEF TakeChunk
  <2>2. Rising(ring)
    BY DEF Ordered
  <2>3. /\ Items(ring) = Items(chunk') \cup Items(ring')
        /\ Rising(chunk') /\ Rising(ring') /\ Below(Items(chunk'), Items(ring'))
    BY <1>0, <2>1, <2>2, TakeFacts DEF Buffers
  <2>4. Items(chunk) = {}
    BY <1>4, ItemsEmpty DEF TakeChunk
  <2>5. Here' = Here
    BY <1>4, <2>3, <2>4 DEF TakeChunk, Here
  <2>6. Ordered'
    BY <1>4, <2>3 DEF TakeChunk, Ordered, Below
  <2>7. QED
    BY <1>4, <2>5, <2>6 DEF TakeChunk, Parts
<1>5. CASE SendSome
  <2>1. PICK n \in 0..Len(chunk) : wire' = wire \o SubSeq(chunk, 1, n) /\ chunk' = Drop(chunk, n)
    BY <1>5 DEF SendSome
  <2> DEFINE a == SubSeq(chunk, 1, n)
  <2>2. /\ Items(chunk) = Items(a) \cup Items(chunk') /\ Items(wire') = Items(wire) \cup Items(a)
        /\ Rising(chunk) => Rising(a) /\ Rising(chunk') /\ Below(Items(a), Items(chunk'))
        /\ Rising(wire) /\ Rising(a) /\ Below(Items(wire), Items(a)) => Rising(wire')
    BY <1>0, <2>1, TakeFacts DEF Buffers
  <2> HIDE DEF a
  <2>3. Rising(a) /\ Rising(chunk') /\ Below(Items(a), Items(chunk')) /\ Below(Items(wire), Items(a))
    BY <2>2 DEF Ordered, Below
  <2>4. Ordered'
    BY <1>5, <2>2, <2>3 DEF SendSome, Ordered, Below
  <2>5. Here' = Here
    BY <1>5, <2>2 DEF SendSome, Here
  <2>6. QED
    BY <1>5, <2>4, <2>5 DEF SendSome, Parts
<1>6. CASE DeliverOne
  <2> DEFINE a == <<Head(wire)>>
  <2>1. wire' \in Seq(Byte) /\ a \in Seq(Byte) /\ wire = a \o wire' /\ recvd' = recvd \o a
    <3>1. wire' = Tail(wire) /\ Head(wire) \in Byte /\ wire' \in Seq(Byte)
      BY <1>0, <1>6, HeadTailProperties DEF DeliverOne, Buffers
    <3>2. a \in Seq(Byte)
      BY <3>1
    <3>3. wire = a \o wire'
      BY <1>0, <1>6, <3>1, HeadTailAppend DEF DeliverOne, Buffers
    <3>4. recvd' = recvd \o a
      BY <1>0, <1>6, <3>1, AppendIsConcat DEF DeliverOne, Buffers
    <3>5. QED
      BY <3>1, <3>2, <3>3, <3>4
  <2> HIDE DEF a
  <2>2. /\ Items(wire) = Items(a) \cup Items(wire')
        /\ Rising(wire) => Rising(a) /\ Rising(wire') /\ Below(Items(a), Items(wire'))
    BY <2>1, Join
  <2>3. /\ Items(recvd') = Items(recvd) \cup Items(a)
        /\ Rising(recvd) /\ Rising(a) /\ Below(Items(recvd), Items(a)) => Rising(recvd')
    BY <1>0, <2>1, Join DEF Buffers
  <2>4. Rising(a) /\ Rising(wire') /\ Below(Items(a), Items(wire')) /\ Below(Items(recvd), Items(a))
    BY <2>2 DEF Ordered, Below
  <2>5. Ordered'
    BY <1>6, <2>2, <2>3, <2>4 DEF DeliverOne, Ordered, Below
  <2>6. Here' = Here
    BY <1>6, <2>2, <2>3 DEF DeliverOne, Here
  <2>7. QED
    BY <1>6, <2>5, <2>6 DEF DeliverOne, Parts
<1>d. /\ Items(wire) \cap (Items(recvd) \cup Items(chunk) \cup Items(ring)) = {}
      /\ Items(chunk) \cap (Items(recvd) \cup Items(ring)) = {}
  <2>1. \A x \in Here : x \in Nat
    BY DEF Parts
  <2>2. QED
    BY <2>1 DEF Ordered, Below, Here
<1>7. CASE LoseWire
  <2>1. Items(wire') = {} /\ Rising(wire')
    BY <1>7, ItemsEmpty DEF LoseWire
  <2>2. Ordered'
    BY <1>7, <2>1 DEF LoseWire, Ordered, Below
  <2>3. QED
    BY <1>7, <1>d, <2>1, <2>2 DEF LoseWire, Parts, Here
<1>8. CASE LoseChunk
  <2>1. /\ Items(chunk') = {} /\ Rising(chunk')
        /\ wire' = wire \/ (Items(wire') = {} /\ Rising(wire'))
    BY <1>8, ItemsEmpty DEF LoseChunk
  <2>2. Ordered'
    BY <1>8, <2>1 DEF LoseChunk, Ordered, Below
  <2>3. Parts'
    <3>1. CASE wire' = wire /\ lost' = lost \cup Items(chunk)
      BY <1>8, <1>d, <2>1, <3>1 DEF LoseChunk, Parts, Here
    <3>2. CASE wire' = <<>> /\ lost' = lost \cup Items(chunk) \cup Items(wire)
      <4>1. Items(wire') = {}
        BY <3>2, ItemsEmpty
      <4>2. QED
        BY <1>8, <1>d, <2>1, <3>2, <4>1 DEF LoseChunk, Parts, Here
    <3>3. QED
      BY <1>8, <3>1, <3>2 DEF LoseChunk
  <2>4. QED
    BY <2>2, <2>3
<1>9. QED
  BY <1>1, <1>2, <1>3, <1>4, <1>5, <1>6, <1>7, <1>8, Kinds

-----------------------------------------------------------------------------
(* What a lost connection costs.                                            *)
LEMMA WireStep == TypeOK /\ WireUp /\ [Next]_vars => WireUp'
<1> SUFFICES ASSUME WireUp, [Next]_vars PROVE WireUp'
  OBVIOUS
<1> USE DEF WireUp
<1>1. CASE (\E len \in 1..MaxLen : esp_audio_pcm_write(len)) \/ Producer
  BY <1>1 DEF esp_audio_pcm_write, Producer, tcp_write_enter, tcp_write_test, tcp_write_push,
     tcp_write_full, esp_audio_pcm_write_return, link
<1>2. CASE TxStep \/ tx_connect \/ tcp_read_error
  BY <1>2 DEF TxStep, tx_loop, tx_ensure_connected, tx_connect_fail, tx_read, tx_send,
     tx_send_fail, tx_connect, tcp_read_error, Publish, CloseByOther, EndConnection, link
<1>3. CASE App \/ Deliver \/ Break \/ Done \/ UNCHANGED vars
  BY <1>3 DEF App, esp_audio_pcm_set_stream_enabled, esp_audio_pcm_open, esp_audio_pcm_close,
     esp_audio_pcm_opened, esp_audio_pcm_closed, tcp_deinit_stop, tcp_deinit_close, Deliver,
     Break, Done,
     Publish, CloseByOther, EndConnection, link, vars
<1>4. QED
  BY <1>1, <1>2, <1>3 DEF Next

LEMMA Debt ==
  ASSUME NEW c \in Nat, NEW d \in Nat, NEW k \in 0..2, NEW l \in 0..2, NEW x \in Nat
  PROVE  /\ d <= c + x /\ l <= k => d + Chunk * l <= c + Chunk * k + x
         /\ d <= c + x /\ l <= k + 1 => d + Chunk * l <= c + Chunk * k + Chunk + x
         /\ d <= c + Chunk /\ l + 1 <= k => d + Chunk * l <= c + Chunk * k
<1>1. Chunk \in Nat /\ Chunk * 0 = 0 /\ Chunk * 1 = Chunk /\ Chunk * 2 = Chunk + Chunk
  BY StreamAssumption
<1>2. k \in {0, 1, 2} /\ l \in {0, 1, 2}
  OBVIOUS
<1>3. QED
  BY <1>1, <1>2

LEMMA ChunkTimes == \A k \in 0..2 : Chunk * k \in Nat
BY StreamAssumption

LEMMA ByteFinite == IsFiniteSet(Byte)
BY StreamAssumption, FS_Interval DEF Byte

LEMMA LostFacts ==
  ASSUME TypeOK
  PROVE  /\ IsFiniteSet(lost) /\ Cardinality(lost) \in Nat
         /\ IsFiniteSet(refused) /\ Cardinality(refused) \in Nat
         /\ \A S : IsFiniteSet(S) => Cardinality(lost \cup S) <= Cardinality(lost) + Cardinality(S)
<1>1. IsFiniteSet(Byte)
  BY ByteFinite
<1>2. IsFiniteSet(lost) /\ IsFiniteSet(refused)
  BY <1>1, FS_Subset DEF TypeOK
<1>3. ASSUME NEW S, IsFiniteSet(S)
      PROVE  Cardinality(lost \cup S) <= Cardinality(lost) + Cardinality(S)
  <2>1. IsFiniteSet(lost \cap S)
    BY <1>2, FS_Subset
  <2>2. Cardinality(lost \cup S) = Cardinality(lost) + Cardinality(S) - Cardinality(lost \cap S)
    BY <1>2, <1>3, FS_Union
  <2>3. QED
    BY <1>2, <1>3, <2>1, <2>2, FS_CardinalityType
<1>4. QED
  BY <1>2, <1>3, FS_CardinalityType

(* A step ends no connection and owes no more, or ends one and owes at most *)
(* a chunk and what a socket holds more.                                    *)
LEMMA OwedStep ==
  ASSUME TypeOK, Settled, WireUp, [Next]_vars
  PROVE  \/ cuts' = cuts /\ Owed' <= Owed
         \/ cuts' = cuts + 1 /\ Owed' <= Owed + Chunk + SndBuf
<1> DEFINE C == Cardinality(lost)
           D == Cardinality(lost')
<1>0. /\ Chunk \in Nat /\ SndBuf \in Nat /\ Credit \in 0..2 /\ Credit' \in 0..2
      /\ C \in Nat /\ D \in Nat /\ cuts \in Nat
  <2>1. TypeOK'
    BY TypeStep
  <2>2. Cardinality(lost') \in Nat
    <3>1. lost' \subseteq Byte
      BY <2>1 DEF TypeOK
    <3>2. IsFiniteSet(lost')
      BY <3>1, ByteFinite, FS_Subset
    <3>3. QED
      BY <3>2, FS_CardinalityType
  <2>3. QED
    BY <2>2, LostFacts, StreamAssumption DEF Credit, TypeOK
<1>w. /\ IsFiniteSet(Items(wire)) /\ Cardinality(Items(wire)) <= SndBuf /\ Cardinality(Items(wire)) \in Nat
      /\ IsFiniteSet(Items(chunk)) /\ Cardinality(Items(chunk)) <= Chunk /\ Cardinality(Items(chunk)) \in Nat
      /\ sock # "up" => Items(wire) = {}
  <2>1. wire \in Seq(Byte) /\ Len(wire) \in Nat /\ chunk \in Seq(Byte) /\ Len(chunk) \in Nat
    BY LenProperties DEF TypeOK
  <2>2. QED
    BY <1>0, <2>1, ItemsFacts, ItemsEmpty, SMTT(60) DEF TypeOK, WireUp
<1>u. \A S : IsFiniteSet(S) => Cardinality(lost \cup S) <= C + Cardinality(S)
  BY LostFacts
<1>q. ASSUME lost' = lost, cuts' = cuts, Credit' <= Credit
      PROVE  cuts' = cuts /\ Owed' <= Owed
  <2>1. D <= C + 0
    BY <1>0, <1>q
  <2>2. D + Chunk * Credit' <= C + Chunk * Credit + 0
    BY <1>0, <2>1, <1>q, Debt
  <2>3. Chunk * Credit \in Nat
    BY <1>0
  <2>4. QED
    BY <1>0, <1>q, <2>2, <2>3 DEF Owed
<1>1. CASE (\E len \in 1..MaxLen : esp_audio_pcm_write(len)) \/ Producer
  <2>1. UNCHANGED <<lost, cuts, tpc, sock, swapped>>
    BY <1>1 DEF esp_audio_pcm_write, Producer, tcp_write_enter, tcp_write_test, tcp_write_push,
       tcp_write_full, esp_audio_pcm_write_return, link, tx
  <2>2. Credit' <= Credit
    BY <1>0, <2>1 DEF Credit
  <2>3. QED
    BY <2>1, <2>2, <1>q
<1>2. CASE tx_loop \/ tx_ensure_connected \/ tx_connect_fail \/ tx_read \/ tx_send
  <2>1. UNCHANGED <<lost, cuts>>
    BY <1>2 DEF tx_loop, tx_ensure_connected, tx_connect_fail, tx_read, tx_send, link
  <2>2. Credit' <= Credit
    BY <1>2 DEF tx_loop, tx_ensure_connected, tx_connect_fail, tx_read, tx_send, link, Credit, TypeOK
  <2>3. QED
    BY <2>1, <2>2, <1>q
<1>3. CASE \/ esp_audio_pcm_set_stream_enabled \/ esp_audio_pcm_opened \/ esp_audio_pcm_closed
           \/ tcp_deinit_stop \/ Deliver \/ Done \/ UNCHANGED vars
  <2>1. UNCHANGED <<lost, cuts, tpc, sock, swapped>>
    BY <1>3 DEF esp_audio_pcm_set_stream_enabled, esp_audio_pcm_opened, esp_audio_pcm_closed,
       tcp_deinit_stop, Deliver,
       Done, vars, link, tx
  <2>2. Credit' <= Credit
    BY <1>0, <2>1 DEF Credit
  <2>3. QED
    BY <2>1, <2>2, <1>q
<1>4. CASE \/ tx_connect \/ tcp_read_error \/ esp_audio_pcm_open \/ esp_audio_pcm_close
           \/ tcp_deinit_close \/ Break
  <2>1. lost' = lost \cup Items(wire) /\ cuts' = (IF sock = "up" THEN cuts + 1 ELSE cuts)
    BY <1>4 DEF tx_connect, tcp_read_error, esp_audio_pcm_open, esp_audio_pcm_close,
       tcp_deinit_close, Break, Publish, CloseByOther, EndConnection
  <2>2. CASE sock = "up"
    <3>1. Credit' <= Credit + 1
      BY <1>4, <2>2 DEF tx_connect, tcp_read_error, esp_audio_pcm_open, esp_audio_pcm_close,
         tcp_deinit_close, Break, Publish, CloseByOther, Credit, tx, TypeOK
    <3>2. D <= C + SndBuf
      BY <1>0, <1>w, <1>u, <2>1
    <3>3. D + Chunk * Credit' <= C + Chunk * Credit + Chunk + SndBuf
      BY <1>0, <3>1, <3>2, Debt
    <3>4. QED
      BY <2>1, <2>2, <3>3 DEF Owed
  <2>3. CASE sock # "up"
    <3>1. Credit' <= Credit
      BY <1>4, <2>3 DEF tx_connect, tcp_read_error, esp_audio_pcm_open, esp_audio_pcm_close,
         tcp_deinit_close, Break, Publish, CloseByOther, Credit, tx, TypeOK
    <3>2. lost' = lost /\ cuts' = cuts
      BY <1>w, <2>1, <2>3
    <3>3. QED
      BY <3>1, <3>2, <1>q
  <2>4. QED
    BY <2>2, <2>3
<1>5. CASE tx_send_fail
  <2>1. CASE sock = "up" /\ cuts' = cuts + 1 /\ lost' = lost \cup Items(chunk) \cup Items(wire) /\ sock' = "none"
    <3>1. Credit' <= Credit
      BY <1>5, <2>1 DEF tx_send_fail, Credit
    <3>2. D <= C + (Chunk + SndBuf)
      <4>1. /\ IsFiniteSet(Items(chunk) \cup Items(wire))
            /\ Cardinality(Items(chunk) \cup Items(wire)) <= Chunk + SndBuf
            /\ Cardinality(Items(chunk) \cup Items(wire)) \in Nat
        <5>1. IsFiniteSet(Items(chunk) \cap Items(wire))
          BY <1>w, FS_Subset
        <5>2. Cardinality(Items(chunk) \cap Items(wire)) \in Nat
          BY <5>1, FS_CardinalityType
        <5>3. /\ IsFiniteSet(Items(chunk) \cup Items(wire))
              /\ Cardinality(Items(chunk) \cup Items(wire))
                   = Cardinality(Items(chunk)) + Cardinality(Items(wire))
                       - Cardinality(Items(chunk) \cap Items(wire))
          BY <1>w, FS_Union
        <5>4. Cardinality(Items(chunk) \cup Items(wire)) \in Nat
          BY <5>3, FS_CardinalityType
        <5>5. QED
          BY <1>0, <1>w, <5>2, <5>3, <5>4
      <4>2. lost' = lost \cup (Items(chunk) \cup Items(wire))
        BY <2>1
      <4>3. QED
        BY <1>0, <1>u, <4>1, <4>2
    <3>3. PICK x \in Nat : x = Chunk + SndBuf
      BY <1>0
    <3>4. D <= C + x
      BY <3>2, <3>3
    <3>5. D + Chunk * Credit' <= C + Chunk * Credit + x
      BY <1>0, <3>1, <3>4, Debt
    <3>6. Chunk * Credit \in Nat /\ Chunk * Credit' \in Nat
      BY <1>0, ChunkTimes
    <3>7. Owed' <= Owed + Chunk + SndBuf
      BY <1>0, <3>3, <3>5, <3>6 DEF Owed
    <3>8. QED
      BY <2>1, <3>7
  <2>2. ASSUME cuts' = cuts, lost' = lost \cup Items(chunk),
               \/ sock # "up" /\ sock' = "none"
               \/ swapped /\ sock' = sock
        PROVE  cuts' = cuts /\ Owed' <= Owed
    <3>1. Credit' + 1 <= Credit
      BY <1>5, <2>2 DEF tx_send_fail, Credit
    <3>2. D <= C + Chunk
      BY <1>0, <1>w, <1>u, <2>2
    <3>3. D + Chunk * Credit' <= C + Chunk * Credit
      BY <1>0, <3>1, <3>2, Debt
    <3>4. QED
      BY <2>2, <3>3 DEF Owed
  <2>3. CASE /\ sock # "up" /\ sock' = "none" /\ cuts' = cuts
             /\ lost' = lost \cup Items(chunk) \cup Items(wire)
    <3>1. lost' = lost \cup Items(chunk)
      BY <1>w, <2>3
    <3>2. QED
      BY <2>2, <2>3, <3>1
  <2>4. QED
    BY <1>5, <2>1, <2>2, <2>3 DEF tx_send_fail
<1>6. QED
  BY <1>1, <1>2, <1>3, <1>4, <1>5 DEF Next, TxStep, App

LEMMA PaidStep ==
  ASSUME TypeOK, Settled, WireUp, Paid, [Next]_vars
  PROVE  Paid'
<1> DEFINE K == Chunk + SndBuf
<1>1. K \in Nat /\ cuts \in Nat /\ cuts * K \in Nat /\ (cuts + 1) * K = cuts * K + K
  BY StreamAssumption DEF TypeOK
<1>2. Owed \in Nat /\ Owed' \in Nat
  <2>1. TypeOK'
    BY TypeStep
  <2>2. Cardinality(lost) \in Nat /\ Cardinality(lost') \in Nat
    <3>1. lost' \subseteq Byte
      BY <2>1 DEF TypeOK
    <3>2. IsFiniteSet(lost')
      BY <3>1, ByteFinite, FS_Subset
    <3>3. QED
      BY <3>2, LostFacts, FS_CardinalityType
  <2>3. Credit \in 0..2 /\ Credit' \in 0..2
    BY DEF Credit
  <2>4. Chunk * Credit \in Nat /\ Chunk * Credit' \in Nat
    BY <2>3, ChunkTimes
  <2>5. QED
    BY <2>2, <2>4 DEF Owed
<1>3. CASE cuts' = cuts /\ Owed' <= Owed
  BY <1>1, <1>2, <1>3 DEF Paid
<1>4. CASE cuts' = cuts + 1 /\ Owed' <= Owed + K
  <2>1. cuts' * K = cuts * K + K
    BY <1>1, <1>4
  <2> HIDE DEF K
  <2>2. Owed <= cuts * K
    BY DEF Paid, K
  <2>3. Owed' <= cuts' * K
    BY <1>1, <1>2, <1>4, <2>1, <2>2
  <2>4. QED
    BY <2>3 DEF Paid, K
<1>5. Owed' <= Owed + Chunk + SndBuf => Owed' <= Owed + K
  BY <1>2, StreamAssumption
<1>6. QED
  BY <1>3, <1>4, <1>5, OwedStep

-----------------------------------------------------------------------------
(* What the drop counter and BLOCK_ON_FULL promise.                         *)
LEMMA DropStep ==
  ASSUME TypeOK, Settled, DropsNoted, NothingDropped, [Next]_vars
  PROVE  DropsNoted' /\ NothingDropped'
<1> DEFINE R == Cardinality(refused)
<1>0. /\ R \in Nat /\ IsFiniteSet(refused) /\ tx_drop_bytes \in Nat
      /\ ptr \in Nat /\ written \in Nat /\ end \in Nat /\ ptr + written <= end
      /\ wpc \in {"idle", "call", "loop", "push", "ret"}
  BY LostFacts, StreamAssumption DEF TypeOK
<1>1. CASE \E len \in 1..MaxLen : esp_audio_pcm_write(len)
  BY <1>0, <1>1 DEF esp_audio_pcm_write, handle, DropsNoted, NothingDropped
<1>2. CASE tcp_write_enter
  BY <1>0, <1>2 DEF tcp_write_enter, tcp_note_drop, Settled, handle, DropsNoted, NothingDropped
<1>3. CASE tcp_write_test
  BY <1>0, <1>3 DEF tcp_write_test, KeepWriting, LeaveTcpWrite, tcp_note_drop, handle, DropsNoted, NothingDropped
<1>4. CASE tcp_write_push
  BY <1>0, <1>4 DEF tcp_write_push, handle, DropsNoted, NothingDropped
<1>5. CASE tcp_write_full
  BY <1>0, <1>5 DEF tcp_write_full, MayTimeOut, LeaveTcpWrite, tcp_note_drop, handle, DropsNoted, NothingDropped
<1>6. CASE esp_audio_pcm_write_return
  <2>1. UNCHANGED <<tx_drop_bytes, block_on_full, tx_run, end>> /\ wpc = "ret" /\ wpc' # "ret"
    BY <1>6 DEF esp_audio_pcm_write_return, handle
  <2>2. CASE refused' = refused
    BY <1>0, <2>1, <2>2 DEF DropsNoted, NothingDropped
  <2>3. CASE refused' = refused \cup ((ptr + written)..(end - 1)) /\ ptr + written < end
    <3> DEFINE I == (ptr + written)..(end - 1)
    <3>1. IsFiniteSet(I) /\ Cardinality(I) = end - ptr - written
      <4>1. ptr + written \in Int /\ end - 1 \in Int
        BY <1>0
      <4>2. IsFiniteSet(I) /\ Cardinality(I) = IF ptr + written > end - 1 THEN 0 ELSE (end - 1) - (ptr + written) + 1
        BY <4>1, FS_Interval
      <4>3. QED
        BY <1>0, <2>3, <4>2
    <3>2. IsFiniteSet(refused \cap I)
      BY <1>0, FS_Subset
    <3>3. /\ Cardinality(refused \cap I) \in Nat
          /\ Cardinality(refused \cup I) = R + Cardinality(I) - Cardinality(refused \cap I)
      BY <1>0, <3>1, <3>2, FS_Union, FS_CardinalityType
    <3> HIDE DEF I
    <3>4. refused' = refused \cup I
      BY <2>3 DEF I
    <3>5. tx_drop_bytes >= R + (end - ptr - written)
      BY <2>1 DEF DropsNoted
    <3>6. Cardinality(refused') <= R + (end - ptr - written)
      BY <1>0, <3>1, <3>3, <3>4
    <3>7. IsFiniteSet(refused') /\ Cardinality(refused') \in Nat
      BY <1>0, <3>1, <3>4, FS_Union, FS_CardinalityType
    <3>8. DropsNoted'
      BY <1>0, <2>1, <3>5, <3>6, <3>7 DEF DropsNoted
    <3>9. ~(block_on_full /\ tx_run)
      BY <1>0, <2>1, <2>3 DEF NothingDropped
    <3>10. QED
      BY <2>1, <3>8, <3>9 DEF NothingDropped
  <2>4. QED
    BY <1>6, <2>2, <2>3 DEF esp_audio_pcm_write_return
<1>7. CASE TxStep \/ tx_connect \/ tcp_read_error \/ App \/ Deliver \/ Break \/ Done \/ UNCHANGED vars
  <2>1. /\ UNCHANGED <<ptr, end, written, wpc, tx_drop_bytes, refused, block_on_full>>
        /\ tx_run' => tx_run
    BY <1>7 DEF TxStep, tx_loop, tx_ensure_connected, tx_connect_fail, tx_read, tx_send,
       tx_send_fail, tx_connect, tcp_read_error, App, esp_audio_pcm_set_stream_enabled,
       esp_audio_pcm_open, esp_audio_pcm_close, esp_audio_pcm_opened, esp_audio_pcm_closed,
       tcp_deinit_stop,
       tcp_deinit_close, Deliver, Break, Done, producer, handle, vars
  <2>2. QED
    BY <2>1 DEF DropsNoted, NothingDropped
<1>8. QED
  BY <1>1, <1>2, <1>3, <1>4, <1>5, <1>6, <1>7 DEF Next, Producer

LEMMA StreamStep == StreamInv /\ [Next]_vars => StreamInv'
<1> SUFFICES ASSUME StreamInv, [Next]_vars PROVE StreamInv'
  OBVIOUS
<1>1. TypeOK /\ Settled /\ WireUp /\ Ordered /\ Parts /\ Paid /\ DropsNoted /\ NothingDropped
  BY DEF StreamInv
<1>2. TypeOK' /\ Settled' /\ WireUp'
  BY <1>1, TypeStep, WireStep
<1>3. Ordered' /\ Parts'
  BY <1>1, OrderStep
<1>4. Paid'
  BY <1>1, PaidStep
<1>5. DropsNoted' /\ NothingDropped'
  BY <1>1, DropStep
<1>6. QED
  BY <1>2, <1>3, <1>4, <1>5 DEF StreamInv

(* The inductive invariant holds in every reachable state.                  *)
LEMMA StreamInvariant == Spec => []StreamInv
<1>1. Init => StreamInv
  BY InitInv
<1>2. StreamInv /\ [Next]_vars => StreamInv'
  BY StreamStep
<1>3. QED
  BY <1>1, <1>2, PTL DEF Spec

-----------------------------------------------------------------------------
(* The bytes in flight, as one sequence.                                    *)
LEMMA InFlightFacts ==
  ASSUME StreamInv
  PROVE  Rising(InFlight) /\ Items(InFlight) = Here
<1> DEFINE a == recvd \o wire
           b == a \o chunk
<1>1. recvd \in Seq(Byte) /\ wire \in Seq(Byte) /\ chunk \in Seq(Byte) /\ ring \in Seq(Byte)
  BY DEF StreamInv, TypeOK
<1>2. Ordered
  BY DEF StreamInv
<1>3. a \in Seq(Byte) /\ Rising(a) /\ Items(a) = Items(recvd) \cup Items(wire)
  BY <1>1, <1>2, Join DEF Ordered, Below
<1> HIDE DEF a
<1>4. b \in Seq(Byte) /\ Rising(b) /\ Items(b) = Items(a) \cup Items(chunk)
  <2>1. Below(Items(a), Items(chunk)) /\ Rising(chunk)
    BY <1>2, <1>3 DEF Ordered, Below
  <2>2. QED
    BY <1>1, <1>3, <2>1, Join
<1> HIDE DEF b
<1>5. Rising(b \o ring) /\ Items(b \o ring) = Items(b) \cup Items(ring)
  <2>1. Below(Items(b), Items(ring)) /\ Rising(ring)
    BY <1>2, <1>3, <1>4 DEF Ordered, Below
  <2>2. QED
    BY <1>1, <1>4, <2>1, Join
<1>6. InFlight = b \o ring
  BY DEF InFlight, a, b
<1>7. QED
  BY <1>3, <1>4, <1>5, <1>6 DEF Here

(* For every size of ring, chunk, socket buffer and write: the ring stays   *)
(* within its capacity, a chunk within TCP_TX_CHUNK, and a write under way  *)
(* never queues more than it was given.                                     *)
THEOREM StreamTypes == Spec => []TypeOK
<1>1. StreamInv => TypeOK
  BY DEF StreamInv
<1>2. QED
  BY <1>1, StreamInvariant, PTL

(* The PC gets the bytes in the order they were written and none twice,     *)
(* through partial queueing and sending, the retry loop of                  *)
(* esp_audio_pcm_write, reconnects and close/open.                          *)
THEOREM StreamOrdered == Spec => []InOrder
<1>1. StreamInv => InOrder
  BY InFlightFacts DEF InOrder, Rising
<1>2. QED
  BY <1>1, StreamInvariant, PTL

(* Every byte that entered a write is in exactly one place, reported as not *)
(* queued, or lost with a connection.                                       *)
THEOREM StreamAccounted == Spec => []Accounted
<1>1. StreamInv => Accounted
  <2> SUFFICES ASSUME StreamInv PROVE Accounted
    OBVIOUS
  <2>1. Items(InFlight) = Here
    BY InFlightFacts
  <2>2. ptr + written - 1 = Entered - 1
    BY StreamAssumption DEF StreamInv, TypeOK, Entered
  <2>3. Parts
    BY DEF StreamInv
  <2>4. /\ Here \cup refused \cup lost = 0..(ptr + written - 1)
        /\ Here \cap refused = {} /\ Here \cap lost = {} /\ refused \cap lost = {}
    BY <2>2, <2>3, Zenon DEF Parts
  <2>5. QED
    BY <2>1, <2>4, Zenon DEF Accounted
<1>2. QED
  BY <1>1, StreamInvariant, PTL

LEMMA LossFromInv == StreamInv => LossBounded
<1> SUFFICES ASSUME StreamInv PROVE LossBounded
  OBVIOUS
<1>1. Credit \in 0..2
  BY DEF Credit
<1>2. Chunk * Credit \in Nat /\ Cardinality(lost) \in Nat /\ Owed <= cuts * (Chunk + SndBuf)
  BY <1>1, ChunkTimes, LostFacts DEF StreamInv, Paid
<1>3. cuts * (Chunk + SndBuf) \in Nat
  BY StreamAssumption DEF StreamInv, TypeOK
<1>4. QED
  BY <1>2, <1>3 DEF Owed, LossBounded

(* A connection that ends costs at most one chunk and what the socket held, *)
(* however closes, reopens and broken connections interleave with a send()  *)
(* under way (tcp_send_chunk does not put the rest of a chunk back).        *)
THEOREM StreamLoss == Spec => []LossBounded
BY LossFromInv, StreamInvariant, PTL

(* The drop counter never understates what write() reports as not queued    *)
(* (tcp_note_drop runs in every tcp_write that leaves bytes behind).        *)
THEOREM StreamCounted == Spec => []DropsCounted
<1>1. StreamInv => DropsCounted
  <2> SUFFICES ASSUME StreamInv PROVE DropsCounted
    OBVIOUS
  <2>1. Cardinality(refused) \in Nat /\ tx_drop_bytes \in Nat /\ (IF wpc = "ret" THEN end - ptr - written ELSE 0) \in Nat
    BY LostFacts, StreamAssumption DEF StreamInv, TypeOK
  <2>2. QED
    BY <2>1 DEF StreamInv, DropsNoted, DropsCounted
<1>2. QED
  BY <1>1, StreamInvariant, PTL

(* With BLOCK_ON_FULL nothing is dropped while the transport runs: a        *)
(* producer leaves tcp_write short only after deinit has begun.             *)
THEOREM StreamBlocks == Spec => []NoProducerDrop
<1>1. StreamInv => NoProducerDrop
  BY DEF StreamInv, NothingDropped, NoProducerDrop
<1>2. QED
  BY <1>1, StreamInvariant, PTL
-----------------------------------------------------------------------------
(* TcpStream implements PcmChannel: the queue is what the socket, the chunk *)
(* and the ring hold, one after the other.                                  *)
Queued == wire \o chunk \o ring

LEMMA QueuedFacts ==
  ASSUME TypeOK
  PROVE  /\ wire \in Seq(Byte) /\ chunk \in Seq(Byte) /\ ring \in Seq(Byte) /\ recvd \in Seq(Byte)
         /\ Len(wire) \in Nat /\ Len(chunk) \in Nat /\ Len(ring) \in Nat
         /\ Len(wire) <= SndBuf /\ Len(chunk) <= Chunk
         /\ Queued \in Seq(Byte) /\ Len(Queued) = Len(wire) + Len(chunk) + Len(ring)
<1>1. /\ wire \in Seq(Byte) /\ chunk \in Seq(Byte) /\ ring \in Seq(Byte) /\ recvd \in Seq(Byte)
      /\ Len(wire) <= SndBuf /\ Len(chunk) <= Chunk
  BY DEF TypeOK
<1>2. wire \o chunk \in Seq(Byte) /\ Len(wire \o chunk) = Len(wire) + Len(chunk)
  BY <1>1, Join
<1>3. Queued \in Seq(Byte) /\ Len(Queued) = Len(wire \o chunk) + Len(ring)
  BY <1>1, <1>2, Join DEF Queued
<1>4. QED
  BY <1>1, <1>2, <1>3, LenProperties

LEMMA Regroup ==
  ASSUME NEW s \in Seq(Byte), NEW t \in Seq(Byte), NEW u \in Seq(Byte)
  PROVE  (s \o t) \o u = s \o (t \o u)
BY ConcatAssociative

(* Cutting what follows place i of q, up to place j, leaves rest and gives  *)
(* the bytes of gone.                                                       *)
IsCut(q, i, j, rest, gone) ==
  /\ i \in 0..Len(q) /\ j \in i..Len(q)
  /\ SubSeq(q, 1, i) \o SubSeq(q, j + 1, Len(q)) = rest
  /\ {q[k] : k \in (i + 1)..j} = Items(gone)

LEMMA CutOut ==
  ASSUME NEW p \in Seq(Byte), NEW s \in Seq(Byte), NEW r \in Seq(Byte),
         NEW q, q = p \o s \o r, NEW i, i = Len(p), NEW j, j = Len(p) + Len(s)
  PROVE  IsCut(q, i, j, p \o r, s)
<1> DEFINE ps == p \o s
<1>1. /\ Len(p) \in Nat /\ Len(s) \in Nat /\ Len(r) \in Nat
      /\ DOMAIN s = 1..Len(s)
      /\ ps \in Seq(Byte) /\ Len(ps) = j
      /\ q \in Seq(Byte) /\ Len(q) = j + Len(r)
  BY LenProperties, Join
<1>2. /\ \A k \in 1..i : q[k] = p[k]
      /\ \A k \in 1..Len(s) : q[i + k] = s[k]
      /\ \A k \in 1..Len(r) : q[j + k] = r[k]
  <2>1. \A k \in 1..j : ps[k] = IF k <= i THEN p[k] ELSE s[k - i]
    BY ConcatProperties
  <2>2. \A k \in 1..(j + Len(r)) : q[k] = IF k <= j THEN ps[k] ELSE r[k - j]
    BY <1>1, ConcatProperties
  <2> HIDE DEF ps
  <2>3. ASSUME NEW k \in 1..i PROVE q[k] = p[k]
    <3>1. k \in 1..j /\ k \in 1..(j + Len(r)) /\ k <= j /\ k <= i
      BY <1>1
    <3>2. QED
      BY <2>1, <2>2, <3>1
  <2>4. ASSUME NEW k \in 1..Len(s) PROVE q[i + k] = s[k]
    <3>1. i + k \in 1..j /\ i + k \in 1..(j + Len(r)) /\ i + k <= j /\ ~(i + k <= i) /\ (i + k) - i = k
      BY <1>1
    <3>2. QED
      BY <2>1, <2>2, <3>1
  <2>5. ASSUME NEW k \in 1..Len(r) PROVE q[j + k] = r[k]
    <3>1. j + k \in 1..(j + Len(r)) /\ ~(j + k <= j) /\ (j + k) - j = k
      BY <1>1
    <3>2. QED
      BY <2>2, <3>1
  <2>6. QED
    BY <2>3, <2>4, <2>5
<1> HIDE DEF ps
<1>3. i \in 0..Len(q) /\ j \in i..Len(q)
  BY <1>1
<1>4. SubSeq(q, 1, i) = p
  <2>1. SubSeq(q, 1, i) \in Seq(Byte) /\ Len(SubSeq(q, 1, i)) = i
    BY <1>1, <1>3, Divide
  <2>2. \A k \in 1..i : SubSeq(q, 1, i)[k] = q[k]
    <3>1. \A k \in 1..i : q[k] \in Byte
      BY <1>1, <1>3, ElementOfSeq
    <3>2. \A k \in 1..(i - 1 + 1) : SubSeq(q, 1, i)[k] = q[1 + k - 1]
      BY <1>1, <3>1, SubSeqProperties
    <3>3. \A k \in 1..i : k \in 1..(i - 1 + 1) /\ 1 + k - 1 = k
      BY <1>1
    <3>4. QED
      BY <3>2, <3>3
  <2>3. QED
    BY <1>1, <1>2, <2>1, <2>2, SeqEqual
<1>5. SubSeq(q, j + 1, Len(q)) = r
  <2> DEFINE t == SubSeq(q, j + 1, Len(q))
  <2>1. t \in Seq(Byte) /\ Len(t) = Len(r)
    <3>1. j \in 0..Len(q)
      BY <1>1
    <3>2. Drop(q, j) \in Seq(Byte) /\ Len(Drop(q, j)) = Len(q) - j
      BY <1>1, <3>1, Divide
    <3>3. QED
      BY <1>1, <3>2 DEF Drop
  <2>2. \A k \in 1..Len(r) : t[k] = q[j + k]
    <3>1. \A k \in (j + 1)..Len(q) : q[k] \in Byte
      BY <1>1, ElementOfSeq
    <3>2. \A k \in 1..(Len(q) - (j + 1) + 1) : t[k] = q[(j + 1) + k - 1]
      BY <1>1, <3>1, SubSeqProperties
    <3>3. \A k \in 1..Len(r) : k \in 1..(Len(q) - (j + 1) + 1) /\ (j + 1) + k - 1 = j + k
      BY <1>1
    <3>4. QED
      BY <3>2, <3>3
  <2> HIDE DEF t
  <2>3. t = r
    BY <1>1, <1>2, <2>1, <2>2, SeqEqual
  <2>4. QED
    BY <2>3 DEF t
<1>6. {q[k] : k \in (i + 1)..j} = Items(s)
  <2>1. Items(s) = {s[k] : k \in 1..Len(s)}
    BY <1>1 DEF Items
  <2>2. ASSUME NEW k \in (i + 1)..j PROVE k - i \in 1..Len(s) /\ q[k] = s[k - i]
    <3>1. k - i \in 1..Len(s) /\ i + (k - i) = k
      BY <1>1
    <3>2. QED
      BY <1>2, <3>1
  <2>3. ASSUME NEW k \in 1..Len(s) PROVE i + k \in (i + 1)..j /\ s[k] = q[i + k]
    BY <1>1, <1>2
  <2>4. {q[k] : k \in (i + 1)..j} \subseteq Items(s)
    BY <2>1, <2>2
  <2>5. Items(s) \subseteq {q[k] : k \in (i + 1)..j}
    BY <2>1, <2>3, ZenonT(60)
  <2>6. QED
    BY <2>4, <2>5
<1>7. QED
  BY <1>3, <1>4, <1>5, <1>6 DEF IsCut

(* What no step but a write's own changes, as PcmChannel sees it.           *)
Aside ==
  UNCHANGED <<block_on_full, tx_run, wpc # "idle", ptr + written, end, recvd, refused>>

LEMMA LoseRefines ==
  ASSUME StreamInv, StreamInv', Aside, cuts' \in {cuts, cuts + 1},
         NEW p \in Seq(Byte), NEW s \in Seq(Byte), NEW r \in Seq(Byte),
         Queued = p \o s \o r, Queued' = p \o r,
         Len(p) + Len(s) <= Chunk + SndBuf, lost' = lost \cup Items(s)
  PROVE  Channel!Next
<1>1. PICK q : q = Queued
  OBVIOUS
<1>2. PICK i, j : i = Len(p) /\ j = Len(p) + Len(s)
  OBVIOUS
<1>3. IsCut(q, i, j, p \o r, s)
  <2>1. q = p \o s \o r
    BY <1>1
  <2>2. QED
    BY <1>2, <2>1, CutOut
<1>a. LossBounded'
  BY LossFromInv, PTL
<1>4. Cardinality(lost') <= cuts' * (Chunk + SndBuf)
  BY <1>a DEF LossBounded
<1>5. Channel!Lose(i, j)
  <2>1. /\ j <= Chunk + SndBuf
        /\ Queued' = SubSeq(Queued, 1, i) \o SubSeq(Queued, j + 1, Len(Queued))
        /\ lost' = lost \cup {Queued[k] : k \in (i + 1)..j}
    BY <1>1, <1>2, <1>3 DEF IsCut
  <2>2. QED
    BY <1>4, <2>1, Zenon DEF Channel!Lose, Queued, Aside, Cardinality, Channel!Cardinality
<1>6. QED
  BY <1>1, <1>3, <1>5 DEF Channel!Next, Queued, IsCut

(* The steps of the producer.                                               *)
LEMMA CallRefines ==
  ASSUME StreamInv, NEW len \in 1..MaxLen, esp_audio_pcm_write(len)
  PROVE  Channel!Next
<1>1. ptr \in Nat /\ end \in Nat /\ ptr = end /\ written = 0
  BY StreamAssumption DEF StreamInv, TypeOK, Settled, esp_audio_pcm_write
<1>2. /\ ~(wpc # "idle") /\ end + len <= MaxBytes
      /\ (wpc # "idle")' = TRUE /\ end' = end + len
  BY DEF esp_audio_pcm_write
<1>3. UNCHANGED (ptr + written)
  BY <1>1 DEF esp_audio_pcm_write
<1>4. UNCHANGED <<block_on_full, tx_run, wire, chunk, ring, recvd, refused, lost, cuts>>
  BY DEF esp_audio_pcm_write, handle, tx, link
<1>5. UNCHANGED Queued
  BY <1>4 DEF Queued
<1>6. Channel!Call(len)
  BY <1>2, <1>3, <1>4, <1>5 DEF Channel!Call, Queued
<1>7. QED
  BY <1>6 DEF Channel!Next

LEMMA PushRefines ==
  ASSUME StreamInv, tcp_write_push
  PROVE  Channel!Next
<1>1. TypeOK /\ ptr + written < end /\ ring_free_locked > 0
  BY DEF StreamInv, Settled, tcp_write_push
<1>2. PICK n : n = Lesser(end - (ptr + written), ring_free_locked)
  OBVIOUS
<1>3. PICK new : new = [i \in 1..n |-> ptr + written + i - 1]
  OBVIOUS
<1>4. /\ n \in Nat /\ Len(ring) + n <= Cap /\ ptr + written + n <= end
      /\ new \in Seq(Byte) /\ Len(new) = n
  BY <1>1, <1>2, <1>3, PushFacts
<1>5. /\ ptr \in Nat /\ written \in Nat /\ end \in Nat
      /\ Cap \in Nat /\ Chunk \in Nat /\ SndBuf \in Nat
  BY <1>1, StreamAssumption DEF TypeOK
<1>6. /\ wire \in Seq(Byte) /\ chunk \in Seq(Byte) /\ ring \in Seq(Byte)
      /\ Len(wire) \in Nat /\ Len(chunk) \in Nat /\ Len(ring) \in Nat
      /\ Len(wire) <= SndBuf /\ Len(chunk) <= Chunk
      /\ Len(Queued) = Len(wire) + Len(chunk) + Len(ring)
  BY <1>1, QueuedFacts
<1>7. n \in 1..(Cap + Chunk + SndBuf) /\ Len(Queued) + n <= Cap + Chunk + SndBuf
  <2>1. n > 0
    BY <1>1, <1>2, <1>5, <1>6 DEF Lesser, ring_free_locked
  <2>2. QED
    BY <1>4, <1>5, <1>6, <2>1
<1>8. ring' = ring \o new /\ written' = written + n
  BY <1>2, <1>3 DEF tcp_write_push
<1>9. UNCHANGED <<wpc # "idle", block_on_full, tx_run, ptr, end, wire, chunk, recvd, refused, lost, cuts>>
  BY DEF tcp_write_push, handle, tx, link
<1>10. Queued' = Queued \o new
  <2>1. PICK front \in Seq(Byte) : front = wire \o chunk
    BY <1>6, Join
  <2>2. front \o (ring \o new) = (front \o ring) \o new
    BY <1>4, <1>6, Regroup
  <2>3. QED
    BY <1>8, <1>9, <2>1, <2>2 DEF Queued
<1>11. (ptr + written)' = ptr + written + n
  BY <1>4, <1>5, <1>8, <1>9
<1>12. wpc # "idle"
  BY DEF tcp_write_push
<1>13. Channel!Put(n)
  BY <1>3, <1>4, <1>7, <1>9, <1>10, <1>11, <1>12, Zenon DEF Channel!Put, Queued
<1>14. QED
  BY <1>7, <1>13 DEF Channel!Next

LEMMA ReturnRefines ==
  ASSUME StreamInv, esp_audio_pcm_write_return
  PROVE  [Channel!Next]_(Channel!chanVars)
<1>1. /\ ptr \in Nat /\ written \in Nat /\ end \in Nat /\ ptr + written <= end
      /\ wpc = "ret" /\ wpc # "idle" /\ written' = 0
  BY StreamAssumption DEF StreamInv, TypeOK, esp_audio_pcm_write_return
<1>2. UNCHANGED <<block_on_full, tx_run, end, wire, chunk, ring, recvd, lost, cuts>>
  BY DEF esp_audio_pcm_write_return, handle, tx, link
<1>3. UNCHANGED Queued
  BY <1>2 DEF Queued
<1>4. ASSUME (wpc # "idle")' = FALSE, ptr' = end,
             refused' = refused \cup ((ptr + written)..(end - 1)),
             block_on_full /\ tx_run => ptr + written = end
      PROVE  Channel!Next
  <2>1. (ptr + written)' = end
    BY <1>1, <1>4
  <2>2. Channel!Return
    BY <1>1, <1>2, <1>3, <1>4, <2>1, Zenon DEF Channel!Return, Queued
  <2>3. QED
    BY <2>2 DEF Channel!Next
<1>5. CASE ptr + written = end /\ ptr' = end /\ wpc' = "idle" /\ refused' = refused
  <2>1. (ptr + written)..(end - 1) = {}
    BY <1>1, <1>5
  <2>2. refused' = refused \cup ((ptr + written)..(end - 1))
    BY <1>5, <2>1
  <2>3. QED
    BY <1>4, <1>5, <2>2
<1>6. CASE ptr' = Resume /\ wpc' = "call" /\ refused' = refused
  <2>1. UNCHANGED (ptr + written) /\ UNCHANGED (wpc # "idle")
    BY <1>1, <1>6 DEF Resume
  <2>2. QED
    BY <1>2, <1>3, <1>6, <2>1 DEF Channel!chanVars, Queued
<1>7. CASE /\ refused' = refused \cup ((ptr + written)..(end - 1))
           /\ ptr' = end /\ wpc' = "idle"
  <2>1. block_on_full /\ tx_run => ptr + written = end
    BY <1>1 DEF StreamInv, NothingDropped
  <2>2. QED
    BY <1>4, <1>7, <2>1
<1>8. QED
  BY <1>5, <1>6, <1>7 DEF esp_audio_pcm_write_return

(* The steps of the transmit task that move bytes from one place of the     *)
(* queue to the next.                                                       *)
LEMMA MoveKeeps ==
  ASSUME StreamInv, TakeChunk \/ SendSome
  PROVE  Queued' = Queued
<1>1. /\ wire \in Seq(Byte) /\ chunk \in Seq(Byte) /\ ring \in Seq(Byte)
  BY DEF StreamInv, TypeOK
<1>2. CASE TakeChunk
  <2>1. PICK n \in 0..Len(ring) : chunk' = SubSeq(ring, 1, n) /\ ring' = Drop(ring, n)
    BY <1>2 DEF TakeChunk
  <2>2. PICK a \in Seq(Byte), b \in Seq(Byte) : a = SubSeq(ring, 1, n) /\ b = Drop(ring, n) /\ ring = a \o b
    BY <1>1, Divide
  <2>3. wire' = wire /\ chunk = <<>>
    BY <1>2 DEF TakeChunk
  <2>4. Queued = wire \o (a \o b)
    BY <1>1, <2>2, <2>3, ConcatEmptySeq DEF Queued
  <2>5. Queued' = (wire \o a) \o b
    BY <2>1, <2>2, <2>3 DEF Queued
  <2>6. QED
    BY <1>1, <2>4, <2>5, Regroup, ZenonT(60)
<1>3. CASE SendSome
  <2>1. PICK n \in 0..Len(chunk) : wire' = wire \o SubSeq(chunk, 1, n) /\ chunk' = Drop(chunk, n)
    BY <1>3 DEF SendSome
  <2>2. PICK a \in Seq(Byte), b \in Seq(Byte) : a = SubSeq(chunk, 1, n) /\ b = Drop(chunk, n) /\ chunk = a \o b
    <3>1. /\ SubSeq(chunk, 1, n) \in Seq(Byte) /\ Drop(chunk, n) \in Seq(Byte)
          /\ chunk = SubSeq(chunk, 1, n) \o Drop(chunk, n)
      BY <1>1, Divide
    <3>2. QED
      BY <3>1
  <2>3. ring' = ring
    BY <1>3 DEF SendSome
  <2>4. Queued = (wire \o (a \o b)) \o ring /\ Queued' = ((wire \o a) \o b) \o ring
    BY <2>1, <2>2, <2>3 DEF Queued
  <2>5. wire \o (a \o b) = (wire \o a) \o b
    BY <1>1, Regroup, SMTT(60)
  <2>6. QED
    BY <2>4, <2>5
<1>4. QED
  BY <1>2, <1>3

(* The steps that end connections.                                          *)
LEMMA LossRefines ==
  ASSUME StreamInv, StreamInv', Aside, cuts' \in {cuts, cuts + 1}, LoseWire \/ LoseChunk
  PROVE  Channel!Next
<1>1. /\ wire \in Seq(Byte) /\ chunk \in Seq(Byte) /\ ring \in Seq(Byte)
      /\ Len(wire) \in Nat /\ Len(chunk) \in Nat
      /\ Len(wire) <= SndBuf /\ Len(chunk) <= Chunk
      /\ Chunk \in Nat /\ SndBuf \in Nat
  BY QueuedFacts, StreamAssumption DEF StreamInv
<1>2. PICK w \in Seq(Byte), c \in Seq(Byte), r \in Seq(Byte) : w = wire /\ c = chunk /\ r = ring
  BY <1>1
<1>3. PICK e \in Seq(Byte) : e = <<>>
  BY EmptySeq
<1>4. /\ \A s \in Seq(Byte) : e \o s = s /\ s \o e = s
      /\ Len(e) = 0
  BY <1>3, ConcatEmptySeq, EmptySeq
<1>5. /\ c \o r \in Seq(Byte) /\ w \o c \in Seq(Byte) /\ Len(w \o c) = Len(w) + Len(c)
      /\ w \o (c \o r) = (w \o c) \o r
  BY Join, Regroup, SMTT(60)
<1>6. Queued = w \o c \o r
  BY <1>2 DEF Queued
<1>7. CASE LoseWire
  <2>1. Queued = e \o w \o (c \o r)
    BY <1>4, <1>5, <1>6
  <2>2. Queued' = e \o (c \o r)
    BY <1>2, <1>3, <1>4, <1>5, <1>7 DEF LoseWire, Queued
  <2>3. lost' = lost \cup Items(w) /\ Len(e) + Len(w) <= Chunk + SndBuf
    BY <1>1, <1>2, <1>4, <1>7 DEF LoseWire
  <2>4. QED
    BY <1>5, <2>1, <2>2, <2>3, LoseRefines
<1>8. CASE LoseChunk /\ wire' = <<>> /\ lost' = lost \cup Items(chunk) \cup Items(wire)
  <2>1. Queued = e \o (w \o c) \o r
    BY <1>4, <1>5, <1>6
  <2>2. Queued' = e \o r
    BY <1>2, <1>3, <1>4, <1>8 DEF LoseChunk, Queued
  <2>3. lost' = lost \cup Items(w \o c) /\ Len(e) + Len(w \o c) <= Chunk + SndBuf
    <3>1. Items(w \o c) = Items(w) \cup Items(c)
      BY Join
    <3>2. QED
      BY <1>1, <1>2, <1>4, <1>5, <1>8, <3>1
  <2>4. QED
    BY <1>5, <2>1, <2>2, <2>3, LoseRefines
<1>9. CASE LoseChunk /\ wire' = wire /\ lost' = lost \cup Items(chunk)
  <2>1. Queued' = w \o r
    BY <1>2, <1>3, <1>4, <1>9 DEF LoseChunk, Queued
  <2>2. lost' = lost \cup Items(c) /\ Len(w) + Len(c) <= Chunk + SndBuf
    BY <1>1, <1>2, <1>9
  <2>3. QED
    BY <1>6, <2>1, <2>2, LoseRefines
<1>10. QED
  BY <1>7, <1>8, <1>9 DEF LoseChunk

(* The PC reads.                                                            *)
LEMMA FirstOfJoin ==
  ASSUME NEW h \in Byte, NEW s \in Seq(Byte), NEW q, q = <<h>> \o s
  PROVE  q # <<>> /\ Head(q) = h /\ Tail(q) = s
<1>1. PICK a \in Seq(Byte) : a = <<h>> /\ Len(a) = 1 /\ a[1] = h
  <2>1. <<h>> \in Seq(Byte) /\ Len(<<h>>) = 1 /\ <<h>>[1] = h
    OBVIOUS
  <2>2. QED
    BY <2>1
<1>2. Len(s) \in Nat
  BY LenProperties
<1>3. q \in Seq(Byte) /\ Len(q) = 1 + Len(s)
  BY <1>1, <1>2, ConcatProperties
<1>4. \A i \in 1..(1 + Len(s)) : q[i] = IF i <= 1 THEN a[i] ELSE s[i - 1]
  BY <1>1, ConcatProperties
<1>5. q[1] = h
  BY <1>1, <1>2, <1>4
<1>6. q # <<>>
  BY <1>2, <1>3, EmptySeq
<1>7. /\ Tail(q) \in Seq(Byte) /\ Len(Tail(q)) = Len(s)
      /\ \A i \in 1..Len(Tail(q)) : Tail(q)[i] = q[i + 1]
  BY <1>2, <1>3, <1>6, HeadTailProperties
<1>8. \A i \in 1..Len(s) : Tail(q)[i] = s[i]
  <2> SUFFICES ASSUME NEW i \in 1..Len(s) PROVE Tail(q)[i] = s[i]
    OBVIOUS
  <2>1. i + 1 \in 1..(1 + Len(s)) /\ ~(i + 1 <= 1) /\ (i + 1) - 1 = i
    BY <1>2
  <2>2. QED
    BY <1>4, <1>7, <2>1
<1>9. Tail(q) = s
  BY <1>7, <1>8, SeqEqual
<1>10. Head(q) = q[1]
  BY <1>3, <1>6
<1>11. QED
  BY <1>5, <1>6, <1>9, <1>10

LEMMA GetRefines ==
  ASSUME StreamInv, Deliver
  PROVE  Channel!Next
<1>1. /\ wire \in Seq(Byte) /\ chunk \in Seq(Byte) /\ ring \in Seq(Byte) /\ wire # <<>>
  BY DEF StreamInv, TypeOK, Deliver
<1>2. PICK h \in Byte, t \in Seq(Byte) : h = Head(wire) /\ t = Tail(wire) /\ wire = <<h>> \o t
  <2>1. Head(wire) \in Byte /\ Tail(wire) \in Seq(Byte)
    BY <1>1, HeadTailProperties
  <2>2. <<Head(wire)>> \in Seq(Byte)
    BY <2>1
  <2>3. wire = <<Head(wire)>> \o Tail(wire)
    BY <1>1, <2>1, HeadTailAppend
  <2>4. QED
    BY <2>1, <2>3
<1>3. PICK a \in Seq(Byte) : a = <<h>>
  <2>1. <<h>> \in Seq(Byte)
    OBVIOUS
  <2>2. QED
    BY <2>1
<1>4. PICK c \in Seq(Byte), r \in Seq(Byte) : c = chunk /\ r = ring
  BY <1>1
<1>5. t \o c \in Seq(Byte) /\ t \o c \o r \in Seq(Byte)
  BY Join
<1>6. Queued = a \o (t \o c \o r)
  <2>1. Queued = ((a \o t) \o c) \o r
    BY <1>2, <1>3, <1>4 DEF Queued
  <2>2. (a \o t) \o c = a \o (t \o c)
    BY Regroup
  <2>3. (a \o (t \o c)) \o r = a \o ((t \o c) \o r)
    BY <1>5, Regroup, ZenonT(60)
  <2>4. QED
    BY <2>1, <2>2, <2>3
<1>7. Queued # <<>> /\ Head(Queued) = h /\ Tail(Queued) = t \o c \o r
  BY <1>3, <1>5, <1>6, FirstOfJoin
<1>8. UNCHANGED <<block_on_full, tx_run, wpc # "idle", ptr + written, end, refused, lost, cuts>>
  BY DEF Deliver, handle, producer
<1>9. recvd' = Append(recvd, Head(Queued)) /\ Queued' = Tail(Queued)
  BY <1>2, <1>4, <1>7 DEF Deliver, tx, Queued
<1>10. Channel!Get
  BY <1>7, <1>8, <1>9, Zenon DEF Channel!Get, Queued
<1>11. QED
  BY <1>10 DEF Channel!Next

LEMMA ChannelStep ==
  ASSUME StreamInv, StreamInv', [Next]_vars
  PROVE  [Channel!Next]_(Channel!chanVars)
<1>a. TypeOK /\ Settled
  BY DEF StreamInv
<1>b. cuts' \in {cuts, cuts + 1}
  BY OwedStep DEF StreamInv
<1>c. ASSUME Aside, Queued' = Queued, UNCHANGED <<lost, cuts>>
      PROVE  UNCHANGED Channel!chanVars
  BY <1>c DEF Aside, Queued, Channel!chanVars
<1>d. ASSUME UNCHANGED <<block_on_full, tx_run, producer, recvd, refused>>
      PROVE  Aside
  BY <1>d DEF producer, Aside
<1>1. CASE \E len \in 1..MaxLen : esp_audio_pcm_write(len)
  BY <1>1, CallRefines
<1>2. CASE tcp_write_enter \/ tcp_write_test \/ tcp_write_full
  <2>1. UNCHANGED <<handle, tx_run, ring, ptr, end, written, chunk, link, refused, lost>>
    BY <1>2 DEF tcp_write_enter, tcp_write_test, tcp_write_full, tx
  <2>2. wpc # "idle" /\ wpc' # "idle"
    BY <1>2 DEF tcp_write_enter, tcp_write_test, tcp_write_full, LeaveTcpWrite
  <2>3. QED
    BY <1>c, <2>1, <2>2 DEF Aside, Queued, handle, link
<1>3. CASE tcp_write_push
  BY <1>3, PushRefines
<1>4. CASE esp_audio_pcm_write_return
  BY <1>4, ReturnRefines
<1>5. CASE tx_loop \/ tx_ensure_connected \/ tx_connect_fail
  BY <1>5, <1>c, <1>d DEF tx_loop, tx_ensure_connected, tx_connect_fail, handle, link, Queued
<1>6. CASE tx_read \/ tx_send
  <2>1. TakeChunk \/ SendSome
    BY <1>6, <1>a, MoveKinds
  <2>2. UNCHANGED <<block_on_full, tx_run, producer, recvd, refused, lost, cuts>>
    BY <1>6 DEF tx_read, tx_send, handle, link
  <2>3. QED
    BY <1>c, <1>d, <2>1, <2>2, MoveKeeps
<1>7. CASE \/ tx_send_fail \/ tx_connect \/ tcp_read_error \/ esp_audio_pcm_open
           \/ esp_audio_pcm_close \/ tcp_deinit_close \/ Break
  <2>1. LoseWire \/ LoseChunk
    BY <1>7, <1>a, LossKinds
  <2>2. UNCHANGED <<block_on_full, tx_run, producer, recvd, refused>>
    BY <1>7 DEF tx_send_fail, tx_connect, tcp_read_error, esp_audio_pcm_open, esp_audio_pcm_close,
       tcp_deinit_close, Break, CloseByOther, Publish, handle
  <2>3. QED
    BY <1>b, <1>d, <2>1, <2>2, LossRefines
<1>8. CASE \/ esp_audio_pcm_set_stream_enabled \/ esp_audio_pcm_opened \/ esp_audio_pcm_closed
           \/ Done \/ UNCHANGED vars
  BY <1>8, <1>c, <1>d DEF esp_audio_pcm_set_stream_enabled, esp_audio_pcm_opened,
     esp_audio_pcm_closed, Done, vars, handle,
     tx, link, Queued
<1>9. CASE tcp_deinit_stop
  <2>1. /\ tx_run' = FALSE
        /\ UNCHANGED <<block_on_full, producer, ring, chunk, wire, recvd, refused, lost, cuts>>
    BY <1>9 DEF tcp_deinit_stop, handle, tx, link
  <2>2. UNCHANGED <<block_on_full, wpc # "idle", ptr + written, end, Queued, recvd, refused, lost, cuts>>
    BY <2>1 DEF producer, Queued
  <2>3. Channel!Stop
    BY <2>1, <2>2 DEF Channel!Stop, Queued
  <2>4. QED
    BY <2>3 DEF Channel!Next
<1>10. CASE Deliver
  BY <1>10, GetRefines
<1>11. QED
  BY <1>1, <1>2, <1>3, <1>4, <1>5, <1>6, <1>7, <1>8, <1>9, <1>10 DEF Next, Producer, TxStep, App

LEMMA ChannelInit == Init => Channel!Init
<1> SUFFICES ASSUME Init PROVE Channel!Init
  OBVIOUS
<1>1. <<>> \o <<>> \o <<>> = <<>>
  BY EmptySeq, ConcatEmptySeq
<1>2. wire \o chunk \o ring = <<>>
  BY <1>1 DEF Init
<1>3. QED
  BY <1>2 DEF Init, Channel!Init

(* For every size of ring, chunk, socket buffer and write, the transport is *)
(* one queue between the caller and the PC: whatever the three tasks, the   *)
(* application and the link do, each step of theirs is a step of PcmChannel *)
(* or changes nothing that the two ends can see.                            *)
THEOREM StreamRefinesChannel == Spec => ChannelSpec
<1>1. Init => Channel!Init
  BY ChannelInit
<1>2. StreamInv /\ StreamInv' /\ [Next]_vars => [Channel!Next]_(Channel!chanVars)
  BY ChannelStep
<1>3. QED
  BY <1>1, <1>2, StreamInvariant, PTL DEF Spec, ChannelSpec, Channel!Spec
=============================================================================
