------------------------------ MODULE TcpStream ------------------------------
(***************************************************************************)
(* The TCP data path of the device, from esp_audio_pcm_write to the PC:    *)
(* the producer task (esp_audio_pcm_write and tcp_write), the transmit     *)
(* task (tcp_tx_task and tcp_send_chunk), the control task and the         *)
(* application task as far as they take the connection away, and the link. *)
(*                                                                         *)
(* Bytes are numbered in the order the application offers them.  The       *)
(* transmit ring is the bounded FIFO that PcmRing is shown to implement.   *)
(* Descriptors are the subject of TcpSocket: here a connection is only     *)
(* absent, up or broken, and a call that began before the connection last  *)
(* changed may take the new one for its own.                               *)
(***************************************************************************)
EXTENDS Naturals, Sequences, FiniteSets

CONSTANTS
  Cap,          \* tx_cap, the ring's capacity
  Chunk,        \* TCP_TX_CHUNK
  SndBuf,       \* what the socket accepts before the PC reads (TCP_SO_SNDBUF)
  RetryMax,     \* ESP_AUDIO_PCM_WRITE_RETRY_MAX
  MaxLen,       \* bound of the model: longest write
  MaxBytes,     \* bound of the model: bytes offered in all
  MaxCuts       \* bound of the model: connections that end before delete

ASSUME StreamAssumption ==
  /\ Cap \in Nat \ {0} /\ Chunk \in Nat \ {0} /\ SndBuf \in Nat \ {0}
  /\ RetryMax \in Nat \ {0}
  /\ MaxLen \in Nat \ {0} /\ MaxBytes \in Nat /\ MaxCuts \in Nat

VARIABLES
  opened, stream_enabled,    \* struct esp_audio_pcm
  block_on_full,             \* CONFIG_ESP_AUDIO_PCM_TCP_BLOCK_ON_FULL of the build
  tx_run, sock, ring, tx_drop_bytes,  \* tcp_ctx_t; sock is "none", "up" or "broken"
  wpc, ptr, end, retry, written,      \* the producer, inside esp_audio_pcm_write
  tpc, chunk, swapped,       \* the transmit task; swapped: another task closed
                             \* the connection its send() is on
  rswapped,                  \* the control task may be in a tcp_read whose
                             \* connection another task has closed, or one
                             \* begun before the handle was closed
  mpc,                       \* the application task that opens and deletes
  wire, recvd, cuts,         \* accepted by send() / read by the PC / connections ended
  refused, lost              \* bytes write() reported as not queued / lost with a connection

handle   == <<opened, stream_enabled, block_on_full>>
producer == <<wpc, ptr, end, retry, written>>
tx       == <<tpc, chunk, swapped>>
link     == <<sock, rswapped, wire, recvd, cuts>>
vars == <<handle, tx_run, ring, tx_drop_bytes, producer, tx, mpc, link, refused, lost>>

Byte == 0..(MaxBytes - 1)
Lesser(a, b) == IF a < b THEN a ELSE b
Items(s) == {s[i] : i \in DOMAIN s}
Drop(s, n) == SubSeq(s, n + 1, Len(s))

(* State after esp_audio_pcm_new: the transmit task runs, nothing is open.  *)
Init ==
  /\ opened = FALSE /\ stream_enabled = TRUE
  /\ block_on_full \in BOOLEAN
  /\ tx_run = TRUE /\ sock = "none" /\ ring = <<>> /\ tx_drop_bytes = 0
  /\ wpc = "idle" /\ ptr = 0 /\ end = 0 /\ retry = 0 /\ written = 0
  /\ tpc = "loop" /\ chunk = <<>> /\ swapped = FALSE /\ rswapped = FALSE
  /\ mpc = "up"
  /\ wire = <<>> /\ recvd = <<>> /\ cuts = 0
  /\ refused = {} /\ lost = {}

-----------------------------------------------------------------------------
(* The producer.  A call made while the handle is closed or the stream is   *)
(* disabled returns ESP_OK and changes nothing.                             *)
esp_audio_pcm_write(len) ==
  /\ wpc = "idle"
  /\ opened /\ stream_enabled
  /\ end + len <= MaxBytes
  /\ ptr' = end /\ end' = end + len /\ retry' = 0 /\ written' = 0
  /\ wpc' = "call"
  /\ UNCHANGED <<handle, tx_run, ring, tx_drop_bytes, tx, mpc, link, refused, lost>>

tcp_note_drop(bytes) == tx_drop_bytes' = tx_drop_bytes + bytes

(* tcp_write, entry: a stopped transport drops the whole request.           *)
tcp_write_enter ==
  /\ wpc = "call"
  /\ IF tx_run
     THEN wpc' = "loop" /\ UNCHANGED tx_drop_bytes
     ELSE wpc' = "ret" /\ tcp_note_drop(end - ptr)
  /\ UNCHANGED <<handle, tx_run, ring, ptr, end, retry, written, tx, mpc, link, refused, lost>>

(* The way out of tcp_write: tcp_note_drop counts what was not queued.      *)
LeaveTcpWrite_ErrorFirst ==
  /\ wpc' = "ret"
  /\ tcp_note_drop(IF written = 0 THEN 0 ELSE end - ptr - written)
LeaveTcpWrite ==
  /\ wpc' = "ret"
  /\ tcp_note_drop(end - ptr - written)

(* The loop of tcp_write.                                                   *)
KeepWriting_IgnoreStop == ptr + written < end
KeepWriting == ptr + written < end /\ tx_run

tcp_write_test ==
  /\ wpc = "loop"
  /\ IF KeepWriting
     THEN wpc' = "push" /\ UNCHANGED tx_drop_bytes
     ELSE LeaveTcpWrite
  /\ UNCHANGED <<handle, tx_run, ring, ptr, end, retry, written, tx, mpc, link, refused, lost>>

(* ring_write_locked finds room.                                            *)
ring_free_OffByOne == Cap + 1 - Len(ring)
ring_free_locked == Cap - Len(ring)

tcp_write_push ==
  /\ wpc = "push" /\ ring_free_locked > 0
  /\ LET from == ptr + written
         n    == Lesser(end - from, ring_free_locked)
     IN  /\ ring' = ring \o [i \in 1..n |-> from + i - 1]
         /\ written' = written + n
  /\ wpc' = "loop"
  /\ UNCHANGED <<handle, tx_run, tx_drop_bytes, ptr, end, retry, tx, mpc, link, refused, lost>>

(* The ring is full: without BLOCK_ON_FULL the call's time may be over.       *)
MayTimeOut_Always == TRUE
MayTimeOut == ~block_on_full
tcp_write_full ==
  /\ wpc = "push" /\ ring_free_locked = 0
  /\ \/ wpc' = "loop" /\ UNCHANGED tx_drop_bytes
     \/ MayTimeOut /\ LeaveTcpWrite
  /\ UNCHANGED <<handle, tx_run, ring, ptr, end, retry, written, tx, mpc, link, refused, lost>>

(* Back in esp_audio_pcm_write: advance past what was queued, try again up  *)
(* to RetryMax times (errno is ENOMEM on every short return of tcp_write).  *)
Resume_Again == ptr
Resume == ptr + written

esp_audio_pcm_write_return ==
  /\ wpc = "ret"
  /\ \/ /\ ptr + written = end
        /\ ptr' = end
        /\ wpc' = "idle"
        /\ UNCHANGED <<retry, refused>>
     \/ /\ ptr + written < end /\ retry + 1 < RetryMax
        /\ ptr' = Resume
        /\ retry' = retry + 1
        /\ wpc' = "call"
        /\ UNCHANGED refused
     \/ /\ ptr + written < end /\ retry + 1 = RetryMax
        /\ refused' = refused \cup ((ptr + written)..(end - 1))
        /\ ptr' = end
        /\ wpc' = "idle"
        /\ UNCHANGED retry
  /\ written' = 0
  /\ UNCHANGED <<handle, tx_run, ring, tx_drop_bytes, end, tx, mpc, link, lost>>

Producer ==
  \/ tcp_write_enter \/ tcp_write_test
  \/ tcp_write_push \/ tcp_write_full
  \/ esp_audio_pcm_write_return

-----------------------------------------------------------------------------
(* Ending a connection: what the PC has not read is gone.  A cut is counted *)
(* when a working connection ends.                                          *)
EndConnection ==
  /\ wire' = <<>>
  /\ lost' = lost \cup Items(wire)
  /\ cuts' = IF sock = "up" THEN cuts + 1 ELSE cuts

(* The installed connection is taken away from under the control task.      *)
SwapReader == rswapped' = (rswapped \/ (opened /\ sock # "none"))

(* tcp_close_socket_locked called by a task other than the transmit task.   *)
CloseByOther ==
  /\ sock' = "none"
  /\ swapped' = (tpc = "send")
  /\ EndConnection
  /\ UNCHANGED recvd

(* The tail of tcp_connect: close what is installed, install the new one.   *)
Publish ==
  /\ sock' = "up"
  /\ SwapReader
  /\ EndConnection
  /\ UNCHANGED recvd

(* The transmit task, head of either loop; the wait at line 346 ends at     *)
(* 50 ms at the latest, so it never keeps the task from going on.           *)
tx_loop_Forever ==
  /\ tpc = "loop"
  /\ tpc' = "conn"
  /\ UNCHANGED <<handle, tx_run, ring, tx_drop_bytes, producer, chunk, swapped, mpc, link, refused, lost>>
tx_loop ==
  /\ tpc = "loop"
  /\ tpc' = IF tx_run THEN "conn" ELSE "done"
  /\ UNCHANGED <<handle, tx_run, ring, tx_drop_bytes, producer, chunk, swapped, mpc, link, refused, lost>>

(* tcp_ensure_connected                                                     *)
tx_ensure_connected_NoRedial ==
  /\ tpc = "conn"
  /\ tpc' = IF sock # "none" THEN "read" ELSE "loop"
  /\ UNCHANGED <<handle, tx_run, ring, tx_drop_bytes, producer, chunk, swapped, mpc, link, refused, lost>>
tx_ensure_connected ==
  /\ tpc = "conn"
  /\ tpc' = IF sock # "none" THEN "read" ELSE "dial"
  /\ UNCHANGED <<handle, tx_run, ring, tx_drop_bytes, producer, chunk, swapped, mpc, link, refused, lost>>

tx_connect_FlushRing ==
  /\ tpc = "dial"
  /\ Publish
  /\ tpc' = "read"
  /\ ring' = <<>>
  /\ UNCHANGED <<handle, tx_run, tx_drop_bytes, producer, chunk, swapped, mpc, refused>>
tx_connect ==
  /\ tpc = "dial"
  /\ Publish
  /\ tpc' = "read"
  /\ UNCHANGED <<handle, tx_run, ring, tx_drop_bytes, producer, chunk, swapped, mpc, refused>>

tx_connect_fail ==
  /\ tpc = "dial"
  /\ tpc' = "loop"
  /\ UNCHANGED <<handle, tx_run, ring, tx_drop_bytes, producer, chunk, swapped, mpc, link, refused, lost>>

(* ring_read_locked into tx_chunk                                           *)
tx_read ==
  /\ tpc = "read"
  /\ LET n == Lesser(Chunk, Len(ring)) IN
       /\ chunk' = SubSeq(ring, 1, n)
       /\ ring' = Drop(ring, n)
       /\ tpc' = IF n = 0 THEN "loop" ELSE "send"
  /\ swapped' = FALSE
  /\ UNCHANGED <<handle, tx_run, tx_drop_bytes, producer, mpc, link, refused, lost>>

(* send() takes part of the chunk.  With no room it says EAGAIN and the     *)
(* loop goes round unchanged, whatever tx_run has become.                   *)
tx_send_NoRest ==
  /\ tpc = "send" /\ sock = "up"
  /\ \E n \in 1..Lesser(Len(chunk), SndBuf - Len(wire)) :
       /\ wire' = wire \o SubSeq(chunk, 1, n)
       /\ lost' = lost \cup Items(Drop(chunk, n))
  /\ chunk' = <<>>
  /\ tpc' = "loop"
  /\ UNCHANGED <<handle, tx_run, ring, tx_drop_bytes, producer, swapped, mpc, sock, rswapped, recvd, cuts, refused>>
tx_send ==
  /\ tpc = "send" /\ sock = "up"
  /\ \E n \in 1..Lesser(Len(chunk), SndBuf - Len(wire)) :
       /\ wire' = wire \o SubSeq(chunk, 1, n)
       /\ chunk' = Drop(chunk, n)
       /\ tpc' = IF n = Len(chunk) THEN "loop" ELSE "send"
  /\ UNCHANGED <<handle, tx_run, ring, tx_drop_bytes, producer, swapped, mpc, sock, rswapped, recvd, cuts, refused, lost>>

(* send() fails: the connection broke, or another task closed it.  The rest *)
(* of the chunk is not put back.  tcp_close_if then closes the installed    *)
(* connection if it has the same descriptor number; after another task has  *)
(* swapped it that may or may not be so.                                    *)
tx_send_fail ==
  /\ tpc = "send" /\ (sock # "up" \/ swapped)
  /\ \/ /\ sock' = "none" /\ wire' = <<>>
        /\ SwapReader
        /\ cuts' = IF sock = "up" THEN cuts + 1 ELSE cuts
        /\ lost' = lost \cup Items(chunk) \cup Items(wire)
     \/ /\ swapped
        /\ UNCHANGED <<sock, rswapped, wire, cuts>>
        /\ lost' = lost \cup Items(chunk)
  /\ chunk' = <<>>
  /\ tpc' = "loop"
  /\ UNCHANGED <<handle, tx_run, ring, tx_drop_bytes, producer, swapped, mpc, recvd, refused>>

TxStep ==
  \/ tx_loop \/ tx_ensure_connected \/ tx_connect_fail
  \/ tx_read \/ tx_send \/ tx_send_fail

-----------------------------------------------------------------------------
(* The control task's tcp_read finds its connection dead.  tcp_close_if     *)
(* closes the installed one if it has the same descriptor number, which     *)
(* after a swap a new one may have, working or not.  In delete the control  *)
(* task has ended.                                                          *)
tcp_read_error ==
  /\ mpc \in {"up", "opening", "closing"}
  /\ \/ opened /\ sock = "broken"
     \/ rswapped /\ sock # "none"
  /\ sock = "up" => cuts < MaxCuts
  /\ CloseByOther
  /\ rswapped' = FALSE
  /\ UNCHANGED <<handle, tx_run, ring, tx_drop_bytes, producer, tpc, chunk, mpc, refused>>

(* stream on/off, from a control callback                                   *)
esp_audio_pcm_set_stream_enabled ==
  /\ mpc = "up"
  /\ stream_enabled' = ~stream_enabled
  /\ UNCHANGED <<opened, block_on_full, tx_run, ring, tx_drop_bytes, producer, tx, mpc, link, refused, lost>>

(* esp_audio_pcm_open when the connect succeeds; when it fails nothing is   *)
(* changed.  A connection the transmit task made meanwhile is replaced.     *)
(* When tcp_open has returned, opened = true.                               *)
esp_audio_pcm_open ==
  /\ mpc = "up" /\ ~opened
  /\ sock = "up" => cuts < MaxCuts
  /\ Publish
  /\ swapped' = (tpc = "send")
  /\ mpc' = "opening"
  /\ UNCHANGED <<handle, tx_run, ring, tx_drop_bytes, producer, tpc, chunk, refused>>

esp_audio_pcm_opened ==
  /\ mpc = "opening"
  /\ opened' = TRUE
  /\ mpc' = "up"
  /\ UNCHANGED <<stream_enabled, block_on_full, tx_run, ring, tx_drop_bytes, producer, tx, link, refused, lost>>

(* esp_audio_pcm_close: tcp_close, then opened = false.                     *)
esp_audio_pcm_close ==
  /\ mpc = "up" /\ opened
  /\ sock = "up" => cuts < MaxCuts
  /\ CloseByOther
  /\ rswapped' = TRUE
  /\ mpc' = "closing"
  /\ UNCHANGED <<handle, tx_run, ring, tx_drop_bytes, producer, tpc, chunk, refused>>

esp_audio_pcm_closed ==
  /\ mpc = "closing"
  /\ opened' = FALSE
  /\ rswapped' = TRUE
  /\ mpc' = "up"
  /\ UNCHANGED <<stream_enabled, block_on_full, tx_run, ring, tx_drop_bytes, producer, tx>>
  /\ UNCHANGED <<sock, wire, recvd, cuts, refused, lost>>

(* esp_audio_pcm_delete of a handle that is closed (an open one is closed   *)
(* first, by the two steps above): tcp_deinit clears tx_run, then closes.   *)
tcp_deinit_stop ==
  /\ mpc = "up" /\ ~opened
  /\ tx_run' = FALSE
  /\ mpc' = "deinit"
  /\ UNCHANGED <<handle, ring, tx_drop_bytes, producer, tx, link, refused, lost>>

tcp_deinit_close ==
  /\ mpc = "deinit"
  /\ CloseByOther
  /\ mpc' = "deleted"
  /\ UNCHANGED <<handle, rswapped, tx_run, ring, tx_drop_bytes, producer, tpc, chunk, refused>>

(* The PC reads a byte; the connection breaks.                              *)
Deliver ==
  /\ sock = "up" /\ wire # <<>>
  /\ recvd' = Append(recvd, Head(wire))
  /\ wire' = Tail(wire)
  /\ UNCHANGED <<handle, tx_run, ring, tx_drop_bytes, producer, tx, mpc, sock, rswapped, cuts, refused, lost>>

Break ==
  /\ sock = "up" /\ cuts < MaxCuts
  /\ sock' = "broken"
  /\ EndConnection
  /\ UNCHANGED <<handle, tx_run, ring, tx_drop_bytes, producer, tx, mpc, rswapped, recvd, refused>>

(* Everything has come to rest after delete.                                *)
Done ==
  /\ mpc = "deleted" /\ wpc = "idle" /\ tpc = "done"
  /\ UNCHANGED vars

App ==
  \/ esp_audio_pcm_set_stream_enabled
  \/ esp_audio_pcm_open \/ esp_audio_pcm_opened
  \/ esp_audio_pcm_close \/ esp_audio_pcm_closed
  \/ tcp_deinit_stop \/ tcp_deinit_close

Next ==
  \/ \E len \in 1..MaxLen : esp_audio_pcm_write(len)
  \/ Producer
  \/ TxStep \/ tx_connect
  \/ tcp_read_error
  \/ App
  \/ Deliver \/ Break
  \/ Done

(* Tasks are scheduled; a delete, once begun, goes on; the PC reads what    *)
(* arrives; and a server that is dialled again and again answers at last.   *)
Fairness ==
  /\ WF_vars(Producer)
  /\ WF_vars(TxStep)
  /\ WF_vars(tcp_deinit_close)
  /\ WF_vars(Deliver)
  /\ SF_vars(tx_connect)

Spec == Init /\ [][Next]_vars /\ Fairness

-----------------------------------------------------------------------------
TypeOK ==
  /\ opened \in BOOLEAN /\ stream_enabled \in BOOLEAN /\ block_on_full \in BOOLEAN
  /\ tx_run \in BOOLEAN
  /\ sock \in {"none", "up", "broken"}
  /\ wpc \in {"idle", "call", "loop", "push", "ret"}
  /\ tpc \in {"loop", "conn", "dial", "read", "send", "done"}
  /\ mpc \in {"up", "opening", "closing", "deinit", "deleted"}
  /\ swapped \in BOOLEAN /\ rswapped \in BOOLEAN
  /\ ring \in Seq(Byte) /\ Len(ring) <= Cap
  /\ chunk \in Seq(Byte) /\ Len(chunk) <= Chunk
  /\ wire \in Seq(Byte) /\ Len(wire) <= SndBuf
  /\ recvd \in Seq(Byte)
  /\ ptr \in 0..MaxBytes /\ end \in 0..MaxBytes /\ written \in Nat
  /\ ptr + written <= end
  /\ retry \in 0..(RetryMax - 1)
  /\ tx_drop_bytes \in Nat /\ cuts \in Nat
  /\ refused \subseteq Byte /\ lost \subseteq Byte

InFlight == recvd \o wire \o chunk \o ring

(* The PC gets the bytes in the order the application wrote them and none   *)
(* of them twice, through partial queueing, retries (CHANGELOG v0.2.4),     *)
(* partial sends, reconnects and close/open cycles.                         *)
InOrder == \A i, j \in DOMAIN InFlight : i < j => InFlight[i] < InFlight[j]

(* Every byte that entered a call so far is in the ring, in the chunk being *)
(* sent, in the socket, at the PC, was reported to the caller as not        *)
(* queued, or was lost with a connection; no byte is in two of these.       *)
Accounted ==
  /\ Items(InFlight) \cup refused \cup lost = 0..(ptr + written - 1)
  /\ Items(InFlight) \cap refused = {}
  /\ Items(InFlight) \cap lost = {}
  /\ refused \cap lost = {}

(* A connection that ends costs at most the chunk being sent and what its   *)
(* socket held: the ring survives every reconnect.                          *)
LossBounded == Cardinality(lost) <= cuts * (Chunk + SndBuf)

(* With BLOCK_ON_FULL the producer never drops while the transport runs.    *)
NoProducerDrop == block_on_full /\ tx_run => refused = {} /\ tx_drop_bytes = 0

(* The drop counter never understates what write() failed to queue.         *)
DropsCounted == tx_drop_bytes >= Cardinality(refused)

(* All of this at once, as one queue between the caller and the PC.         *)
Channel == INSTANCE PcmChannel WITH
  Room <- Cap + Chunk + SndBuf, Window <- Chunk + SndBuf,
  blocking <- block_on_full, running <- tx_run,
  calling <- wpc # "idle", next <- ptr + written,
  queue <- wire \o chunk \o ring
ChannelSpec == Channel!Spec

(* A write always returns: BLOCK_ON_FULL waits only for the ring to drain,  *)
(* and a delete under way releases the waiting producer.                    *)
WriteReturns == wpc # "idle" ~> wpc = "idle"

(* A queued byte reaches the PC unless a connection takes it away or the    *)
(* handle is deleted.                                                       *)
Delivered ==
  \A b \in Byte : b \in Items(ring) ~> b \in Items(recvd) \/ b \in lost \/ ~tx_run

(* Once deinit clears tx_run the transmit task ends, whatever it was doing. *)
TxTaskEnds == ~tx_run ~> tpc = "done"
=============================================================================
