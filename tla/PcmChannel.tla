----------------------------- MODULE PcmChannel -----------------------------
(***************************************************************************)
(* What the TCP transport promises to the two ends of a stream: the        *)
(* application that calls esp_audio_pcm_write and the PC that reads.       *)
(* Between them is one queue.  A call appends its bytes, in order, and     *)
(* tells the caller what it did not append.  The PC gets the oldest byte.  *)
(* When a connection ends, one stretch of the queue may be gone, near its  *)
(* head, and only so many bytes for each connection that ended.            *)
(*                                                                         *)
(* TcpStream, with its ring, chunk, socket, retries and reconnects, is     *)
(* shown to implement this.                                                *)
(***************************************************************************)
EXTENDS Naturals, Sequences, FiniteSets

CONSTANTS
  MaxLen,    \* longest write
  MaxBytes,  \* bytes offered in all
  Room,      \* the most the queue holds
  Window     \* how far from its head the queue may lose bytes, and the most
             \* it loses for one connection

VARIABLES
  blocking,  \* a call waits for room rather than give up
  running,   \* the transport has not been stopped
  calling,   \* a call is in progress
  next, end, \* the first byte of the call not dealt with; the end of its bytes
  queue,     \* bytes on their way, oldest first
  recvd,     \* bytes the PC has read
  refused,   \* bytes that a call said it did not take
  lost,      \* bytes that went with a connection
  cuts       \* connections that ended

chanVars == <<blocking, running, calling, next, end, queue, recvd, refused, lost, cuts>>

Init ==
  /\ blocking \in BOOLEAN
  /\ running = TRUE /\ calling = FALSE
  /\ next = 0 /\ end = 0
  /\ queue = <<>> /\ recvd = <<>>
  /\ refused = {} /\ lost = {} /\ cuts = 0

Call(len) ==
  /\ ~calling /\ end + len <= MaxBytes
  /\ calling' = TRUE
  /\ end' = end + len
  /\ UNCHANGED <<blocking, running, next, queue, recvd, refused, lost, cuts>>

Put(n) ==
  /\ calling /\ next + n <= end /\ Len(queue) + n <= Room
  /\ queue' = queue \o [i \in 1..n |-> next + i - 1]
  /\ next' = next + n
  /\ UNCHANGED <<blocking, running, calling, end, recvd, refused, lost, cuts>>

(* What is left of the call is refused, which a call that waits for room    *)
(* does only when the transport has been stopped.                           *)
Return ==
  /\ calling
  /\ blocking /\ running => next = end
  /\ calling' = FALSE
  /\ refused' = refused \cup (next..(end - 1))
  /\ next' = end
  /\ UNCHANGED <<blocking, running, end, queue, recvd, lost, cuts>>

Get ==
  /\ queue # <<>>
  /\ recvd' = Append(recvd, Head(queue))
  /\ queue' = Tail(queue)
  /\ UNCHANGED <<blocking, running, calling, next, end, refused, lost, cuts>>

(* Bytes i + 1 to j of the queue are gone (none, if i = j), now that a      *)
(* connection ends or has ended.                                            *)
Lose(i, j) ==
  /\ j <= Window
  /\ queue' = SubSeq(queue, 1, i) \o SubSeq(queue, j + 1, Len(queue))
  /\ lost' = lost \cup {queue[k] : k \in (i + 1)..j}
  /\ cuts' \in {cuts, cuts + 1}
  /\ Cardinality(lost') <= cuts' * Window
  /\ UNCHANGED <<blocking, running, calling, next, end, recvd, refused>>

Stop ==
  /\ running' = FALSE
  /\ UNCHANGED <<blocking, calling, next, end, queue, recvd, refused, lost, cuts>>

Next ==
  \/ \E len \in 1..MaxLen : Call(len)
  \/ \E n \in 1..Room : Put(n)
  \/ Return \/ Get \/ Stop
  \/ \E i \in 0..Len(queue) : \E j \in i..Len(queue) : Lose(i, j)

Spec == Init /\ [][Next]_chanVars
=============================================================================
