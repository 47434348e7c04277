-------------------------- MODULE UdpTransportProofs --------------------------
(***************************************************************************)
(* Proofs about UdpTransport for every number of descriptors, retries,     *)
(* writes and commands: its safety invariant UdpInv, and that what a write *)
(* reports is what was handed to lwIP.                                     *)
(***************************************************************************)
EXTENDS UdpTransport, SequenceTheorems, TLAPS

(* UdpInv is not inductive by itself.  The control task has read a          *)
(* descriptor before it waits for the mutex; it is off unless it runs or is *)
(* being stopped; and from the end of the wait for it on, it and the        *)
(* producer are at rest.  Writes are numbered from 1.                       *)
SnapshotTaken == rpc \in {"take", "recv"} => rsnap \in Fd
OffUnlessRunning == ~ctrl_running => rpc = "off" \/ mpc = "stopping"
AtRest ==
  /\ mpc \in {"stopping", "delete_close", "delete_closed", "deinit", "deleted"}
     => wpc = "idle" /\ ~ctrl_running
  /\ sock_mux = "deleted" <=> mpc = "deleted"
Numbered == wpc # "idle" => write # 0
IInv == UdpInv /\ Numbered /\ SnapshotTaken /\ OffUnlessRunning /\ AtRest

(* The number of a write is above those of all datagrams sent, except its   *)
(* own once it has been sent; and ESP_OK is yet to be returned only then.   *)
InWrite == wpc \in {"take", "locked", "sending", "again"}
SentSet == {sent[i] : i \in DOMAIN sent}
SentInv ==
  /\ \A i, j \in DOMAIN sent : i < j => sent[i] < sent[j]
  /\ \A i \in DOMAIN sent : sent[i] <= write /\ (InWrite => sent[i] < write)
  /\ wpc = "ok" => SentSet = returned_ok \cup {write}
  /\ wpc # "ok" => SentSet = returned_ok

USE UdpAssumption DEF UdpAssumption, Fd

-----------------------------------------------------------------------------
LEMMA InitIInv == Init => IInv
<1>1. <<>> \in Seq(1..MaxCmds) /\ <<>> \in Seq(1..MaxWrites)
  BY EmptySeq
<1>2. Init => inbox \in Seq(1..MaxCmds) /\ sent \in Seq(1..MaxWrites)
  BY <1>1 DEF Init
<1>3. Init => openfds \subseteq Fd /\ returned_ok \subseteq 1..MaxWrites
  BY DEF Init
<1>4. Init => retry \in 0..(RetryMax - 1) /\ write \in 0..MaxWrites
  BY DEF Init
<1>5. Init => cmds \in 0..MaxCmds /\ sock \in Fd \cup {-1} /\ rsnap \in Fd \cup {-1}
  BY DEF Init
<1>6. Init => opened \in BOOLEAN /\ ctrl_running \in BOOLEAN /\ known \in BOOLEAN
  BY DEF Init
<1>7. Init => sock_mux = "free" /\ wpc = "idle" /\ rpc = "off" /\ mpc = "idle"
  BY DEF Init
<1>8. Init => TypeOK
  BY <1>2, <1>3, <1>4, <1>5, <1>6, <1>7 DEF TypeOK
<1> QED
  BY <1>8 DEF Init, IInv, UdpInv, Serialized, CallOnOpenSocket, NoSocketLeaks,
              DeletedUnused, Numbered, SnapshotTaken, OffUnlessRunning, AtRest

(* The producer's steps, by the parts of the invariant they can disturb.    *)
LEMMA WriterStep ==
  ASSUME IInv, esp_audio_pcm_write \/ Writer
  PROVE  IInv'
<1> USE DEF IInv, UdpInv, Serialized, CallOnOpenSocket, NoSocketLeaks, DeletedUnused,
        Numbered, SnapshotTaken, OffUnlessRunning, AtRest, handle, ctx, writer, reader, pc
<1>1. CASE esp_audio_pcm_write
  BY <1>1 DEF esp_audio_pcm_write, TypeOK
<1>2. CASE udp_write_take
  BY <1>2 DEF udp_write_take, GiveUp, TypeOK
<1>3. CASE udp_write_locked
  BY <1>3 DEF udp_write_locked, TypeOK
<1>4. CASE udp_write_sent
  <2>1. write \in 1..MaxWrites
    BY <1>4 DEF udp_write_sent, TypeOK
  <2>2. sent' \in Seq(1..MaxWrites)
    BY <1>4, <2>1 DEF udp_write_sent, TypeOK
  <2> QED
    BY <1>4, <2>2 DEF udp_write_sent, AfterSent, TypeOK
<1>5. CASE udp_write_failed
  BY <1>5 DEF udp_write_failed, TypeOK
<1>6. CASE esp_audio_pcm_write_ok
  BY <1>6 DEF esp_audio_pcm_write_ok, TypeOK
<1>7. CASE esp_audio_pcm_write_again
  BY <1>7 DEF esp_audio_pcm_write_again, TypeOK
<1> QED
  BY <1>1, <1>2, <1>3, <1>4, <1>5, <1>6, <1>7 DEF Writer

(* The control task's steps.                                                *)
LEMMA ReaderStep ==
  ASSUME IInv, Reader
  PROVE  IInv'
<1> USE DEF IInv, UdpInv, Serialized, CallOnOpenSocket, NoSocketLeaks, DeletedUnused,
        Numbered, SnapshotTaken, OffUnlessRunning, AtRest, handle, ctx, writer, pc
<1>1. CASE ctrl_loop
  BY <1>1 DEF ctrl_loop, KeepReading, TypeOK
<1>2. CASE udp_get_sock
  BY <1>2 DEF udp_get_sock, TypeOK
<1>3. CASE udp_read_take
  BY <1>3 DEF udp_read_take, TypeOK
<1>4. CASE udp_read_done
  <2>1. inbox' \in Seq(1..MaxCmds)
    BY <1>4, HeadTailProperties DEF udp_read_done, Received, TypeOK
  <2> QED
    BY <1>4, <2>1 DEF udp_read_done, TypeOK
<1> QED
  BY <1>1, <1>2, <1>3, <1>4 DEF Reader

(* The application's steps, those that close or open the socket last: with  *)
(* sock_mux free no call is on it.                                          *)
LEMMA AppStep ==
  ASSUME IInv,
         \/ esp_audio_pcm_open \/ esp_audio_pcm_ctrl_start \/ esp_audio_pcm_close
         \/ delete_ctrl_stop \/ App
  PROVE  IInv'
<1> USE DEF IInv, UdpInv, Serialized, CallOnOpenSocket, NoSocketLeaks, DeletedUnused,
        Numbered, SnapshotTaken, OffUnlessRunning, AtRest, handle, ctx, writer, reader, pc
<1>1. CASE esp_audio_pcm_open \/ esp_audio_pcm_close
  BY <1>1, ZenonT(60) DEF esp_audio_pcm_open, esp_audio_pcm_close, TypeOK
<1>2. CASE esp_audio_pcm_ctrl_start
  BY <1>2, SMTT(60) DEF esp_audio_pcm_ctrl_start, TypeOK
<1>3. CASE delete_ctrl_stop
  BY <1>3 DEF delete_ctrl_stop, TypeOK
<1>3a. CASE delete_stopped
  BY <1>3a DEF delete_stopped, TypeOK
<1>4. CASE udp_resolve_server
  BY <1>4 DEF udp_resolve_server, TypeOK
<1>5. CASE esp_audio_pcm_opened
  BY <1>5 DEF esp_audio_pcm_opened, TypeOK
<1>5a. CASE esp_audio_pcm_closed
  BY <1>5a, ZenonT(60) DEF esp_audio_pcm_closed, TypeOK
<1>6. <<>> \in Seq(1..MaxCmds)
  BY EmptySeq
<1>7. Close = {}
  BY DEF Close, TypeOK
<1>8. CASE udp_open
  <2>1. PICK f \in Fd : sock' = f /\ openfds' = {f}
    BY <1>7, <1>8 DEF udp_open
  <2>2. TypeOK'
    BY <1>6, <1>8, <2>1 DEF udp_open, Forget, TypeOK
  <2> QED
    BY <1>8, <2>1, <2>2 DEF udp_open, TypeOK
<1>9. CASE udp_open_failed
  BY <1>6, <1>7, <1>9 DEF udp_open_failed, Forget, TypeOK
<1>10. CASE udp_close
  BY <1>6, <1>7, <1>10 DEF udp_close, Forget, TypeOK
<1>11. CASE udp_deinit
  BY <1>6, <1>7, <1>11 DEF udp_deinit, Forget, TypeOK
<1> QED
  BY <1>1, <1>2, <1>3, <1>3a, <1>4, <1>5, <1>5a, <1>8, <1>9, <1>10, <1>11 DEF App

LEMMA CommandStep ==
  ASSUME IInv, Command
  PROVE  IInv'
<1>1. inbox' \in Seq(1..MaxCmds)
  <2>1. cmds' \in 1..MaxCmds
    BY DEF Command, IInv, UdpInv, TypeOK
  <2> QED
    BY <2>1 DEF Command, IInv, UdpInv, TypeOK
<1> QED
  BY <1>1 DEF Command, IInv, UdpInv, TypeOK, Serialized, CallOnOpenSocket, NoSocketLeaks,
              DeletedUnused, Numbered, SnapshotTaken, OffUnlessRunning, AtRest,
              handle, ctx, writer, reader

LEMMA StutterStep ==
  ASSUME IInv, UNCHANGED vars
  PROVE  IInv'
  BY DEF IInv, UdpInv, TypeOK, Serialized, CallOnOpenSocket, NoSocketLeaks,
         DeletedUnused, Numbered, SnapshotTaken, OffUnlessRunning, AtRest,
         Fd, vars, handle, ctx, writer, reader, pc

LEMMA NextIInv == IInv /\ [Next]_vars => IInv'
  BY WriterStep, ReaderStep, AppStep, CommandStep, StutterStep DEF Next, Done

LEMMA SpecIInv == Spec => []IInv
  BY InitIInv, NextIInv, PTL DEF Spec

(* However writes, reads, opens, closes and a delete interleave, socket     *)
(* calls exclude each other, are made on the open socket of the handle, no  *)
(* socket is left behind, and nobody is left inside when the mutex goes.    *)
THEOREM UdpSafe == Spec => []UdpInv
<1>1. IInv => UdpInv
  BY DEF IInv
<1> QED
  BY <1>1, SpecIInv, PTL

-----------------------------------------------------------------------------
LEMMA InitSentInv == Init => SentInv
<1> SUFFICES ASSUME Init PROVE SentInv
  OBVIOUS
<1>1. DOMAIN sent = {}
  BY DEF Init
<1> QED
  BY <1>1 DEF Init, SentInv, SentSet

(* A datagram sent gets the number of the write in progress, which is above *)
(* all those sent before.                                                   *)
LEMMA SentStep ==
  ASSUME IInv, SentInv, udp_write_sent
  PROVE  SentInv'
<1>1. /\ sent \in Seq(1..MaxWrites) /\ write \in 1..MaxWrites
      /\ wpc = "sending" /\ wpc' = "ok"
      /\ sent' = Append(sent, write) /\ write' = write /\ returned_ok' = returned_ok
  BY DEF udp_write_sent, AfterSent, IInv, UdpInv, Numbered, TypeOK
<1> DEFINE n == Len(sent)
<1>2. n \in Nat /\ DOMAIN sent = 1..n /\ \A i \in 1..n : sent[i] \in 1..MaxWrites
  BY <1>1, LenProperties, ElementOfSeq
<1>3. /\ DOMAIN sent' = 1..(n + 1)
      /\ sent'[n + 1] = write
      /\ \A i \in 1..n : sent'[i] = sent[i]
  BY <1>1, <1>2, AppendProperties, LenProperties
<1>4. \A i \in 1..n : sent[i] < write
  BY <1>1, <1>2 DEF SentInv, InWrite
<1>5. \A i, j \in DOMAIN sent' : i < j => sent'[i] < sent'[j]
  <2> SUFFICES ASSUME NEW i \in 1..(n + 1), NEW j \in 1..(n + 1), i < j
               PROVE  sent'[i] < sent'[j]
    BY <1>3
  <2>0. i \in 1..n
    BY <1>2
  <2>1. CASE j = n + 1
    BY <1>2, <1>3, <1>4, <2>0, <2>1
  <2>2. CASE j \in 1..n
    <3>1. sent[i] < sent[j]
      BY <1>2, <2>0, <2>2 DEF SentInv
    <3> QED
      BY <1>3, <2>0, <2>2, <3>1
  <2> QED
    BY <1>2, <2>1, <2>2
<1>6. \A i \in DOMAIN sent' : sent'[i] <= write'
  <2> SUFFICES ASSUME NEW i \in 1..(n + 1) PROVE sent'[i] <= write
    BY <1>1, <1>3
  <2>1. CASE i = n + 1
    BY <1>1, <1>3, <2>1
  <2>2. CASE i \in 1..n
    BY <1>1, <1>2, <1>3, <1>4, <2>2
  <2> QED
    BY <1>2, <2>1, <2>2
<1>7. SentSet' = SentSet \cup {write}
  BY <1>2, <1>3 DEF SentSet
<1>8. SentSet = returned_ok
  BY <1>1 DEF SentInv
<1> QED
  BY <1>1, <1>5, <1>6, <1>7, <1>8 DEF SentInv, InWrite

(* The producer's other steps send nothing: a new write has a number above  *)
(* the last one's, and ESP_OK is returned after the datagram was sent.      *)
LEMMA UnsentStep ==
  ASSUME IInv, SentInv, sent' = sent,
         \/ esp_audio_pcm_write
         \/ udp_write_take \/ udp_write_locked \/ udp_write_failed
         \/ esp_audio_pcm_write_ok \/ esp_audio_pcm_write_again
  PROVE  SentInv'
<1>1. /\ write \in Nat /\ sent \in Seq(1..MaxWrites)
  BY DEF IInv, UdpInv, TypeOK
<1>2. \A i \in DOMAIN sent : sent[i] \in Nat
  BY <1>1, ElementOfSeq
<1>3. SentSet' = SentSet
  BY DEF SentSet
<1>4. CASE esp_audio_pcm_write
  <2>1. \A i \in DOMAIN sent : sent[i] < write'
    BY <1>1, <1>2, <1>4 DEF esp_audio_pcm_write, SentInv
  <2> QED
    BY <1>1, <1>2, <1>3, <1>4, <2>1 DEF esp_audio_pcm_write, SentInv, InWrite
<1>5. CASE esp_audio_pcm_write_ok
  BY <1>3, <1>5 DEF esp_audio_pcm_write_ok, SentInv, InWrite
<1>6. CASE udp_write_take \/ udp_write_locked \/ udp_write_failed \/ esp_audio_pcm_write_again
  <2>1. /\ InWrite /\ wpc # "ok" /\ wpc' # "ok"
        /\ write' = write /\ returned_ok' = returned_ok
    BY <1>6 DEF udp_write_take, GiveUp, udp_write_locked, udp_write_failed,
                esp_audio_pcm_write_again, InWrite, writer
  <2> QED
    BY <1>3, <2>1 DEF SentInv
<1> QED
  BY <1>4, <1>5, <1>6

LEMMA OthersStep ==
  ASSUME SentInv, wpc' = wpc, write' = write, sent' = sent, returned_ok' = returned_ok
  PROVE  SentInv'
  BY DEF SentInv, InWrite, SentSet

LEMMA NextSentInv == IInv /\ SentInv /\ [Next]_vars => SentInv'
<1> SUFFICES ASSUME IInv, SentInv, [Next]_vars PROVE SentInv'
  OBVIOUS
<1>1. CASE Reader
  BY <1>1, OthersStep DEF Reader, ctrl_loop, udp_get_sock, udp_read_take, udp_read_done, writer
<1>2. CASE App
  BY <1>2, OthersStep DEF App, udp_resolve_server, udp_open, udp_open_failed,
       esp_audio_pcm_opened, udp_close, esp_audio_pcm_closed, delete_stopped,
       udp_deinit, writer
<1>3. CASE esp_audio_pcm_open \/ esp_audio_pcm_ctrl_start \/ esp_audio_pcm_close
           \/ delete_ctrl_stop \/ Command
  BY <1>3, OthersStep DEF esp_audio_pcm_open, esp_audio_pcm_ctrl_start,
       esp_audio_pcm_close, delete_ctrl_stop, Command, writer
<1>4. CASE UNCHANGED vars
  BY <1>4, OthersStep DEF vars, writer
<1>5. CASE esp_audio_pcm_write \/ Writer
  BY <1>5, SentStep, UnsentStep DEF Writer, esp_audio_pcm_write, udp_write_take,
       udp_write_locked, udp_write_failed, esp_audio_pcm_write_ok, esp_audio_pcm_write_again
<1> QED
  BY <1>1, <1>2, <1>3, <1>4, <1>5 DEF Next, Done

(* esp_audio_pcm_write's result is the truth about its datagram, whatever   *)
(* the retries: sent once and in order, or not at all.                      *)
THEOREM UdpReportsTruly == Spec => []ReportedAsSent
<1>1. Init => IInv /\ SentInv
  BY InitIInv, InitSentInv
<1>2. IInv /\ SentInv /\ [Next]_vars => (IInv /\ SentInv)'
  BY NextIInv, NextSentInv
<1>3. SentInv => ReportedAsSent
  BY DEF SentInv, SentSet, ReportedAsSent
<1> QED
  BY <1>1, <1>2, <1>3, PTL DEF Spec

-----------------------------------------------------------------------------
(* DatagramsSpec.  The PC knows our address only while there is a socket,   *)
(* so a command that arrives has one to arrive at.                          *)
KnownHasSocket == known => sock >= 0

User  == IF wpc = "sending" THEN "writer" ELSE IF rpc = "recv" THEN "reader" ELSE "none"
State == IF wpc = "ok" THEN "sent" ELSE IF wpc = "idle" THEN "idle" ELSE "trying"
Seen  == <<sock, User, State, write, sent, returned_ok, inbox, cmds>>

LEMMA InitKnown == Init => KnownHasSocket
  BY DEF Init, KnownHasSocket

LEMMA NextKnown == IInv /\ KnownHasSocket /\ [Next]_vars => KnownHasSocket'
<1> SUFFICES ASSUME IInv, KnownHasSocket, [Next]_vars PROVE KnownHasSocket'
  OBVIOUS
<1> USE DEF KnownHasSocket, handle, ctx, writer, reader, pc
<1>1. CASE esp_audio_pcm_write \/ Writer
  BY <1>1 DEF Writer, esp_audio_pcm_write, udp_write_take, udp_write_locked, udp_write_sent,
       udp_write_failed, esp_audio_pcm_write_ok, esp_audio_pcm_write_again,
       IInv, UdpInv, CallOnOpenSocket
<1>2. CASE Reader
  BY <1>2 DEF Reader, ctrl_loop, udp_get_sock, udp_read_take, udp_read_done
<1>3. CASE App
  BY <1>3 DEF App, Forget, udp_resolve_server, udp_open, udp_open_failed,
       esp_audio_pcm_opened, udp_close, esp_audio_pcm_closed, delete_stopped, udp_deinit
<1>4. CASE esp_audio_pcm_open \/ esp_audio_pcm_ctrl_start \/ esp_audio_pcm_close
           \/ delete_ctrl_stop \/ Command
  BY <1>4 DEF esp_audio_pcm_open, esp_audio_pcm_ctrl_start, esp_audio_pcm_close,
       delete_ctrl_stop, Command
<1>5. CASE UNCHANGED vars
  BY <1>5 DEF vars
<1> QED
  BY <1>1, <1>2, <1>3, <1>4, <1>5 DEF Next, Done

(* With the mutex in one task's hands only that task is in a socket call.   *)
LEMMA UserFacts ==
  ASSUME IInv
  PROVE  /\ sock_mux = "free" => User = "none"
         /\ wpc \in {"locked", "sending"} => rpc # "recv"
         /\ wpc = "locked" => User = "none"
         /\ rpc = "recv" => User = "reader"
  BY DEF IInv, UdpInv, Serialized, User

(* The producer.                                                            *)
LEMMA WriterRefines ==
  ASSUME IInv, esp_audio_pcm_write \/ Writer
  PROVE  Datagrams!Next \/ UNCHANGED Seen
<1> USE DEF User, State, Seen, handle, ctx, writer, reader, pc
<1>1. CASE esp_audio_pcm_write
  <2>1. Datagrams!Write
    BY <1>1 DEF esp_audio_pcm_write, Datagrams!Write
  <2> QED
    BY <2>1, Zenon DEF Datagrams!Next
<1>2. CASE udp_write_take
  BY <1>2 DEF udp_write_take, GiveUp
<1>3. CASE udp_write_locked
  <2>1. CASE sock >= 0
    <3>1. Datagrams!Enter("writer")
      BY <1>3, <2>1, UserFacts DEF udp_write_locked, Datagrams!Enter, IInv, UdpInv, TypeOK
    <3> QED
      BY <3>1, Zenon DEF Datagrams!Next
  <2>2. CASE ~ (sock >= 0)
    BY <1>3, <2>2 DEF udp_write_locked
  <2> QED
    BY <2>1, <2>2
<1>4. CASE udp_write_sent
  <2>1. Datagrams!Sent
    BY <1>4, UserFacts DEF udp_write_sent, AfterSent, Datagrams!Sent
  <2> QED
    BY <2>1, Zenon DEF Datagrams!Next
<1>5. CASE udp_write_failed
  <2>1. Datagrams!Failed
    BY <1>5, UserFacts DEF udp_write_failed, Datagrams!Failed
  <2> QED
    BY <2>1, Zenon DEF Datagrams!Next
<1>6. CASE esp_audio_pcm_write_ok
  <2>1. Datagrams!ReturnOk
    BY <1>6 DEF esp_audio_pcm_write_ok, Datagrams!ReturnOk
  <2> QED
    BY <2>1, Zenon DEF Datagrams!Next
<1>7. CASE esp_audio_pcm_write_again
  <2>1. CASE retry + 1 < RetryMax
    BY <1>7, <2>1 DEF esp_audio_pcm_write_again
  <2>2. CASE ~ (retry + 1 < RetryMax)
    <3>1. Datagrams!ReturnError
      BY <1>7, <2>2 DEF esp_audio_pcm_write_again, Datagrams!ReturnError
    <3> QED
      BY <3>1, Zenon DEF Datagrams!Next
  <2> QED
    BY <2>1, <2>2
<1> QED
  BY <1>1, <1>2, <1>3, <1>4, <1>5, <1>6, <1>7 DEF Writer

(* The control task.  Its descriptor is checked again under the mutex, so   *)
(* the call it makes is on the socket of the handle.                        *)
LEMMA ReaderRefines ==
  ASSUME IInv, Reader
  PROVE  Datagrams!Next \/ UNCHANGED Seen
<1> USE DEF User, State, Seen, handle, ctx, writer, pc
<1>1. CASE ctrl_loop \/ udp_get_sock
  BY <1>1 DEF ctrl_loop, udp_get_sock
<1>2. CASE udp_read_take
  <2>1. CASE rpc' = "recv"
    <3>1. sock \in Fd /\ sock # -1 /\ User = "none"
      BY <1>2, <2>1, UserFacts DEF udp_read_take, IInv, SnapshotTaken
    <3>2. Datagrams!Enter("reader")
      BY <1>2, <2>1, <3>1 DEF udp_read_take, Datagrams!Enter
    <3> QED
      BY <3>2, Zenon DEF Datagrams!Next
  <2>2. CASE rpc' # "recv"
    BY <1>2, <2>2 DEF udp_read_take
  <2> QED
    BY <2>1, <2>2
<1>3. CASE udp_read_done
  <2>1. wpc # "sending" /\ User = "reader"
    BY <1>3, UserFacts DEF udp_read_done
  <2>2. Datagrams!Received
    BY <1>3, <2>1 DEF udp_read_done, Received, Datagrams!Received
  <2> QED
    BY <2>2, Zenon DEF Datagrams!Next
<1> QED
  BY <1>1, <1>2, <1>3 DEF Reader

(* The application.  Whatever replaces the socket has the mutex.            *)
LEMMA AppRefines ==
  ASSUME IInv,
         \/ esp_audio_pcm_open \/ esp_audio_pcm_ctrl_start \/ esp_audio_pcm_close
         \/ delete_ctrl_stop \/ App
  PROVE  Datagrams!Next \/ UNCHANGED Seen
<1> USE DEF User, State, Seen, handle, ctx, writer, reader, pc
<1>1. CASE \/ esp_audio_pcm_open \/ esp_audio_pcm_close
           \/ delete_ctrl_stop \/ delete_stopped
           \/ udp_resolve_server \/ esp_audio_pcm_opened \/ esp_audio_pcm_closed
  BY <1>1 DEF esp_audio_pcm_open, esp_audio_pcm_close, delete_ctrl_stop, delete_stopped,
              udp_resolve_server, esp_audio_pcm_opened, esp_audio_pcm_closed
<1>2. CASE esp_audio_pcm_ctrl_start
  <2>1. rpc # "recv"
    BY <1>2 DEF esp_audio_pcm_ctrl_start, IInv, OffUnlessRunning
  <2> QED
    BY <1>2, <2>1 DEF esp_audio_pcm_ctrl_start
<1>3. CASE udp_open \/ udp_open_failed \/ udp_close \/ udp_deinit
  <2>1. User = "none"
    BY <1>3, UserFacts DEF udp_open, udp_open_failed, udp_close, udp_deinit
  <2>2. Datagrams!Replace
    BY <1>3, <2>1 DEF udp_open, udp_open_failed, udp_close, udp_deinit, Forget,
                      Datagrams!Replace
  <2> QED
    BY <2>2, Zenon DEF Datagrams!Next
<1> QED
  BY <1>1, <1>2, <1>3 DEF App

LEMMA CommandRefines ==
  ASSUME IInv, KnownHasSocket, Command
  PROVE  Datagrams!Next
<1>1. sock # -1
  BY DEF Command, KnownHasSocket, IInv, UdpInv, TypeOK
<1>2. Datagrams!Arrive
  BY <1>1 DEF Command, Datagrams!Arrive, User, State, handle, ctx, writer, reader
<1> QED
  BY <1>2, Zenon DEF Datagrams!Next

LEMMA DatagramsInit == Init => Datagrams!Init
  BY DEF Init, Datagrams!Init

LEMMA DatagramsStep ==
  IInv /\ KnownHasSocket /\ [Next]_vars => [Datagrams!Next]_(Datagrams!dgramVars)
<1> SUFFICES ASSUME IInv, KnownHasSocket, [Next]_vars
             PROVE  Datagrams!Next \/ UNCHANGED Seen
  BY Zenon DEF Datagrams!dgramVars, Seen, User, State
<1>1. CASE UNCHANGED vars
  BY <1>1 DEF vars, handle, ctx, writer, reader, pc, Seen, User, State
<1> QED
  BY <1>1, WriterRefines, ReaderRefines, AppRefines, CommandRefines DEF Next, Done

(* Three tasks around a mutex implement three users of a socket that has    *)
(* one at a time: a write is one datagram or none and its result is true,   *)
(* commands are read in the order they arrived, and the socket is there and *)
(* the same from the beginning of a call to its end.                        *)
THEOREM UdpRefinesDatagrams == Spec => DatagramsSpec
<1>1. Spec => [](IInv /\ KnownHasSocket)
  <2>1. Init => IInv /\ KnownHasSocket
    BY InitIInv, InitKnown
  <2>2. IInv /\ KnownHasSocket /\ [Next]_vars => (IInv /\ KnownHasSocket)'
    BY NextIInv, NextKnown
  <2> QED
    BY <2>1, <2>2, PTL DEF Spec
<1> QED
  BY <1>1, DatagramsInit, DatagramsStep, PTL DEF Spec, DatagramsSpec, Datagrams!Spec
===============================================================================
