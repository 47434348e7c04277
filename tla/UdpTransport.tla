----------------------------- MODULE UdpTransport -----------------------------
(***************************************************************************)
(* src/esp_audio_pcm_udp.c and its callers.  The producer sends, the       *)
(* control task receives and the application opens, closes and deletes;    *)
(* all of them use ctx->sock with sock_mux held, the control task through  *)
(* the whole timeout of its recvfrom.  Producer and control task wait at   *)
(* most 200 ms for sock_mux, the others for ever.                          *)
(*                                                                         *)
(* A write is one datagram; writes are numbered.  server_addr_set is true  *)
(* whenever the handle is open, so it is left out.                         *)
(***************************************************************************)
EXTENDS Naturals, Integers, Sequences, FiniteSets

CONSTANTS
  NFd,        \* descriptors lwIP has
  RetryMax,   \* ESP_AUDIO_PCM_WRITE_RETRY_MAX
  MaxWrites,  \* bound of the model: calls of esp_audio_pcm_write
  MaxCmds     \* bound of the model: datagrams the PC sends

ASSUME UdpAssumption ==
  /\ NFd \in Nat \ {0} /\ RetryMax \in Nat \ {0}
  /\ MaxWrites \in Nat /\ MaxCmds \in Nat

VARIABLES
  opened, ctrl_running,    \* struct esp_audio_pcm
  sock, sock_mux,          \* ctx->sock; "free" or the task that holds the mutex
  openfds,                 \* lwIP: the sockets that exist
  wpc, write, retry,       \* the producer: place, number of its write, tries made
  rpc, rsnap,              \* the control task: place, its copy of ctx->sock
  mpc,                     \* the application task
  inbox, cmds, known,      \* datagrams received and not read; sent by the PC; the
                           \* PC has our socket's address
  sent, returned_ok        \* datagrams handed to lwIP; writes that returned ESP_OK

handle == <<opened, ctrl_running>>
ctx    == <<sock, sock_mux, openfds>>
writer == <<wpc, write, retry>>
reader == <<rpc, rsnap>>
pc     == <<inbox, cmds, known>>
vars == <<handle, ctx, writer, reader, mpc, pc, sent, returned_ok>>

Fd == 0..(NFd - 1)

Init ==
  /\ opened = FALSE /\ ctrl_running = FALSE
  /\ sock = -1 /\ sock_mux = "free" /\ openfds = {}
  /\ wpc = "idle" /\ write = 0 /\ retry = 0
  /\ rpc = "off" /\ rsnap = -1
  /\ mpc = "idle"
  /\ inbox = <<>> /\ cmds = 0 /\ known = FALSE
  /\ sent = <<>> /\ returned_ok = {}

-----------------------------------------------------------------------------
(* The producer.  It is at rest before the application deletes the handle.  *)
esp_audio_pcm_write ==
  /\ wpc = "idle" /\ opened /\ mpc \in {"idle", "closing", "closed"}
  /\ write < MaxWrites
  /\ write' = write + 1 /\ retry' = 0
  /\ wpc' = "take"
  /\ UNCHANGED <<handle, ctx, reader, mpc, pc, sent, returned_ok>>

(* udp_write takes the mutex, or gives up with EAGAIN while it is held.     *)
GiveUp_SendAnyway == "locked"
GiveUp_WaitOn == "take"
GiveUp == "again"
udp_write_take ==
  /\ wpc = "take"
  /\ \/ sock_mux = "free" /\ sock_mux' = "writer" /\ wpc' = "locked"
     \/ sock_mux # "free" /\ wpc' = GiveUp /\ UNCHANGED sock_mux
  /\ UNCHANGED <<handle, sock, openfds, write, retry, reader, mpc, pc, sent, returned_ok>>

(* With no socket udp_write returns -1 and leaves errno 0: transient too.   *)
udp_write_locked ==
  /\ wpc = "locked"
  /\ IF sock >= 0
     THEN wpc' = "sending" /\ UNCHANGED sock_mux
     ELSE wpc' = "again" /\ sock_mux' = "free"
  /\ UNCHANGED <<handle, sock, openfds, write, retry, reader, mpc, pc, sent, returned_ok>>

(* sendto() takes the datagram whole, or fails: for lack of memory, which   *)
(* esp_audio_pcm_write retries, or otherwise, which it does not.            *)
AfterSent_Again == "again"
AfterSent == "ok"
udp_write_sent ==
  /\ wpc = "sending"
  /\ sent' = Append(sent, write)
  /\ known' = TRUE
  /\ wpc' = AfterSent
  /\ sock_mux' = "free"
  /\ UNCHANGED <<handle, sock, openfds, write, retry, reader, mpc, inbox, cmds, returned_ok>>

udp_write_failed ==
  /\ wpc = "sending"
  /\ wpc' \in {"again", "idle"}
  /\ sock_mux' = "free"
  /\ UNCHANGED <<handle, sock, openfds, write, retry, reader, mpc, pc, sent, returned_ok>>

esp_audio_pcm_write_ok ==
  /\ wpc = "ok"
  /\ returned_ok' = returned_ok \cup {write}
  /\ wpc' = "idle"
  /\ UNCHANGED <<handle, ctx, write, retry, reader, mpc, pc, sent>>

esp_audio_pcm_write_again ==
  /\ wpc = "again"
  /\ IF retry + 1 < RetryMax
     THEN wpc' = "take" /\ retry' = retry + 1
     ELSE wpc' = "idle" /\ UNCHANGED retry
  /\ UNCHANGED <<handle, ctx, write, reader, mpc, pc, sent, returned_ok>>

Writer ==
  \/ udp_write_take \/ udp_write_locked \/ udp_write_sent \/ udp_write_failed
  \/ esp_audio_pcm_write_ok \/ esp_audio_pcm_write_again

-----------------------------------------------------------------------------
(* The control task: esp_audio_pcm_read, which fails at once while the      *)
(* handle is not open, and udp_read.                                        *)
KeepReading_Always == TRUE
KeepReading == ctrl_running
ctrl_loop ==
  /\ rpc = "loop"
  /\ rpc' = IF ~KeepReading THEN "off" ELSE IF opened THEN "get" ELSE "loop"
  /\ UNCHANGED <<handle, ctx, writer, rsnap, mpc, pc, sent, returned_ok>>

(* udp_get_sock: a copy made under the mutex, which is then given back.     *)
udp_get_sock ==
  /\ rpc = "get" /\ sock_mux = "free"
  /\ rsnap' = sock
  /\ rpc' = IF sock < 0 THEN "loop" ELSE "take"
  /\ UNCHANGED <<handle, ctx, writer, mpc, pc, sent, returned_ok>>

(* The socket may have been closed or replaced since: then nothing is read. *)
udp_read_take_NoCheck ==
  /\ rpc = "take"
  /\ \/ sock_mux = "free" /\ sock_mux' = "reader" /\ rpc' = "recv"
     \/ sock_mux # "free" /\ rpc' = "loop" /\ UNCHANGED sock_mux
  /\ UNCHANGED <<handle, sock, openfds, writer, rsnap, mpc, pc, sent, returned_ok>>
udp_read_take ==
  /\ rpc = "take"
  /\ \/ sock_mux = "free" /\ sock = rsnap /\ sock_mux' = "reader" /\ rpc' = "recv"
     \/ sock_mux = "free" /\ sock # rsnap /\ rpc' = "loop" /\ UNCHANGED sock_mux
     \/ sock_mux # "free" /\ rpc' = "loop" /\ UNCHANGED sock_mux
  /\ UNCHANGED <<handle, sock, openfds, writer, rsnap, mpc, pc, sent, returned_ok>>

(* recvfrom() returns a datagram, or nothing after its timeout.             *)
Received_Peek == inbox
Received == Tail(inbox)
udp_read_done ==
  /\ rpc = "recv"
  /\ inbox' = IF inbox = <<>> THEN inbox ELSE Received
  /\ sock_mux' = "free"
  /\ rpc' = "loop"
  /\ UNCHANGED <<handle, sock, openfds, writer, rsnap, mpc, cmds, known, sent, returned_ok>>

Reader == ctrl_loop \/ udp_get_sock \/ udp_read_take \/ udp_read_done

-----------------------------------------------------------------------------
(* close() of ctx->sock, if there is one: what it had received is gone.     *)
Close == openfds \ {sock}
Forget == inbox' = <<>> /\ known' = FALSE

(* esp_audio_pcm_open and udp_open, which may fail to resolve, and once it  *)
(* has the mutex to get a socket or to bind it.                             *)
esp_audio_pcm_open ==
  /\ mpc = "idle" /\ ~opened
  /\ mpc' = "opening"
  /\ UNCHANGED <<handle, ctx, writer, reader, pc, sent, returned_ok>>

udp_resolve_server ==
  /\ mpc = "opening"
  /\ mpc' \in {"resolved", "idle"}
  /\ UNCHANGED <<handle, ctx, writer, reader, pc, sent, returned_ok>>

udp_open ==
  /\ mpc = "resolved" /\ sock_mux = "free"
  /\ Forget
  /\ \E f \in Fd \ Close :
       /\ \A g \in Fd \ Close : f <= g
       /\ sock' = f /\ openfds' = Close \cup {f}
  /\ mpc' = "opened"
  /\ UNCHANGED <<handle, sock_mux, writer, reader, cmds, sent, returned_ok>>

udp_open_failed ==
  /\ mpc = "resolved" /\ sock_mux = "free"
  /\ Forget
  /\ sock' = -1 /\ openfds' = Close
  /\ mpc' = "idle"
  /\ UNCHANGED <<handle, sock_mux, writer, reader, cmds, sent, returned_ok>>

esp_audio_pcm_opened ==
  /\ mpc = "opened"
  /\ opened' = TRUE
  /\ mpc' = "idle"
  /\ UNCHANGED <<ctrl_running, ctx, writer, reader, pc, sent, returned_ok>>

esp_audio_pcm_ctrl_start ==
  /\ mpc = "idle" /\ ~ctrl_running
  /\ ctrl_running' = TRUE /\ rpc' = "loop"
  /\ UNCHANGED <<opened, ctx, writer, rsnap, mpc, pc, sent, returned_ok>>

(* esp_audio_pcm_close, by itself or from delete: udp_close, then opened.   *)
esp_audio_pcm_close ==
  /\ mpc = "idle" /\ opened
  /\ mpc' = "closing"
  /\ UNCHANGED <<handle, ctx, writer, reader, pc, sent, returned_ok>>

udp_close ==
  /\ mpc \in {"closing", "delete_close"} /\ sock_mux = "free"
  /\ Forget
  /\ sock' = -1 /\ openfds' = Close
  /\ mpc' = IF mpc = "closing" THEN "closed" ELSE "delete_closed"
  /\ UNCHANGED <<handle, sock_mux, writer, reader, cmds, sent, returned_ok>>

esp_audio_pcm_closed ==
  /\ mpc \in {"closed", "delete_closed"}
  /\ opened' = FALSE
  /\ mpc' = IF mpc = "closed" THEN "idle" ELSE "deinit"
  /\ UNCHANGED <<ctrl_running, ctx, writer, reader, pc, sent, returned_ok>>

(* esp_audio_pcm_delete: ctrl_stop and its wait, close, udp_deinit.         *)
delete_ctrl_stop ==
  /\ mpc = "idle" /\ wpc = "idle"
  /\ ctrl_running' = FALSE
  /\ mpc' = "stopping"
  /\ UNCHANGED <<opened, ctx, writer, reader, pc, sent, returned_ok>>

delete_stopped ==
  /\ mpc = "stopping" /\ rpc = "off"
  /\ mpc' = IF opened THEN "delete_close" ELSE "deinit"
  /\ UNCHANGED <<handle, ctx, writer, reader, pc, sent, returned_ok>>

(* The mutex is taken, given back and deleted.                              *)
udp_deinit ==
  /\ mpc = "deinit" /\ sock_mux = "free"
  /\ Forget
  /\ sock' = -1 /\ openfds' = Close
  /\ sock_mux' = "deleted"
  /\ mpc' = "deleted"
  /\ UNCHANGED <<handle, writer, reader, cmds, sent, returned_ok>>

App ==
  \/ udp_resolve_server \/ udp_open \/ udp_open_failed \/ esp_audio_pcm_opened
  \/ udp_close \/ esp_audio_pcm_closed
  \/ delete_stopped \/ udp_deinit

(* The PC answers to the address its last datagram came from.               *)
Command ==
  /\ known /\ cmds < MaxCmds
  /\ cmds' = cmds + 1
  /\ inbox' = Append(inbox, cmds')
  /\ UNCHANGED <<handle, ctx, writer, reader, mpc, known, sent, returned_ok>>

Done == mpc = "deleted" /\ UNCHANGED vars

Next ==
  \/ esp_audio_pcm_write \/ Writer
  \/ Reader
  \/ esp_audio_pcm_open \/ esp_audio_pcm_ctrl_start \/ esp_audio_pcm_close
  \/ delete_ctrl_stop \/ App
  \/ Command
  \/ Done

(* The tasks are scheduled.  The control task, of high priority, gets       *)
(* sock_mux if it is free again and again: a producer has pauses between    *)
(* its writes.  The application task has no such claim: the control task    *)
(* gives the mutex and takes it again without a pause.                      *)
Fairness ==
  /\ WF_vars(Writer)
  /\ WF_vars(Reader) /\ SF_vars(udp_get_sock) /\ SF_vars(udp_read_take /\ rpc' = "recv")
  /\ WF_vars(App)

Spec == Init /\ [][Next]_vars /\ Fairness

-----------------------------------------------------------------------------
TypeOK ==
  /\ opened \in BOOLEAN /\ ctrl_running \in BOOLEAN
  /\ sock \in Fd \cup {-1}
  /\ sock_mux \in {"free", "writer", "reader", "deleted"}
  /\ openfds \subseteq Fd
  /\ wpc \in {"idle", "take", "locked", "sending", "ok", "again"}
  /\ write \in 0..MaxWrites /\ retry \in 0..(RetryMax - 1)
  /\ rpc \in {"off", "loop", "get", "take", "recv"} /\ rsnap \in Fd \cup {-1}
  /\ mpc \in {"idle", "opening", "resolved", "opened", "closing", "closed",
              "stopping", "delete_close", "delete_closed", "deinit", "deleted"}
  /\ inbox \in Seq(1..MaxCmds) /\ cmds \in 0..MaxCmds /\ known \in BOOLEAN
  /\ sent \in Seq(1..MaxWrites) /\ returned_ok \subseteq 1..MaxWrites

(* "serialize all socket syscalls to avoid lwIP heap corruption": a task in *)
(* sendto() or recvfrom() holds the mutex, so the other is in neither, and  *)
(* nobody holds a mutex that is deleted.                                    *)
Serialized ==
  /\ sock_mux = "writer" <=> wpc \in {"locked", "sending"}
  /\ sock_mux = "reader" <=> rpc = "recv"

(* The socket a call is on is open and is the handle's, until it returns.   *)
CallOnOpenSocket ==
  /\ wpc = "sending" => sock >= 0
  /\ rpc = "recv" => sock >= 0 /\ sock = rsnap

(* However opens fail and closes interleave, no socket is left behind.      *)
NoSocketLeaks == openfds = {sock} \ {-1}

(* The transport's state outlives whoever uses it (with the producer at     *)
(* rest): the control task is gone before the mutex is deleted.             *)
DeletedUnused == mpc = "deleted" => rpc = "off" /\ wpc = "idle"

UdpInv == TypeOK /\ Serialized /\ CallOnOpenSocket /\ NoSocketLeaks /\ DeletedUnused

(* ESP_OK means the datagram was handed over once, anything else that it    *)
(* was not: retries neither repeat nor reorder datagrams.                   *)
ReportedAsSent ==
  /\ \A i, j \in DOMAIN sent : i < j => sent[i] < sent[j]
  /\ wpc # "ok" => {sent[i] : i \in DOMAIN sent} = returned_ok

(* To its users: one datagram for each write that returns ESP_OK and none   *)
(* for any other, commands in the order they came, and one socket call at a *)
(* time, on a socket that stays while it lasts.                             *)
Datagrams == INSTANCE PcmDatagrams WITH
  socket <- sock,
  user <- IF wpc = "sending" THEN "writer" ELSE IF rpc = "recv" THEN "reader" ELSE "none",
  state <- IF wpc = "ok" THEN "sent" ELSE IF wpc = "idle" THEN "idle" ELSE "trying"
DatagramsSpec == Datagrams!Spec

(* A write returns, however long the control task keeps the mutex.          *)
WriteReturns == wpc # "idle" ~> wpc = "idle"

(* A command that reached the socket is read by the control task, although  *)
(* the producer competes for the mutex, unless the task is stopped or the   *)
(* socket is closed.                                                        *)
CommandsRead ==
  \A c \in 1..MaxCmds :
    (ctrl_running /\ \E i \in DOMAIN inbox : inbox[i] = c)
      ~> (~ctrl_running \/ \A i \in DOMAIN inbox : inbox[i] # c)

(* open and delete return, although the mutex is given to whoever asks: no  *)
(* read or write begins while the handle is closed, and delete waits for    *)
(* the control task first.  A close of an open handle may wait for ever.    *)
AppReturns == mpc \notin {"idle", "closing", "deleted"} ~> mpc \in {"idle", "deleted"}
=============================================================================
