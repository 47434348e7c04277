------------------------------- MODULE CtrlTask -------------------------------
(***************************************************************************)
(* The control channel of src/esp_audio_pcm_ctrl.c: the task that reads    *)
(* the transport, assembles text lines and dispatches them to callbacks,   *)
(* and esp_audio_pcm_ctrl_start and esp_audio_pcm_ctrl_stop around it.     *)
(*                                                                         *)
(* What a line says does not matter here, only which line a byte belongs   *)
(* to: the bytes of the k-th line the PC sends are k, besides the blanks   *)
(* it may begin with and the end-of-line characters.                       *)
(***************************************************************************)
EXTENDS Naturals, Sequences, SequencesExt, FiniteSetsExt

CONSTANTS
  LineMax,     \* ESP_AUDIO_PCM_LINE_MAX
  RxMax,       \* sizeof(rx)
  MaxLines,    \* bound of the model: lines the PC sends
  MaxLineLen,  \* bound of the model: bytes of a line
  MaxBreaks,   \* bound of the model: times the transport loses bytes
  MaxStarts    \* bound of the model: calls of esp_audio_pcm_ctrl_start

ASSUME CtrlAssumption ==
  /\ LineMax \in Nat \ {0} /\ RxMax \in Nat \ {0}
  /\ MaxLines \in Nat /\ MaxLineLen \in Nat /\ MaxBreaks \in Nat /\ MaxStarts \in Nat

VARIABLES
  ctrl_running, ctrl_cbs,   \* struct esp_audio_pcm; the callbacks: are they there
  cpc, rx, line,            \* the task: place, bytes read and not yet processed,
                            \* the line assembled so far (pos is its length)
  mpc,                      \* the application task: "idle" or "stopping"
  incoming,                 \* bytes the transport holds for us
  sent,                     \* the lines the PC sent, as they should be dispatched
  dispatched,               \* the lines given to callbacks
  lines, breaks, starts     \* counters for the bounds

task == <<cpc, rx, line>>
pc   == <<incoming, sent, lines, breaks>>
vars == <<ctrl_running, ctrl_cbs, task, mpc, pc, dispatched, starts>>

Eol   == 0              \* '\r' or '\n'
Blank == MaxLines + 1   \* ' ' or '\t'

Init ==
  /\ ctrl_running = FALSE /\ ctrl_cbs = "none"
  /\ cpc = "off" /\ rx = <<>> /\ line = <<>>
  /\ mpc = "idle"
  /\ incoming = <<>> /\ sent = <<>> /\ dispatched = <<>>
  /\ lines = 0 /\ breaks = 0 /\ starts = 0

-----------------------------------------------------------------------------
(* The task's loop test; read() then returns bytes, or none within 50 ms.   *)
KeepRunning_Always == TRUE
KeepRunning == ctrl_running

ctrl_test ==
  /\ cpc = "test"
  /\ cpc' = IF KeepRunning THEN "read" ELSE "exit"
  /\ UNCHANGED <<ctrl_running, ctrl_cbs, rx, line, mpc, pc, dispatched, starts>>

ctrl_read ==
  /\ cpc = "read"
  /\ \/ \E n \in 1..RxMax :
          /\ n <= Len(incoming)
          /\ rx' = SubSeq(incoming, 1, n)
          /\ incoming' = SubSeq(incoming, n + 1, Len(incoming))
          /\ cpc' = "bytes"
     \/ incoming = <<>> /\ cpc' = "test" /\ UNCHANGED <<rx, incoming>>
  /\ UNCHANGED <<ctrl_running, ctrl_cbs, line, mpc, sent, lines, breaks, dispatched, starts>>

(* A character that does not end the line is kept while there is room; the  *)
(* last place is for the terminating NUL.                                   *)
Keep(l, c) == IF Len(l) < LineMax - 1 THEN Append(l, c) ELSE l

(* esp_audio_pcm_dispatch_line skips leading blanks and ignores an empty    *)
(* line; a callback that is not there is not called.                        *)
Body(l) ==
  LET text == {i \in DOMAIN l : l[i] # Blank}
  IN  IF text = {} THEN <<>> ELSE SubSeq(l, Min(text), Len(l))
AfterEol_Keeps(l) == l
AfterEol(l) == <<>>

dispatch_line ==
  dispatched' = IF Body(line) = <<>> \/ ctrl_cbs = "none"
                THEN dispatched ELSE Append(dispatched, Body(line))

ctrl_byte_RoomFirst ==
  /\ cpc = "bytes" /\ rx # <<>>
  /\ IF Len(line) = LineMax - 1
     THEN UNCHANGED <<line, dispatched>>
     ELSE IF Head(rx) = Eol
     THEN dispatch_line /\ line' = AfterEol(line)
     ELSE line' = Keep(line, Head(rx)) /\ UNCHANGED dispatched
  /\ rx' = Tail(rx)
  /\ UNCHANGED <<ctrl_running, ctrl_cbs, cpc, mpc, pc, starts>>
ctrl_byte ==
  /\ cpc = "bytes" /\ rx # <<>>
  /\ IF Head(rx) = Eol
     THEN dispatch_line /\ line' = AfterEol(line)
     ELSE line' = Keep(line, Head(rx)) /\ UNCHANGED dispatched
  /\ rx' = Tail(rx)
  /\ UNCHANGED <<ctrl_running, ctrl_cbs, cpc, mpc, pc, starts>>

ctrl_chunk_done ==
  /\ cpc = "bytes" /\ rx = <<>>
  /\ cpc' = "test"
  /\ UNCHANGED <<ctrl_running, ctrl_cbs, rx, line, mpc, pc, dispatched, starts>>

(* ctrl_task = NULL                                                         *)
ctrl_exit ==
  /\ cpc = "exit"
  /\ cpc' = "off"
  /\ UNCHANGED <<ctrl_running, ctrl_cbs, rx, line, mpc, pc, dispatched, starts>>

Ctrl == ctrl_test \/ ctrl_read \/ ctrl_byte \/ ctrl_chunk_done \/ ctrl_exit

-----------------------------------------------------------------------------
(* The application.  A new task begins with an empty line.                  *)
esp_audio_pcm_ctrl_start_WhileStopping ==
  /\ ~ctrl_running /\ starts < MaxStarts
  /\ ctrl_cbs' = "set"
  /\ ctrl_running' = TRUE
  /\ cpc' = "test" /\ rx' = <<>> /\ line' = <<>>
  /\ starts' = starts + 1
  /\ UNCHANGED <<mpc, pc, dispatched>>
esp_audio_pcm_ctrl_start ==
  /\ mpc = "idle" /\ ~ctrl_running /\ starts < MaxStarts
  /\ ctrl_cbs' = "set"
  /\ ctrl_running' = TRUE
  /\ cpc' = "test" /\ rx' = <<>> /\ line' = <<>>
  /\ starts' = starts + 1
  /\ UNCHANGED <<mpc, pc, dispatched>>

esp_audio_pcm_ctrl_stop ==
  /\ mpc = "idle" /\ ctrl_running
  /\ ctrl_running' = FALSE
  /\ mpc' = "stopping"
  /\ UNCHANGED <<ctrl_cbs, task, pc, dispatched, starts>>

TaskGone_NoWait == TRUE
TaskGone == cpc = "off"

ctrl_stop_return ==
  /\ mpc = "stopping" /\ TaskGone
  /\ ctrl_cbs' = "none"
  /\ mpc' = "idle"
  /\ UNCHANGED <<ctrl_running, task, pc, dispatched, starts>>

-----------------------------------------------------------------------------
(* The PC sends a line: blanks, its bytes, and LF or CR LF.                 *)
Truncated(l) == SubSeq(l, 1, IF Len(l) < LineMax THEN Len(l) ELSE LineMax - 1)

SendLine ==
  /\ lines < MaxLines
  /\ \E len \in 0..MaxLineLen, blanks \in 0..1, eols \in 1..2 :
       LET text == [i \in 1..blanks |-> Blank] \o [i \in 1..len |-> lines + 1]
           body == Body(Truncated(text))
       IN  /\ incoming' = incoming \o text \o [i \in 1..eols |-> Eol]
           /\ sent' = IF body = <<>> THEN sent ELSE Append(sent, body)
  /\ lines' = lines + 1
  /\ UNCHANGED <<ctrl_running, ctrl_cbs, task, mpc, breaks, dispatched, starts>>

(* The connection is replaced: the end of what was under way is lost.       *)
Break ==
  /\ breaks < MaxBreaks
  /\ \E n \in 0..(Len(incoming) - 1) : incoming' = SubSeq(incoming, 1, n)
  /\ breaks' = breaks + 1
  /\ UNCHANGED <<ctrl_running, ctrl_cbs, task, mpc, sent, lines, dispatched, starts>>

(* The application has stopped the task for good.                           *)
Rest ==
  /\ starts = MaxStarts /\ ~ctrl_running /\ mpc = "idle"
  /\ UNCHANGED vars

Next ==
  \/ Ctrl
  \/ esp_audio_pcm_ctrl_start \/ esp_audio_pcm_ctrl_stop \/ ctrl_stop_return
  \/ SendLine \/ Break
  \/ Rest

(* The control task is scheduled and read() returns within its timeout;     *)
(* esp_audio_pcm_ctrl_stop goes on polling.                                 *)
Spec == Init /\ [][Next]_vars /\ WF_vars(Ctrl) /\ WF_vars(ctrl_stop_return)

-----------------------------------------------------------------------------
Byte == (1..MaxLines) \cup {Eol, Blank}

TypeOK ==
  /\ ctrl_running \in BOOLEAN /\ ctrl_cbs \in {"none", "set"}
  /\ cpc \in {"off", "test", "read", "bytes", "exit"} /\ mpc \in {"idle", "stopping"}
  /\ rx \in Seq(Byte) /\ Len(rx) <= RxMax
  /\ line \in Seq(Byte \ {Eol}) /\ incoming \in Seq(Byte)
  /\ sent \in Seq(Seq(Byte)) /\ dispatched \in Seq(Seq(Byte))
  /\ lines \in 0..MaxLines /\ breaks \in 0..MaxBreaks /\ starts \in 0..MaxStarts

(* line[pos] = '\0' stays inside the array.                                 *)
LineFits == Len(line) <= LineMax - 1

(* The task has its callbacks for as long as it lives: they are cleared     *)
(* only after it is gone, so no callback runs once ctrl_stop has returned.  *)
CallbacksWhileRunning == cpc # "off" => ctrl_cbs = "set"

(* There is a task to wait for, or one that still runs, and never a second. *)
StoppedMeansGone == mpc = "idle" /\ ~ctrl_running => cpc = "off"

CtrlInv == TypeOK /\ LineFits /\ CallbacksWhileRunning /\ StoppedMeansGone

(* However the bytes are cut into reads, the callbacks see the lines the PC *)
(* sent: each once, in order, cut to LineMax - 1 characters, blank ones     *)
(* left out (while no byte is lost and the task is not restarted).          *)
LinesInOrder ==
  breaks = 0 /\ starts <= 1 => IsPrefix(dispatched, sent)

(* To the application: the callbacks get the lines that were sent, one by   *)
(* one and in order, and only between ctrl_start and the return of          *)
(* ctrl_stop.                                                               *)
Commands == INSTANCE PcmCommands WITH
  phase <- IF ctrl_running THEN "on" ELSE IF mpc = "stopping" THEN "stopping" ELSE "off",
  disturbed <- (breaks > 0 \/ starts > 1)
CommandsSpec == Commands!Spec

(* All of them are dispatched in the end, if the task keeps running.        *)
AllDispatched ==
  \A k \in 1..MaxLines :
    (ctrl_running /\ Len(sent) >= k)
      ~> (Len(dispatched) >= k \/ ~ctrl_running \/ breaks > 0 \/ starts > 1)

(* esp_audio_pcm_ctrl_stop returns.                                         *)
StopReturns == mpc = "stopping" ~> mpc = "idle"

(* A dispatched line is one line of the PC: "Background task: read text     *)
(* lines and dispatch control callbacks", "Control command format (text,    *)
(* one line)".                                                              *)
OneLineEach ==
  starts <= 1 =>
    \A i \in DOMAIN dispatched : \A j, k \in DOMAIN dispatched[i] : dispatched[i][j] = dispatched[i][k]
=============================================================================
