------------------------------ MODULE PcmHandle ------------------------------
(***************************************************************************)
(* Handles over the serial drivers: src/esp_audio_pcm.c with the USB and   *)
(* UART transports.  A driver belongs to a port, not to a handle: several  *)
(* handles, and code of the application that has nothing to do with this   *)
(* component (the console), may name the same port.  A handle whose init   *)
(* finds the driver installed uses it; every delete uninstalls it.         *)
(*                                                                         *)
(* An application task per handle makes its calls one at a time, as the    *)
(* header says nothing of concurrent ones; the handle's control task runs  *)
(* beside it.  A port's two directions are the bytes the driver accepted   *)
(* (out) and the control task's wait in the driver's read.                 *)
(***************************************************************************)
EXTENDS Naturals, Sequences

CONSTANTS
  Handle,    \* the handles the application makes
  Usb, Uart, \* ports, by kind
  RetryMax,  \* ESP_AUDIO_PCM_WRITE_RETRY_MAX
  MaxBytes   \* bound of the model: bytes each handle is asked to write

Port == Usb \cup Uart

ASSUME HandleAssumption ==
  /\ RetryMax \in Nat \ {0} /\ MaxBytes \in Nat
  /\ Usb \cap Uart = {}

VARIABLES
  driver,     \* the ports with a driver installed
  console,    \* the ports whose driver the console installed
  robbed,     \* handles whose driver a delete of another handle uninstalled
  port, opened, ctrl_running,  \* struct esp_audio_pcm, by handle
  mpc,        \* the application task: "none" before new, "live" between
              \* calls, "stop"/"delete" in ctrl_stop, "deinit", "freed"
  cpc,        \* the control task: "off", "loop", "read" in the driver
  wpc, ptr, end, retry,  \* esp_audio_pcm_write
  out,        \* by port: the bytes the driver accepted, each <<handle, number>>
  refused     \* by handle: bytes a write reported as not written

struct == <<port, opened, ctrl_running>>
write  == <<wpc, ptr, end, retry, out, refused>>
vars   == <<driver, console, robbed, struct, mpc, cpc, write>>

Set(f, x, v) == [f EXCEPT ![x] = v]

Init ==
  /\ driver = {} /\ console = {} /\ robbed = {}
  /\ port \in [Handle -> Port]
  /\ opened = [h \in Handle |-> FALSE] /\ ctrl_running = [h \in Handle |-> FALSE]
  /\ mpc = [h \in Handle |-> "none"] /\ cpc = [h \in Handle |-> "off"]
  /\ wpc = [h \in Handle |-> "idle"] /\ retry = [h \in Handle |-> 0]
  /\ ptr = [h \in Handle |-> 0] /\ end = [h \in Handle |-> 0]
  /\ out = [p \in Port |-> <<>>] /\ refused = [h \in Handle |-> {}]

(* Between new and delete: io->initialized.                                 *)
Initialized(h) == mpc[h] \in {"live", "stop", "delete", "deinit"}
Between(h) == mpc[h] = "live" /\ wpc[h] = "idle"

-----------------------------------------------------------------------------
(* The driver's install: refused when it is installed already, and it may   *)
(* fail.  init takes the refusal for success.                               *)
Install(p) ==
  {"ESP_FAIL", IF p \in driver THEN "ESP_ERR_INVALID_STATE" ELSE "ESP_OK"}
InitOk_IgnoreError(ret) == TRUE
InitOk(ret) == ret \in {"ESP_OK", "ESP_ERR_INVALID_STATE"}

(* A new that fails frees the structure and leaves nothing behind.          *)
esp_audio_pcm_new(h) ==
  /\ mpc[h] = "none"
  /\ \E ret \in Install(port[h]) :
       /\ InitOk(ret)
       /\ driver' = IF ret = "ESP_OK" THEN driver \cup {port[h]} ELSE driver
  /\ mpc' = Set(mpc, h, "live")
  /\ UNCHANGED <<console, robbed, struct, cpc, write>>

esp_audio_pcm_open(h) ==
  /\ Between(h) /\ ~opened[h]
  /\ opened' = Set(opened, h, TRUE)
  /\ UNCHANGED <<driver, console, robbed, port, ctrl_running, mpc, cpc, write>>

esp_audio_pcm_close(h) ==
  /\ Between(h) /\ opened[h]
  /\ opened' = Set(opened, h, FALSE)
  /\ UNCHANGED <<driver, console, robbed, port, ctrl_running, mpc, cpc, write>>

esp_audio_pcm_ctrl_start(h) ==
  /\ Between(h) /\ ~ctrl_running[h]
  /\ ctrl_running' = Set(ctrl_running, h, TRUE)
  /\ cpc' = Set(cpc, h, "loop")
  /\ UNCHANGED <<driver, console, robbed, port, opened, mpc, write>>

(* esp_audio_pcm_ctrl_stop, called by itself or by esp_audio_pcm_delete.    *)
esp_audio_pcm_ctrl_stop(h, next) ==
  /\ Between(h)
  /\ ctrl_running' = Set(ctrl_running, h, FALSE)
  /\ mpc' = Set(mpc, h, next)
  /\ UNCHANGED <<driver, console, robbed, port, opened, cpc, write>>

TaskGone_NoWait(h) == TRUE
TaskGone(h) == cpc[h] = "off"
ctrl_stopped(h) ==
  /\ mpc[h] = "stop" /\ TaskGone(h)
  /\ mpc' = Set(mpc, h, "live")
  /\ UNCHANGED <<driver, console, robbed, struct, cpc, write>>

delete_close(h) ==
  /\ mpc[h] = "delete" /\ TaskGone(h)
  /\ opened' = Set(opened, h, FALSE)
  /\ mpc' = Set(mpc, h, "deinit")
  /\ UNCHANGED <<driver, console, robbed, port, ctrl_running, cpc, write>>

(* usb_deinit, uart_transport_deinit; then free().                          *)
Uninstalled_None(h) == {}
Uninstalled(h) == {port[h]}
deinit(h) ==
  /\ mpc[h] = "deinit"
  /\ driver' = driver \ Uninstalled(h)
  /\ console' = console \ Uninstalled(h)
  /\ robbed' = robbed \cup {g \in Handle \ {h} : Initialized(g) /\ port[g] = port[h]}
  /\ mpc' = Set(mpc, h, "freed")
  /\ UNCHANGED <<struct, cpc, write>>

Owner(h) == ctrl_stopped(h) \/ delete_close(h) \/ deinit(h)

Calls(h) ==
  \/ esp_audio_pcm_new(h)
  \/ esp_audio_pcm_open(h) \/ esp_audio_pcm_close(h)
  \/ esp_audio_pcm_ctrl_start(h)
  \/ esp_audio_pcm_ctrl_stop(h, "stop") \/ esp_audio_pcm_ctrl_stop(h, "delete")

-----------------------------------------------------------------------------
(* The control task.  esp_audio_pcm_read fails at once while the handle is  *)
(* closed; otherwise it is in the driver for up to 50 ms.                   *)
KeepRunning_Always(h) == TRUE
KeepRunning(h) == ctrl_running[h]
ctrl_loop(h) ==
  /\ cpc[h] = "loop"
  /\ cpc' = Set(cpc, h, IF ~KeepRunning(h) THEN "off" ELSE IF opened[h] THEN "read" ELSE "loop")
  /\ UNCHANGED <<driver, console, robbed, struct, mpc, write>>

ctrl_read(h) ==
  /\ cpc[h] = "read"
  /\ cpc' = Set(cpc, h, "loop")
  /\ UNCHANGED <<driver, console, robbed, struct, mpc, write>>

CtrlTask(h) == ctrl_loop(h) \/ ctrl_read(h)

-----------------------------------------------------------------------------
(* esp_audio_pcm_write.  A closed handle writes nothing and reports ESP_OK. *)
esp_audio_pcm_write(h) ==
  /\ Between(h) /\ opened[h]
  /\ \E len \in 1..(MaxBytes - end[h]) : end' = Set(end, h, end[h] + len)
  /\ ptr' = Set(ptr, h, end[h])
  /\ retry' = Set(retry, h, 0)
  /\ wpc' = Set(wpc, h, "call")
  /\ UNCHANGED <<driver, console, robbed, struct, mpc, cpc, out, refused>>

(* What one driver call accepts: nothing when the driver is gone; UART      *)
(* waits until it has taken everything, USB may run out of time.            *)
Accepts(h) ==
  LET remain == end[h] - ptr[h]
  IN  IF port[h] \notin driver THEN {0}
      ELSE IF port[h] \in Uart THEN {remain} ELSE 0..remain

(* Advance past what was accepted; the last of RetryMax calls gives up.     *)
Advance_Restart(h, sent) == IF sent = end[h] - ptr[h] THEN end[h] ELSE ptr[h]
Advance(h, sent) == ptr[h] + sent
LastRetry_OneMore(h) == retry[h] = RetryMax
LastRetry(h) == retry[h] + 1 = RetryMax

write_call(h) ==
  /\ wpc[h] = "call"
  /\ \E sent \in Accepts(h) :
       /\ out' = [out EXCEPT ![port[h]] = @ \o [i \in 1..sent |-> <<h, ptr[h] + i - 1>>]]
       /\ IF ptr[h] + sent = end[h] \/ LastRetry(h)
          THEN /\ wpc' = Set(wpc, h, "idle")
               /\ ptr' = Set(ptr, h, end[h])
               /\ refused' = Set(refused, h, refused[h] \cup ((ptr[h] + sent)..(end[h] - 1)))
               /\ UNCHANGED retry
          ELSE /\ ptr' = Set(ptr, h, Advance(h, sent))
               /\ retry' = Set(retry, h, retry[h] + 1)
               /\ UNCHANGED <<wpc, refused>>
  /\ UNCHANGED <<driver, console, robbed, struct, mpc, cpc, end>>

-----------------------------------------------------------------------------
(* Code outside this component installs a port's driver for itself.         *)
ConsoleInstall ==
  /\ \E p \in Port \ driver : driver' = driver \cup {p} /\ console' = console \cup {p}
  /\ UNCHANGED <<robbed, struct, mpc, cpc, write>>

Next ==
  \/ \E h \in Handle :
       Calls(h) \/ Owner(h) \/ CtrlTask(h) \/ esp_audio_pcm_write(h) \/ write_call(h)
  \/ ConsoleInstall

(* A call that has begun goes on, and the control task is scheduled.        *)
Fairness ==
  \A h \in Handle : WF_vars(Owner(h)) /\ WF_vars(CtrlTask(h)) /\ WF_vars(write_call(h))

Spec == Init /\ [][Next]_vars /\ Fairness

-----------------------------------------------------------------------------
Sent(p) == {out[p][i] : i \in DOMAIN out[p]}

TypeOK ==
  /\ driver \subseteq Port /\ console \subseteq Port /\ robbed \subseteq Handle
  /\ port \in [Handle -> Port]
  /\ opened \in [Handle -> BOOLEAN] /\ ctrl_running \in [Handle -> BOOLEAN]
  /\ mpc \in [Handle -> {"none", "live", "stop", "delete", "deinit", "freed"}]
  /\ cpc \in [Handle -> {"off", "loop", "read"}]
  /\ wpc \in [Handle -> {"idle", "call"}]
  /\ ptr \in [Handle -> 0..MaxBytes] /\ end \in [Handle -> 0..MaxBytes]
  /\ retry \in [Handle -> 0..(RetryMax - 1)]
  /\ out \in [Port -> Seq(Handle \X (0..(MaxBytes - 1)))]
  /\ refused \in [Handle -> SUBSET (0..(MaxBytes - 1))]

(* From new to delete a handle has its driver, unless the delete of another *)
(* handle on the port took it away.                                         *)
LiveHasDriver ==
  \A h \in Handle : Initialized(h) /\ h \notin robbed => port[h] \in driver

(* No driver outlives the handles on its port: one that is still installed  *)
(* serves a live handle or is the console's.                                *)
NoDriverLeft ==
  \A p \in driver : p \in console \/ \E h \in Handle : Initialized(h) /\ port[h] = p

(* While a control task is in a driver's read its own handle keeps the      *)
(* driver and its structure: delete waits for the task first.               *)
ReaderSafe ==
  \A h \in Handle : cpc[h] # "off" => mpc[h] \in {"live", "stop", "delete"}

(* What a handle's writes report is what its port's driver was given: each  *)
(* byte of a finished write was accepted or reported, not both, and a       *)
(* handle's bytes were accepted in order and once, however handles that     *)
(* share the port interleave and whenever its driver is taken away.         *)
WritesTruthful ==
  \A h \in Handle :
    LET mine == {b \in 0..(MaxBytes - 1) : <<h, b>> \in Sent(port[h])}
    IN  /\ mine \cup refused[h] = 0..(ptr[h] - 1)
        /\ mine \cap refused[h] = {}
        /\ \A i, j \in DOMAIN out[port[h]] :
             /\ i < j
             /\ out[port[h]][i][1] = h /\ out[port[h]][j][1] = h
             => out[port[h]][i][2] < out[port[h]][j][2]

(* A call that has begun returns: a stop or delete although it waits for a  *)
(* control task whose driver may be gone, a write because its retries are   *)
(* bounded.                                                                 *)
CallsReturn ==
  \A h \in Handle :
    mpc[h] \in {"stop", "delete", "deinit"} \/ wpc[h] = "call"
      ~> Between(h) \/ mpc[h] = "freed"
=============================================================================
