----------------------------- MODULE PcmCommands -----------------------------
(***************************************************************************)
(* What the control channel promises to the application: between           *)
(* esp_audio_pcm_ctrl_start and the return of esp_audio_pcm_ctrl_stop, and *)
(* at no other time, its callbacks are given the lines the PC sends, one   *)
(* by one and in the order they were sent.  Once bytes have been lost or   *)
(* the channel was started again, nothing is promised of which lines.      *)
(*                                                                         *)
(* CtrlTask, which reads bytes in pieces and assembles them, is shown to   *)
(* implement this.                                                         *)
(***************************************************************************)
EXTENDS Naturals, Sequences

VARIABLES
  phase,       \* "off", "on", or "stopping" while ctrl_stop has not returned
  disturbed,   \* bytes were lost, or this is not the first start
  sent,        \* the lines of the PC
  dispatched   \* the lines the callbacks have been given

cmdVars == <<phase, disturbed, sent, dispatched>>

(* t is s and one line more.                                                *)
OneMore(s, t) == Len(t) = Len(s) + 1 /\ SubSeq(t, 1, Len(s)) = s

Init ==
  /\ phase = "off" /\ disturbed = FALSE
  /\ sent = <<>> /\ dispatched = <<>>

Start ==
  /\ phase = "off"
  /\ phase' = "on"
  /\ disturbed' \in {disturbed, TRUE}
  /\ UNCHANGED <<sent, dispatched>>

StopRequest ==
  /\ phase = "on"
  /\ phase' = "stopping"
  /\ UNCHANGED <<disturbed, sent, dispatched>>

Stopped ==
  /\ phase = "stopping"
  /\ phase' = "off"
  /\ UNCHANGED <<disturbed, sent, dispatched>>

Send ==
  /\ OneMore(sent, sent')
  /\ UNCHANGED <<phase, disturbed, dispatched>>

Disturb ==
  /\ disturbed' = TRUE
  /\ UNCHANGED <<phase, sent, dispatched>>

Dispatch ==
  /\ phase # "off"
  /\ OneMore(dispatched, dispatched')
  /\ disturbed \/ /\ Len(dispatched) < Len(sent)
                  /\ dispatched'[Len(dispatched) + 1] = sent[Len(dispatched) + 1]
  /\ UNCHANGED <<phase, disturbed, sent>>

Next ==
  \/ Start \/ StopRequest \/ Stopped
  \/ Send \/ Disturb \/ Dispatch

Spec == Init /\ [][Next]_cmdVars
=============================================================================
