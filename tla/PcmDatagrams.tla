---------------------------- MODULE PcmDatagrams ----------------------------
(***************************************************************************)
(* What the UDP transport promises to its three users.  A write hands over *)
(* one datagram, once and whole, or none, and its result says which.  The  *)
(* control task is given what the PC sent in the order it arrived.  The    *)
(* socket has one user at a time and does not change under a call.         *)
(*                                                                         *)
(* UdpTransport, with its mutex, its retries and the control task's copy   *)
(* of the descriptor, is shown to implement this.                          *)
(***************************************************************************)
EXTENDS Integers, Sequences

VARIABLES
  socket,       \* the descriptor of the handle's socket, -1 when there is none
  user,         \* who is in a socket call: "none", "writer" or "reader"
  state,        \* the write: "idle", "trying" to hand it over, "sent"
  write,        \* its number
  sent,         \* datagrams handed over
  returned_ok,  \* writes that returned ESP_OK
  inbox, cmds   \* datagrams received and not yet read; sent by the PC

dgramVars == <<socket, user, state, write, sent, returned_ok, inbox, cmds>>

Init ==
  /\ socket = -1 /\ user = "none"
  /\ state = "idle" /\ write = 0
  /\ sent = <<>> /\ returned_ok = {}
  /\ inbox = <<>> /\ cmds = 0

Write ==
  /\ state = "idle"
  /\ state' = "trying" /\ write' = write + 1
  /\ UNCHANGED <<socket, user, sent, returned_ok, inbox, cmds>>

(* A socket call begins, on a socket that is there.                         *)
Enter(u) ==
  /\ user = "none" /\ socket # -1
  /\ u = "writer" => state = "trying"
  /\ user' = u
  /\ UNCHANGED <<socket, state, write, sent, returned_ok, inbox, cmds>>

(* The write's call hands the datagram over, or fails: to try again, or not.*)
Sent ==
  /\ user = "writer"
  /\ user' = "none" /\ state' = "sent"
  /\ sent' = Append(sent, write)
  /\ UNCHANGED <<socket, write, returned_ok, inbox, cmds>>

Failed ==
  /\ user = "writer"
  /\ user' = "none" /\ state' \in {"trying", "idle"}
  /\ UNCHANGED <<socket, write, sent, returned_ok, inbox, cmds>>

(* The write returns: ESP_OK if it was sent, an error if it was not.        *)
ReturnOk ==
  /\ state = "sent"
  /\ state' = "idle"
  /\ returned_ok' = returned_ok \cup {write}
  /\ UNCHANGED <<socket, user, write, sent, inbox, cmds>>

ReturnError ==
  /\ state = "trying" /\ user # "writer"
  /\ state' = "idle"
  /\ UNCHANGED <<socket, user, write, sent, returned_ok, inbox, cmds>>

(* The control task's call ends with the oldest datagram, or with none when *)
(* there is none.                                                           *)
Received ==
  /\ user = "reader"
  /\ user' = "none"
  /\ inbox' = IF inbox = <<>> THEN inbox ELSE Tail(inbox)
  /\ UNCHANGED <<socket, state, write, sent, returned_ok, cmds>>

Arrive ==
  /\ socket # -1
  /\ cmds' = cmds + 1
  /\ inbox' = Append(inbox, cmds')
  /\ UNCHANGED <<socket, user, state, write, sent, returned_ok>>

(* open, close and delete: another socket or none, with nothing received.   *)
Replace ==
  /\ user = "none"
  /\ inbox' = <<>>
  /\ UNCHANGED <<user, state, write, sent, returned_ok, cmds>>

Next ==
  \/ Write \/ Enter("writer") \/ Sent \/ Failed \/ ReturnOk \/ ReturnError
  \/ Enter("reader") \/ Received
  \/ Arrive \/ Replace

Spec == Init /\ [][Next]_dgramVars
=============================================================================
