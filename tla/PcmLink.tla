------------------------------- MODULE PcmLink -------------------------------
(***************************************************************************)
(* The connection of the TCP transport, as the tasks that use it see it.   *)
(* The transmit task and the control task begin calls on the installed     *)
(* connection.  While a call lasts another task may close or replace that  *)
(* connection; the call is then on an old one, or, when descriptor numbers *)
(* come back, finds itself on the new one.  Who fails on the installed     *)
(* connection takes it down, and only if it is broken.  Who fails on an    *)
(* old one may take down the new one for it, working or not.               *)
(*                                                                         *)
(* TcpSocket, with lwIP's descriptors and the tasks' copies of them, is    *)
(* shown to implement this.  TcpStream relies on it: its swapped and       *)
(* rswapped say that a call may be on an old connection.                   *)
(***************************************************************************)

VARIABLES
  phase,   \* of the handle: "closed"; "opening" once open() has installed its
           \* connection; "open"; "closing" once close() has taken it down
  link,    \* the installed connection: "none", "up" or "broken"
  view     \* by task: "out" of a call, in one on the installed connection
           \* ("own"), or in one on another ("old")

linkVars == <<phase, link, view>>

User == {"tx", "ctrl"}
Views == [User -> {"out", "own", "old"}]

Init ==
  /\ phase = "closed" /\ link = "none"
  /\ view = [u \in User |-> "out"]

(* What becomes of a task's call when the installed connection goes, when   *)
(* another takes its place, and when neither happens.                       *)
Robbed(u) == view'[u] = IF view[u] = "own" THEN "old" ELSE view[u]
MeetsNew(u) == view[u] = "old" /\ view'[u] = "own"
Same(u) == view'[u] = view[u]

Install ==
  /\ link' \in {"up", "broken"}
  /\ view' \in Views /\ \A u \in User : Robbed(u) \/ MeetsNew(u)

Remove ==
  /\ link' = "none"
  /\ view' \in Views /\ \A u \in User : Robbed(u)

(* open() and close() change the connection first and tell the handle after *)
(* that: others work on between the two.                                    *)
Open   == phase = "closed"  /\ phase' = "opening" /\ Install
Opened == phase = "opening" /\ phase' = "open"    /\ UNCHANGED <<link, view>>
Close  == phase = "open"    /\ phase' = "closing" /\ Remove
Closed == phase = "closing" /\ phase' = "closed"  /\ UNCHANGED <<link, view>>

(* The transmit task connects when there is no connection, unless open()    *)
(* has made one meanwhile, and is in no call then.                          *)
Reconnect ==
  /\ link = "none" \/ phase \in {"opening", "open"}
  /\ view["tx"] = "out"
  /\ Install
  /\ UNCHANGED phase

(* delete comes after close, and after the control task has gone.           *)
Delete ==
  /\ phase = "closed" /\ view["ctrl"] = "out"
  /\ Remove
  /\ UNCHANGED phase

(* The connection breaks.  A call that failed on it before it was installed *)
(* now is as good as on it.                                                 *)
Break ==
  /\ link = "up" /\ link' = "broken"
  /\ view' \in Views /\ \A u \in User : Same(u) \/ MeetsNew(u)
  /\ UNCHANGED phase

Begin(u) ==
  /\ link # "none" /\ view[u] # "own"
  /\ view' = [view EXCEPT ![u] = "own"]
  /\ UNCHANGED <<phase, link>>

(* Nobody leaves a broken connection as it is.                              *)
End(u) ==
  /\ view[u] = "old" \/ (view[u] = "own" /\ link = "up")
  /\ view' = [view EXCEPT ![u] = "out"]
  /\ UNCHANGED <<phase, link>>

Fail(u) ==
  /\ \/ view[u] = "own" /\ link = "broken" /\ link' = "none"
     \/ view[u] = "old" /\ link' = "none"
  /\ view' \in Views /\ view'[u] = "out"
  /\ \A v \in User \ {u} : Robbed(v)
  /\ UNCHANGED phase

Next ==
  \/ Open \/ Opened \/ Close \/ Closed
  \/ Reconnect \/ Delete \/ Break
  \/ \E u \in User : Begin(u) \/ End(u) \/ Fail(u)

Spec == Init /\ [][Next]_linkVars
=============================================================================
