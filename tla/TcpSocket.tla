------------------------------ MODULE TcpSocket ------------------------------
(***************************************************************************)
(* Who owns which socket descriptor in src/esp_audio_pcm_tcp.c.  Three     *)
(* tasks share ctx->sock under sock_mux: the transmit task connects,       *)
(* sends and closes on error, the control task receives and closes on      *)
(* error, and the application task opens, closes and deletes the handle.   *)
(* Each of them works on a snapshot of the descriptor outside the lock.    *)
(*                                                                         *)
(* Descriptor numbers come from lwIP, which gives out the lowest free one, *)
(* so a number can come back naming another connection.  Connections have  *)
(* identities of their own here, recycled once nothing refers to them.     *)
(* The bytes are the subject of TcpStream.                                 *)
(***************************************************************************)
EXTENDS Naturals, Integers, FiniteSets

CONSTANTS
  NFd,      \* descriptors lwIP has for this handle (LWIP_MAX_SOCKETS)
  NConn,    \* connection identities (bound of the model)
  MayClose  \* whether the application closes the handle other than to delete
            \* it (bound of the model)

ASSUME SocketAssumption ==
  /\ NFd \in Nat \ {0}
  /\ NConn \in Nat /\ NConn >= 4  \* two open ones and two remembered ones
  /\ MayClose \in BOOLEAN

VARIABLES
  fdtab,    \* lwIP: descriptor -> connection, or None when free
  state,    \* connection -> "half", "up", "dead" or "closed"
  sock,     \* ctx->sock, -1 when there is none
  opened, ctrl_running, tx_run,
  tpc, tfd, tsnap, tconn,   \* transmit task: place; fd it is connecting; snapshot
                            \* of ctx->sock; connection that snapshot stood for
  cpc, csnap, cconn,        \* control task, likewise
  mpc, mfd,                 \* application task, likewise
  net_up                    \* the application has brought up the TCP/IP stack

tx   == <<tpc, tfd, tsnap, tconn>>
ctrl == <<cpc, csnap, cconn>>
app  == <<mpc, mfd, net_up>>
net  == <<fdtab, state, sock>>
vars == <<net, opened, ctrl_running, tx_run, tx, ctrl, app>>

Fd   == 0..(NFd - 1)
Conn == 1..NConn
None == 0

OpenFds == {f \in Fd : fdtab[f] # None}
Live(c) == c # None /\ state[c] = "up"

(* After esp_audio_pcm_new: tcp_init has started the transmit task.         *)
Init ==
  /\ fdtab = [f \in Fd |-> None]
  /\ state = [c \in Conn |-> "closed"]
  /\ sock = -1
  /\ opened = FALSE /\ ctrl_running = FALSE /\ tx_run = TRUE
  /\ tpc = "loop" /\ tfd = -1 /\ tsnap = -1 /\ tconn = None
  /\ cpc = "off" /\ csnap = -1 /\ cconn = None
  /\ mpc = "idle" /\ mfd = -1 /\ net_up = FALSE

-----------------------------------------------------------------------------
(* lwIP: socket() takes the lowest free descriptor.  One that was closed    *)
(* under a call still in progress is only free when that call returns.      *)
InCall == {f \in Fd : (tpc = "sending" /\ tsnap = f) \/ (cpc = "receiving" /\ csnap = f)}
Free == {f \in Fd : fdtab[f] = None} \ InCall
LowestFree(f) == f \in Free /\ \A g \in Free : f <= g
NewConn == CHOOSE c \in Conn : state[c] = "closed" /\ c \notin {tconn, cconn}

Socket(f) ==
  /\ net_up
  /\ LowestFree(f)
  /\ fdtab' = [fdtab EXCEPT ![f] = NewConn]
  /\ state' = [state EXCEPT ![NewConn] = "half"]

(* close() of a set of open descriptors                                     *)
Close(fds) ==
  /\ fdtab' = [f \in Fd |-> IF f \in fds THEN None ELSE fdtab[f]]
  /\ state' = [c \in Conn |-> IF \E f \in fds : fdtab[f] = c THEN "closed" ELSE state[c]]

ConnectResult(f, result) ==
  state' = [state EXCEPT ![fdtab[f]] = result]

(* tcp_close_socket_locked, and tcp_close_socket around it                  *)
tcp_close_socket ==
  /\ Close({sock} \cap Fd)
  /\ sock' = -1

(* tcp_close_if: only if the number still is the snapshot's                 *)
SameSocket(snap) == sock = snap
tcp_close_if_Never(snap) == UNCHANGED net
tcp_close_if(snap) ==
  IF SameSocket(snap) THEN tcp_close_socket ELSE UNCHANGED net

(* tcp_connect, its last step under sock_mux: close a stale one, install f. *)
Stale_Kept == {}
Stale == {sock} \cap Fd
Publish(f) ==
  /\ Close(Stale)
  /\ sock' = f

-----------------------------------------------------------------------------
(* The transmit task: the head of its loops, then tcp_ensure_connected.     *)
tx_loop ==
  /\ tpc = "loop"
  /\ tpc' = IF tx_run THEN "ensure" ELSE "done"
  /\ UNCHANGED <<net, opened, ctrl_running, tx_run, tfd, tsnap, tconn, ctrl, app>>

tx_ensure_connected ==
  /\ tpc = "ensure"
  /\ tpc' = IF sock >= 0 THEN "read" ELSE "dial"
  /\ UNCHANGED <<net, opened, ctrl_running, tx_run, tfd, tsnap, tconn, ctrl, app>>

(* getaddrinfo and socket()                                                 *)
tx_socket ==
  /\ tpc = "dial"
  /\ \/ \E f \in Fd : Socket(f) /\ tfd' = f /\ tpc' = "connect"
     \/ tpc' = "loop" /\ UNCHANGED <<fdtab, state, tfd>>
  /\ UNCHANGED <<sock, opened, ctrl_running, tx_run, tsnap, tconn, ctrl, app>>

(* connect() returns                                                        *)
FailedFds_Leak(f) == {}
FailedFds(f) == {f}

tx_connected ==
  /\ tpc = "connect"
  /\ ConnectResult(tfd, "up")
  /\ tpc' = "publish"
  /\ UNCHANGED <<fdtab, sock, opened, ctrl_running, tx_run, tfd, tsnap, tconn, ctrl, app>>

tx_connect_failed ==
  /\ tpc = "connect"
  /\ Close(FailedFds(tfd))
  /\ tfd' = -1
  /\ tpc' = "loop"
  /\ UNCHANGED <<sock, opened, ctrl_running, tx_run, tsnap, tconn, ctrl, app>>

tx_publish ==
  /\ tpc = "publish"
  /\ Publish(tfd)
  /\ tfd' = -1
  /\ tpc' = "read"
  /\ UNCHANGED <<opened, ctrl_running, tx_run, tsnap, tconn, ctrl, app>>

(* The ring is empty, or a chunk was read and tcp_send_chunk takes its      *)
(* snapshot of ctx->sock.                                                   *)
tx_ring_empty ==
  /\ tpc = "read"
  /\ tpc' = "loop"
  /\ UNCHANGED <<net, opened, ctrl_running, tx_run, tfd, tsnap, tconn, ctrl, app>>

tx_snapshot ==
  /\ tpc = "read"
  /\ IF sock < 0
     THEN tpc' = "loop" /\ UNCHANGED <<tsnap, tconn>>
     ELSE tpc' = "send" /\ tsnap' = sock /\ tconn' = fdtab[sock]
  /\ UNCHANGED <<net, opened, ctrl_running, tx_run, tfd, ctrl, app>>

(* send() begins: from here it works on the connection the number names now *)
tx_send_begin ==
  /\ tpc = "send"
  /\ tconn' = fdtab[tsnap]
  /\ tpc' = "sending"
  /\ UNCHANGED <<net, opened, ctrl_running, tx_run, tfd, tsnap, ctrl, app>>

(* send() returns: a part, all of the chunk, or EAGAIN on a good connection *)
tx_send_end ==
  /\ tpc = "sending"
  /\ IF Live(tconn)
     THEN \/ tpc' = "send" /\ UNCHANGED <<tsnap, tconn>>
          \/ tpc' = "loop" /\ tsnap' = -1 /\ tconn' = None
     ELSE tpc' = "error" /\ UNCHANGED <<tsnap, tconn>>
  /\ UNCHANGED <<net, opened, ctrl_running, tx_run, tfd, ctrl, app>>

tx_send_error ==
  /\ tpc = "error"
  /\ tcp_close_if(tsnap)
  /\ tsnap' = -1 /\ tconn' = None
  /\ tpc' = "loop"
  /\ UNCHANGED <<opened, ctrl_running, tx_run, tfd, ctrl, app>>

-----------------------------------------------------------------------------
(* The control task: esp_audio_pcm_read and tcp_read.                       *)
ctrl_loop ==
  /\ cpc = "loop"
  /\ IF ~ctrl_running
     THEN cpc' = "off" /\ UNCHANGED <<csnap, cconn>>
     ELSE /\ opened                 \* otherwise the read returns -1 at once
          /\ cpc' = "get" /\ UNCHANGED <<csnap, cconn>>
  /\ UNCHANGED <<net, opened, ctrl_running, tx_run, tx, app>>

ctrl_snapshot ==
  /\ cpc = "get"
  /\ IF sock < 0
     THEN cpc' = "loop" /\ UNCHANGED <<csnap, cconn>>
     ELSE cpc' = "recv" /\ csnap' = sock /\ cconn' = fdtab[sock]
  /\ UNCHANGED <<net, opened, ctrl_running, tx_run, tx, app>>

ctrl_recv_begin ==
  /\ cpc = "recv"
  /\ cconn' = fdtab[csnap]
  /\ cpc' = "receiving"
  /\ UNCHANGED <<net, opened, ctrl_running, tx_run, csnap, tx, app>>

(* recv() returns bytes or times out, or reports the end of the connection. *)
ctrl_recv_end_TimeoutFails ==
  /\ cpc = "receiving"
  /\ \/ Live(cconn) /\ cpc' = "loop" /\ csnap' = -1 /\ cconn' = None
     \/ cpc' = "error" /\ UNCHANGED <<csnap, cconn>>
  /\ UNCHANGED <<net, opened, ctrl_running, tx_run, tx, app>>
ctrl_recv_end ==
  /\ cpc = "receiving"
  /\ IF Live(cconn)
     THEN cpc' = "loop" /\ csnap' = -1 /\ cconn' = None
     ELSE cpc' = "error" /\ UNCHANGED <<csnap, cconn>>
  /\ UNCHANGED <<net, opened, ctrl_running, tx_run, tx, app>>

ctrl_recv_error ==
  /\ cpc = "error"
  /\ tcp_close_if(csnap)
  /\ csnap' = -1 /\ cconn' = None
  /\ cpc' = "loop"
  /\ UNCHANGED <<opened, ctrl_running, tx_run, tx, app>>

-----------------------------------------------------------------------------
(* The application task.  It brings up the network before it opens: "before *)
(* esp_audio_pcm_open()" is what README.md asks for.                        *)
app_net_init ==
  /\ mpc = "idle" /\ ~net_up
  /\ net_up' = TRUE
  /\ UNCHANGED <<net, opened, ctrl_running, tx_run, tx, ctrl, mpc, mfd>>

(* esp_audio_pcm_open: tcp_connect, and when that has returned, opened.     *)
open_socket ==
  /\ mpc = "idle" /\ ~opened
  /\ \E f \in Fd : Socket(f) /\ mfd' = f
  /\ mpc' = "connect"
  /\ UNCHANGED <<sock, opened, ctrl_running, tx_run, tx, ctrl, net_up>>

open_connected ==
  /\ mpc = "connect"
  /\ ConnectResult(mfd, "up")
  /\ mpc' = "publish"
  /\ UNCHANGED <<fdtab, sock, opened, ctrl_running, tx_run, tx, ctrl, mfd, net_up>>

open_connect_failed ==
  /\ mpc = "connect"
  /\ Close(FailedFds(mfd))
  /\ mfd' = -1
  /\ mpc' = "idle"
  /\ UNCHANGED <<sock, opened, ctrl_running, tx_run, tx, ctrl, net_up>>

open_publish ==
  /\ mpc = "publish"
  /\ Publish(mfd)
  /\ mfd' = -1
  /\ mpc' = "opened"
  /\ UNCHANGED <<opened, ctrl_running, tx_run, tx, ctrl, net_up>>

esp_audio_pcm_opened ==
  /\ mpc = "opened"
  /\ opened' = TRUE
  /\ mpc' = "idle"
  /\ UNCHANGED <<net, ctrl_running, tx_run, tx, ctrl, mfd, net_up>>

esp_audio_pcm_ctrl_start ==
  /\ mpc = "idle" /\ ~ctrl_running
  /\ ctrl_running' = TRUE
  /\ cpc' = "loop"
  /\ UNCHANGED <<net, opened, tx_run, tx, csnap, cconn, app>>

(* esp_audio_pcm_close, by itself or from delete: tcp_close, then opened.   *)
esp_audio_pcm_close ==
  /\ MayClose
  /\ mpc = "idle" /\ opened
  /\ tcp_close_socket
  /\ mpc' = "closed"
  /\ UNCHANGED <<opened, ctrl_running, tx_run, tx, ctrl, mfd, net_up>>

esp_audio_pcm_closed ==
  /\ mpc \in {"closed", "delete_closed"}
  /\ opened' = FALSE
  /\ mpc' = IF mpc = "closed" THEN "idle" ELSE "deinit"
  /\ UNCHANGED <<net, ctrl_running, tx_run, tx, ctrl, mfd, net_up>>

(* esp_audio_pcm_delete: ctrl_stop and its wait, close, tcp_deinit.         *)
delete_ctrl_stop ==
  /\ mpc = "idle"
  /\ ctrl_running' = FALSE
  /\ mpc' = "stopping"
  /\ UNCHANGED <<net, opened, tx_run, tx, ctrl, mfd, net_up>>

delete_close ==
  /\ mpc = "stopping" /\ cpc = "off"
  /\ IF opened
     THEN tcp_close_socket /\ mpc' = "delete_closed"
     ELSE mpc' = "deinit" /\ UNCHANGED net
  /\ UNCHANGED <<opened, ctrl_running, tx_run, tx, ctrl, mfd, net_up>>

deinit_stop ==
  /\ mpc = "deinit"
  /\ tx_run' = FALSE
  /\ mpc' = "deinit_close"
  /\ UNCHANGED <<net, opened, ctrl_running, tx, ctrl, mfd, net_up>>

deinit_close ==
  /\ mpc = "deinit_close"
  /\ tcp_close_socket
  /\ mpc' = "deinit_wait"
  /\ UNCHANGED <<opened, ctrl_running, tx_run, tx, ctrl, mfd, net_up>>

(* The wait for tx_task to become NULL gives up after 2 s.  Only a task     *)
(* inside connect() or the send loop can be that late.                      *)
StillBusy_Never == FALSE
StillBusy == tpc \in {"connect", "send", "sending"}
deinit_free ==
  /\ mpc = "deinit_wait"
  /\ tpc = "done" \/ StillBusy
  /\ mpc' = "freed"
  /\ UNCHANGED <<net, opened, ctrl_running, tx_run, tx, ctrl, mfd, net_up>>

-----------------------------------------------------------------------------
(* A connection in use breaks: reset, server restart, WiFi loss.            *)
Break ==
  /\ \E c \in Conn : state[c] = "up" /\ state' = [state EXCEPT ![c] = "dead"]
  /\ UNCHANGED <<fdtab, sock, opened, ctrl_running, tx_run, tx, ctrl, app>>

(* The context is gone: nothing further is described.                       *)
Done == mpc = "freed" /\ UNCHANGED vars

Tx ==
  \/ tx_loop \/ tx_ensure_connected \/ tx_socket \/ tx_connect_failed \/ tx_publish
  \/ tx_ring_empty
  \/ tx_send_begin \/ tx_send_end \/ tx_send_error
Ctrl ==
  \/ ctrl_loop \/ ctrl_snapshot
  \/ ctrl_recv_begin \/ ctrl_recv_end \/ ctrl_recv_error
Open ==
  \/ open_socket \/ open_connected \/ open_connect_failed
  \/ open_publish \/ esp_audio_pcm_opened
Delete == delete_close \/ deinit_stop \/ deinit_close \/ deinit_free

Next ==
  \/ mpc # "freed" /\ (Tx \/ tx_connected \/ tx_snapshot \/ Break)
  \/ Ctrl
  \/ app_net_init \/ Open
  \/ esp_audio_pcm_ctrl_start \/ esp_audio_pcm_close \/ esp_audio_pcm_closed
  \/ delete_ctrl_stop \/ Delete
  \/ Done

(* The tasks are scheduled, blocking calls return, a call of the API goes   *)
(* on once begun, and a server dialled for ever answers.  While the handle  *)
(* is open a producer keeps writing; nothing can be sent while it is not.   *)
Fairness ==
  /\ WF_vars(mpc # "freed" /\ Tx)
  /\ WF_vars(Ctrl)
  /\ WF_vars(open_connected \/ open_connect_failed \/ open_publish \/ esp_audio_pcm_opened)
  /\ WF_vars(Delete \/ esp_audio_pcm_closed)
  /\ SF_vars(mpc # "freed" /\ tx_socket /\ tpc' = "connect")
  /\ SF_vars(mpc # "freed" /\ tx_connected)
  /\ SF_vars(mpc # "freed" /\ opened /\ tx_snapshot)

Spec == Init /\ [][Next]_vars /\ Fairness

-----------------------------------------------------------------------------
TypeOK ==
  /\ fdtab \in [Fd -> Conn \cup {None}]
  /\ state \in [Conn -> {"half", "up", "dead", "closed"}]
  /\ sock \in Fd \cup {-1}
  /\ net_up \in BOOLEAN
  /\ opened \in BOOLEAN /\ ctrl_running \in BOOLEAN /\ tx_run \in BOOLEAN
  /\ tpc \in {"loop", "ensure", "dial", "connect", "publish", "read", "send", "sending", "error", "done"}
  /\ tfd \in Fd \cup {-1} /\ tsnap \in Fd \cup {-1} /\ tconn \in Conn \cup {None}
  /\ cpc \in {"off", "loop", "get", "recv", "receiving", "error"}
  /\ csnap \in Fd \cup {-1} /\ cconn \in Conn \cup {None}
  /\ mpc \in {"idle", "connect", "publish", "opened", "closed", "stopping",
              "delete_closed", "deinit", "deinit_close", "deinit_wait", "freed"}
  /\ mfd \in Fd \cup {-1}

(* A task holds a descriptor of its own exactly while it is in tcp_connect. *)
HeldWhileConnecting ==
  /\ tfd # -1 <=> tpc \in {"connect", "publish"}
  /\ mfd # -1 <=> mpc \in {"connect", "publish"}

(* Every open descriptor has exactly one owner: ctx->sock, or the task that *)
(* is connecting it.  None leaks and none is closed by two tasks, however   *)
(* open, reconnect, errors and close interleave.                            *)
OwnedOnce ==
  /\ OpenFds = {sock, tfd, mfd} \ {-1}
  /\ sock # -1 => sock \notin {tfd, mfd}
  /\ tfd # -1 => tfd # mfd

(* ctx->sock, and the descriptor about to become it, is never half-open or  *)
(* closed.                                                                  *)
Connects(f) == fdtab[f] # None /\ state[fdtab[f]] \in {"up", "dead"}
SockIsConnected ==
  /\ sock >= 0 => Connects(sock)
  /\ tpc = "publish" => Connects(tfd)
  /\ mpc = "publish" => Connects(mfd)

(* lwIP: open descriptors name different connections, none of them closed.  *)
TableConsistent ==
  /\ \A f, g \in OpenFds : fdtab[f] = fdtab[g] => f = g
  /\ \A c \in Conn : state[c] # "closed" <=> \E f \in OpenFds : fdtab[f] = c

(* A connection that is installed while the transmit task dials is one that *)
(* open() has made and no close has taken down since.                       *)
OpenMadeOne == mpc = "opened" \/ (opened /\ mpc \notin {"closed", "delete_closed"})
InstalledWhileDialing ==
  tpc \in {"dial", "connect", "publish"} /\ sock # -1 => OpenMadeOne

(* open() only connects while the handle is closed, and close() has an open *)
(* one to close.                                                            *)
OpenOnlyWhenClosed ==
  /\ mpc \in {"connect", "publish", "opened"} => ~opened
  /\ mpc \in {"closed", "delete_closed"} => opened

SocketInv ==
  /\ TypeOK /\ HeldWhileConnecting /\ OwnedOnce /\ SockIsConnected
  /\ TableConsistent /\ InstalledWhileDialing /\ OpenOnlyWhenClosed

(* All of this as one connection that two tasks work on: which calls may    *)
(* find their connection gone or replaced, and who may take down which.     *)
(* (A task that failed on a connection just being made is on an old one.)   *)
Link == IF sock = -1 THEN "none" ELSE IF Live(fdtab[sock]) THEN "up" ELSE "broken"
View(in, failed, c) ==
  IF ~in THEN "out"
  ELSE IF sock # -1 /\ fdtab[sock] = c /\ ~(failed /\ Live(c)) THEN "own" ELSE "old"
TxView   == View(tpc \in {"send", "sending", "error"}, tpc = "error", tconn)
CtrlView == View(cpc \in {"recv", "receiving", "error"}, cpc = "error", cconn)
Phase ==
  IF mpc = "opened" THEN "opening"
  ELSE IF mpc \in {"closed", "delete_closed"} THEN "closing"
  ELSE IF opened THEN "open" ELSE "closed"
Connection == INSTANCE PcmLink WITH
  phase <- Phase, link <- Link,
  view <- [u \in {"tx", "ctrl"} |-> IF u = "tx" THEN TxView ELSE CtrlView]
ConnectionSpec == Connection!Spec

(* The transport never needs more than two descriptors at once.             *)
TwoDescriptors == Cardinality(OpenFds) <= 2

(* If connections stop breaking, an open device is connected again sooner   *)
(* or later (README: "TCP: auto-reconnect on next esp_audio_pcm_write()     *)
(* after server restart"), whoever closed the last one, unless it is closed *)
(* first: nobody notices that a connection of a closed handle is dead.      *)
Connected == sock >= 0 /\ Live(fdtab[sock])
Reconnects == <>[][~Break]_vars => (opened ~> (Connected \/ ~opened))

(* esp_audio_pcm_delete returns, even when connect or send blocks.          *)
DeleteReturns == mpc = "stopping" ~> mpc = "freed"

-----------------------------------------------------------------------------
(* What the code says of itself and does not do.                            *)

(* tcp_close_if "prevents a read/send error from tearing down a socket that *)
(* the TX task has meanwhile replaced with a fresh connection".             *)
FreshConnectionKept ==
  [][/\ cpc = "error" /\ cpc' = "loop" /\ sock >= 0 /\ sock' = -1
     => fdtab[sock] = cconn]_vars

(* esp_audio_pcm_delete, "Stop control task, close, uninstall driver, and   *)
(* free instance", frees what nobody uses any more.                         *)
FreedWhenUnused == mpc = "freed" => tpc = "done"

(* ... and closes: a transmit task that ended by itself has left no         *)
(* connection open.  It may have published one after tcp_deinit closed.     *)
ClosedWhenFreed == mpc = "freed" /\ tpc = "done" => OpenFds = {}
=============================================================================
