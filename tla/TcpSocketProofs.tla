--------------------------- MODULE TcpSocketProofs ---------------------------
(***************************************************************************)
(* Proofs about TcpSocket for every number of descriptors and connection   *)
(* identities: its safety invariant SocketInv, that the transport never    *)
(* holds more than two descriptors, and that it implements PcmLink.        *)
(***************************************************************************)
EXTENDS TcpSocket, FiniteSetTheorems, TLAPS

(* A task that works on a snapshot of ctx->sock has one: tcp_get_sock       *)
(* returned a descriptor, or the caller went back.                          *)
SnapshotTaken ==
  /\ tpc \in {"send", "sending", "error"} => tsnap \in Fd
  /\ cpc \in {"recv", "receiving", "error"} => csnap \in Fd

IInv == SocketInv /\ SnapshotTaken

(* What lwIP's tables look like, without who owns the descriptors.          *)
Tables ==
  /\ fdtab \in [Fd -> Conn \cup {None}]
  /\ state \in [Conn -> {"half", "up", "dead", "closed"}]
  /\ TableConsistent

LEMMA Constants == /\ Fd \subseteq Nat /\ None \notin Conn /\ -1 \notin Fd
                   /\ {1, 2, 3, 4} \subseteq Conn
  BY SocketAssumption DEF SocketAssumption, Fd, Conn, None

-----------------------------------------------------------------------------
(* What the calls of lwIP do to its tables.                                 *)

(* close() removes the descriptors it is given, and no other.               *)
LEMMA CloseFacts ==
  ASSUME Tables, NEW fds \in SUBSET Fd, Close(fds)
  PROVE  /\ Tables'
         /\ OpenFds' = OpenFds \ fds
         /\ \A g \in OpenFds \ fds : Connects(g) => Connects(g)'
<1>1. fdtab' \in [Fd -> Conn \cup {None}] /\ state' \in [Conn -> {"half", "up", "dead", "closed"}]
  BY DEF Close, Tables
<1>2. OpenFds' = OpenFds \ fds
  BY DEF Close, OpenFds
<1>3. \A g \in OpenFds \ fds : fdtab'[g] = fdtab[g] /\ fdtab[g] \in Conn
  BY DEF Close, OpenFds, Tables
<1>4. \A g \in OpenFds \ fds : state'[fdtab[g]] = state[fdtab[g]]
  <2> SUFFICES ASSUME NEW g \in OpenFds \ fds, NEW f \in fds, fdtab[f] = fdtab[g]
               PROVE  FALSE
    BY <1>3 DEF Close, OpenFds
  <2>1. f \in OpenFds
    BY <1>3, Constants DEF OpenFds
  <2> QED
    BY <1>3, <2>1 DEF Tables, TableConsistent
<1>5. \A f, g \in OpenFds' : fdtab'[f] = fdtab'[g] => f = g
  BY <1>2, <1>3 DEF Tables, TableConsistent
<1>6. ASSUME NEW c \in Conn
      PROVE  state'[c] # "closed" <=> \E f \in OpenFds' : fdtab'[f] = c
  <2>1. CASE \E f \in fds : fdtab[f] = c
    <3>1. state'[c] = "closed"
      BY <2>1 DEF Close
    <3>2. PICK f \in fds : fdtab[f] = c
      BY <2>1
    <3>3. f \in OpenFds
      BY <3>2, Constants DEF OpenFds
    <3> QED
      BY <1>2, <1>3, <3>1, <3>2, <3>3 DEF Tables, TableConsistent
  <2>2. CASE ~ \E f \in fds : fdtab[f] = c
    <3>1. state'[c] = state[c]
      BY <2>2 DEF Close
    <3> QED
      BY <1>2, <1>3, <2>2, <3>1 DEF Tables, TableConsistent
  <2> QED
    BY <2>1, <2>2
<1> QED
  BY <1>1, <1>2, <1>3, <1>4, <1>5, <1>6 DEF Tables, TableConsistent, Connects

(* A connection that is open changes state: connect() returns, or it breaks. *)
LEMMA StateFacts ==
  ASSUME Tables, NEW c \in Conn, NEW r \in {"up", "dead"}, state[c] # "closed",
         fdtab' = fdtab, state' = [state EXCEPT ![c] = r]
  PROVE  /\ Tables'
         /\ OpenFds' = OpenFds
         /\ \A g \in OpenFds : Connects(g) \/ fdtab[g] = c => Connects(g)'
<1>1. OpenFds' = OpenFds
  BY DEF OpenFds
<1>2. state' \in [Conn -> {"half", "up", "dead", "closed"}]
  BY DEF Tables
<1>3. \A g \in OpenFds : fdtab[g] \in Conn /\ fdtab[g] # None
  BY DEF OpenFds, Tables
<1>4. \A d \in Conn : state'[d] # "closed" <=> state[d] # "closed"
  BY DEF Tables
<1>5. Tables'
  BY <1>1, <1>2, <1>4 DEF Tables, TableConsistent
<1>6. \A g \in OpenFds : Connects(g) \/ fdtab[g] = c => Connects(g)'
  BY <1>3 DEF Connects, Tables
<1> QED
  BY <1>1, <1>5, <1>6

(* With at most one descriptor open, some identity is neither open nor      *)
(* remembered by a task, so socket() has one to give out.                   *)
LEMMA NewConnFacts ==
  ASSUME IInv, NEW x, OpenFds \subseteq {x}
  PROVE  NewConn \in Conn /\ state[NewConn] = "closed" /\ NewConn \notin {tconn, cconn}
<1>1. PICK c \in Conn : c # fdtab[x] /\ c # tconn /\ c # cconn
  BY Constants
<1>2. state[c] = "closed"
  BY <1>1 DEF IInv, SocketInv, TableConsistent
<1>3. \E d \in Conn : state[d] = "closed" /\ d \notin {tconn, cconn}
  BY <1>1, <1>2
<1> QED
  BY <1>3 DEF NewConn

(* socket() opens a descriptor that was free.                               *)
LEMMA SocketFacts ==
  ASSUME IInv, NEW x, OpenFds \subseteq {x}, NEW f \in Fd, Socket(f)
  PROVE  /\ Tables'
         /\ f \notin OpenFds
         /\ OpenFds' = OpenFds \cup {f}
         /\ \A g \in OpenFds : Connects(g) => Connects(g)'
<1> DEFINE n == NewConn
<1>1. n \in Conn /\ state[n] = "closed"
  BY NewConnFacts
<1>2. fdtab' = [fdtab EXCEPT ![f] = n] /\ state' = [state EXCEPT ![n] = "half"]
  BY DEF Socket
<1> HIDE DEF n
<1>3. Tables
  BY DEF IInv, SocketInv, TypeOK, Tables
<1>4. f \notin OpenFds
  BY DEF Socket, LowestFree, Free, OpenFds
<1>5. \A g \in OpenFds : fdtab[g] \in Conn /\ fdtab[g] # n /\ state[fdtab[g]] # "closed"
  BY <1>1, <1>3 DEF OpenFds, Tables, TableConsistent
<1>6. OpenFds' = OpenFds \cup {f}
  BY <1>1, <1>2, <1>3, Constants DEF OpenFds, Tables
<1>7. fdtab'[f] = n /\ \A g \in OpenFds : fdtab'[g] = fdtab[g]
  BY <1>2, <1>3, <1>4 DEF OpenFds, Tables
<1>8. state'[n] = "half" /\ \A c \in Conn \ {n} : state'[c] = state[c]
  BY <1>1, <1>2, <1>3 DEF Tables
<1>9. \A g, h \in OpenFds' : fdtab'[g] = fdtab'[h] => g = h
  BY <1>3, <1>5, <1>6, <1>7 DEF Tables, TableConsistent
<1>10. \A c \in Conn : state'[c] # "closed" <=> \E g \in OpenFds' : fdtab'[g] = c
  BY <1>3, <1>5, <1>6, <1>7, <1>8 DEF Tables, TableConsistent
<1>11. fdtab' \in [Fd -> Conn \cup {None}] /\ state' \in [Conn -> {"half", "up", "dead", "closed"}]
  BY <1>1, <1>2, <1>3 DEF Tables
<1>12. \A g \in OpenFds : Connects(g) => Connects(g)'
  BY <1>5, <1>7, <1>8 DEF Connects
<1> QED
  BY <1>4, <1>6, <1>9, <1>10, <1>11, <1>12 DEF Tables, TableConsistent

-----------------------------------------------------------------------------
LEMMA InitIInv == Init => IInv
<1> SUFFICES ASSUME Init PROVE IInv
  OBVIOUS
<1>1. OpenFds = {}
  BY DEF Init, OpenFds
<1>2. TableConsistent
  BY <1>1 DEF Init, TableConsistent
<1>3. TypeOK
  BY Constants DEF Init, TypeOK
<1> QED
  BY <1>1, <1>2, <1>3, Constants
     DEF Init, IInv, SocketInv, HeldWhileConnecting, OwnedOnce, SockIsConnected,
         InstalledWhileDialing, OpenMadeOne, OpenOnlyWhenClosed, SnapshotTaken

(* Steps that leave lwIP, the descriptors a task connects and opened alone. *)
Quiet ==
  \/ tx_loop \/ tx_ensure_connected \/ tx_snapshot \/ tx_ring_empty
  \/ tx_send_begin \/ tx_send_end
  \/ ctrl_loop \/ ctrl_snapshot \/ ctrl_recv_begin \/ ctrl_recv_end
  \/ app_net_init \/ esp_audio_pcm_ctrl_start
  \/ delete_ctrl_stop \/ deinit_stop \/ deinit_free

LEMMA QuietStep ==
  ASSUME IInv, Quiet
  PROVE  IInv'
<1> USE DEF IInv, SocketInv, net, tx, ctrl, app
<1>1. fdtab' = fdtab /\ state' = state /\ sock' = sock /\ tfd' = tfd /\ mfd' = mfd /\ opened' = opened
  BY DEF Quiet, tx_loop, tx_ensure_connected, tx_snapshot, tx_ring_empty, tx_send_begin,
         tx_send_end, ctrl_loop, ctrl_snapshot, ctrl_recv_begin, ctrl_recv_end,
         app_net_init, esp_audio_pcm_ctrl_start, delete_ctrl_stop, deinit_stop, deinit_free
<1>2. TableConsistent' /\ OwnedOnce'
  BY <1>1 DEF TableConsistent, OwnedOnce, OpenFds
<1>3. HeldWhileConnecting' /\ SockIsConnected' /\ OpenOnlyWhenClosed' /\ InstalledWhileDialing'
  BY <1>1, Constants
     DEF HeldWhileConnecting, SockIsConnected, Connects, OpenOnlyWhenClosed,
         InstalledWhileDialing, OpenMadeOne, TypeOK, Quiet,
         tx_loop, tx_ensure_connected, tx_snapshot, tx_ring_empty, tx_send_begin,
         tx_send_end, ctrl_loop, ctrl_snapshot, ctrl_recv_begin, ctrl_recv_end,
         app_net_init, esp_audio_pcm_ctrl_start, delete_ctrl_stop, deinit_stop, deinit_free
<1>4. fdtab[sock] \in Conn \cup {None} \/ sock = -1
  BY DEF TypeOK
<1>5. \A f \in Fd : fdtab[f] \in Conn \cup {None}
  BY DEF TypeOK
<1>6. CASE tx_loop
  BY <1>1, <1>2, <1>3, <1>4, <1>5, <1>6, Constants DEF TypeOK, SnapshotTaken, tx_loop
<1>7. CASE tx_ensure_connected
  BY <1>1, <1>2, <1>3, <1>4, <1>5, <1>7, Constants DEF TypeOK, SnapshotTaken, tx_ensure_connected
<1>8. CASE tx_snapshot
  BY <1>1, <1>2, <1>3, <1>4, <1>5, <1>8, Constants DEF TypeOK, SnapshotTaken, tx_snapshot
<1>9. CASE tx_ring_empty
  BY <1>1, <1>2, <1>3, <1>4, <1>5, <1>9, Constants DEF TypeOK, SnapshotTaken, tx_ring_empty
<1>10. CASE tx_send_begin
  BY <1>1, <1>2, <1>3, <1>4, <1>5, <1>10, Constants DEF TypeOK, SnapshotTaken, tx_send_begin
<1>11. CASE tx_send_end
  BY <1>1, <1>2, <1>3, <1>4, <1>5, <1>11, Constants DEF TypeOK, SnapshotTaken, tx_send_end
<1>12. CASE ctrl_loop
  BY <1>1, <1>2, <1>3, <1>4, <1>5, <1>12, Constants DEF TypeOK, SnapshotTaken, ctrl_loop
<1>13. CASE ctrl_snapshot
  BY <1>1, <1>2, <1>3, <1>4, <1>5, <1>13, Constants DEF TypeOK, SnapshotTaken, ctrl_snapshot
<1>14. CASE ctrl_recv_begin
  BY <1>1, <1>2, <1>3, <1>4, <1>5, <1>14, Constants DEF TypeOK, SnapshotTaken, ctrl_recv_begin
<1>15. CASE ctrl_recv_end
  BY <1>1, <1>2, <1>3, <1>4, <1>5, <1>15, Constants DEF TypeOK, SnapshotTaken, ctrl_recv_end
<1>16. CASE app_net_init
  BY <1>1, <1>2, <1>3, <1>4, <1>5, <1>16, Constants DEF TypeOK, SnapshotTaken, app_net_init
<1>17. CASE esp_audio_pcm_ctrl_start
  BY <1>1, <1>2, <1>3, <1>4, <1>5, <1>17, Constants DEF TypeOK, SnapshotTaken, esp_audio_pcm_ctrl_start
<1>18. CASE delete_ctrl_stop
  <2>1. ctrl_running' \in BOOLEAN
    BY <1>18, Zenon DEF delete_ctrl_stop
  <2>2. TypeOK'
    BY <1>18, <2>1 DEF TypeOK, delete_ctrl_stop
  <2> QED
    BY <1>2, <1>3, <1>18, <2>2 DEF SnapshotTaken, delete_ctrl_stop
<1>19. CASE deinit_stop
  <2>1. tx_run' \in BOOLEAN
    BY <1>19, Zenon DEF deinit_stop
  <2>2. TypeOK'
    BY <1>19, <2>1 DEF TypeOK, deinit_stop
  <2> QED
    BY <1>2, <1>3, <1>19, <2>2 DEF SnapshotTaken, deinit_stop
<1>20. CASE deinit_free
  BY <1>1, <1>2, <1>3, <1>4, <1>5, <1>20, Constants DEF TypeOK, SnapshotTaken, deinit_free
<1> QED
  BY <1>6, <1>7, <1>8, <1>9, <1>10, <1>11, <1>12, <1>13,
     <1>14, <1>15, <1>16, <1>17, <1>18, <1>19, <1>20 DEF Quiet

(* connect() returns, or a connection breaks.                               *)
LEMMA StateStep ==
  ASSUME IInv, tx_connected \/ open_connected \/ Break
  PROVE  IInv'
<1>1. Tables
  BY DEF IInv, SocketInv, TypeOK, Tables
<1>2. \A f \in OpenFds : fdtab[f] \in Conn /\ state[fdtab[f]] # "closed"
  BY <1>1, Constants DEF Tables, TableConsistent, OpenFds
<1>3. /\ tfd # -1 => tfd \in OpenFds
      /\ mfd # -1 => mfd \in OpenFds
      /\ sock # -1 => sock \in OpenFds
  BY DEF IInv, SocketInv, OwnedOnce
<1>4. PICK c \in Conn, r \in {"up", "dead"} :
        /\ state[c] # "closed"
        /\ fdtab' = fdtab /\ state' = [state EXCEPT ![c] = r]
        /\ tx_connected => c = fdtab[tfd]
        /\ open_connected => c = fdtab[mfd]
  <2>1. CASE tx_connected
    <3>1. tfd \in OpenFds /\ ~open_connected
      BY <1>3, <2>1 DEF tx_connected, open_connected, app, IInv, SocketInv, HeldWhileConnecting
    <3> QED
      BY <1>2, <2>1, <3>1 DEF tx_connected, ConnectResult
  <2>2. CASE open_connected
    <3>1. mfd \in OpenFds /\ ~tx_connected
      BY <1>3, <2>2 DEF tx_connected, open_connected, tx, IInv, SocketInv, HeldWhileConnecting
    <3> QED
      BY <1>2, <2>2, <3>1 DEF open_connected, ConnectResult
  <2>3. CASE Break
    BY <2>3 DEF Break, tx_connected, open_connected, tx, app
  <2> QED
    BY <2>1, <2>2, <2>3
<1>5. Tables' /\ OpenFds' = OpenFds /\ \A g \in OpenFds : Connects(g) \/ fdtab[g] = c => Connects(g)'
  BY <1>1, <1>4, StateFacts
<1>6. /\ sock' = sock /\ opened' = opened /\ tfd' = tfd /\ mfd' = mfd
      /\ ctrl' = ctrl /\ tsnap' = tsnap /\ tconn' = tconn /\ net_up' = net_up
      /\ ctrl_running' = ctrl_running /\ tx_run' = tx_run
      /\ tpc' = tpc \/ (tx_connected /\ tpc = "connect" /\ tpc' = "publish")
      /\ mpc' = mpc \/ (open_connected /\ mpc = "connect" /\ mpc' = "publish")
  BY DEF tx_connected, open_connected, Break, tx, ctrl, app
<1>7. TypeOK'
  BY <1>5, <1>6 DEF IInv, SocketInv, TypeOK, Tables, ctrl
<1>8. SockIsConnected'
  <2>1. sock' >= 0 => Connects(sock)'
    BY <1>3, <1>5, <1>6, Constants DEF IInv, SocketInv, SockIsConnected, TypeOK, Connects
  <2>2. tpc' = "publish" => Connects(tfd)'
    BY <1>3, <1>4, <1>5, <1>6
       DEF IInv, SocketInv, SockIsConnected, HeldWhileConnecting, Connects
  <2>3. mpc' = "publish" => Connects(mfd)'
    BY <1>3, <1>4, <1>5, <1>6
       DEF IInv, SocketInv, SockIsConnected, HeldWhileConnecting, Connects
  <2> QED
    BY <2>1, <2>2, <2>3 DEF SockIsConnected
<1> QED
  BY <1>5, <1>6, <1>7, <1>8
     DEF IInv, SocketInv, Tables, HeldWhileConnecting, OwnedOnce, InstalledWhileDialing, OpenMadeOne,
         OpenOnlyWhenClosed, SnapshotTaken, ctrl

(* socket(): at most one other descriptor is open, since the transmit task  *)
(* dials only with none installed and open() runs only while closed.        *)
LEMMA SocketStep ==
  ASSUME IInv, tx_socket \/ open_socket
  PROVE  IInv'
<1> USE DEF IInv, SocketInv
<1>1. CASE tx_socket /\ tpc' = "loop"
  <2>1. /\ fdtab' = fdtab /\ state' = state /\ sock' = sock /\ opened' = opened /\ tfd' = tfd
        /\ tpc = "dial" /\ ctrl_running' = ctrl_running /\ tx_run' = tx_run
        /\ tsnap' = tsnap /\ tconn' = tconn /\ ctrl' = ctrl /\ app' = app
    BY <1>1 DEF tx_socket
  <2>2. TableConsistent' /\ OwnedOnce' /\ SockIsConnected'
    BY <1>1, <2>1 DEF TableConsistent, OwnedOnce, SockIsConnected, OpenFds, Connects, app
  <2>3. TypeOK'
    BY <1>1, <2>1 DEF TypeOK, ctrl, app
  <2> QED
    BY <1>1, <2>1, <2>2, <2>3
       DEF HeldWhileConnecting, InstalledWhileDialing, OpenMadeOne, OpenOnlyWhenClosed, SnapshotTaken,
           ctrl, app
<1>2. CASE tx_socket /\ tpc' # "loop"
  <2>1. PICK f \in Fd : Socket(f) /\ tfd' = f /\ tpc' = "connect"
    BY <1>2 DEF tx_socket
  <2>2. /\ tpc = "dial" /\ tfd = -1 /\ sock' = sock /\ opened' = opened
        /\ ctrl_running' = ctrl_running /\ tx_run' = tx_run
        /\ tsnap' = tsnap /\ tconn' = tconn /\ ctrl' = ctrl /\ app' = app
    BY <1>2 DEF tx_socket, HeldWhileConnecting
  <2>3. OpenFds \subseteq {IF mfd # -1 THEN mfd ELSE sock}
    BY <2>2 DEF OwnedOnce, HeldWhileConnecting, InstalledWhileDialing, OpenMadeOne, OpenOnlyWhenClosed
  <2>4. /\ Tables' /\ f \notin OpenFds /\ OpenFds' = OpenFds \cup {f}
        /\ \A g \in OpenFds : Connects(g) => Connects(g)'
    BY <2>1, <2>3, SocketFacts
  <2>5. TypeOK'
    BY <2>1, <2>2, <2>4 DEF TypeOK, Tables, ctrl, app
  <2>6. OwnedOnce'
    BY <2>1, <2>2, <2>4, Constants DEF OwnedOnce, app
  <2>7. SockIsConnected'
    BY <2>1, <2>2, <2>4, Constants
       DEF SockIsConnected, OwnedOnce, HeldWhileConnecting, TypeOK, Connects, app
  <2> QED
    BY <2>1, <2>2, <2>4, <2>5, <2>6, <2>7, Constants
       DEF HeldWhileConnecting, InstalledWhileDialing, OpenMadeOne, OpenOnlyWhenClosed, SnapshotTaken,
           Tables, ctrl, app
<1>3. CASE open_socket
  <2>1. PICK f \in Fd : Socket(f) /\ mfd' = f
    BY <1>3 DEF open_socket
  <2>2. /\ mpc = "idle" /\ ~opened /\ mpc' = "connect" /\ mfd = -1 /\ sock' = sock /\ opened' = opened
        /\ ctrl_running' = ctrl_running /\ tx_run' = tx_run
        /\ tx' = tx /\ ctrl' = ctrl /\ net_up' = net_up
    BY <1>3 DEF open_socket, HeldWhileConnecting
  <2>3. OpenFds \subseteq {IF tfd # -1 THEN tfd ELSE sock}
    BY <2>2 DEF OwnedOnce, HeldWhileConnecting, InstalledWhileDialing, OpenMadeOne
  <2>4. /\ Tables' /\ f \notin OpenFds /\ OpenFds' = OpenFds \cup {f}
        /\ \A g \in OpenFds : Connects(g) => Connects(g)'
    BY <2>1, <2>3, SocketFacts
  <2>5. TypeOK'
    BY <2>1, <2>2, <2>4 DEF TypeOK, Tables, tx, ctrl
  <2>6. OwnedOnce'
    BY <2>1, <2>2, <2>4, Constants DEF OwnedOnce, tx
  <2>7. SockIsConnected'
    BY <2>1, <2>2, <2>4, Constants
       DEF SockIsConnected, OwnedOnce, HeldWhileConnecting, TypeOK, Connects, tx
  <2> QED
    BY <2>1, <2>2, <2>4, <2>5, <2>6, <2>7, Constants
       DEF HeldWhileConnecting, InstalledWhileDialing, OpenMadeOne, OpenOnlyWhenClosed, SnapshotTaken,
           Tables, tx, ctrl
<1> QED
  BY <1>1, <1>2, <1>3

(* connect() fails: the task closes the descriptor it was connecting.       *)
LEMMA ConnectFailedStep ==
  ASSUME IInv, tx_connect_failed \/ open_connect_failed
  PROVE  IInv'
<1> USE DEF IInv, SocketInv
<1>1. Tables
  BY DEF TypeOK, Tables
<1>2. CASE tx_connect_failed
  <2>1. /\ tfd \in Fd /\ Close({tfd}) /\ tfd' = -1 /\ tpc = "connect" /\ tpc' = "loop"
        /\ sock' = sock /\ opened' = opened /\ ctrl_running' = ctrl_running
        /\ tx_run' = tx_run /\ tsnap' = tsnap /\ tconn' = tconn /\ ctrl' = ctrl /\ app' = app
    BY <1>2 DEF tx_connect_failed, FailedFds, HeldWhileConnecting, TypeOK
  <2>2. /\ Tables' /\ OpenFds' = OpenFds \ {tfd}
        /\ \A g \in OpenFds \ {tfd} : Connects(g) => Connects(g)'
    BY <1>1, <2>1, CloseFacts
  <2>3. TypeOK'
    BY <2>1, <2>2 DEF TypeOK, Tables, ctrl, app
  <2>4. OwnedOnce'
    BY <2>1, <2>2, Constants DEF OwnedOnce, app
  <2>5. SockIsConnected'
    BY <2>1, <2>2, Constants
       DEF SockIsConnected, OwnedOnce, HeldWhileConnecting, TypeOK, Connects, app
  <2> QED
    BY <2>1, <2>2, <2>3, <2>4, <2>5
       DEF HeldWhileConnecting, InstalledWhileDialing, OpenMadeOne, OpenOnlyWhenClosed, SnapshotTaken,
           Tables, ctrl, app
<1>3. CASE open_connect_failed
  <2>1. /\ mfd \in Fd /\ Close({mfd}) /\ mfd' = -1 /\ mpc = "connect" /\ mpc' = "idle"
        /\ sock' = sock /\ opened' = opened /\ ctrl_running' = ctrl_running
        /\ tx_run' = tx_run /\ tx' = tx /\ ctrl' = ctrl /\ net_up' = net_up
    BY <1>3 DEF open_connect_failed, FailedFds, HeldWhileConnecting, TypeOK
  <2>2. /\ Tables' /\ OpenFds' = OpenFds \ {mfd}
        /\ \A g \in OpenFds \ {mfd} : Connects(g) => Connects(g)'
    BY <1>1, <2>1, CloseFacts
  <2>3. TypeOK'
    BY <2>1, <2>2 DEF TypeOK, Tables, tx, ctrl
  <2>4. OwnedOnce'
    BY <2>1, <2>2, Constants DEF OwnedOnce, tx
  <2>5. SockIsConnected'
    BY <2>1, <2>2, Constants
       DEF SockIsConnected, OwnedOnce, HeldWhileConnecting, TypeOK, Connects, tx
  <2> QED
    BY <2>1, <2>2, <2>3, <2>4, <2>5
       DEF HeldWhileConnecting, InstalledWhileDialing, OpenMadeOne, OpenOnlyWhenClosed, SnapshotTaken,
           Tables, tx, ctrl
<1> QED
  BY <1>2, <1>3

(* tcp_connect ends: a stale ctx->sock is closed and the descriptor that    *)
(* was being connected takes its place.                                     *)
LEMMA PublishStep ==
  ASSUME IInv, tx_publish \/ open_publish
  PROVE  IInv'
<1> USE DEF IInv, SocketInv
<1>1. Tables
  BY DEF TypeOK, Tables
<1>2. CASE tx_publish
  <2>1. /\ tfd \in Fd /\ Close({sock} \cap Fd) /\ sock' = tfd /\ tfd' = -1
        /\ tpc = "publish" /\ tpc' = "read"
        /\ opened' = opened /\ ctrl_running' = ctrl_running
        /\ tx_run' = tx_run /\ tsnap' = tsnap /\ tconn' = tconn /\ ctrl' = ctrl /\ app' = app
    BY <1>2 DEF tx_publish, Publish, Stale, HeldWhileConnecting, TypeOK
  <2>2. /\ Tables' /\ OpenFds' = OpenFds \ {sock}
        /\ \A g \in OpenFds \ {sock} : Connects(g) => Connects(g)'
    BY <1>1, <2>1, CloseFacts DEF OpenFds
  <2>3. TypeOK'
    BY <2>1, <2>2 DEF TypeOK, Tables, ctrl, app
  <2>4. OwnedOnce'
    BY <2>1, <2>2, Constants DEF OwnedOnce, app
  <2>5. SockIsConnected'
    BY <2>1, <2>2, Constants
       DEF SockIsConnected, OwnedOnce, HeldWhileConnecting, TypeOK, Connects, app
  <2> QED
    BY <2>1, <2>2, <2>3, <2>4, <2>5
       DEF HeldWhileConnecting, InstalledWhileDialing, OpenMadeOne, OpenOnlyWhenClosed, SnapshotTaken,
           Tables, ctrl, app
<1>3. CASE open_publish
  <2>1. /\ mfd \in Fd /\ Close({sock} \cap Fd) /\ sock' = mfd /\ mfd' = -1
        /\ mpc = "publish" /\ mpc' = "opened"
        /\ opened' = opened /\ ctrl_running' = ctrl_running
        /\ tx_run' = tx_run /\ tx' = tx /\ ctrl' = ctrl /\ net_up' = net_up
    BY <1>3 DEF open_publish, Publish, Stale, HeldWhileConnecting, TypeOK
  <2>2. /\ Tables' /\ OpenFds' = OpenFds \ {sock}
        /\ \A g \in OpenFds \ {sock} : Connects(g) => Connects(g)'
    BY <1>1, <2>1, CloseFacts DEF OpenFds
  <2>3. TypeOK'
    BY <2>1, <2>2 DEF TypeOK, Tables, tx, ctrl
  <2>4. OwnedOnce'
    BY <2>1, <2>2, Constants DEF OwnedOnce, tx
  <2>5. SockIsConnected'
    BY <2>1, <2>2, Constants
       DEF SockIsConnected, OwnedOnce, HeldWhileConnecting, TypeOK, Connects, tx
  <2> QED
    BY <2>1, <2>2, <2>3, <2>4, <2>5
       DEF HeldWhileConnecting, InstalledWhileDialing, OpenMadeOne, OpenOnlyWhenClosed, SnapshotTaken,
           Tables, tx, ctrl
<1> QED
  BY <1>2, <1>3

(* ctx->sock is closed, or left alone by a task whose snapshot is stale.    *)
LEMMA CloseStep ==
  ASSUME IInv,
         \/ tx_send_error \/ ctrl_recv_error
         \/ esp_audio_pcm_close \/ delete_close \/ deinit_close
  PROVE  IInv'
<1> USE DEF IInv, SocketInv
<1>1. Tables
  BY DEF TypeOK, Tables
<1>2. tcp_close_socket \/ UNCHANGED net
  BY DEF tx_send_error, ctrl_recv_error, tcp_close_if, esp_audio_pcm_close, delete_close,
         deinit_close
<1>3. /\ Tables' /\ sock' \in Fd \cup {-1}
      /\ sock' = -1 \/ sock' = sock
      /\ OpenFds' = {sock', tfd, mfd} \ {-1}
      /\ \A g \in OpenFds' : Connects(g) => Connects(g)'
  <2>1. CASE tcp_close_socket
    <3>1. /\ Tables' /\ OpenFds' = OpenFds \ {sock} /\ sock' = -1
          /\ \A g \in OpenFds \ {sock} : Connects(g) => Connects(g)'
      BY <1>1, <2>1, CloseFacts DEF OpenFds, tcp_close_socket
    <3> QED
      BY <3>1 DEF OwnedOnce
  <2>2. CASE UNCHANGED net
    BY <1>1, <2>2 DEF OwnedOnce, Tables, TableConsistent, OpenFds, Connects, net, TypeOK
  <2> QED
    BY <1>2, <2>1, <2>2
<1>4. /\ tfd' = tfd /\ mfd' = mfd /\ net_up' = net_up /\ tx_run' = tx_run
      /\ ctrl_running' = ctrl_running
      /\ tpc' = tpc \/ (tpc = "error" /\ tpc' = "loop")
      /\ (tsnap' = tsnap /\ tconn' = tconn) \/ (tpc' = "loop" /\ tsnap' = -1 /\ tconn' = None)
      /\ cpc' = cpc \/ (cpc = "error" /\ cpc' = "loop")
      /\ (csnap' = csnap /\ cconn' = cconn) \/ (cpc' = "loop" /\ csnap' = -1 /\ cconn' = None)
      /\ opened' = opened
      /\ \/ mpc' = mpc
         \/ /\ mpc \in {"idle", "stopping", "deinit", "deinit_close"}
            /\ mpc' \in {"closed", "delete_closed", "deinit", "deinit_wait"}
            /\ mpc' \in {"closed", "delete_closed"} => opened /\ sock' = -1
  BY DEF tx_send_error, ctrl_recv_error, esp_audio_pcm_close, delete_close, deinit_close,
         tcp_close_socket, tx, ctrl, app
<1>5. TypeOK'
  BY <1>3, <1>4 DEF TypeOK, Tables
<1>6. OwnedOnce' /\ HeldWhileConnecting'
  BY <1>3, <1>4 DEF OwnedOnce, HeldWhileConnecting
<1>7. SockIsConnected'
  BY <1>3, <1>4, Constants DEF SockIsConnected, HeldWhileConnecting, TypeOK, Connects
<1>8. InstalledWhileDialing' /\ OpenOnlyWhenClosed' /\ SnapshotTaken'
  BY <1>3, <1>4 DEF InstalledWhileDialing, OpenMadeOne, OpenOnlyWhenClosed, SnapshotTaken
<1> QED
  BY <1>3, <1>5, <1>6, <1>7, <1>8 DEF Tables

(* open() and close() tell the handle what they have done.                  *)
LEMMA TellStep ==
  ASSUME IInv, esp_audio_pcm_opened \/ esp_audio_pcm_closed
  PROVE  IInv'
<1> USE DEF IInv, SocketInv
<1>1. /\ UNCHANGED <<fdtab, state, sock, ctrl_running, tx_run, tpc, tfd, tsnap, tconn,
                     cpc, csnap, cconn, mfd, net_up>>
      /\ \/ mpc = "opened" /\ mpc' = "idle" /\ opened' = TRUE
         \/ mpc \in {"closed", "delete_closed"} /\ mpc' \in {"idle", "deinit"} /\ opened' = FALSE
  BY DEF esp_audio_pcm_opened, esp_audio_pcm_closed, net, tx, ctrl
<1>2. TableConsistent' /\ OwnedOnce'
  BY <1>1 DEF TableConsistent, OwnedOnce, OpenFds
<1>3. TypeOK'
  <2>1. opened' \in BOOLEAN
    BY <1>1, Zenon
  <2> QED
    BY <1>1, <2>1 DEF TypeOK
<1> QED
  BY <1>1, <1>2, <1>3 DEF HeldWhileConnecting, SockIsConnected, Connects,
       InstalledWhileDialing, OpenMadeOne, OpenOnlyWhenClosed, SnapshotTaken

LEMMA StutterStep ==
  ASSUME IInv, UNCHANGED vars
  PROVE  IInv'
<1>1. UNCHANGED <<fdtab, state, sock, opened, ctrl_running, tx_run, tpc, tfd, tsnap, tconn,
                  cpc, csnap, cconn, mpc, mfd, net_up>>
  BY DEF vars, net, tx, ctrl, app
<1>2. TypeOK' /\ TableConsistent' /\ OwnedOnce'
  BY <1>1 DEF IInv, SocketInv, TypeOK, TableConsistent, OwnedOnce, OpenFds
<1> QED
  BY <1>1, <1>2 DEF IInv, SocketInv, HeldWhileConnecting, SockIsConnected, Connects,
                    InstalledWhileDialing, OpenMadeOne, OpenOnlyWhenClosed, SnapshotTaken

LEMMA NextIInv == IInv /\ [Next]_vars => IInv'
  BY QuietStep, StateStep, SocketStep, ConnectFailedStep, PublishStep, CloseStep, TellStep, StutterStep
     DEF Next, Tx, Ctrl, Open, Delete, Done, Quiet

LEMMA SpecIInv == Spec => []IInv
  BY InitIInv, NextIInv, PTL DEF Spec

(* However open, reconnect, send and receive errors, close and delete       *)
(* interleave: every open descriptor is ctx->sock or the one a task is      *)
(* connecting, never both, ctx->sock is a connection that was established,  *)
(* and nothing is closed twice or left behind.                              *)
THEOREM SocketSafe == Spec => []SocketInv
<1>1. IInv => SocketInv
  BY DEF IInv
<1> QED
  BY <1>1, SpecIInv, PTL

(* The transport uses at most two of lwIP's descriptors: the installed one  *)
(* and a task's, or the two tasks'.                                         *)
THEOREM SocketBounded == Spec => []TwoDescriptors
<1>1. ASSUME IInv PROVE TwoDescriptors
  <2>1. \E x, y : OpenFds \subseteq {x, y}
    BY <1>1 DEF IInv, SocketInv, OwnedOnce, HeldWhileConnecting, InstalledWhileDialing, OpenMadeOne,
                OpenOnlyWhenClosed
  <2>2. PICK x, y : OpenFds \subseteq {x, y}
    BY <2>1
  <2>3. IsFiniteSet({x, y}) /\ Cardinality({x, y}) <= 2
    <3>1. IsFiniteSet({x}) /\ Cardinality({x}) = 1
      BY FS_Singleton
    <3>2. {x, y} = {x} \cup {y}
      OBVIOUS
    <3> QED
      BY <3>1, <3>2, FS_AddElement
  <2>4. Cardinality(OpenFds) <= Cardinality({x, y})
    BY <2>2, <2>3, FS_Subset
  <2> QED
    BY <2>2, <2>3, <2>4, FS_Subset, FS_CardinalityType DEF TwoDescriptors
<1> QED
  BY <1>1, SpecIInv, PTL

-----------------------------------------------------------------------------
(* ConnectionSpec.  While a task remembers a connection, its number names   *)
(* that connection until it is closed, and the identity is not given to     *)
(* another.  A control task runs or is being waited for; after that wait    *)
(* there is none, and the handle is closed.                                 *)
InTx   == tpc \in {"send", "sending", "error"}
InCtrl == cpc \in {"recv", "receiving", "error"}
NameIn(table, states, snap, c) == c = None \/ states[c] = "closed" \/ table[snap] = c
Names(snap, c) == NameIn(fdtab, state, snap, c)
Remembered == (InTx => Names(tsnap, tconn)) /\ (InCtrl => Names(csnap, cconn))
Deleting ==
  /\ mpc \in {"deinit", "deinit_close", "deinit_wait", "freed"} => ~opened /\ cpc = "off"
  /\ mpc = "delete_closed" => cpc = "off"
  /\ cpc # "off" => ctrl_running \/ mpc = "stopping"
LinkInv == IInv /\ Remembered /\ Deleting

(* What the calls of lwIP do to what a task remembers.                      *)
LEMMA CloseNames ==
  ASSUME Tables, NEW fds \in SUBSET Fd, Close(fds),
         NEW snap \in Fd, NEW c \in Conn \cup {None}, NameIn(fdtab, state, snap, c)
  PROVE  NameIn(fdtab', state', snap, c)
<1>1. CASE c # None /\ state[c] # "closed"
  <2>1. fdtab[snap] = c /\ c \in Conn
    BY <1>1 DEF NameIn
  <2>2. CASE snap \in fds
    BY <2>1, <2>2 DEF Close, NameIn
  <2>3. CASE snap \notin fds
    BY <2>1, <2>3 DEF Close, NameIn
  <2> QED
    BY <2>2, <2>3
<1>2. CASE c # None /\ state[c] = "closed"
  BY <1>2 DEF Close, NameIn
<1> QED
  BY <1>1, <1>2 DEF NameIn

LEMMA SocketNames ==
  ASSUME IInv, NEW x, OpenFds \subseteq {x}, NEW f \in Fd, Socket(f),
         NEW snap \in Fd, NEW c \in {tconn, cconn}, NameIn(fdtab, state, snap, c)
  PROVE  NameIn(fdtab', state', snap, c)
<1> DEFINE n == NewConn
<1>1. n \in Conn /\ n # c
  BY NewConnFacts
<1>2. fdtab' = [fdtab EXCEPT ![f] = n] /\ state' = [state EXCEPT ![n] = "half"]
  BY DEF Socket
<1> HIDE DEF n
<1>3. fdtab[f] = None
  BY DEF Socket, LowestFree, Free
<1>4. c \in Conn \cup {None} /\ state \in [Conn -> {"half", "up", "dead", "closed"}]
      /\ fdtab \in [Fd -> Conn \cup {None}]
  BY DEF IInv, SocketInv, TypeOK
<1>5. c # None => state'[c] = state[c]
  BY <1>1, <1>2, <1>4
<1>6. snap # f => fdtab'[snap] = fdtab[snap]
  BY <1>2, <1>4
<1> QED
  BY <1>3, <1>5, <1>6 DEF NameIn

(* A step that takes no snapshot keeps what is remembered, if it keeps each *)
(* of the names.                                                            *)
LEMMA NamesKept ==
  ASSUME IInv, Remembered,
         \A snap \in Fd : \A c \in {tconn, cconn} :
           NameIn(fdtab, state, snap, c) => NameIn(fdtab', state', snap, c),
         InTx' => InTx /\ UNCHANGED <<tsnap, tconn>>,
         InCtrl' => InCtrl /\ UNCHANGED <<csnap, cconn>>
  PROVE  Remembered'
<1>1. (InTx => tsnap \in Fd) /\ (InCtrl => csnap \in Fd)
  BY DEF IInv, SnapshotTaken, InTx, InCtrl
<1>2. (InTx => NameIn(fdtab, state, tsnap, tconn)) /\ (InCtrl => NameIn(fdtab, state, csnap, cconn))
  BY DEF Remembered, Names
<1>3. (InTx => NameIn(fdtab', state', tsnap, tconn)) /\ (InCtrl => NameIn(fdtab', state', csnap, cconn))
  BY <1>1, <1>2
<1>4. (InTx' => NameIn(fdtab', state', tsnap', tconn')) /\ (InCtrl' => NameIn(fdtab', state', csnap', cconn'))
  BY <1>3
<1> QED
  BY <1>4 DEF Remembered, Names

LEMMA QuietNames ==
  ASSUME IInv, Remembered, Quiet
  PROVE  Remembered'
<1>1. fdtab' = fdtab /\ state' = state
  BY DEF Quiet, tx_loop, tx_ensure_connected, tx_snapshot, tx_ring_empty, tx_send_begin,
         tx_send_end, ctrl_loop, ctrl_snapshot, ctrl_recv_begin, ctrl_recv_end,
         app_net_init, esp_audio_pcm_ctrl_start, delete_ctrl_stop, deinit_stop, deinit_free,
         net, app
<1>2. \A snap, c : NameIn(fdtab', state', snap, c) <=> NameIn(fdtab, state, snap, c)
  BY <1>1 DEF NameIn
<1>3. \A snap : NameIn(fdtab, state, snap, fdtab[snap])
  BY DEF NameIn
<1>4. CASE tx_snapshot \/ tx_send_begin
  <2>1. UNCHANGED ctrl /\ (InTx' => tconn' = fdtab[tsnap'])
    BY <1>4 DEF tx_snapshot, tx_send_begin, InTx
  <2> QED
    BY <1>2, <1>3, <2>1 DEF Remembered, Names, InCtrl, InTx, ctrl
<1>5. CASE ctrl_snapshot \/ ctrl_recv_begin
  <2>1. UNCHANGED tx /\ (InCtrl' => cconn' = fdtab[csnap'])
    BY <1>5 DEF ctrl_snapshot, ctrl_recv_begin, InCtrl
  <2> QED
    BY <1>2, <1>3, <2>1 DEF Remembered, Names, InCtrl, InTx, tx
<1>6. CASE \/ tx_loop \/ tx_ensure_connected \/ tx_ring_empty \/ tx_send_end
           \/ ctrl_loop \/ ctrl_recv_end
           \/ app_net_init \/ esp_audio_pcm_ctrl_start
           \/ delete_ctrl_stop \/ deinit_stop \/ deinit_free
  <2>1. /\ InTx' => InTx /\ UNCHANGED <<tsnap, tconn>>
        /\ InCtrl' => InCtrl /\ UNCHANGED <<csnap, cconn>>
    BY <1>6 DEF tx_loop, tx_ensure_connected, tx_ring_empty, tx_send_end, ctrl_loop,
                ctrl_recv_end, app_net_init, esp_audio_pcm_ctrl_start, delete_ctrl_stop,
                deinit_stop, deinit_free, InTx, InCtrl, tx, ctrl
  <2> QED
    BY <1>2, <2>1, NamesKept
<1> QED
  BY <1>4, <1>5, <1>6 DEF Quiet

LEMMA TableNames ==
  ASSUME IInv, IInv', Remembered,
         \/ tx_connected \/ open_connected \/ Break
         \/ tx_socket \/ open_socket \/ tx_connect_failed \/ open_connect_failed
         \/ tx_publish \/ open_publish \/ tx_send_error \/ ctrl_recv_error
         \/ esp_audio_pcm_close \/ delete_close \/ deinit_close
  PROVE  Remembered'
<1>1. /\ InTx' => InTx /\ UNCHANGED <<tsnap, tconn>>
      /\ InCtrl' => InCtrl /\ UNCHANGED <<csnap, cconn>>
  BY DEF tx_connected, open_connected, Break, tx_socket, open_socket, tx_connect_failed,
         open_connect_failed, tx_publish, open_publish, tx_send_error, ctrl_recv_error,
         esp_audio_pcm_close, delete_close, deinit_close, InTx, InCtrl, tx, ctrl
<1>2. SUFFICES ASSUME NEW snap \in Fd, NEW c \in {tconn, cconn}, NameIn(fdtab, state, snap, c)
               PROVE  NameIn(fdtab', state', snap, c)
  BY <1>1, NamesKept
<1>3. Tables /\ c \in Conn \cup {None}
  BY DEF IInv, SocketInv, TypeOK, Tables
<1>4. CASE UNCHANGED <<fdtab, state>>
  BY <1>2, <1>4 DEF NameIn
<1>5. ASSUME NEW fds \in SUBSET Fd, Close(fds)
      PROVE  NameIn(fdtab', state', snap, c)
  BY <1>2, <1>3, <1>5, CloseNames
<1>6. CASE tx_connected \/ open_connected \/ Break
  <2>1. fdtab' = fdtab
    BY <1>6 DEF tx_connected, open_connected, Break
  <2>2. \A d \in Conn : state'[d] # "closed" <=> state[d] # "closed"
    BY <2>1 DEF IInv, SocketInv, TableConsistent, OpenFds
  <2> QED
    BY <1>2, <1>3, <2>1, <2>2 DEF NameIn
<1>7. CASE tx_socket
  <2>1. CASE tpc' = "loop"
    <3>1. UNCHANGED <<fdtab, state>>
      BY <1>7, <2>1 DEF tx_socket
    <3> QED
      BY <1>4, <3>1
  <2>2. CASE tpc' # "loop"
    <3>1. PICK f \in Fd : Socket(f)
      BY <1>7, <2>2 DEF tx_socket
    <3>2. OpenFds \subseteq {IF mfd # -1 THEN mfd ELSE sock}
      BY <1>7 DEF tx_socket, IInv, SocketInv, OwnedOnce, HeldWhileConnecting,
                  InstalledWhileDialing, OpenMadeOne, OpenOnlyWhenClosed
    <3> QED
      BY <1>2, <3>1, <3>2, SocketNames
  <2> QED
    BY <2>1, <2>2
<1>8. CASE open_socket
  <2>1. PICK f \in Fd : Socket(f)
    BY <1>8 DEF open_socket
  <2>2. OpenFds \subseteq {IF tfd # -1 THEN tfd ELSE sock}
    BY <1>8 DEF open_socket, IInv, SocketInv, OwnedOnce, HeldWhileConnecting,
                InstalledWhileDialing, OpenMadeOne
  <2> QED
    BY <1>2, <2>1, <2>2, SocketNames
<1>9. CASE tx_connect_failed \/ open_connect_failed
  <2>1. (tx_connect_failed => tfd \in Fd) /\ (open_connect_failed => mfd \in Fd)
    BY DEF tx_connect_failed, open_connect_failed, IInv, SocketInv, HeldWhileConnecting, TypeOK
  <2>2. \E fds \in SUBSET Fd : Close(fds)
    BY <1>9, <2>1 DEF tx_connect_failed, open_connect_failed, FailedFds
  <2> QED
    BY <1>5, <2>2
<1>10. CASE tx_publish \/ open_publish
  <2>1. \E fds \in SUBSET Fd : Close(fds)
    BY <1>10 DEF tx_publish, open_publish, Publish, Stale
  <2> QED
    BY <1>5, <2>1
<1>11. CASE \/ tx_send_error \/ ctrl_recv_error
            \/ esp_audio_pcm_close \/ delete_close \/ deinit_close
  <2>1. tcp_close_socket \/ UNCHANGED net
    BY <1>11 DEF tx_send_error, ctrl_recv_error, tcp_close_if, esp_audio_pcm_close,
                 delete_close, deinit_close
  <2>2. CASE tcp_close_socket
    <3>1. \E fds \in SUBSET Fd : Close(fds)
      BY <2>2 DEF tcp_close_socket
    <3> QED
      BY <1>5, <3>1
  <2>3. CASE UNCHANGED net
    BY <1>4, <2>3 DEF net
  <2> QED
    BY <2>1, <2>2, <2>3
<1> QED
  BY <1>6, <1>7, <1>8, <1>9, <1>10, <1>11

LEMMA TellNames ==
  ASSUME Remembered, esp_audio_pcm_opened \/ esp_audio_pcm_closed
  PROVE  Remembered'
  BY DEF esp_audio_pcm_opened, esp_audio_pcm_closed, net, tx, ctrl, Remembered, InTx, InCtrl,
         Names, NameIn

LEMMA StutterNames ==
  ASSUME Remembered, UNCHANGED vars
  PROVE  Remembered'
  BY DEF vars, net, tx, ctrl, Remembered, InTx, InCtrl, Names, NameIn

LEMMA NextDeleting ==
  ASSUME IInv, Deleting, [Next]_vars
  PROVE  Deleting'
<1> USE DEF Deleting, tx, ctrl, app
<1>1. CASE Tx \/ tx_connected \/ tx_snapshot \/ Break
  BY <1>1 DEF Tx, tx_loop, tx_ensure_connected, tx_socket, tx_connect_failed, tx_publish,
       tx_ring_empty, tx_send_begin, tx_send_end, tx_send_error, tx_connected, tx_snapshot, Break
<1>2. CASE Ctrl
  BY <1>2 DEF Ctrl, ctrl_loop, ctrl_snapshot, ctrl_recv_begin, ctrl_recv_end, ctrl_recv_error
<1>3. CASE \/ Open \/ app_net_init
           \/ esp_audio_pcm_ctrl_start \/ esp_audio_pcm_close \/ esp_audio_pcm_closed
  BY <1>3 DEF Open, open_socket, open_connected, open_connect_failed, open_publish,
       esp_audio_pcm_opened, app_net_init, esp_audio_pcm_ctrl_start, esp_audio_pcm_close,
       esp_audio_pcm_closed
<1>4. CASE delete_ctrl_stop \/ Delete
  BY <1>4 DEF delete_ctrl_stop, Delete, delete_close, deinit_stop, deinit_close, deinit_free,
       IInv, SocketInv, TypeOK
<1>5. CASE UNCHANGED vars
  BY <1>5 DEF vars
<1> QED
  BY <1>1, <1>2, <1>3, <1>4, <1>5 DEF Next, Done

LEMMA InitLinkInv == Init => LinkInv
  BY InitIInv DEF Init, LinkInv, Remembered, InTx, InCtrl, Deleting

LEMMA NextLinkInv == LinkInv /\ [Next]_vars => LinkInv'
<1> SUFFICES ASSUME LinkInv, [Next]_vars PROVE LinkInv'
  OBVIOUS
<1>1. IInv' /\ Deleting'
  BY NextIInv, NextDeleting DEF LinkInv
<1>2. Remembered'
  BY <1>1, QuietNames, TableNames, TellNames, StutterNames
     DEF LinkInv, Next, Tx, Ctrl, Open, Delete, Done, Quiet
<1> QED
  BY <1>1, <1>2 DEF LinkInv

(* What the tasks see of a step that does not touch the installed           *)
(* connection, and of one that closes or replaces it.                       *)
Untouched ==
  /\ sock' = sock
  /\ sock # -1 => fdtab'[sock] = fdtab[sock] /\ state'[fdtab[sock]] = state[fdtab[sock]]
Seen == <<Phase, Link, TxView, CtrlView>>

LEMMA ViewTypes ==
  /\ TxView \in {"out", "own", "old"} /\ TxView' \in {"out", "own", "old"}
  /\ CtrlView \in {"out", "own", "old"} /\ CtrlView' \in {"out", "own", "old"}
  /\ TxView = "own" \/ CtrlView = "own" => Link # "none"
  BY DEF TxView, CtrlView, View, Link

(* Only four steps change what the handle is in.                            *)
LEMMA SamePhase ==
  ASSUME \/ tx_loop \/ tx_ensure_connected \/ tx_ring_empty \/ tx_snapshot \/ tx_send_begin
         \/ tx_send_end \/ tx_send_error \/ tx_socket \/ tx_connected \/ tx_connect_failed
         \/ tx_publish
         \/ Ctrl \/ app_net_init \/ esp_audio_pcm_ctrl_start
         \/ open_socket \/ open_connected \/ open_connect_failed
         \/ delete_ctrl_stop \/ (delete_close /\ ~opened) \/ deinit_stop \/ deinit_close
         \/ deinit_free \/ Break \/ UNCHANGED vars
  PROVE  Phase' = Phase
<1>1. /\ opened' = opened
      /\ \/ mpc' = mpc
         \/ /\ mpc \notin {"opened", "closed", "delete_closed"}
            /\ mpc' \notin {"opened", "closed", "delete_closed"}
  BY DEF tx_loop, tx_ensure_connected, tx_ring_empty, tx_snapshot, tx_send_begin, tx_send_end,
         tx_send_error, tx_socket, tx_connected, tx_connect_failed, tx_publish, Ctrl, ctrl_loop,
         ctrl_snapshot, ctrl_recv_begin, ctrl_recv_end, ctrl_recv_error, app_net_init,
         esp_audio_pcm_ctrl_start, open_socket, open_connected, open_connect_failed,
         delete_ctrl_stop, delete_close, deinit_stop, deinit_close, deinit_free, Break, vars, app
<1> QED
  BY <1>1 DEF Phase

LEMMA UntouchedFacts ==
  ASSUME Untouched
  PROVE  /\ Link' = Link
         /\ UNCHANGED <<tpc, tconn>> => TxView' = TxView
         /\ UNCHANGED <<cpc, cconn>> => CtrlView' = CtrlView
<1>1. Link' = Link
  BY DEF Untouched, Link, Live
<1>2. ASSUME UNCHANGED <<tpc, tconn>> PROVE TxView' = TxView
  BY <1>2 DEF Untouched, TxView, View, Live
<1>3. ASSUME UNCHANGED <<cpc, cconn>> PROVE CtrlView' = CtrlView
  BY <1>3 DEF Untouched, CtrlView, View, Live
<1> QED
  BY <1>1, <1>2, <1>3

LEMMA ClosedFacts ==
  ASSUME tcp_close_socket
  PROVE  /\ Link' = "none"
         /\ UNCHANGED <<tpc, tconn>> => TxView' = IF TxView = "own" THEN "old" ELSE TxView
         /\ UNCHANGED <<cpc, cconn>> => CtrlView' = IF CtrlView = "own" THEN "old" ELSE CtrlView
  BY DEF tcp_close_socket, Link, TxView, CtrlView, View

(* Two views, in the terms of PcmLink.                                      *)
LEMMA Removes ==
  ASSUME Link' = "none",
         TxView' = IF TxView = "own" THEN "old" ELSE TxView,
         CtrlView' = IF CtrlView = "own" THEN "old" ELSE CtrlView
  PROVE  Connection!Remove
  BY ViewTypes DEF Connection!Remove, Connection!Views, Connection!User, Connection!Robbed

LEMMA Installs ==
  ASSUME Link' \in {"up", "broken"},
         \/ TxView' = IF TxView = "own" THEN "old" ELSE TxView
         \/ TxView = "old" /\ TxView' = "own",
         \/ CtrlView' = IF CtrlView = "own" THEN "old" ELSE CtrlView
         \/ CtrlView = "old" /\ CtrlView' = "own"
  PROVE  Connection!Install
  BY ViewTypes DEF Connection!Install, Connection!Views, Connection!User, Connection!Robbed,
                   Connection!MeetsNew

(* A descriptor that was connected apart is installed.  It names another    *)
(* connection than the one it takes the place of.                           *)
LEMMA PublishFacts ==
  ASSUME IInv, NEW f \in Fd, f # sock, f \in OpenFds, Connects(f), Publish(f)
  PROVE  /\ Link' \in {"up", "broken"}
         /\ UNCHANGED <<tpc, tconn>> =>
              \/ TxView' = IF TxView = "own" THEN "old" ELSE TxView
              \/ TxView = "old" /\ TxView' = "own"
         /\ UNCHANGED <<cpc, cconn>> =>
              \/ CtrlView' = IF CtrlView = "own" THEN "old" ELSE CtrlView
              \/ CtrlView = "old" /\ CtrlView' = "own"
<1>1. sock' = f /\ fdtab'[f] = fdtab[f] /\ f # -1
  BY Constants DEF Publish, Stale, Close
<1>2. sock # -1 => fdtab[sock] # fdtab[f]
  BY DEF IInv, SocketInv, OwnedOnce, TableConsistent
<1>3. Link' \in {"up", "broken"}
  BY <1>1 DEF Link
<1>4. ASSUME UNCHANGED <<tpc, tconn>>
      PROVE  \/ TxView' = IF TxView = "own" THEN "old" ELSE TxView
             \/ TxView = "old" /\ TxView' = "own"
  BY <1>1, <1>2, <1>4 DEF TxView, View
<1>5. ASSUME UNCHANGED <<cpc, cconn>>
      PROVE  \/ CtrlView' = IF CtrlView = "own" THEN "old" ELSE CtrlView
             \/ CtrlView = "old" /\ CtrlView' = "own"
  BY <1>1, <1>2, <1>5 DEF CtrlView, View
<1> QED
  BY <1>3, <1>4, <1>5

(* Steps that change neither the installed connection nor a view.           *)
LEMMA QuietRefines ==
  ASSUME Deleting,
         \/ tx_loop \/ tx_ensure_connected \/ tx_ring_empty
         \/ app_net_init \/ esp_audio_pcm_ctrl_start
         \/ delete_ctrl_stop \/ deinit_stop \/ deinit_free
         \/ ctrl_loop \/ UNCHANGED vars
  PROVE  UNCHANGED Seen
<1>1. Untouched
  BY DEF tx_loop, tx_ensure_connected, tx_ring_empty, app_net_init, esp_audio_pcm_ctrl_start,
         delete_ctrl_stop, deinit_stop, deinit_free, ctrl_loop, vars, net, app, Untouched
<1>2. TxView' = TxView
  <2>1. UNCHANGED <<tpc, tconn>> \/ (tpc \notin {"send", "sending", "error"} /\ tpc' \notin {"send", "sending", "error"})
    BY DEF tx_loop, tx_ensure_connected, tx_ring_empty, app_net_init, esp_audio_pcm_ctrl_start,
           delete_ctrl_stop, deinit_stop, deinit_free, ctrl_loop, vars, tx
  <2> QED
    BY <1>1, <2>1, UntouchedFacts DEF TxView, View
<1>3. CtrlView' = CtrlView
  <2>1. UNCHANGED <<cpc, cconn>> \/ (cpc \notin {"recv", "receiving", "error"} /\ cpc' \notin {"recv", "receiving", "error"})
    BY DEF tx_loop, tx_ensure_connected, tx_ring_empty, app_net_init, esp_audio_pcm_ctrl_start,
           delete_ctrl_stop, deinit_stop, deinit_free, ctrl_loop, vars, ctrl, Deleting
  <2> QED
    BY <1>1, <2>1, UntouchedFacts DEF CtrlView, View
<1> QED
  BY <1>1, <1>2, <1>3, UntouchedFacts, SamePhase DEF Seen, Ctrl

(* A call of one task, in the terms of PcmLink.                             *)
LEMMA TxCalls ==
  ASSUME UNCHANGED <<Phase, CtrlView>>
  PROVE  /\ UNCHANGED Link /\ Link # "none" /\ TxView # "own" /\ TxView' = "own"
              => Connection!Begin("tx")
         /\ UNCHANGED Link /\ TxView' = "out" /\ (TxView = "old" \/ (TxView = "own" /\ Link = "up"))
              => Connection!End("tx")
  BY DEF Connection!Begin, Connection!End

LEMMA CtrlCalls ==
  ASSUME UNCHANGED <<Phase, TxView>>
  PROVE  /\ UNCHANGED Link /\ Link # "none" /\ CtrlView # "own" /\ CtrlView' = "own"
              => Connection!Begin("ctrl")
         /\ UNCHANGED Link /\ CtrlView' = "out" /\ (CtrlView = "old" \/ (CtrlView = "own" /\ Link = "up"))
              => Connection!End("ctrl")
  BY DEF Connection!Begin, Connection!End

LEMMA TxFails ==
  ASSUME Phase' = Phase, Link' = "none", TxView' = "out",
         TxView = "old" \/ (TxView = "own" /\ Link = "broken"),
         CtrlView' = IF CtrlView = "own" THEN "old" ELSE CtrlView
  PROVE  Connection!Fail("tx")
  BY ViewTypes DEF Connection!Fail, Connection!Views, Connection!User, Connection!Robbed

LEMMA CtrlFails ==
  ASSUME Phase' = Phase, Link' = "none", CtrlView' = "out",
         CtrlView = "old" \/ (CtrlView = "own" /\ Link = "broken"),
         TxView' = IF TxView = "own" THEN "old" ELSE TxView
  PROVE  Connection!Fail("ctrl")
  BY ViewTypes DEF Connection!Fail, Connection!Views, Connection!User, Connection!Robbed

(* While it is on the installed connection, a task's number is ctx->sock.   *)
LEMMA OwnFacts ==
  ASSUME LinkInv
  PROVE  /\ TxView = "own" => /\ tsnap = sock /\ sock \in Fd /\ tconn = fdtab[sock]
                              /\ tpc = "error" => Link = "broken"
         /\ CtrlView = "own" => /\ csnap = sock /\ sock \in Fd /\ cconn = fdtab[sock]
                                /\ cpc = "error" => Link = "broken"
<1>1. /\ sock # -1 => /\ sock \in Fd /\ sock \in OpenFds /\ fdtab[sock] # None
                      /\ state[fdtab[sock]] \in {"up", "dead"}
      /\ \A f \in Fd : f \in OpenFds <=> fdtab[f] # None
      /\ \A f, g \in OpenFds : fdtab[f] = fdtab[g] => f = g
  BY Constants
     DEF LinkInv, IInv, SocketInv, TypeOK, OwnedOnce, SockIsConnected, Connects, OpenFds,
         TableConsistent
<1>2. ASSUME NEW snap \in Fd, NEW c, NameIn(fdtab, state, snap, c), sock # -1, fdtab[sock] = c
      PROVE  snap = sock
  <2>1. fdtab[snap] = fdtab[sock]
    BY <1>1, <1>2 DEF NameIn
  <2> QED
    BY <1>1, <1>2, <2>1
<1>3. (InTx => tsnap \in Fd) /\ (InCtrl => csnap \in Fd)
  BY DEF LinkInv, IInv, SnapshotTaken, InTx, InCtrl
<1>4. ASSUME TxView = "own"
      PROVE  /\ tsnap = sock /\ sock \in Fd /\ tconn = fdtab[sock]
             /\ tpc = "error" => Link = "broken"
  <2>1. InTx /\ sock # -1 /\ fdtab[sock] = tconn /\ ~(tpc = "error" /\ Live(tconn))
    BY <1>4 DEF TxView, View, InTx
  <2>2. NameIn(fdtab, state, tsnap, tconn)
    BY <2>1 DEF LinkInv, Remembered, Names
  <2>3. tsnap = sock
    BY <1>2, <1>3, <2>1, <2>2
  <2> QED
    BY <1>1, <2>1, <2>3 DEF Link
<1>5. ASSUME CtrlView = "own"
      PROVE  /\ csnap = sock /\ sock \in Fd /\ cconn = fdtab[sock]
             /\ cpc = "error" => Link = "broken"
  <2>1. InCtrl /\ sock # -1 /\ fdtab[sock] = cconn /\ ~(cpc = "error" /\ Live(cconn))
    BY <1>5 DEF CtrlView, View, InCtrl
  <2>2. NameIn(fdtab, state, csnap, cconn)
    BY <2>1 DEF LinkInv, Remembered, Names
  <2>3. csnap = sock
    BY <1>2, <1>3, <2>1, <2>2
  <2> QED
    BY <1>1, <2>1, <2>3 DEF Link
<1> QED
  BY <1>4, <1>5

(* The transmit task's calls.                                               *)
LEMMA TxRefines ==
  ASSUME LinkInv, tx_snapshot \/ tx_send_begin \/ tx_send_end \/ tx_send_error
  PROVE  \/ Connection!Begin("tx") \/ Connection!End("tx") \/ Connection!Fail("tx")
         \/ UNCHANGED Seen
<1>1. /\ UNCHANGED <<Phase, cpc, cconn>>
      /\ sock \in Fd \cup {-1}
  BY SamePhase DEF tx_snapshot, tx_send_begin, tx_send_end, tx_send_error, ctrl, LinkInv, IInv, SocketInv, TypeOK
<1>2. CASE tx_snapshot \/ tx_send_begin \/ tx_send_end
  <2>1. Untouched
    BY <1>2 DEF tx_snapshot, tx_send_begin, tx_send_end, net, Untouched
  <2>2. Link' = Link /\ CtrlView' = CtrlView
    BY <1>1, <2>1, UntouchedFacts
  <2>3. CASE tx_snapshot
    <3>1. CASE sock < 0
      <4>1. TxView' = TxView
        BY <2>3, <3>1 DEF tx_snapshot, TxView, View
      <4> QED
        BY <1>1, <2>2, <4>1 DEF Seen
    <3>2. CASE ~ (sock < 0)
      <4>1. TxView = "out" /\ TxView' = "own" /\ Link # "none"
        BY <1>1, <2>1, <2>3, <3>2, Constants
           DEF tx_snapshot, TxView, View, Link, Untouched
      <4> QED
        BY <1>1, <2>2, <4>1, TxCalls
    <3> QED
      BY <3>1, <3>2
  <2>4. CASE tx_send_begin
    <3>1. tpc = "send" /\ tpc' = "sending" /\ tconn' = fdtab[tsnap] /\ TxView # "out" /\ TxView' # "out"
      BY <2>4 DEF tx_send_begin, TxView, View
    <3>2. TxView = "own" => TxView' = "own"
      BY <2>1, <3>1, OwnFacts DEF TxView, View, Untouched
    <3>3. TxView' = "own" => Link # "none"
      BY <2>1, <2>2 DEF TxView, View, Link, Untouched
    <3> QED
      BY <1>1, <2>2, <3>1, <3>2, <3>3, TxCalls, ViewTypes DEF Seen
  <2>5. CASE tx_send_end
    <3>1. tpc = "sending"
      BY <2>5 DEF tx_send_end
    <3>2. CASE tpc' = "loop"
      <4>1. TxView' = "out" /\ TxView # "out" /\ Live(tconn)
        BY <2>5, <3>2 DEF tx_send_end, TxView, View
      <4>2. TxView = "own" => Link = "up"
        BY <4>1 DEF TxView, View, Link
      <4> QED
        BY <1>1, <2>2, <4>1, <4>2, TxCalls, ViewTypes
    <3>3. CASE tpc' # "loop"
      <4>1. TxView' = TxView
        BY <2>1, <2>5, <3>1, <3>3 DEF tx_send_end, TxView, View, Untouched, Live
      <4> QED
        BY <1>1, <2>2, <4>1 DEF Seen
    <3> QED
      BY <3>2, <3>3
  <2> QED
    BY <1>2, <2>3, <2>4, <2>5
<1>3. CASE tx_send_error
  <2>1. tpc = "error" /\ tpc' = "loop" /\ TxView # "out" /\ TxView' = "out"
    BY <1>3 DEF tx_send_error, TxView, View
  <2>2. CASE sock = tsnap
    <3>1. tcp_close_socket
      BY <1>3, <2>2 DEF tx_send_error, tcp_close_if, SameSocket
    <3> QED
      BY <1>1, <2>1, <3>1, ClosedFacts, OwnFacts, TxFails, ViewTypes
  <2>3. CASE sock # tsnap
    <3>1. Untouched
      BY <1>3, <2>3 DEF tx_send_error, tcp_close_if, SameSocket, net, Untouched
    <3>2. TxView = "old"
      BY <2>1, <2>3, OwnFacts, ViewTypes
    <3> QED
      BY <1>1, <2>1, <3>1, <3>2, UntouchedFacts, TxCalls
  <2> QED
    BY <2>2, <2>3
<1> QED
  BY <1>2, <1>3

(* The control task's calls.                                                *)
LEMMA CtrlRefines ==
  ASSUME LinkInv, ctrl_snapshot \/ ctrl_recv_begin \/ ctrl_recv_end \/ ctrl_recv_error
  PROVE  \/ Connection!Begin("ctrl") \/ Connection!End("ctrl") \/ Connection!Fail("ctrl")
         \/ UNCHANGED Seen
<1>1. /\ UNCHANGED <<Phase, tpc, tconn>>
      /\ sock \in Fd \cup {-1}
  BY SamePhase
     DEF Ctrl, ctrl_snapshot, ctrl_recv_begin, ctrl_recv_end, ctrl_recv_error, tx, LinkInv, IInv, SocketInv, TypeOK
<1>2. CASE ctrl_snapshot \/ ctrl_recv_begin \/ ctrl_recv_end
  <2>1. Untouched
    BY <1>2 DEF ctrl_snapshot, ctrl_recv_begin, ctrl_recv_end, net, Untouched
  <2>2. Link' = Link /\ TxView' = TxView
    BY <1>1, <2>1, UntouchedFacts
  <2>3. CASE ctrl_snapshot
    <3>1. CASE sock < 0
      <4>1. CtrlView' = CtrlView
        BY <2>3, <3>1 DEF ctrl_snapshot, CtrlView, View
      <4> QED
        BY <1>1, <2>2, <4>1 DEF Seen
    <3>2. CASE ~ (sock < 0)
      <4>1. CtrlView = "out" /\ CtrlView' = "own" /\ Link # "none"
        BY <1>1, <2>1, <2>3, <3>2, Constants
           DEF ctrl_snapshot, CtrlView, View, Link, Untouched
      <4> QED
        BY <1>1, <2>2, <4>1, CtrlCalls
    <3> QED
      BY <3>1, <3>2
  <2>4. CASE ctrl_recv_begin
    <3>1. cpc = "recv" /\ cpc' = "receiving" /\ cconn' = fdtab[csnap] /\ CtrlView # "out" /\ CtrlView' # "out"
      BY <2>4 DEF ctrl_recv_begin, CtrlView, View
    <3>2. CtrlView = "own" => CtrlView' = "own"
      BY <2>1, <3>1, OwnFacts DEF CtrlView, View, Untouched
    <3>3. CtrlView' = "own" => Link # "none"
      BY <2>1, <2>2 DEF CtrlView, View, Link, Untouched
    <3> QED
      BY <1>1, <2>2, <3>1, <3>2, <3>3, CtrlCalls, ViewTypes DEF Seen
  <2>5. CASE ctrl_recv_end
    <3>1. cpc = "receiving"
      BY <2>5 DEF ctrl_recv_end
    <3>2. CASE cpc' = "loop"
      <4>1. CtrlView' = "out" /\ CtrlView # "out" /\ Live(cconn)
        BY <2>5, <3>2 DEF ctrl_recv_end, CtrlView, View
      <4>2. CtrlView = "own" => Link = "up"
        BY <4>1 DEF CtrlView, View, Link
      <4> QED
        BY <1>1, <2>2, <4>1, <4>2, CtrlCalls, ViewTypes
    <3>3. CASE cpc' # "loop"
      <4>1. CtrlView' = CtrlView
        BY <2>1, <2>5, <3>1, <3>3 DEF ctrl_recv_end, CtrlView, View, Untouched, Live
      <4> QED
        BY <1>1, <2>2, <4>1 DEF Seen
    <3> QED
      BY <3>2, <3>3
  <2> QED
    BY <1>2, <2>3, <2>4, <2>5
<1>3. CASE ctrl_recv_error
  <2>1. cpc = "error" /\ cpc' = "loop" /\ CtrlView # "out" /\ CtrlView' = "out"
    BY <1>3 DEF ctrl_recv_error, CtrlView, View
  <2>2. CASE sock = csnap
    <3>1. tcp_close_socket
      BY <1>3, <2>2 DEF ctrl_recv_error, tcp_close_if, SameSocket
    <3> QED
      BY <1>1, <2>1, <3>1, ClosedFacts, OwnFacts, CtrlFails, ViewTypes
  <2>3. CASE sock # csnap
    <3>1. Untouched
      BY <1>3, <2>3 DEF ctrl_recv_error, tcp_close_if, SameSocket, net, Untouched
    <3>2. CtrlView = "old"
      BY <2>1, <2>3, OwnFacts, ViewTypes
    <3> QED
      BY <1>1, <2>1, <3>1, <3>2, UntouchedFacts, CtrlCalls
  <2> QED
    BY <2>2, <2>3
<1> QED
  BY <1>2, <1>3

(* The installed connection, and another descriptor beside it.              *)
LEMMA SockFacts ==
  ASSUME IInv
  PROVE  /\ sock \in Fd \cup {-1}
         /\ sock # -1 => sock \in OpenFds /\ sock \in Fd /\ fdtab[sock] \in Conn
         /\ \A f \in OpenFds : f # sock => sock = -1 \/ fdtab[f] # fdtab[sock]
  BY Constants DEF IInv, SocketInv, TypeOK, OwnedOnce, OpenFds, TableConsistent

LEMMA OtherConnects ==
  ASSUME IInv, NEW f \in OpenFds, f # sock, NEW r, ConnectResult(f, r), fdtab' = fdtab, sock' = sock
  PROVE  Untouched
<1>1. state \in [Conn -> {"half", "up", "dead", "closed"}]
  BY DEF IInv, SocketInv, TypeOK
<1> QED
  BY <1>1, SockFacts DEF ConnectResult, Untouched

LEMMA OtherCloses ==
  ASSUME IInv, NEW f \in OpenFds, f # sock, Close({f}), sock' = sock
  PROVE  Untouched
  BY SockFacts DEF Close, Untouched

LEMMA OtherOpens ==
  ASSUME IInv, NEW x, OpenFds \subseteq {x}, NEW f \in Fd, Socket(f), sock' = sock
  PROVE  Untouched
<1> DEFINE n == NewConn
<1>1. n \in Conn /\ state[n] = "closed"
  BY NewConnFacts
<1>2. fdtab' = [fdtab EXCEPT ![f] = n] /\ state' = [state EXCEPT ![n] = "half"] /\ f \notin OpenFds
  BY DEF Socket, LowestFree, Free, OpenFds
<1> HIDE DEF n
<1>3. sock # -1 => state[fdtab[sock]] # "closed"
  BY SockFacts DEF IInv, SocketInv, TableConsistent
<1>4. /\ fdtab \in [Fd -> Conn \cup {None}]
      /\ state \in [Conn -> {"half", "up", "dead", "closed"}]
  BY DEF IInv, SocketInv, TypeOK
<1> QED
  BY <1>1, <1>2, <1>3, <1>4, SockFacts DEF Untouched

(* Dialling, before the result is installed, is not seen.                   *)
LEMMA DialRefines ==
  ASSUME IInv,
         \/ tx_socket \/ tx_connected \/ tx_connect_failed
         \/ open_socket \/ open_connected \/ open_connect_failed
  PROVE  UNCHANGED Seen
<1> USE DEF IInv, SocketInv
<1>1. /\ tpc = "connect" => tfd \in OpenFds /\ tfd # sock
      /\ mpc = "connect" => mfd \in OpenFds /\ mfd # sock
  BY DEF OwnedOnce, HeldWhileConnecting
<1>2. Untouched
  <2>1. CASE tx_socket
    <3>1. CASE tpc' = "loop"
      BY <2>1, <3>1 DEF tx_socket, Untouched
    <3>2. CASE tpc' # "loop"
      <4>1. PICK f \in Fd : Socket(f)
        BY <2>1, <3>2 DEF tx_socket
      <4>2. OpenFds \subseteq {IF mfd # -1 THEN mfd ELSE sock}
        BY <2>1 DEF tx_socket, OwnedOnce, HeldWhileConnecting, InstalledWhileDialing, OpenMadeOne,
                    OpenOnlyWhenClosed
      <4>3. sock' = sock
        BY <2>1 DEF tx_socket
      <4> QED
        BY <4>1, <4>2, <4>3, OtherOpens
    <3> QED
      BY <3>1, <3>2
  <2>2. CASE open_socket
    <3>1. PICK f \in Fd : Socket(f)
      BY <2>2 DEF open_socket
    <3>2. OpenFds \subseteq {IF tfd # -1 THEN tfd ELSE sock}
      BY <2>2 DEF open_socket, OwnedOnce, HeldWhileConnecting, InstalledWhileDialing, OpenMadeOne
    <3>3. sock' = sock
      BY <2>2 DEF open_socket
    <3> QED
      BY <3>1, <3>2, <3>3, OtherOpens
  <2>3. CASE tx_connected
    <3>1. tpc = "connect" /\ ConnectResult(tfd, "up") /\ fdtab' = fdtab /\ sock' = sock
      BY <2>3 DEF tx_connected
    <3> QED
      BY <1>1, <3>1, OtherConnects
  <2>4. CASE open_connected
    <3>1. mpc = "connect" /\ ConnectResult(mfd, "up") /\ fdtab' = fdtab /\ sock' = sock
      BY <2>4 DEF open_connected
    <3> QED
      BY <1>1, <3>1, OtherConnects
  <2>5. CASE tx_connect_failed
    <3>1. tpc = "connect" /\ Close({tfd}) /\ sock' = sock
      BY <2>5 DEF tx_connect_failed, FailedFds
    <3> QED
      BY <1>1, <3>1, OtherCloses
  <2>6. CASE open_connect_failed
    <3>1. mpc = "connect" /\ Close({mfd}) /\ sock' = sock
      BY <2>6 DEF open_connect_failed, FailedFds
    <3> QED
      BY <1>1, <3>1, OtherCloses
  <2> QED
    BY <2>1, <2>2, <2>3, <2>4, <2>5, <2>6
<1>3. /\ UNCHANGED <<Phase, cpc, cconn>>
      /\ UNCHANGED <<tpc, tconn>> \/ (~InTx /\ ~InTx')
  BY SamePhase DEF tx_socket, tx_connected, tx_connect_failed, open_socket, open_connected,
         open_connect_failed, tx, ctrl, InTx
<1>4. TxView' = TxView
  BY <1>2, <1>3, UntouchedFacts DEF InTx, TxView, View
<1> QED
  BY <1>2, <1>3, <1>4, UntouchedFacts DEF Seen

(* A connection breaks: the installed one, or one that nobody sees yet.     *)
LEMMA BreakRefines ==
  ASSUME IInv, Break
  PROVE  Connection!Break \/ UNCHANGED Seen
<1>1. PICK c \in Conn : state[c] = "up" /\ state' = [state EXCEPT ![c] = "dead"]
  BY DEF Break
<1>2. /\ UNCHANGED <<fdtab, sock, Phase, tpc, tconn, cpc, cconn>>
      /\ state \in [Conn -> {"half", "up", "dead", "closed"}]
  BY SamePhase DEF Break, tx, ctrl, IInv, SocketInv, TypeOK
<1>3. CASE sock # -1 /\ fdtab[sock] = c
  <2>1. state'[c] = "dead" /\ c # None
    BY <1>1, <1>2, Constants
  <2>2. Link = "up" /\ Link' = "broken"
    BY <1>1, <1>2, <1>3, <2>1 DEF Link, Live
  <2>3. TxView' = TxView \/ (TxView = "old" /\ TxView' = "own")
    BY <1>1, <1>2, <1>3, <2>1 DEF TxView, View, Live
  <2>4. CtrlView' = CtrlView \/ (CtrlView = "old" /\ CtrlView' = "own")
    BY <1>1, <1>2, <1>3, <2>1 DEF CtrlView, View, Live
  <2> QED
    BY <1>2, <2>2, <2>3, <2>4, ViewTypes
       DEF Connection!Break, Connection!Views, Connection!User, Connection!Same, Connection!MeetsNew
<1>4. CASE ~ (sock # -1 /\ fdtab[sock] = c)
  <2>1. Untouched
    BY <1>1, <1>2, <1>4, SockFacts DEF Untouched
  <2> QED
    BY <1>2, <2>1, UntouchedFacts DEF Seen
<1> QED
  BY <1>3, <1>4

(* A descriptor is installed: the transmit task reconnects, or the handle   *)
(* opens.                                                                   *)
LEMMA PublishRefines ==
  ASSUME IInv, tx_publish \/ open_publish
  PROVE  Connection!Reconnect \/ Connection!Open
<1> USE DEF IInv, SocketInv
<1>1. CASE tx_publish
  <2>1. tpc = "publish" /\ tpc' = "read" /\ Publish(tfd) /\ UNCHANGED <<Phase, cpc, cconn>>
    BY <1>1, SamePhase DEF tx_publish, ctrl
  <2>2. tfd \in Fd /\ tfd # sock /\ tfd \in OpenFds /\ Connects(tfd)
    BY <2>1, Constants DEF TypeOK, OwnedOnce, HeldWhileConnecting, SockIsConnected
  <2>3. TxView = "out" /\ TxView' = "out"
    BY <2>1 DEF TxView, View
  <2>4. Connection!Install
    BY <2>1, <2>2, <2>3, PublishFacts, Installs
  <2>5. Link = "none" \/ Phase \in {"opening", "open"}
    BY <2>1 DEF InstalledWhileDialing, OpenMadeOne, Link, Phase
  <2> QED
    BY <2>1, <2>3, <2>4, <2>5 DEF Connection!Reconnect
<1>2. CASE open_publish
  <2>1. /\ mpc = "publish" /\ Publish(mfd) /\ UNCHANGED <<tpc, tconn, cpc, cconn>>
        /\ mpc' = "opened"
    BY <1>2 DEF open_publish, tx, ctrl
  <2>2. mfd \in Fd /\ mfd # sock /\ mfd \in OpenFds /\ Connects(mfd)
    BY <2>1, Constants DEF TypeOK, OwnedOnce, HeldWhileConnecting, SockIsConnected
  <2>3. Connection!Install
    BY <2>1, <2>2, PublishFacts, Installs
  <2>4. Phase = "closed" /\ Phase' = "opening"
    BY <2>1 DEF OpenOnlyWhenClosed, Phase
  <2> QED
    BY <2>1, <2>3, <2>4 DEF Connection!Open
<1> QED
  BY <1>1, <1>2

(* close, and the two closes of delete.                                     *)
LEMMA CloseRefines ==
  ASSUME LinkInv, esp_audio_pcm_close \/ delete_close \/ deinit_close
  PROVE  Connection!Close \/ Connection!Delete \/ UNCHANGED Seen
<1>1. UNCHANGED <<tpc, tconn, cpc, cconn>>
  BY DEF esp_audio_pcm_close, delete_close, deinit_close, tx, ctrl
<1>2. ASSUME tcp_close_socket PROVE Connection!Remove
  BY <1>1, <1>2, ClosedFacts, Removes
<1>3. CASE esp_audio_pcm_close
  <2>1. Phase = "open" /\ Phase' = "closing"
    BY <1>3 DEF esp_audio_pcm_close, Phase
  <2> QED
    BY <1>2, <1>3, <2>1 DEF esp_audio_pcm_close, Connection!Close
<1>4. CASE delete_close /\ opened
  <2>1. Phase = "open" /\ Phase' = "closing"
    BY <1>4 DEF delete_close, Phase
  <2> QED
    BY <1>2, <1>4, <2>1 DEF delete_close, Connection!Close
<1>5. CASE delete_close /\ ~opened
  <2>1. Untouched /\ Phase' = Phase
    BY <1>5, SamePhase DEF delete_close, net, Untouched
  <2> QED
    BY <1>1, <2>1, UntouchedFacts DEF Seen
<1>6. CASE deinit_close
  <2>1. Phase = "closed" /\ cpc = "off" /\ tcp_close_socket /\ Phase' = Phase
    BY <1>6, SamePhase DEF deinit_close, LinkInv, Deleting, Phase
  <2>2. CtrlView = "out"
    BY <2>1 DEF CtrlView, View
  <2> QED
    BY <1>2, <2>1, <2>2 DEF Connection!Delete
<1> QED
  BY <1>3, <1>4, <1>5, <1>6

(* The handle is told.                                                      *)
LEMMA TellRefines ==
  ASSUME esp_audio_pcm_opened \/ esp_audio_pcm_closed
  PROVE  Connection!Opened \/ Connection!Closed
<1>1. Untouched /\ UNCHANGED <<tpc, tconn, cpc, cconn>>
  BY DEF esp_audio_pcm_opened, esp_audio_pcm_closed, net, tx, ctrl, Untouched
<1>2. UNCHANGED <<Link, TxView, CtrlView>>
  BY <1>1, UntouchedFacts
<1>3. CASE esp_audio_pcm_opened
  BY <1>2, <1>3 DEF esp_audio_pcm_opened, Phase, Connection!Opened
<1>4. CASE esp_audio_pcm_closed
  BY <1>2, <1>4 DEF esp_audio_pcm_closed, Phase, Connection!Closed
<1> QED
  BY <1>3, <1>4

LEMMA LinkInit == Init => Connection!Init
  BY DEF Init, Connection!Init, Connection!User, Phase, Link, TxView, CtrlView, View

LEMMA LinkStep == LinkInv /\ [Next]_vars => [Connection!Next]_(Connection!linkVars)
<1> SUFFICES ASSUME LinkInv, [Next]_vars
             PROVE  Connection!Next \/ UNCHANGED Seen
  BY Zenon DEF Connection!linkVars, Seen
<1>1. "tx" \in Connection!User /\ "ctrl" \in Connection!User
  BY DEF Connection!User
<1>2. CASE \/ tx_loop \/ tx_ensure_connected \/ tx_ring_empty
           \/ app_net_init \/ esp_audio_pcm_ctrl_start
           \/ delete_ctrl_stop \/ deinit_stop \/ deinit_free
           \/ ctrl_loop \/ UNCHANGED vars
  BY <1>2, QuietRefines DEF LinkInv
<1>3. CASE tx_snapshot \/ tx_send_begin \/ tx_send_end \/ tx_send_error
  BY <1>1, <1>3, TxRefines DEF Connection!Next
<1>4. CASE ctrl_snapshot \/ ctrl_recv_begin \/ ctrl_recv_end \/ ctrl_recv_error
  BY <1>1, <1>4, CtrlRefines DEF Connection!Next
<1>5. CASE \/ tx_socket \/ tx_connected \/ tx_connect_failed
           \/ open_socket \/ open_connected \/ open_connect_failed
  BY <1>5, DialRefines DEF LinkInv
<1>6. CASE Break
  BY <1>6, BreakRefines DEF LinkInv, Connection!Next
<1>7. CASE tx_publish \/ open_publish
  BY <1>7, PublishRefines DEF LinkInv, Connection!Next
<1>8. CASE esp_audio_pcm_close \/ delete_close \/ deinit_close
  BY <1>8, CloseRefines DEF Connection!Next
<1>9. CASE esp_audio_pcm_opened \/ esp_audio_pcm_closed
  BY <1>9, TellRefines DEF Connection!Next
<1> QED
  BY <1>2, <1>3, <1>4, <1>5, <1>6, <1>7, <1>8, <1>9 DEF Next, Tx, Ctrl, Open, Delete, Done

(* However lwIP gives descriptor numbers out again and whoever closes or    *)
(* replaces a connection while others are in a call on it: a call begins on *)
(* the connection installed then, a task that fails on the installed        *)
(* connection takes down no working one, and never leaves a broken one      *)
(* installed; only a task that failed on an old connection may take down    *)
(* the new.                                                                 *)
THEOREM SocketRefinesLink == Spec => ConnectionSpec
<1>1. Spec => []LinkInv
  BY InitLinkInv, NextLinkInv, PTL DEF Spec
<1> QED
  BY <1>1, LinkInit, LinkStep, PTL DEF Spec, ConnectionSpec, Connection!Spec
===============================================================================
