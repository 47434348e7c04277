------------------------------ MODULE PcmBridge ------------------------------
(***************************************************************************)
(* TransportBridge of tools/pcm_monitor/pcm_serial_bridge.py: the PC's     *)
(* serial port, TCP server or UDP server for the device.  Every HTTP       *)
(* request runs in a thread of its own, every started server has a worker  *)
(* thread in _tcp_accept_loop or _udp_recv_loop, and _lock guards the      *)
(* fields.  A section under _lock that does not block is one step;         *)
(* status() holds _lock while list_local_ipv4 asks the resolver and runs a *)
(* tool of the host, which may take seconds.                               *)
(*                                                                         *)
(* The k-th network socket and the worker started with it are both named   *)
(* k.  All requests name the same port, so at most one TCP socket listens  *)
(* at a time.  Bytes that arrive by UDP are numbered as they arrive; those *)
(* of a TCP connection go from its socket to the page.                     *)
(***************************************************************************)
EXTENDS Naturals, Sequences

CONSTANTS
  Tab,        \* browser tabs that connect and disconnect
  RxMax,      \* the 4 MiB above which _rx_buf is trimmed
  RxKeep,     \* the 2 MiB it is trimmed to
  ReadMax,    \* max_bytes of read()
  MaxStarts,  \* bound of the model: network sockets ever made
  MaxConns,   \* bound of the model: connections the device ever makes
  MaxDgram,   \* bound of the model: bytes of a datagram
  MaxBytes    \* bound of the model: bytes that ever arrive by UDP

ASSUME BridgeAssumption ==
  /\ MaxStarts \in Nat /\ MaxConns \in Nat /\ MaxDgram \in Nat /\ MaxBytes \in Nat
  /\ RxMax \in Nat \ {0} /\ RxKeep \in 1..RxMax /\ ReadMax \in Nat \ {0}

VARIABLES
  lock,          \* "free", or "status" while status() holds it
  mode, listen, client, running, worker,  \* _mode, _listen_sock, _client_sock, ...
  ser,           \* _ser is an open port
  addr,          \* _client_addr, as the socket the device was heard on
  rx_buf,        \* _rx_buf
  rpc, req, rsock, rjoin,  \* a tab's request: place, which one, socket it made,
                           \* worker it waits for
  wpc, wlisten, wclient, wdata,  \* a worker: place, listen_sock, client, data
  listening,     \* the network sockets that are open
  kind,          \* "tcp" or "udp": what each socket and its worker are
  starts,        \* network sockets made so far
  conn, backlog, \* connections of the device; those not yet accepted
  recvd,         \* bytes that arrived by UDP
  past,          \* the last of them that the page read, or a trim or stop gave up
  late           \* a join has given up

fields   == <<mode, listen, client, running, worker, ser, addr, rx_buf>>
requests == <<rpc, req, rsock, rjoin>>
workers  == <<wpc, wlisten, wclient, wdata>>
sockets  == <<listening, kind, starts, conn, backlog>>
bytes    == <<recvd, past>>
vars == <<lock, fields, requests, workers, sockets, bytes, late>>

None == 0
Start == 1..MaxStarts
Conn  == 1..MaxConns
Set(f, x, v) == [f EXCEPT ![x] = v]

Init ==
  /\ lock = "free"
  /\ mode = "none" /\ listen = None /\ client = None /\ running = FALSE /\ worker = None
  /\ ser = FALSE /\ addr = None /\ rx_buf = <<>>
  /\ rpc = [t \in Tab |-> "idle"] /\ req = [t \in Tab |-> "disconnect"]
  /\ rsock = [t \in Tab |-> None] /\ rjoin = [t \in Tab |-> None]
  /\ wpc = [w \in Start |-> "off"]
  /\ wlisten = [w \in Start |-> None] /\ wclient = [w \in Start |-> None]
  /\ wdata = [w \in Start |-> <<>>]
  /\ listening = {} /\ starts = 0 /\ kind = [w \in Start |-> "tcp"]
  /\ conn = [c \in Conn |-> "none"] /\ backlog = <<>>
  /\ recvd = 0 /\ past = 0
  /\ late = FALSE

Idle(t) == rpc[t] = "idle"
Closed(cs) == [c \in Conn |-> IF c \in cs THEN "closed" ELSE conn[c]]
Waiting == {backlog[i] : i \in DOMAIN backlog}
Goto(t, place) == rpc' = Set(rpc, t, place) /\ UNCHANGED req
Return(t) == rpc' = Set(rpc, t, "idle") /\ req' = Set(req, t, "disconnect")
Open(k, what) == k \in listening /\ kind[k] = what

-----------------------------------------------------------------------------
(* A request: POST /api/connect with its mode, or /api/disconnect.  All     *)
(* begin with disconnect(), which begins with _stop_network().              *)
Request(t, what) ==
  /\ Idle(t)
  /\ what \in {"tcp", "udp"} => starts < MaxStarts
  /\ req' = Set(req, t, what)
  /\ rpc' = Set(rpc, t, "stop")
  /\ UNCHANGED <<lock, fields, rsock, rjoin, workers, sockets, bytes, late>>

stop_network(t) ==
  /\ rpc[t] = "stop"
  /\ running' = FALSE
  /\ rpc' = Set(rpc, t, IF worker = None THEN "clear" ELSE "wait")
  /\ UNCHANGED <<lock, mode, listen, client, worker, ser, addr, rx_buf, req, rsock, rjoin>>
  /\ UNCHANGED <<workers, sockets, bytes, late>>

(* _worker is read again for its join.  Another tab may have cleared it     *)
(* since: the request dies of an AttributeError.                            *)
stop_worker(t) ==
  /\ rpc[t] = "wait"
  /\ \/ worker # None /\ Goto(t, "join") /\ rjoin' = Set(rjoin, t, worker)
     \/ worker = None /\ Return(t) /\ UNCHANGED rjoin
  /\ UNCHANGED <<lock, fields, rsock, workers, sockets, bytes, late>>

(* join(timeout=1.0) returns when the worker has ended, and after a second  *)
(* in any case.  A worker leaves accept() or recvfrom() within 0.5 s, but   *)
(* may wait longer for the lock, or see _running set again.                 *)
JoinEnds_AtOnce(w) == TRUE
JoinEnds(w) == wpc[w] = "done"
join(t) ==
  /\ rpc[t] = "join"
  /\ late' = (late \/ ~JoinEnds(rjoin[t]))
  /\ worker' = None
  /\ rjoin' = Set(rjoin, t, None)
  /\ rpc' = Set(rpc, t, "clear")
  /\ UNCHANGED <<lock, mode, listen, client, running, ser, addr, rx_buf, req, rsock>>
  /\ UNCHANGED <<workers, sockets, bytes>>

(* _stop_network closes both sockets and empties the buffer.  Whoever       *)
(* waited in the backlog of the listening socket is turned away.            *)
StopListening_Forget == {}
StopListening == {listen}
Cleared(buf) == <<>>
stop_clear(t) ==
  /\ rpc[t] = "clear" /\ lock = "free"
  /\ listening' = listening \ StopListening
  /\ conn' = Closed({client} \cup (IF Open(listen, "tcp") THEN Waiting ELSE {}))
  /\ backlog' = IF Open(listen, "tcp") THEN <<>> ELSE backlog
  /\ client' = None /\ listen' = None /\ addr' = None
  /\ rx_buf' = Cleared(rx_buf) /\ past' = recvd
  /\ rpc' = Set(rpc, t, "reset")
  /\ UNCHANGED <<lock, mode, running, worker, ser, req, rsock, rjoin, workers>>
  /\ UNCHANGED <<kind, starts, recvd, late>>

disconnect(t) ==
  /\ rpc[t] = "reset" /\ lock = "free"
  /\ ser' = FALSE /\ mode' = "none"
  /\ \/ req[t] = "disconnect" /\ Return(t)
     \/ req[t] = "serial" /\ Goto(t, "open")
     \/ req[t] \in {"tcp", "udp"} /\ Goto(t, "bind")
  /\ UNCHANGED <<lock, listen, client, running, worker, addr, rx_buf, rsock, rjoin>>
  /\ UNCHANGED <<workers, sockets, bytes, late>>

(* _connect_serial, whose serial.Serial() may fail.                         *)
connect_serial(t) ==
  /\ rpc[t] = "open" /\ lock = "free"
  /\ \/ ser' = TRUE /\ mode' = "serial"
     \/ UNCHANGED <<ser, mode>>
  /\ Return(t)
  /\ UNCHANGED <<lock, listen, client, running, worker, addr, rx_buf, rsock, rjoin>>
  /\ UNCHANGED <<workers, sockets, bytes, late>>

(* _start_tcp, _start_udp.  bind() may fail; that of TCP does while another *)
(* socket listens on the port.                                              *)
start_bind_UntilBound(t) ==
  /\ rpc[t] = "bind"
  /\ \/ /\ req[t] = "tcp" => \A k \in listening : kind[k] = "udp"
        /\ starts < MaxStarts
        /\ starts' = starts + 1
        /\ listening' = listening \cup {starts'}
        /\ kind' = Set(kind, starts', req[t])
        /\ rsock' = Set(rsock, t, starts')
        /\ Goto(t, "publish")
     \/ Goto(t, "stop") /\ UNCHANGED <<starts, listening, kind, rsock>>
  /\ UNCHANGED <<lock, fields, rjoin, workers, conn, backlog, bytes, late>>
start_bind(t) ==
  /\ rpc[t] = "bind"
  /\ \/ /\ req[t] = "tcp" => \A k \in listening : kind[k] = "udp"
        /\ starts < MaxStarts
        /\ starts' = starts + 1
        /\ listening' = listening \cup {starts'}
        /\ kind' = Set(kind, starts', req[t])
        /\ rsock' = Set(rsock, t, starts')
        /\ Goto(t, "publish")
     \/ Return(t) /\ UNCHANGED <<starts, listening, kind, rsock>>
  /\ UNCHANGED <<lock, fields, rjoin, workers, conn, backlog, bytes, late>>

start_publish(t) ==
  /\ rpc[t] = "publish" /\ lock = "free"
  /\ listen' = rsock[t] /\ mode' = req[t]
  /\ rpc' = Set(rpc, t, "run")
  /\ UNCHANGED <<lock, client, running, worker, ser, addr, rx_buf, req, rsock, rjoin>>
  /\ UNCHANGED <<workers, sockets, bytes, late>>

(* _running, _worker and start() in one step: only another tab's request    *)
(* could come between them.                                                 *)
start_worker(t) ==
  /\ rpc[t] = "run"
  /\ running' = TRUE
  /\ worker' = rsock[t]
  /\ wpc' = Set(wpc, rsock[t], "test")
  /\ rsock' = Set(rsock, t, None)
  /\ Return(t)
  /\ UNCHANGED <<lock, mode, listen, client, ser, addr, rx_buf, rjoin>>
  /\ UNCHANGED <<wlisten, wclient, wdata, sockets, bytes, late>>

RequestStep(t) ==
  \/ stop_network(t) \/ stop_worker(t) \/ join(t) \/ stop_clear(t) \/ disconnect(t)
  \/ connect_serial(t) \/ start_bind(t) \/ start_publish(t) \/ start_worker(t)

-----------------------------------------------------------------------------
(* The worker: _tcp_accept_loop or _udp_recv_loop.                          *)
Running_Always == TRUE
Running == running
worker_test(w) ==
  /\ wpc[w] = "test"
  /\ wpc' = Set(wpc, w, IF Running THEN "get" ELSE "done")
  /\ wlisten' = Set(wlisten, w, None)
  /\ UNCHANGED <<lock, fields, requests, wclient, wdata, sockets, bytes, late>>

worker_get(w) ==
  /\ wpc[w] = "get" /\ lock = "free"
  /\ wlisten' = Set(wlisten, w, listen)
  /\ wpc' = Set(wpc, w, IF listen = None THEN "done" ELSE "wait")
  /\ UNCHANGED <<lock, fields, requests, wclient, wdata, sockets, bytes, late>>

(* accept() and recvfrom() return something, time out, or report that the   *)
(* socket was closed (only as a timeout if that happened while they waited) *)
(* or is of the other kind.                                                 *)
AfterTimeout_Stop == "done"
AfterTimeout == "test"
worker_none(w) ==
  /\ wpc[w] = "wait"
  /\ \/ /\ Open(wlisten[w], kind[w]) => kind[w] = "udp" \/ backlog = <<>>
        /\ wpc' = Set(wpc, w, AfterTimeout)
     \/ ~Open(wlisten[w], kind[w]) /\ wpc' = Set(wpc, w, "done")
  /\ UNCHANGED <<lock, fields, requests, wlisten, wclient, wdata, sockets, bytes, late>>

accept_conn(w) ==
  /\ wpc[w] = "wait" /\ kind[w] = "tcp" /\ Open(wlisten[w], "tcp") /\ backlog # <<>>
  /\ wclient' = Set(wclient, w, Head(backlog))
  /\ backlog' = Tail(backlog)
  /\ wpc' = Set(wpc, w, "install")
  /\ UNCHANGED <<lock, fields, requests, wlisten, wdata, listening, kind, starts, conn, bytes, late>>

(* A new client takes the place of the old one.                             *)
Replaced_Kept == {}
Replaced == {client}
accept_install(w) ==
  /\ wpc[w] = "install" /\ lock = "free"
  /\ conn' = Closed(Replaced)
  /\ client' = wclient[w] /\ addr' = wlisten[w]
  /\ wclient' = Set(wclient, w, None)
  /\ wpc' = Set(wpc, w, "test")
  /\ UNCHANGED <<lock, mode, listen, running, worker, ser, rx_buf, requests, wlisten, wdata>>
  /\ UNCHANGED <<listening, kind, starts, backlog, bytes, late>>

udp_recv(w) ==
  /\ wpc[w] = "wait" /\ kind[w] = "udp" /\ Open(wlisten[w], "udp")
  /\ \E n \in 1..MaxDgram :
       /\ recvd + n <= MaxBytes
       /\ wdata' = Set(wdata, w, [i \in 1..n |-> recvd + i])
       /\ recvd' = recvd + n
  /\ wpc' = Set(wpc, w, "append")
  /\ UNCHANGED <<lock, fields, requests, wlisten, wclient, sockets, past, late>>

(* A buffer that grew over RxMax keeps its last RxKeep bytes.               *)
Trimmed_Oldest(buf) == IF Len(buf) > RxMax THEN SubSeq(buf, 1, RxKeep) ELSE buf
Trimmed(buf) ==
  IF Len(buf) > RxMax THEN SubSeq(buf, Len(buf) - RxKeep + 1, Len(buf)) ELSE buf
udp_append(w) ==
  /\ wpc[w] = "append" /\ lock = "free"
  /\ addr' = wlisten[w]
  /\ LET buf == rx_buf \o wdata[w]
     IN  /\ rx_buf' = Trimmed(buf)
         /\ past' = IF rx_buf' = buf THEN past ELSE buf[Len(buf) - RxKeep]
  /\ wdata' = Set(wdata, w, <<>>)
  /\ wpc' = Set(wpc, w, "test")
  /\ UNCHANGED <<lock, mode, listen, client, running, worker, ser, requests, wlisten, wclient>>
  /\ UNCHANGED <<sockets, recvd, late>>

WorkerStep(w) ==
  \/ worker_test(w) \/ worker_get(w) \/ worker_none(w)
  \/ accept_conn(w) \/ accept_install(w)
  \/ udp_recv(w) \/ udp_append(w)

-----------------------------------------------------------------------------
(* GET /api/read in TCP mode finds the client gone or has nothing to change.*)
(* The socket is dropped and with its last reference closed.                *)
read_gone ==
  /\ lock = "free" /\ mode = "tcp" /\ client # None /\ conn[client] = "dropped"
  /\ conn' = Closed({client})
  /\ client' = None /\ addr' = None
  /\ UNCHANGED <<lock, mode, listen, running, worker, ser, rx_buf, requests, workers>>
  /\ UNCHANGED <<listening, kind, starts, backlog, bytes, late>>

(* In UDP mode it takes what fits off the buffer.                           *)
Rest(n) == SubSeq(rx_buf, n + 1, Len(rx_buf))
read_udp ==
  /\ lock = "free" /\ mode = "udp" /\ rx_buf # <<>>
  /\ LET n == IF ReadMax < Len(rx_buf) THEN ReadMax ELSE Len(rx_buf)
     IN  past' = rx_buf[n] /\ rx_buf' = Rest(n)
  /\ UNCHANGED <<lock, mode, listen, client, running, worker, ser, addr, requests, workers>>
  /\ UNCHANGED <<sockets, recvd, late>>

(* GET /api/status                                                          *)
status_begin ==
  /\ lock = "free"
  /\ lock' = "status"
  /\ UNCHANGED <<fields, requests, workers, sockets, bytes, late>>

status_end ==
  /\ lock = "status"
  /\ lock' = "free"
  /\ UNCHANGED <<fields, requests, workers, sockets, bytes, late>>

(* The device dials when it has no connection, and may drop the one it has. *)
Dial ==
  /\ \E k \in listening : kind[k] = "tcp"
  /\ \A c \in Conn : conn[c] # "open"
  /\ \E c \in Conn :
       /\ conn[c] = "none" /\ \A d \in Conn : d < c => conn[d] # "none"
       /\ conn' = Set(conn, c, "open")
       /\ backlog' = Append(backlog, c)
  /\ UNCHANGED <<lock, fields, requests, workers, listening, kind, starts, bytes, late>>

Drop ==
  /\ \E c \in Conn : conn[c] = "open" /\ conn' = Set(conn, c, "dropped")
  /\ UNCHANGED <<lock, fields, requests, workers, listening, kind, starts, backlog, bytes, late>>

Next ==
  \/ \E t \in Tab, what \in {"tcp", "udp", "serial", "disconnect"} : Request(t, what)
  \/ \E t \in Tab : RequestStep(t)
  \/ \E w \in Start : WorkerStep(w)
  \/ read_gone \/ read_udp
  \/ status_begin \/ status_end
  \/ Dial \/ Drop

(* Threads run, a status request ends, and _lock is not kept from a thread  *)
(* that waits for it for ever.                                              *)
Fairness ==
  /\ WF_vars(status_end)
  /\ \A t \in Tab : SF_vars(RequestStep(t))
  /\ \A w \in Start : SF_vars(WorkerStep(w))

Spec == Init /\ [][Next]_vars /\ Fairness

-----------------------------------------------------------------------------
TypeFields ==
  /\ lock \in {"free", "status"} /\ mode \in {"none", "tcp", "udp", "serial"}
  /\ listen \in Start \cup {None} /\ client \in Conn \cup {None}
  /\ running \in BOOLEAN /\ worker \in Start \cup {None}
  /\ ser \in BOOLEAN /\ addr \in Start \cup {None}
  /\ rx_buf \in Seq(1..MaxBytes) /\ Len(rx_buf) <= RxMax
TypeRequests ==
  /\ rpc \in [Tab -> {"idle", "stop", "wait", "join", "clear", "reset",
                     "open", "bind", "publish", "run"}]
  /\ req \in [Tab -> {"tcp", "udp", "serial", "disconnect"}]
  /\ rsock \in [Tab -> Start \cup {None}] /\ rjoin \in [Tab -> Start \cup {None}]
TypeWorkers ==
  /\ wpc \in [Start -> {"off", "test", "get", "wait", "install", "append", "done"}]
  /\ wlisten \in [Start -> Start \cup {None}] /\ wclient \in [Start -> Conn \cup {None}]
  /\ wdata \in [Start -> Seq(1..MaxBytes)]
TypeSockets ==
  /\ listening \subseteq Start /\ starts \in 0..MaxStarts /\ kind \in [Start -> {"tcp", "udp"}]
  /\ conn \in [Conn -> {"none", "open", "dropped", "closed"}]
  /\ backlog \in Seq(Conn)
TypeBytes == recvd \in 0..MaxBytes /\ past \in 0..MaxBytes
TypeOK ==
  TypeFields /\ TypeRequests /\ TypeWorkers /\ TypeSockets /\ TypeBytes /\ late \in BOOLEAN

AtRest == \A t \in Tab : Idle(t)
LiveWorkers == {w \in Start : wpc[w] \notin {"off", "done"}}

(* When a disconnect or a connect by serial port has returned, no server    *)
(* runs: no socket is open, no thread waits on one, no device is connected, *)
(* and nothing a device sent is left; the serial port is open in serial     *)
(* mode alone (one tab; no join gave up).                                   *)
Stopped ==
  /\ listening = {} /\ LiveWorkers = {} /\ \A c \in Conn : conn[c] # "open"
  /\ addr = None /\ rx_buf = <<>>
StoppedUnlessLate ==
  ~late /\ AtRest =>
    /\ mode \in {"none", "serial"} => Stopped
    /\ ser <=> mode = "serial"

(* When a connect by TCP or UDP has returned exactly one worker waits on    *)
(* exactly the open socket, both of the mode asked for, and it is the       *)
(* worker the next disconnect will wait for (one tab; no join gave up).     *)
ServedUnlessLate ==
  ~late /\ AtRest /\ mode \in {"tcp", "udp"} =>
    /\ running /\ listening = {listen} /\ LiveWorkers = {worker}
    /\ kind[listen] = mode

(* A command goes to the device of the server that runs: an address in      *)
(* _client_addr was heard on the socket in _listen_sock, so the sendto of   *)
(* write_cmd has a socket, whichever servers ran before (no join gave up).  *)
PeerIsServed == ~late /\ addr # None => addr = listen

(* The page reads the UDP bytes of the server that runs in order and once,  *)
(* and loses only those a trim gave up, the oldest: what is buffered goes   *)
(* on from where the page's reads, the trim or the last stop ended and ends *)
(* with the newest byte a worker has appended (no join gave up).            *)
Pending == {w \in Start : wdata[w] # <<>>}
BufferedUnlessLate ==
  ~late =>
    /\ \A i \in DOMAIN rx_buf : rx_buf[i] = past + i
    /\ Pending = {} => Len(rx_buf) = recvd - past

(* No connection is forgotten: one the PC has not closed is the client, or  *)
(* waits to be accepted or installed, however threads overlap.              *)
NoConnectionLeaks ==
  \A c \in Conn : conn[c] \in {"open", "dropped"} =>
    c = client \/ c \in Waiting \/ \E w \in LiveWorkers : wclient[w] = c

BridgeInv == TypeOK /\ NoConnectionLeaks

(* A device that dials is accepted or turned away, also one that dials a    *)
(* second time while the first connection still waits.                      *)
DialAnswered == backlog # <<>> ~> backlog = <<>>

(* Every request returns, although it waits for the lock and for a worker   *)
(* that itself may wait for the lock.                                       *)
RequestsReturn == \A t \in Tab : ~Idle(t) ~> Idle(t)

(* What the page says after /api/disconnect has returned: "Server stopped"  *)
(* (pcm_serial_monitor.html): no device is connected any more.              *)
DisconnectStops == AtRest /\ mode = "none" => listening = {} /\ client = None
=============================================================================
