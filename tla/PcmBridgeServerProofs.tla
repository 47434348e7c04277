------------------------ MODULE PcmBridgeServerProofs ------------------------
(***************************************************************************)
(* What PcmBridge promises one browser tab while no join gives up, for any *)
(* number of servers, connections and datagrams: what is stopped is        *)
(* stopped, what is started has its worker and its socket, commands go to  *)
(* the device of the server that runs, and UDP bytes stay in order.        *)
(***************************************************************************)
EXTENDS PcmBridgeProofs

OneTab == Tab # {} /\ \A t, u \in Tab : t = u

(* The two states between requests, and what is left of them at each place  *)
(* of a request.                                                            *)
NothingRuns ==
  /\ ~running /\ worker = None /\ listen = None /\ client = None /\ addr = None
  /\ listening = {} /\ LiveWorkers = {} /\ rx_buf = <<>>
ServerRuns ==
  /\ running /\ listen # None /\ worker = listen
  /\ listening = {listen} /\ LiveWorkers = {listen}
  /\ mode \in {"tcp", "udp"} /\ kind[listen] = mode

Place(t) ==
  /\ rpc[t] \in {"idle", "stop"} =>
       (NothingRuns /\ mode \in {"none", "serial"}) \/ ServerRuns
  /\ rpc[t] = "join" => rjoin[t] = worker
  /\ rpc[t] \in {"wait", "join"} =>
       /\ ~running /\ listen # None /\ worker = listen
       /\ listening = {listen} /\ LiveWorkers \subseteq {listen}
  /\ rpc[t] = "clear" =>
       ~running /\ worker = None /\ LiveWorkers = {} /\ listening \subseteq {listen}
  /\ rpc[t] = "reset" => NothingRuns
  /\ rpc[t] \in {"open", "bind"} => NothingRuns /\ mode = "none"
  /\ rpc[t] = "publish" =>
       /\ ~running /\ worker = None /\ listen = None /\ addr = None /\ mode = "none"
       /\ rsock[t] # None /\ listening = {rsock[t]} /\ LiveWorkers = {}
       /\ kind[rsock[t]] = req[t] /\ req[t] \in {"tcp", "udp"}
  /\ rpc[t] = "run" =>
       /\ ~running /\ worker = None /\ rsock[t] # None /\ listen = rsock[t]
       /\ listening = {rsock[t]} /\ LiveWorkers = {}
       /\ kind[rsock[t]] = req[t] /\ req[t] \in {"tcp", "udp"} /\ mode = req[t]

SerialMode == ser <=> mode = "serial"

(* A worker past worker_get is on the socket in _listen_sock; only a TCP    *)
(* socket that listens has a backlog.                                       *)
OnListenSock ==
  \A w \in LiveWorkers : wpc[w] \in {"wait", "install", "append"} => wlisten[w] = listen
BacklogListens == backlog # <<>> => \E k \in listening : kind[k] = "tcp"

(* The buffer and the datagram a worker is about to append are the bytes    *)
(* from past to recvd.                                                      *)
BytesInOrder ==
  /\ \A i \in 1..Len(rx_buf) : rx_buf[i] = past + i
  /\ \A w \in Pending : wpc[w] = "append"
  /\ Pending = {} => past + Len(rx_buf) = recvd
  /\ \A w \in Pending :
       /\ past + Len(rx_buf) + Len(wdata[w]) = recvd
       /\ \A i \in 1..Len(wdata[w]) : wdata[w][i] = past + Len(rx_buf) + i

Promised ==
  (\A t \in Tab : Place(t)) /\ SerialMode /\ OnListenSock /\ BacklogListens /\ BytesInOrder
PInv == OneTab /\ ~late => Promised

USE BridgeAssumption DEF Start, Conn, None

-----------------------------------------------------------------------------
LEMMA InitPInv == Init => PInv
<1> SUFFICES ASSUME Init PROVE Promised
  BY DEF PInv
<1>1. rx_buf = <<>> /\ Len(<<>>) = 0 /\ \A w \in Start : wdata[w] = <<>>
  BY EmptySeq DEF Init
<1>2. LiveWorkers = {}
  BY DEF Init, LiveWorkers
<1>3. \A t \in Tab : Place(t)
  BY <1>1, <1>2 DEF Init, Place, NothingRuns
<1>4. SerialMode /\ OnListenSock /\ BacklogListens
  BY <1>2 DEF Init, SerialMode, OnListenSock, BacklogListens
<1>5. BytesInOrder
  BY <1>1 DEF Init, BytesInOrder, Pending
<1> QED
  BY <1>3, <1>4, <1>5 DEF Promised

(* Which variables the parts read.                                          *)
LEMMA PromisedUnread ==
  ASSUME Promised
  PROVE  /\ UNCHANGED <<rx_buf, past, recvd, wdata, wpc>> => BytesInOrder'
         /\ UNCHANGED <<backlog, listening, kind>> => BacklogListens'
         /\ UNCHANGED <<wpc, wlisten, listen>> => OnListenSock'
         /\ UNCHANGED <<ser, mode>> => SerialMode'
         /\ UNCHANGED <<requests, running, worker, listen, client, addr, mode, rx_buf,
                        listening, kind, wpc>> => \A t \in Tab : Place(t)'
<1>1. UNCHANGED <<rx_buf, past, recvd, wdata, wpc>> => BytesInOrder'
  BY DEF Promised, BytesInOrder, Pending
<1>2. UNCHANGED <<backlog, listening, kind>> => BacklogListens'
  BY DEF Promised, BacklogListens
<1>3. UNCHANGED <<wpc, wlisten, listen>> => OnListenSock'
  BY DEF Promised, OnListenSock, LiveWorkers
<1>4. UNCHANGED <<ser, mode>> => SerialMode'
  BY DEF Promised, SerialMode
<1>5. UNCHANGED <<requests, running, worker, listen, client, addr, mode, rx_buf,
                  listening, kind, wpc>> => \A t \in Tab : Place(t)'
  BY DEF Promised, Place, NothingRuns, ServerRuns, LiveWorkers, requests
<1> QED
  BY <1>1, <1>2, <1>3, <1>4, <1>5

-----------------------------------------------------------------------------
(* The steps of a request.                                                  *)
LEMMA RequestPromised ==
  ASSUME BInv, OneTab, Promised, NEW t \in Tab,
         NEW what \in {"tcp", "udp", "serial", "disconnect"}, Request(t, what)
  PROVE  Promised'
<1> USE DEF Set
<1>1. Place(t)'
  BY DEF Request, Idle, Promised, Place, NothingRuns, ServerRuns, LiveWorkers, BInv, TypeOK, TypeRequests, workers, sockets, fields
<1>2. \A u \in Tab : Place(u)'
  BY <1>1 DEF OneTab
<1>3. SerialMode' /\ OnListenSock' /\ BacklogListens' /\ BytesInOrder'
  BY PromisedUnread DEF Request, fields, workers, sockets, bytes
<1> QED
  BY <1>2, <1>3 DEF Promised

LEMMA StopNetworkPromised ==
  ASSUME BInv, OneTab, Promised, NEW t \in Tab, stop_network(t)
  PROVE  Promised'
<1> USE DEF Set
<1>1. CASE ServerRuns
  <2>1. rpc'[t] = "wait" /\ ~running'
    BY <1>1 DEF stop_network, ServerRuns, BInv, TypeOK, TypeRequests
  <2>2. UNCHANGED <<worker, listen, listening, wpc>>
    BY DEF stop_network, workers, sockets
  <2> QED
    BY <1>1, <2>1, <2>2, PromisedUnread DEF stop_network, Place, ServerRuns, LiveWorkers, OneTab, Promised, fields, workers, sockets, bytes
<1>2. CASE NothingRuns
  <2>1. rpc'[t] = "clear" /\ ~running'
    BY <1>2 DEF stop_network, NothingRuns, BInv, TypeOK, TypeRequests
  <2>2. UNCHANGED <<worker, listen, listening, wpc>>
    BY DEF stop_network, workers, sockets
  <2> QED
    BY <1>2, <2>1, <2>2, PromisedUnread DEF stop_network, Place, NothingRuns, LiveWorkers, OneTab, Promised, fields, workers, sockets, bytes
<1> QED
  BY <1>1, <1>2 DEF stop_network, Promised, Place

LEMMA StopWorkerPromised ==
  ASSUME BInv, OneTab, Promised, NEW t \in Tab, stop_worker(t)
  PROVE  Promised'
<1> USE DEF Set
<1>1. /\ rpc[t] = "wait" /\ worker # None
      /\ UNCHANGED <<running, worker, listen, listening, wpc>>
  BY DEF stop_worker, Promised, Place, fields, workers, sockets
<1>2. rpc'[t] = "join" /\ rjoin'[t] = worker
  BY <1>1 DEF stop_worker, Goto, BInv, TypeOK, TypeRequests
<1>3. \A u \in Tab : Place(u)'
  BY <1>1, <1>2 DEF Promised, Place, LiveWorkers, OneTab
<1>4. SerialMode' /\ OnListenSock' /\ BacklogListens' /\ BytesInOrder'
  BY PromisedUnread DEF stop_worker, fields, workers, sockets, bytes
<1> QED
  BY <1>3, <1>4 DEF Promised

LEMMA JoinPromised ==
  ASSUME BInv, OneTab, Promised, NEW t \in Tab, join(t), ~late'
  PROVE  Promised'
<1> USE DEF Set
<1>1. /\ rpc[t] = "join" /\ JoinEnds(rjoin[t]) /\ worker' = None /\ rpc'[t] = "clear"
      /\ UNCHANGED <<running, listen, listening, wpc>>
  BY DEF join, BInv, TypeOK, TypeRequests, workers, sockets
<1>2. LiveWorkers' = {} /\ ~running /\ listening = {listen}
  BY <1>1 DEF Promised, Place, LiveWorkers, JoinEnds
<1>3. \A u \in Tab : Place(u)'
  BY <1>1, <1>2 DEF Place, OneTab
<1>4. SerialMode' /\ OnListenSock' /\ BacklogListens' /\ BytesInOrder'
  BY PromisedUnread DEF join, workers, sockets, bytes
<1> QED
  BY <1>3, <1>4 DEF Promised

LEMMA StopClearPromised ==
  ASSUME BInv, OneTab, Promised, NEW t \in Tab, stop_clear(t)
  PROVE  Promised'
<1> USE DEF Set
<1>1. /\ rpc[t] = "clear" /\ rpc'[t] = "reset"
      /\ listening' = listening \ {listen} /\ listen' = None /\ client' = None /\ addr' = None
      /\ rx_buf' = <<>> /\ past' = recvd
      /\ UNCHANGED <<running, worker, wpc, wdata, kind, recvd, ser, mode>>
  BY DEF stop_clear, StopListening, Cleared, BInv, TypeOK, TypeRequests, workers
<1>2. ~running /\ worker = None /\ LiveWorkers = {} /\ LiveWorkers' = {} /\ listening \subseteq {listen}
  BY <1>1 DEF Promised, Place, LiveWorkers
<1>3. NothingRuns'
  BY <1>1, <1>2 DEF NothingRuns
<1>4. \A u \in Tab : Place(u)'
  BY <1>1, <1>3 DEF Place, OneTab
<1>5. SerialMode' /\ OnListenSock'
  BY <1>1, <1>2, PromisedUnread DEF OnListenSock
<1>6. BacklogListens'
  <2>1. CASE Open(listen, "tcp")
    BY <2>1 DEF stop_clear, BacklogListens
  <2>2. CASE ~Open(listen, "tcp")
    BY <2>2, <1>2 DEF stop_clear, Open, Promised, BacklogListens
  <2> QED
    BY <2>1, <2>2
<1>7. BytesInOrder'
  <2>1. Pending' = {}
    BY <1>1, <1>2 DEF Promised, BytesInOrder, Pending, LiveWorkers
  <2>2. Len(rx_buf') = 0 /\ recvd \in Nat
    BY <1>1, EmptySeq DEF BInv, TypeOK, TypeBytes
  <2> QED
    BY <1>1, <2>1, <2>2 DEF BytesInOrder
<1> QED
  BY <1>4, <1>5, <1>6, <1>7 DEF Promised

LEMMA DisconnectPromised ==
  ASSUME BInv, OneTab, Promised, NEW t \in Tab, disconnect(t) \/ connect_serial(t)
  PROVE  Promised'
<1> USE DEF Set
<1>1. /\ NothingRuns /\ rpc'[t] \in {"idle", "open", "bind"}
      /\ mode' \in {"none", "serial"} /\ (rpc'[t] # "idle" => mode' = "none")
  BY DEF disconnect, connect_serial, Goto, Return, Promised, Place, BInv, TypeOK, TypeRequests
<1>2. UNCHANGED <<running, worker, listen, client, addr, listening, wpc, rx_buf>>
  BY DEF disconnect, connect_serial, workers, sockets
<1>3. NothingRuns'
  BY <1>1, <1>2 DEF NothingRuns, LiveWorkers
<1>4. \A u \in Tab : Place(u)'
  BY <1>1, <1>3 DEF Place, OneTab
<1>5. SerialMode'
  BY DEF disconnect, connect_serial, SerialMode, Promised
<1>6. OnListenSock' /\ BacklogListens' /\ BytesInOrder'
  BY PromisedUnread DEF disconnect, connect_serial, workers, sockets, bytes
<1> QED
  BY <1>4, <1>5, <1>6 DEF Promised

LEMMA BindPromised ==
  ASSUME BInv, OneTab, Promised, NEW t \in Tab, start_bind(t)
  PROVE  Promised'
<1> USE DEF Set
<1>1. /\ NothingRuns /\ mode = "none" /\ req[t] \in {"tcp", "udp"}
      /\ UNCHANGED <<running, worker, listen, client, addr, wpc, rx_buf, mode>>
  BY DEF start_bind, Promised, Place, BInv, SocketWanted, fields, workers
<1>2. LiveWorkers' = {}
  BY <1>1 DEF NothingRuns, LiveWorkers
<1>3. \A u \in Tab : Place(u)'
  <2>1. CASE /\ starts < MaxStarts /\ starts' = starts + 1
             /\ listening' = listening \cup {starts'} /\ kind' = [kind EXCEPT ![starts'] = req[t]]
             /\ rsock' = [rsock EXCEPT ![t] = starts'] /\ Goto(t, "publish")
    <3>1. starts' \in Start
      BY <2>1 DEF BInv, TypeOK, TypeSockets
    <3>2. rpc'[t] = "publish" /\ rsock'[t] = starts' /\ kind'[starts'] = req[t] /\ req' = req
      BY <2>1, <3>1 DEF Goto, BInv, TypeOK, TypeRequests, TypeSockets
    <3> QED
      BY <1>1, <1>2, <2>1, <3>1, <3>2 DEF Place, NothingRuns, OneTab
  <2>2. CASE Return(t) /\ UNCHANGED <<starts, listening, kind, rsock>>
    <3>1. rpc'[t] = "idle"
      BY <2>2 DEF Return, BInv, TypeOK, TypeRequests
    <3>2. NothingRuns'
      BY <1>1, <1>2, <2>2 DEF NothingRuns
    <3> QED
      BY <1>1, <3>1, <3>2 DEF Place, OneTab
  <2> QED
    BY <2>1, <2>2 DEF start_bind
<1>4. backlog = <<>> /\ backlog' = backlog
  BY <1>1 DEF Promised, BacklogListens, NothingRuns, start_bind
<1>5. SerialMode' /\ OnListenSock' /\ BacklogListens' /\ BytesInOrder'
  BY <1>4, PromisedUnread DEF start_bind, fields, workers, bytes, BacklogListens
<1> QED
  BY <1>3, <1>5 DEF Promised

LEMMA PublishPromised ==
  ASSUME BInv, OneTab, Promised, NEW t \in Tab, start_publish(t)
  PROVE  Promised'
<1> USE DEF Set
<1>1. /\ rpc[t] = "publish" /\ rpc'[t] = "run" /\ listen' = rsock[t] /\ mode' = req[t]
      /\ UNCHANGED <<running, worker, req, rsock, listening, kind, wpc, addr, ser>>
  BY DEF start_publish, BInv, TypeOK, TypeRequests, workers, sockets
<1>2. /\ ~running /\ worker = None /\ mode = "none" /\ rsock[t] # None
      /\ listening = {rsock[t]} /\ LiveWorkers = {} /\ LiveWorkers' = {}
      /\ kind[rsock[t]] = req[t] /\ req[t] \in {"tcp", "udp"}
  BY <1>1 DEF Promised, Place, LiveWorkers
<1>3. \A u \in Tab : Place(u)'
  BY <1>1, <1>2 DEF Place, OneTab
<1>4. SerialMode' /\ OnListenSock'
  BY <1>1, <1>2 DEF Promised, SerialMode, OnListenSock
<1>5. BacklogListens' /\ BytesInOrder'
  BY PromisedUnread DEF start_publish, workers, sockets, bytes
<1> QED
  BY <1>3, <1>4, <1>5 DEF Promised

LEMMA StartWorkerPromised ==
  ASSUME BInv, OneTab, Promised, NEW t \in Tab, start_worker(t)
  PROVE  Promised'
<1> USE DEF Set
<1> DEFINE k == rsock[t]
<1>1. /\ k \in Start /\ listen = k /\ listening = {k} /\ LiveWorkers = {}
      /\ kind[k] = req[t] /\ req[t] \in {"tcp", "udp"} /\ mode = req[t]
  BY DEF start_worker, Promised, Place, BInv, TypeOK, TypeRequests
<1>2. /\ rpc'[t] = "idle" /\ running' /\ worker' = k /\ wpc' = [wpc EXCEPT ![k] = "test"]
      /\ UNCHANGED <<listen, mode, listening, kind>>
  BY DEF start_worker, Return, BInv, TypeOK, TypeRequests, sockets
<1> HIDE DEF k
<1>3. LiveWorkers' = {k} /\ wpc'[k] = "test" /\ \A w \in Start \ {k} : wpc'[w] = wpc[w]
  BY <1>1, <1>2 DEF LiveWorkers, BInv, TypeOK, TypeWorkers
<1>4. ServerRuns'
  BY <1>1, <1>2, <1>3 DEF ServerRuns
<1>5. \A u \in Tab : Place(u)'
  BY <1>2, <1>4 DEF Place, OneTab
<1>6. OnListenSock'
  BY <1>3 DEF OnListenSock
<1>7. BytesInOrder'
  <2>1. UNCHANGED <<rx_buf, past, recvd, wdata>>
    BY DEF start_worker, bytes
  <2>2. Pending = {}
    BY <1>1 DEF Promised, BytesInOrder, Pending, LiveWorkers
  <2> QED
    BY <2>1, <2>2 DEF Promised, BytesInOrder, Pending
<1>8. SerialMode' /\ BacklogListens'
  BY PromisedUnread DEF start_worker, sockets
<1> QED
  BY <1>5, <1>6, <1>7, <1>8 DEF Promised

-----------------------------------------------------------------------------
(* The worker.  There is one at most, it is the published one, and a step   *)
(* of it leaves the request at its place as long as it ends only when it    *)
(* has been told to.                                                        *)
LEMMA TheWorker ==
  ASSUME BInv, OneTab, Promised, NEW w \in LiveWorkers
  PROVE  w \in Start /\ listen = w /\ listening = {w} /\ LiveWorkers = {w}
<1>1. PICK t \in Tab : \A u \in Tab : u = t
  BY DEF OneTab
<1>2. Place(t)
  BY DEF Promised
<1>3. rpc[t] \in {"idle", "stop", "wait", "join"} /\ ~NothingRuns
  BY <1>2 DEF Place, NothingRuns, BInv, TypeOK, TypeRequests
<1> QED
  BY <1>2, <1>3 DEF Place, ServerRuns, LiveWorkers

LEMMA WorkerPlace ==
  ASSUME BInv, OneTab, Promised, NEW w \in LiveWorkers,
         UNCHANGED <<requests, running, worker, listen, mode, listening, kind>>,
         LiveWorkers' \subseteq {w}, running => LiveWorkers' = {w}
  PROVE  \A t \in Tab : Place(t)'
<1> SUFFICES ASSUME NEW t \in Tab PROVE Place(t)'
  OBVIOUS
<1>1. Place(t) /\ LiveWorkers = {w} /\ ~NothingRuns
  BY TheWorker DEF Promised, NothingRuns
<1>2. rpc[t] \in {"idle", "stop", "wait", "join"}
  BY <1>1 DEF Place, NothingRuns, BInv, TypeOK, TypeRequests
<1>3. CASE rpc[t] \in {"wait", "join"}
  BY <1>1, <1>3 DEF Place, requests
<1>4. CASE rpc[t] \notin {"wait", "join"}
  <2>1. ServerRuns /\ ServerRuns'
    BY <1>1, <1>2, <1>4 DEF Place, ServerRuns
  <2> QED
    BY <1>2, <1>4, <2>1 DEF Place, requests
<1> QED
  BY <1>3, <1>4

(* The steps that change neither a buffer nor a socket.                     *)
LEMMA WorkerMovesPromised ==
  ASSUME BInv, OneTab, Promised, NEW w \in Start,
         worker_test(w) \/ worker_get(w) \/ worker_none(w)
  PROVE  Promised'
<1> USE DEF Set
<1>1. /\ w \in LiveWorkers /\ wpc[w] \in {"test", "get", "wait"}
      /\ wpc' = [wpc EXCEPT ![w] = wpc'[w]] /\ wpc'[w] \in {"test", "get", "wait", "done"}
      /\ UNCHANGED <<lock, fields, requests, wclient, wdata, sockets, bytes, late>>
  BY DEF worker_test, worker_get, worker_none, AfterTimeout, LiveWorkers, BInv, TypeOK, TypeWorkers
<1>2. listen = w /\ listening = {w} /\ LiveWorkers = {w} /\ \A v \in Start : v # w => wpc'[v] = wpc[v]
  BY <1>1, TheWorker DEF BInv, TypeOK, TypeWorkers
<1>3. LiveWorkers' \subseteq {w}
  BY <1>2 DEF LiveWorkers
<1>4. running => wpc'[w] # "done"
  <2>1. CASE worker_test(w)
    BY <2>1 DEF worker_test, Running, BInv, TypeOK, TypeWorkers
  <2>2. CASE worker_get(w)
    BY <1>2, <2>2 DEF worker_get, BInv, TypeOK, TypeWorkers
  <2>3. CASE worker_none(w)
    <3>1. ASSUME running PROVE wlisten[w] = w /\ kind[w] = kind[listen]
      BY <1>1, <1>2, <2>3 DEF worker_none, Promised, OnListenSock
    <3> QED
      BY <1>2, <2>3, <3>1 DEF worker_none, Open, AfterTimeout, BInv, TypeOK, TypeWorkers
  <2> QED
    BY <2>1, <2>2, <2>3
<1>5. running => LiveWorkers' = {w}
  BY <1>1, <1>3, <1>4 DEF LiveWorkers
<1>6. \A t \in Tab : Place(t)'
  BY <1>1, <1>3, <1>5, WorkerPlace DEF fields, sockets
<1>7. OnListenSock'
  <2>1. wpc'[w] = "wait" => wlisten'[w] = listen
    <3>1. CASE worker_get(w)
      BY <3>1 DEF worker_get, BInv, TypeOK, TypeWorkers
    <3>2. CASE worker_test(w) \/ worker_none(w)
      BY <3>2, <1>1 DEF worker_test, worker_none, AfterTimeout, BInv, TypeOK, TypeWorkers
    <3> QED
      BY <3>1, <3>2
  <2> QED
    BY <1>1, <1>3, <2>1 DEF OnListenSock, fields
<1>8. BytesInOrder'
  <2>1. Pending = {} /\ Pending' = {}
    BY <1>1, <1>2 DEF Promised, BytesInOrder, Pending, LiveWorkers
  <2> QED
    BY <1>1, <2>1 DEF Promised, BytesInOrder, fields, bytes
<1> QED
  BY <1>1, <1>6, <1>7, <1>8, PromisedUnread DEF Promised, fields, sockets

LEMMA AcceptPromised ==
  ASSUME BInv, OneTab, Promised, NEW w \in Start, accept_conn(w) \/ accept_install(w)
  PROVE  Promised'
<1> USE DEF Set
<1>1. /\ w \in LiveWorkers /\ wpc[w] \in {"wait", "install"}
      /\ wpc' = [wpc EXCEPT ![w] = wpc'[w]] /\ wpc'[w] \in {"install", "test"}
      /\ UNCHANGED <<mode, listen, running, worker, ser, rx_buf, requests, wlisten, wdata>>
      /\ UNCHANGED <<listening, kind, bytes>>
  BY DEF accept_conn, accept_install, LiveWorkers, BInv, TypeOK, TypeWorkers, fields
<1>2. listen = w /\ listening = {w} /\ LiveWorkers = {w} /\ \A v \in Start : v # w => wpc'[v] = wpc[v]
  BY <1>1, TheWorker DEF BInv, TypeOK, TypeWorkers
<1>3. LiveWorkers' = {w}
  BY <1>1, <1>2 DEF LiveWorkers
<1>4. \A t \in Tab : Place(t)'
  BY <1>1, <1>3, WorkerPlace
<1>5. OnListenSock'
  BY <1>1, <1>2, <1>3 DEF OnListenSock, Promised
<1>6. BytesInOrder'
  <2>1. Pending = {} /\ Pending' = {}
    BY <1>1, <1>2 DEF Promised, BytesInOrder, Pending, LiveWorkers
  <2> QED
    BY <1>1, <2>1 DEF Promised, BytesInOrder, bytes
<1>7. BacklogListens'
  BY <1>1 DEF accept_conn, accept_install, Promised, BacklogListens
<1> QED
  BY <1>1, <1>4, <1>5, <1>6, <1>7, PromisedUnread DEF Promised

(* A datagram waits in the worker, then joins the buffer.                   *)
LEMMA UdpWorker ==
  ASSUME BInv, OneTab, Promised, NEW w \in Start, udp_recv(w) \/ udp_append(w)
  PROVE  /\ w \in LiveWorkers /\ wpc[w] \in {"wait", "append"}
         /\ wpc' = [wpc EXCEPT ![w] = wpc'[w]] /\ wpc'[w] \in {"append", "test"}
         /\ listen = w /\ LiveWorkers = {w} /\ LiveWorkers' = {w}
         /\ (\A t \in Tab : Place(t)') /\ OnListenSock' /\ SerialMode' /\ BacklogListens'
<1> USE DEF Set
<1>1. /\ w \in LiveWorkers /\ wpc[w] \in {"wait", "append"}
      /\ wpc' = [wpc EXCEPT ![w] = wpc'[w]] /\ wpc'[w] \in {"append", "test"}
      /\ UNCHANGED <<lock, mode, listen, client, running, worker, ser, requests, wlisten, wclient>>
      /\ UNCHANGED <<sockets, late>>
  BY DEF udp_recv, udp_append, LiveWorkers, BInv, TypeOK, TypeWorkers, fields
<1>2. listen = w /\ listening = {w} /\ LiveWorkers = {w} /\ \A v \in Start : v # w => wpc'[v] = wpc[v]
  BY <1>1, TheWorker DEF BInv, TypeOK, TypeWorkers
<1>3. LiveWorkers' = {w}
  BY <1>1, <1>2 DEF LiveWorkers
<1>4. \A t \in Tab : Place(t)'
  BY <1>1, <1>3, WorkerPlace DEF sockets
<1>5. OnListenSock'
  BY <1>1, <1>2, <1>3 DEF OnListenSock, Promised
<1> QED
  BY <1>1, <1>2, <1>3, <1>4, <1>5, PromisedUnread DEF sockets

LEMMA UdpRecvPromised ==
  ASSUME BInv, OneTab, Promised, NEW w \in Start, udp_recv(w)
  PROVE  Promised'
<1>1. PICK n \in 1..MaxDgram : /\ wdata' = [wdata EXCEPT ![w] = [i \in 1..n |-> recvd + i]]
                               /\ recvd' = recvd + n
  BY DEF udp_recv, Set
<1>2. UNCHANGED <<rx_buf, past>> /\ wpc[w] = "wait" /\ wpc'[w] = "append"
  BY DEF udp_recv, Set, fields, BInv, TypeOK, TypeWorkers
<1> DEFINE d == [i \in 1..n |-> recvd + i]
<1>3. Len(d) = n /\ d # <<>> /\ \A i \in 1..n : d[i] = recvd + i
  <2>1. recvd \in Nat /\ n \in Nat /\ n > 0
    BY <1>1 DEF BInv, TypeOK, TypeBytes
  <2>2. d \in Seq(Nat) /\ Len(d) = n
    BY <2>1, SeqDef
  <2> QED
    BY <2>1, <2>2, EmptySeq
<1>4. Pending = {} /\ past + Len(rx_buf) = recvd
  BY <1>2, UdpWorker, SMTT(60) DEF Promised, BytesInOrder, Pending, LiveWorkers
<1>5. wdata'[w] = d /\ Pending' = {w}
  BY <1>1, <1>3, <1>4 DEF Pending, BInv, TypeOK, TypeWorkers
<1> HIDE DEF d
<1>6. BytesInOrder'
  BY <1>1, <1>2, <1>3, <1>4, <1>5 DEF BytesInOrder, Promised
<1> QED
  BY <1>6, UdpWorker DEF Promised

LEMMA UdpAppendPromised ==
  ASSUME BInv, OneTab, Promised, NEW w \in Start, udp_append(w)
  PROVE  Promised'
<1> USE DEF Set
<1> DEFINE n == Len(wdata[w])
           buf == rx_buf \o wdata[w]
<1>1. /\ rx_buf' = Trimmed(buf)
      /\ past' = IF rx_buf' = buf THEN past ELSE buf[Len(buf) - RxKeep]
      /\ wdata' = [wdata EXCEPT ![w] = <<>>] /\ recvd' = recvd
  BY DEF udp_append
<1>2. /\ rx_buf \in Seq(1..MaxBytes) /\ wdata[w] \in Seq(1..MaxBytes)
      /\ Len(rx_buf) \in Nat /\ n \in Nat /\ past \in Nat /\ recvd \in Nat
  BY LenProperties DEF BInv, TypeOK, TypeFields, TypeWorkers, TypeBytes
<1>3. Pending \subseteq {w}
  BY UdpWorker DEF Promised, BytesInOrder, Pending, LiveWorkers
<1>4. past + Len(rx_buf) + n = recvd /\ \A i \in 1..n : wdata[w][i] = past + Len(rx_buf) + i
  <2>1. CASE wdata[w] = <<>>
    <3>1. Pending = {} /\ n = 0
      BY <1>3, <2>1, EmptySeq DEF Pending
    <3> QED
      BY <1>2, <3>1 DEF Promised, BytesInOrder
  <2>2. CASE wdata[w] # <<>>
    BY <2>2 DEF Promised, BytesInOrder, Pending
  <2> QED
    BY <2>1, <2>2
<1>5. /\ buf \in Seq(1..MaxBytes) /\ Len(buf) = Len(rx_buf) + n
      /\ \A i \in 1..Len(buf) : buf[i] = past + i
  <2>1. /\ buf \in Seq(1..MaxBytes) /\ Len(buf) = Len(rx_buf) + n
        /\ \A i \in 1..Len(rx_buf) : buf[i] = rx_buf[i]
        /\ \A i \in 1..n : buf[Len(rx_buf) + i] = wdata[w][i]
    BY <1>2, ConcatProperties
  <2>2. ASSUME NEW i \in 1..Len(buf) PROVE buf[i] = past + i
    <3>1. CASE i <= Len(rx_buf)
      BY <1>2, <2>1, <3>1 DEF Promised, BytesInOrder
    <3>2. CASE i > Len(rx_buf)
      <4>1. i - Len(rx_buf) \in 1..n /\ Len(rx_buf) + (i - Len(rx_buf)) = i
        BY <1>2, <2>1, <3>2
      <4> QED
        BY <1>2, <1>4, <2>1, <4>1
    <3> QED
      BY <1>2, <2>1, <3>1, <3>2
  <2> QED
    BY <2>1, <2>2
<1>6. Pending' = {}
  BY <1>1, <1>3 DEF Pending, BInv, TypeOK, TypeWorkers
<1> HIDE DEF buf, n
<1>7. Len(buf) \in Nat
  BY <1>2, <1>5
<1>8. past' + Len(rx_buf') = recvd /\ \A i \in 1..Len(rx_buf') : rx_buf'[i] = past' + i
  <2>1. CASE Len(buf) <= RxMax
    <3>1. rx_buf' = buf /\ past' = past
      BY <1>1, <1>7, <2>1 DEF Trimmed
    <3> QED
      BY <1>2, <1>4, <1>5, <3>1
  <2>2. CASE Len(buf) > RxMax
    <3> DEFINE m == Len(buf) - RxKeep
    <3>1. m \in 1..Len(buf) /\ Len(buf) = m + RxKeep /\ m + 1 \in 1..Len(buf) /\ RxKeep \in Nat
      BY <1>7, <2>2
    <3>2. rx_buf' = SubSeq(buf, m + 1, Len(buf))
      BY <1>1, <1>7, <2>2 DEF Trimmed
    <3>3. Len(rx_buf') = RxKeep /\ \A i \in 1..RxKeep : rx_buf'[i] = buf[m + i]
      <4> HIDE DEF m
      <4>1. \A i \in (m + 1)..Len(buf) : buf[i] \in 1..MaxBytes
        BY <1>5, <1>7, <3>1, ElementOfSeq
      <4>2. /\ Len(rx_buf') = IF m + 1 <= Len(buf) THEN Len(buf) - (m + 1) + 1 ELSE 0
            /\ \A i \in 1..(Len(buf) - (m + 1) + 1) : rx_buf'[i] = buf[(m + 1) + i - 1]
        <5> DEFINE a == m + 1
        <5>1. a \in Int /\ Len(buf) \in Int /\ \A i \in a..Len(buf) : buf[i] \in 1..MaxBytes
          BY <1>7, <3>1, <4>1
        <5> HIDE DEF a
        <5>2. /\ Len(SubSeq(buf, a, Len(buf))) = IF a <= Len(buf) THEN Len(buf) - a + 1 ELSE 0
              /\ \A i \in 1..(Len(buf) - a + 1) : SubSeq(buf, a, Len(buf))[i] = buf[a + i - 1]
          BY ONLY <5>1, SubSeqProperties
        <5> QED
          BY <3>2, <5>2, Zenon DEF a
      <4>3. m + 1 <= Len(buf) /\ Len(buf) - (m + 1) + 1 = RxKeep
        BY <1>7, <3>1
      <4>4. \A i \in 1..RxKeep : (m + 1) + i - 1 = m + i
        BY <3>1
      <4>5. \A i \in 1..RxKeep : rx_buf'[i] = buf[(m + 1) + i - 1]
        BY <4>2, <4>3
      <4> QED
        BY <4>2, <4>3, <4>4, <4>5
    <3>4. past' = past + m
      <4>1. rx_buf' # buf
        BY <1>7, <2>2, <3>3
      <4> QED
        BY <1>1, <1>5, <3>1, <4>1
    <3> HIDE DEF m
    <3>5. \A i \in 1..RxKeep : m + i \in 1..Len(buf)
      BY <1>7, <3>1
    <3>6. past' + Len(rx_buf') = recvd
      <4>1. past + Len(buf) = recvd
        BY <1>2, <1>4, <1>5
      <4>2. past \in Int /\ m \in Int /\ RxKeep \in Int
        BY <1>2, <1>7, <3>1
      <4> QED
        BY <3>1, <3>3, <3>4, <4>1, <4>2
    <3>7. ASSUME NEW i \in 1..RxKeep PROVE rx_buf'[i] = past' + i
      <4>1. rx_buf'[i] = past + (m + i)
        BY <1>5, <3>3, <3>5
      <4> QED
        BY <1>2, <3>1, <3>4, <4>1
    <3> QED
      BY <3>3, <3>6, <3>7
  <2> QED
    BY <1>7, <2>1, <2>2
<1>9. BytesInOrder'
  BY <1>1, <1>6, <1>8 DEF BytesInOrder
<1> QED
  BY <1>9, UdpWorker DEF Promised

-----------------------------------------------------------------------------
(* The page's reads, the device and the status requests.                    *)
LEMMA ReadGonePromised ==
  ASSUME BInv, OneTab, Promised, read_gone
  PROVE  Promised'
<1>1. /\ client # None /\ addr' = None
      /\ UNCHANGED <<requests, running, worker, listen, mode, rx_buf, listening, kind, wpc>>
  BY DEF read_gone, workers
<1>2. ASSUME NEW t \in Tab PROVE Place(t)'
  <2>1. Place(t) /\ ~NothingRuns
    BY <1>1 DEF Promised, NothingRuns
  <2>2. LiveWorkers' = LiveWorkers /\ (ServerRuns => ServerRuns')
    BY <1>1 DEF LiveWorkers, ServerRuns
  <2> QED
    BY <1>1, <2>1, <2>2 DEF Place, requests
<1>3. SerialMode' /\ OnListenSock' /\ BacklogListens' /\ BytesInOrder'
  BY PromisedUnread DEF read_gone, workers, bytes
<1> QED
  BY <1>2, <1>3 DEF Promised

LEMMA ReadUdpPromised ==
  ASSUME BInv, OneTab, Promised, read_udp
  PROVE  Promised'
<1> DEFINE n == IF ReadMax < Len(rx_buf) THEN ReadMax ELSE Len(rx_buf)
<1>1. /\ rx_buf # <<>> /\ past' = rx_buf[n] /\ rx_buf' = SubSeq(rx_buf, n + 1, Len(rx_buf))
      /\ UNCHANGED <<requests, running, worker, listen, mode, addr, listening, kind, wpc, wdata, recvd>>
  BY DEF read_udp, Rest, workers, sockets
<1>2. rx_buf \in Seq(1..MaxBytes) /\ Len(rx_buf) \in Nat \ {0} /\ past \in Nat /\ recvd \in Nat
  BY <1>1, LenProperties, EmptySeq DEF BInv, TypeOK, TypeFields, TypeBytes
<1>3. n \in 1..Len(rx_buf)
  BY <1>2
<1> HIDE DEF n
<1>4. past' = past + n
  BY <1>1, <1>3 DEF Promised, BytesInOrder
<1>5. Len(rx_buf') = Len(rx_buf) - n /\ \A i \in 1..Len(rx_buf') : rx_buf'[i] = past' + i
  <2>1. \A i \in (n + 1)..Len(rx_buf) : rx_buf[i] \in 1..MaxBytes
    BY <1>2, <1>3, ElementOfSeq
  <2>2. /\ Len(rx_buf') = IF n + 1 <= Len(rx_buf) THEN Len(rx_buf) - (n + 1) + 1 ELSE 0
        /\ \A i \in 1..(Len(rx_buf) - (n + 1) + 1) : rx_buf'[i] = rx_buf[(n + 1) + i - 1]
    BY <1>1, <1>2, <1>3, <2>1, SubSeqProperties
  <2>3. Len(rx_buf') = Len(rx_buf) - n
    BY <1>2, <1>3, <2>2
  <2>4. ASSUME NEW i \in 1..Len(rx_buf') PROVE rx_buf'[i] = past' + i
    <3>1. n + i \in 1..Len(rx_buf) /\ (n + 1) + i - 1 = n + i /\ i \in 1..(Len(rx_buf) - (n + 1) + 1)
      BY <1>2, <1>3, <2>3
    <3>2. rx_buf'[i] = past + (n + i)
      BY <2>2, <3>1 DEF Promised, BytesInOrder
    <3> QED
      BY <1>2, <1>3, <1>4, <3>2
  <2> QED
    BY <2>3, <2>4
<1>6. BytesInOrder'
  <2>1. past' + Len(rx_buf') = past + Len(rx_buf)
    BY <1>2, <1>3, <1>4, <1>5
  <2>2. Pending' = Pending
    BY <1>1 DEF Pending
  <2> QED
    BY <1>1, <1>5, <2>1, <2>2, ZenonT(60) DEF BytesInOrder, Promised
<1>7. ASSUME NEW t \in Tab PROVE Place(t)'
  <2>1. Place(t) /\ ~NothingRuns
    BY <1>1 DEF Promised, NothingRuns
  <2>2. LiveWorkers' = LiveWorkers /\ (ServerRuns => ServerRuns')
    BY <1>1 DEF LiveWorkers, ServerRuns
  <2> QED
    BY <1>1, <2>1, <2>2 DEF Place, requests
<1>8. SerialMode' /\ OnListenSock' /\ BacklogListens'
  BY PromisedUnread DEF read_udp, workers, sockets
<1> QED
  BY <1>6, <1>7, <1>8 DEF Promised

LEMMA OutsidePromised ==
  ASSUME Promised, Dial \/ Drop \/ status_begin \/ status_end \/ UNCHANGED vars
  PROVE  Promised'
<1>1. UNCHANGED <<fields, requests, workers, listening, kind, bytes>>
  BY DEF Dial, Drop, status_begin, status_end, vars, sockets
<1>2. BacklogListens'
  BY <1>1 DEF Dial, Drop, status_begin, status_end, vars, sockets, Promised, BacklogListens
<1> QED
  BY <1>1, <1>2, PromisedUnread DEF Promised, fields, workers, bytes

-----------------------------------------------------------------------------
LEMMA NextPInv == BInv /\ PInv /\ [Next]_vars => PInv'
<1> SUFFICES ASSUME BInv, PInv, [Next]_vars, OneTab, ~late' PROVE Promised'
  BY DEF PInv, OneTab
<1>1. Promised
  <2>1. ~late
    BY DEF Next, vars, Request, RequestStep, stop_network, stop_worker, join, stop_clear, disconnect, connect_serial,
           start_bind, start_publish, start_worker, WorkerStep, worker_test, worker_get, worker_none,
           accept_conn, accept_install, udp_recv, udp_append, read_gone, read_udp, status_begin,
           status_end, Dial, Drop, BInv, TypeOK
  <2> QED
    BY <2>1 DEF PInv
<1>2. ASSUME NEW t \in Tab, NEW what \in {"tcp", "udp", "serial", "disconnect"}, Request(t, what)
      PROVE  Promised'
  BY <1>1, <1>2, RequestPromised
<1>3. ASSUME NEW t \in Tab, RequestStep(t) PROVE Promised'
  BY <1>1, <1>3, StopNetworkPromised, StopWorkerPromised, JoinPromised, StopClearPromised, DisconnectPromised,
     BindPromised, PublishPromised, StartWorkerPromised DEF RequestStep
<1>4. ASSUME NEW w \in Start, WorkerStep(w) PROVE Promised'
  BY <1>1, <1>4, WorkerMovesPromised, AcceptPromised, UdpRecvPromised, UdpAppendPromised DEF WorkerStep
<1> QED
  BY <1>1, <1>2, <1>3, <1>4, ReadGonePromised, ReadUdpPromised, OutsidePromised DEF Next

LEMMA AlwaysPromised == Spec => [](BInv /\ PInv)
<1>1. Init => BInv /\ PInv
  BY InitBInv, InitPInv
<1>2. BInv /\ PInv /\ [Next]_vars => (BInv /\ PInv)'
  BY NextBInv, NextPInv
<1> QED
  BY <1>1, <1>2, PTL DEF Spec

(* A tab that is at rest is in one of the two states between requests.      *)
LEMMA RestingPlace ==
  ASSUME Promised, OneTab, AtRest
  PROVE  (NothingRuns /\ mode \in {"none", "serial"}) \/ ServerRuns
BY DEF Promised, Place, OneTab, AtRest, Idle

(* When the one tab's disconnect or connect by serial port has returned,    *)
(* no socket is open, no worker waits, no device is connected, and nothing  *)
(* of the old server is left, unless a join gave up.                        *)
THEOREM OneTabStopped == Spec => [](OneTab => StoppedUnlessLate)
<1>1. ASSUME BInv, PInv, OneTab PROVE StoppedUnlessLate
  <2> SUFFICES ASSUME ~late, AtRest
               PROVE  (mode \in {"none", "serial"} => Stopped) /\ SerialMode
    BY DEF StoppedUnlessLate, SerialMode
  <2>1. Promised
    BY <1>1 DEF PInv
  <2>2. ASSUME mode \in {"none", "serial"} PROVE Stopped
    <3>1. NothingRuns
      BY <1>1, <2>1, <2>2, RestingPlace DEF ServerRuns
    <3>2. backlog = <<>>
      BY <2>1, <3>1 DEF Promised, BacklogListens, NothingRuns
    <3>3. \A c \in Conn : conn[c] # "open"
      BY <1>1, <3>1, <3>2 DEF BInv, NoConnectionLeaks, NothingRuns, Waiting
    <3> QED
      BY <3>1, <3>3 DEF Stopped, NothingRuns
  <2> QED
    BY <2>1, <2>2 DEF Promised
<1>2. BInv /\ PInv => (OneTab => StoppedUnlessLate)
  BY <1>1
<1> QED
  BY <1>2, AlwaysPromised, PTL

(* When its connect by TCP or UDP has returned, exactly one worker waits on *)
(* exactly the open socket, both of the mode asked for, and _worker names   *)
(* it for the next disconnect.                                              *)
THEOREM OneTabServed == Spec => [](OneTab => ServedUnlessLate)
<1>1. BInv /\ PInv => (OneTab => ServedUnlessLate)
  <2> SUFFICES ASSUME PInv, OneTab, ~late, AtRest, mode \in {"tcp", "udp"} PROVE ServerRuns
    BY DEF ServedUnlessLate, ServerRuns
  <2> QED
    BY RestingPlace DEF PInv
<1> QED
  BY <1>1, AlwaysPromised, PTL

(* write_cmd never has an address of a server other than the one that runs. *)
(* The address is set under the worker's socket and cleared with it.        *)
PeerInv == OneTab => PeerIsServed
LEMMA PeerStep == BInv /\ PInv /\ PeerInv /\ [Next]_vars => PeerInv'
<1> SUFFICES ASSUME BInv, PInv, PeerInv, [Next]_vars, OneTab, ~late' PROVE addr' # None => addr' = listen'
  BY DEF PeerInv, PeerIsServed, OneTab
<1>1. ~late => Promised /\ (addr # None => addr = listen)
  BY DEF PInv, PeerInv, PeerIsServed
<1>2. ASSUME NEW t \in Tab, NEW what \in {"tcp", "udp", "serial", "disconnect"}, Request(t, what)
      PROVE  addr' # None => addr' = listen'
  BY <1>1, <1>2 DEF Request, fields
<1>3. ASSUME NEW t \in Tab, RequestStep(t) PROVE addr' # None => addr' = listen'
  <2>1. CASE start_publish(t)
    BY <1>1, <2>1 DEF start_publish, Promised, Place
  <2>2. CASE join(t)
    BY <1>1, <2>2 DEF join, BInv, TypeOK
  <2> QED
    BY <1>1, <1>3, <2>1, <2>2 DEF RequestStep, stop_network, stop_worker, stop_clear, disconnect, connect_serial,
                                  start_bind, start_worker, fields
<1>4. ASSUME NEW w \in Start, WorkerStep(w) PROVE addr' # None => addr' = listen'
  <2>1. CASE accept_install(w) \/ udp_append(w)
    <3>1. w \in LiveWorkers /\ wpc[w] \in {"install", "append"} /\ ~late /\ addr' = wlisten[w] /\ listen' = listen
      BY <2>1 DEF accept_install, udp_append, LiveWorkers
    <3> QED
      BY <1>1, <3>1 DEF Promised, OnListenSock
  <2> QED
    BY <1>1, <1>4, <2>1 DEF WorkerStep, worker_test, worker_get, worker_none, accept_conn, udp_recv, fields
<1> QED
  BY <1>1, <1>2, <1>3, <1>4
     DEF Next, vars, read_gone, read_udp, status_begin, status_end, Dial, Drop, fields

THEOREM OneTabPeer == Spec => [](OneTab => PeerIsServed)
<1>1. Init => PeerInv
  BY DEF Init, PeerInv, PeerIsServed
<1>2. PeerInv => (OneTab => PeerIsServed)
  BY DEF PeerInv
<1> QED
  BY <1>1, <1>2, PeerStep, AlwaysPromised, PTL DEF Spec

(* The page reads UDP bytes in order and once and loses only the oldest of  *)
(* a buffer that overflowed.                                                *)
THEOREM OneTabBuffered == Spec => [](OneTab => BufferedUnlessLate)
<1>1. BInv /\ PInv => (OneTab => BufferedUnlessLate)
  <2> SUFFICES ASSUME BInv, ~late, Promised PROVE BufferedUnlessLate
    BY DEF PInv, BufferedUnlessLate
  <2>1. DOMAIN rx_buf = 1..Len(rx_buf) /\ Len(rx_buf) \in Nat /\ past \in Nat /\ recvd \in Nat
    BY LenProperties DEF BInv, TypeOK, TypeFields, TypeBytes
  <2> QED
    BY <2>1 DEF Promised, BytesInOrder, BufferedUnlessLate
<1> QED
  BY <1>1, AlwaysPromised, PTL
=============================================================================
