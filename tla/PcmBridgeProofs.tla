--------------------------- MODULE PcmBridgeProofs ---------------------------
(***************************************************************************)
(* Proofs about PcmBridge for any number of browser tabs, servers and      *)
(* connections, whether or not a join gives up.                            *)
(***************************************************************************)
EXTENDS PcmBridge, SequenceTheorems, TLAPS

(* BridgeInv needs to know what a request is for while it makes a socket,   *)
(* that the socket's worker has not started then, and that a worker holds a *)
(* connection only to install it.                                           *)
SocketWanted == \A t \in Tab : rpc[t] \in {"bind", "publish"} => req[t] \in {"tcp", "udp"}
NotYetStarted ==
  /\ \A t \in Tab : rsock[t] # None => rsock[t] <= starts /\ wpc[rsock[t]] = "off"
  /\ \A t, u \in Tab : rsock[t] = rsock[u] /\ t # u => rsock[t] = None
  /\ \A w \in Start : w > starts => wpc[w] = "off"
Carried == \A w \in Start : wclient[w] # None => wpc[w] = "install"
BInv == TypeOK /\ NoConnectionLeaks /\ SocketWanted /\ NotYetStarted /\ Carried

USE BridgeAssumption DEF Start, Conn, None

-----------------------------------------------------------------------------
LEMMA InitBInv == Init => BInv
<1> SUFFICES ASSUME Init PROVE BInv
  OBVIOUS
<1>1. <<>> \in Seq(1..MaxBytes) /\ <<>> \in Seq(Conn) /\ Len(<<>>) = 0
  BY EmptySeq DEF Conn
<1>2. TypeFields /\ TypeSockets
  <2>1. TypeFields
    <3>1. rx_buf = <<>>
      BY DEF Init
    <3>2. rx_buf \in Seq(1..MaxBytes) /\ Len(rx_buf) = 0
      BY <1>1, <3>1
    <3>3. Len(rx_buf) <= RxMax
      BY <3>2
    <3>4. /\ lock \in {"free", "status"} /\ mode \in {"none", "tcp", "udp", "serial"}
          /\ listen \in Start \cup {None} /\ client \in Conn \cup {None}
          /\ running \in BOOLEAN /\ worker \in Start \cup {None}
          /\ ser \in BOOLEAN /\ addr \in Start \cup {None}
      BY DEF Init
    <3> QED
      BY <3>2, <3>3, <3>4 DEF TypeFields
  <2>2. TypeSockets
    BY <1>1 DEF Init, TypeSockets
  <2> QED
    BY <2>1, <2>2
<1>3. TypeRequests /\ TypeBytes /\ late \in BOOLEAN
  <2>1. TypeRequests
    BY DEF Init, TypeRequests
  <2>2. TypeBytes
    BY DEF Init, TypeBytes
  <2>3. late \in BOOLEAN
    BY DEF Init
  <2> QED
    BY <2>1, <2>2, <2>3
<1>4. TypeWorkers
  <2>1. [w \in Start |-> <<>>] \in [Start -> Seq(1..MaxBytes)]
    BY <1>1
  <2> QED
    BY <2>1 DEF Init, TypeWorkers
<1>5. NoConnectionLeaks /\ SocketWanted /\ NotYetStarted /\ Carried
  BY DEF Init, NoConnectionLeaks, SocketWanted, NotYetStarted, Carried
<1> QED
  BY <1>2, <1>3, <1>4, <1>5 DEF BInv, TypeOK

(* The parts of BInv and the variables each of them reads.                  *)
LEMMA Unread ==
  ASSUME BInv
  PROVE  /\ UNCHANGED <<conn, client, backlog, wpc, wclient>> => NoConnectionLeaks' /\ Carried'
         /\ UNCHANGED <<rsock, starts, wpc>> => NotYetStarted'
         /\ UNCHANGED <<rpc, req>> => SocketWanted'
         /\ UNCHANGED <<lock, fields>> => TypeFields'
         /\ UNCHANGED requests => TypeRequests'
         /\ UNCHANGED workers => TypeWorkers'
         /\ UNCHANGED sockets => TypeSockets'
         /\ UNCHANGED bytes => TypeBytes'
<1>1. UNCHANGED <<conn, client, backlog, wpc, wclient>> => NoConnectionLeaks' /\ Carried'
  BY DEF BInv, NoConnectionLeaks, Carried, Waiting, LiveWorkers
<1>2. UNCHANGED <<rsock, starts, wpc>> => NotYetStarted'
  BY DEF BInv, NotYetStarted
<1>3. UNCHANGED <<rpc, req>> => SocketWanted'
  BY DEF BInv, SocketWanted
<1>4. UNCHANGED <<lock, fields>> => TypeFields'
  BY DEF BInv, TypeOK, TypeFields, fields
<1>5. UNCHANGED requests => TypeRequests'
  BY DEF BInv, TypeOK, TypeRequests, requests
<1>6. UNCHANGED workers => TypeWorkers'
  BY DEF BInv, TypeOK, TypeWorkers, workers
<1>7. UNCHANGED sockets => TypeSockets'
  BY DEF BInv, TypeOK, TypeSockets, sockets
<1>8. UNCHANGED bytes => TypeBytes'
  BY DEF BInv, TypeOK, TypeBytes, bytes
<1> QED
  BY <1>1, <1>2, <1>3, <1>4, <1>5, <1>6, <1>7, <1>8

(* A request's steps but the one that closes: connections stay where they   *)
(* are.                                                                     *)
LEMMA RequestStepInv ==
  ASSUME BInv, NEW t \in Tab,
         \/ \E what \in {"tcp", "udp", "serial", "disconnect"} : Request(t, what)
         \/ stop_network(t) \/ stop_worker(t) \/ join(t) \/ disconnect(t) \/ connect_serial(t)
         \/ start_bind(t) \/ start_publish(t) \/ start_worker(t)
  PROVE  BInv'
<1> USE DEF Set, Goto, Return, TypeOK
<1>1. ASSUME NEW what \in {"tcp", "udp", "serial", "disconnect"}, Request(t, what)
      PROVE  BInv'
  <2>1. TypeRequests' /\ SocketWanted'
    BY <1>1 DEF BInv, Request, TypeRequests, SocketWanted
  <2> QED
    BY <1>1, <2>1, Unread DEF BInv, Request, fields, workers, sockets
<1>2. CASE stop_network(t)
  <2>1. TypeRequests' /\ SocketWanted'
    BY <1>2 DEF BInv, stop_network, TypeRequests, TypeFields, SocketWanted
  <2>2. TypeFields'
    BY <1>2 DEF BInv, stop_network, TypeFields
  <2> QED
    BY <1>2, <2>1, <2>2, Unread DEF BInv, stop_network, workers, sockets
<1>9. CASE stop_worker(t)
  <2>1. TypeRequests' /\ SocketWanted'
    BY <1>9 DEF BInv, stop_worker, TypeRequests, TypeFields, SocketWanted
  <2> QED
    BY <1>9, <2>1, Unread DEF BInv, stop_worker, fields, workers, sockets
<1>3. CASE join(t)
  <2>1. TypeRequests' /\ SocketWanted'
    BY <1>3 DEF BInv, join, TypeRequests, SocketWanted
  <2>2. TypeFields'
    BY <1>3 DEF BInv, join, TypeFields
  <2>3. late' \in BOOLEAN
    BY <1>3 DEF BInv, join, JoinEnds
  <2> QED
    BY <1>3, <2>1, <2>2, <2>3, Unread DEF BInv, join, workers, sockets
<1>4. CASE disconnect(t)
  <2>1. TypeRequests' /\ SocketWanted'
    BY <1>4 DEF BInv, disconnect, TypeRequests, SocketWanted
  <2>2. TypeFields'
    BY <1>4 DEF BInv, disconnect, TypeFields
  <2> QED
    BY <1>4, <2>1, <2>2, Unread DEF BInv, disconnect, workers, sockets
<1>5. CASE connect_serial(t)
  <2>1. TypeRequests' /\ SocketWanted'
    BY <1>5 DEF BInv, connect_serial, TypeRequests, SocketWanted
  <2>2. TypeFields'
    BY <1>5 DEF BInv, connect_serial, TypeFields
  <2> QED
    BY <1>5, <2>1, <2>2, Unread DEF BInv, connect_serial, workers, sockets
<1>6. CASE start_bind(t)
  <2>1. CASE Return(t) /\ UNCHANGED <<starts, listening, kind, rsock>>
    <3>1. TypeRequests' /\ SocketWanted'
      BY <1>6, <2>1 DEF BInv, start_bind, TypeRequests, SocketWanted
    <3> QED
      BY <1>6, <2>1, <3>1, Unread DEF BInv, start_bind, workers, fields, sockets
  <2>2. CASE /\ starts < MaxStarts
             /\ starts' = starts + 1
             /\ listening' = listening \cup {starts'}
             /\ kind' = Set(kind, starts', req[t])
             /\ rsock' = Set(rsock, t, starts')
             /\ Goto(t, "publish")
    <3>1. /\ starts' \in 1..MaxStarts /\ starts \in Nat /\ req[t] \in {"tcp", "udp"}
          /\ rpc[t] = "bind" /\ starts' = starts + 1
      BY <1>6, <2>2 DEF BInv, TypeSockets, SocketWanted, start_bind
    <3>2. TypeRequests' /\ SocketWanted'
      <4>1. rpc' = [rpc EXCEPT ![t] = "publish"] /\ UNCHANGED <<req, rjoin>>
        BY <1>6, <2>2 DEF start_bind
      <4> QED
        BY <2>2, <3>1, <4>1 DEF BInv, TypeRequests, SocketWanted
    <3>3. TypeSockets'
      <4>1. UNCHANGED <<conn, backlog>>
        BY <1>6 DEF start_bind
      <4> QED
        BY <2>2, <3>1, <4>1 DEF BInv, TypeSockets
    <3>4. NotYetStarted'
      <4>1. UNCHANGED wpc /\ rsock' = [rsock EXCEPT ![t] = starts + 1]
        BY <1>6, <2>2 DEF start_bind, workers
      <4>2. \A u \in Tab : rsock'[u] = IF u = t THEN starts + 1 ELSE rsock[u]
        BY <4>1 DEF BInv, TypeRequests
      <4>3. \A u \in Tab : rsock[u] \in Nat /\ (rsock[u] # 0 => rsock[u] <= starts)
        BY DEF BInv, NotYetStarted, TypeRequests
      <4>4. \A u \in Tab : rsock'[u] # None => rsock'[u] <= starts' /\ wpc'[rsock'[u]] = "off"
        BY <3>1, <4>1, <4>2, <4>3 DEF BInv, NotYetStarted
      <4>5. \A u, v \in Tab : rsock'[u] = rsock'[v] /\ u # v => rsock'[u] = None
        BY <3>1, <4>2, <4>3 DEF BInv, NotYetStarted
      <4>6. \A w \in Start : w > starts' => wpc'[w] = "off"
        BY <3>1, <4>1 DEF BInv, NotYetStarted
      <4> QED
        BY <4>4, <4>5, <4>6 DEF NotYetStarted
    <3> QED
      BY <1>6, <3>2, <3>3, <3>4, Unread DEF BInv, start_bind, workers, fields
  <2> QED
    BY <1>6, <2>1, <2>2 DEF start_bind
<1>7. CASE start_publish(t)
  <2>1. TypeRequests' /\ SocketWanted'
    BY <1>7 DEF BInv, start_publish, TypeRequests, SocketWanted
  <2>2. TypeFields'
    BY <1>7 DEF BInv, start_publish, TypeFields, TypeRequests, SocketWanted
  <2> QED
    BY <1>7, <2>1, <2>2, Unread DEF BInv, start_publish, workers, sockets
<1>8. CASE start_worker(t)
  <2>1. TypeRequests' /\ SocketWanted'
    BY <1>8 DEF BInv, start_worker, TypeRequests, SocketWanted
  <2>2. TypeFields'
    BY <1>8 DEF BInv, start_worker, TypeFields, TypeRequests
  <2>3. TypeWorkers'
    BY <1>8 DEF BInv, start_worker, TypeWorkers
  <2>4. NotYetStarted'
    BY <1>8 DEF BInv, start_worker, NotYetStarted, TypeRequests, TypeWorkers, TypeSockets, sockets
  <2>5. NoConnectionLeaks' /\ Carried'
    <3>1. UNCHANGED <<conn, client, backlog, wclient>>
      BY <1>8 DEF start_worker, sockets
    <3>2. \A w \in Start : w # rsock[t] => wpc'[w] = wpc[w]
      BY <1>8 DEF BInv, start_worker, TypeWorkers
    <3>3. \A w \in Start : w = rsock[t] => wpc[w] = "off"
      BY DEF BInv, NotYetStarted
    <3>4. \A w \in Start : wclient[w] # None => w # rsock[t]
      BY <3>3 DEF BInv, Carried
    <3>5. Carried'
      BY <3>1, <3>2, <3>4 DEF BInv, Carried
    <3>6. \A w \in LiveWorkers : w \in LiveWorkers'
      BY <3>2, <3>3 DEF LiveWorkers
    <3>7. NoConnectionLeaks'
      BY <3>1, <3>6 DEF BInv, NoConnectionLeaks, Waiting
    <3> QED
      BY <3>5, <3>7
  <2> QED
    BY <1>8, <2>1, <2>2, <2>3, <2>4, <2>5, Unread DEF BInv, start_worker
<1> QED
  BY <1>1, <1>2, <1>3, <1>4, <1>5, <1>6, <1>7, <1>8, <1>9

(* Closing the sockets: the client is closed, and so is whoever waits in    *)
(* the backlog that goes.                                                   *)
LEMMA ClosedFacts ==
  ASSUME BInv, NEW cs
  PROVE  /\ Closed(cs) \in [Conn -> {"none", "open", "dropped", "closed"}]
         /\ \A c \in Conn : Closed(cs)[c] = IF c \in cs THEN "closed" ELSE conn[c]
<1>1. conn \in [Conn -> {"none", "open", "dropped", "closed"}]
  BY DEF BInv, TypeOK, TypeSockets
<1> QED
  BY <1>1 DEF Closed

LEMMA StopClearInv ==
  ASSUME BInv, NEW t \in Tab, stop_clear(t)
  PROVE  BInv'
<1> USE DEF Set, TypeOK
<1> DEFINE gone == {client} \cup (IF Open(listen, "tcp") THEN Waiting ELSE {})
<1>1. /\ conn' = Closed(gone) /\ client' = None
      /\ backlog' = IF Open(listen, "tcp") THEN <<>> ELSE backlog
      /\ UNCHANGED <<wpc, wclient, rsock, starts, req, kind>>
      /\ listening' = listening \ StopListening /\ rx_buf' = <<>> /\ past' = recvd
  BY DEF stop_clear, workers, Cleared
<1> HIDE DEF gone
<1>2. <<>> \in Seq(1..MaxBytes) /\ <<>> \in Seq(Conn) /\ Len(<<>>) = 0
  BY EmptySeq
<1>3. TypeRequests' /\ SocketWanted'
  BY DEF BInv, stop_clear, TypeRequests, SocketWanted
<1>4. TypeFields'
  <2>1. rx_buf' \in Seq(1..MaxBytes) /\ Len(rx_buf') <= RxMax
    BY <1>1, <1>2
  <2>2. /\ listen' = None /\ client' = None /\ addr' = None
        /\ UNCHANGED <<lock, mode, running, worker, ser>>
    BY DEF stop_clear
  <2> QED
    BY <2>1, <2>2 DEF BInv, TypeFields
<1>5. TypeSockets'
  <2>1. backlog' \in Seq(Conn)
    BY <1>1, <1>2 DEF BInv, TypeSockets
  <2>2. conn' \in [Conn -> {"none", "open", "dropped", "closed"}]
    BY <1>1, ClosedFacts
  <2> QED
    BY <1>1, <2>1, <2>2 DEF BInv, TypeSockets
<1>6. TypeBytes'
  BY DEF BInv, TypeBytes, stop_clear
<1>7. NoConnectionLeaks'
  <2> SUFFICES ASSUME NEW c \in Conn, conn'[c] \in {"open", "dropped"}
               PROVE  c \in Waiting' \/ \E w \in LiveWorkers' : wclient'[w] = c
    BY DEF NoConnectionLeaks
  <2>1. c \notin gone /\ conn'[c] = conn[c]
    BY <1>1, ClosedFacts
  <2>2. c # client /\ (Open(listen, "tcp") => c \notin Waiting)
    BY <2>1 DEF gone
  <2>3. c \in Waiting \/ \E w \in LiveWorkers : wclient[w] = c
    BY <2>1, <2>2 DEF BInv, NoConnectionLeaks
  <2>4. c \in Waiting => c \in Waiting'
    BY <1>1, <2>2 DEF Waiting
  <2> QED
    BY <1>1, <2>3, <2>4 DEF LiveWorkers
<1>8. Carried'
  BY <1>1 DEF BInv, Carried
<1> QED
  BY <1>1, <1>3, <1>4, <1>5, <1>6, <1>7, <1>8, Unread DEF BInv, stop_clear

(* The worker's steps, first those that keep connections and bytes.         *)
LEMMA WorkerMoves ==
  ASSUME BInv, NEW w \in Start, worker_test(w) \/ worker_get(w) \/ worker_none(w) \/ udp_recv(w)
  PROVE  /\ UNCHANGED <<conn, client, backlog, wclient, rsock, starts>>
         /\ wpc[w] \in {"test", "get", "wait"}
         /\ wpc' = [wpc EXCEPT ![w] = wpc'[w]]
         /\ wpc'[w] \in {"test", "get", "wait", "append", "done"}
         /\ wlisten' \in [Start -> Start \cup {None}]
<1> USE DEF BInv, TypeOK, TypeWorkers, Set, fields, requests, sockets
<1>1. CASE worker_test(w)
  BY <1>1 DEF worker_test
<1>2. CASE worker_get(w)
  BY <1>2 DEF worker_get, TypeFields
<1>3. CASE worker_none(w)
  BY <1>3 DEF worker_none, AfterTimeout
<1>4. CASE udp_recv(w)
  BY <1>4 DEF udp_recv
<1> QED
  BY <1>1, <1>2, <1>3, <1>4

LEMMA MovesKeep ==
  ASSUME BInv, NEW w \in Start, worker_test(w) \/ worker_get(w) \/ worker_none(w) \/ udp_recv(w)
  PROVE  NoConnectionLeaks' /\ Carried' /\ NotYetStarted'
<1>1. /\ UNCHANGED <<conn, client, backlog, wclient, rsock, starts>>
      /\ wpc[w] \in {"test", "get", "wait"} /\ wpc'[w] # "off"
      /\ \A v \in Start : v # w => wpc'[v] = wpc[v]
  <2>1. /\ UNCHANGED <<conn, client, backlog, wclient, rsock, starts>>
        /\ wpc[w] \in {"test", "get", "wait"}
        /\ wpc' = [wpc EXCEPT ![w] = wpc'[w]]
        /\ wpc'[w] \in {"test", "get", "wait", "append", "done"}
    BY WorkerMoves
  <2>2. DOMAIN wpc = Start
    BY DEF BInv, TypeOK, TypeWorkers
  <2>3. \A v \in Start : v # w => wpc'[v] = wpc[v]
    BY <2>1, <2>2
  <2> QED
    BY <2>1, <2>3
<1>2. wclient[w] = None
  BY <1>1 DEF BInv, Carried
<1>3. Carried'
  BY <1>1, <1>2 DEF BInv, Carried
<1>4. \A v \in LiveWorkers : v = w \/ v \in LiveWorkers'
  BY <1>1 DEF LiveWorkers
<1>5. NoConnectionLeaks'
  BY <1>1, <1>2, <1>4 DEF BInv, NoConnectionLeaks, Waiting
<1>6. NotYetStarted'
  <2>1. w <= starts /\ \A t \in Tab : rsock[t] # w
    BY <1>1 DEF BInv, NotYetStarted, TypeOK, TypeSockets
  <2>2. \A t \in Tab : rsock[t] # None => rsock[t] \in Start
    BY DEF BInv, TypeOK, TypeRequests
  <2> QED
    BY <1>1, <2>1, <2>2 DEF BInv, NotYetStarted
<1> QED
  BY <1>3, <1>5, <1>6

LEMMA WorkerMovesInv ==
  ASSUME BInv, NEW w \in Start, worker_test(w) \/ worker_get(w) \/ worker_none(w) \/ udp_recv(w)
  PROVE  BInv'
<1> USE DEF TypeOK, Set
<1>1. NoConnectionLeaks' /\ Carried' /\ NotYetStarted'
  BY MovesKeep
<1>2. /\ UNCHANGED <<lock, fields, requests, sockets, late>>
  BY DEF worker_test, worker_get, worker_none, udp_recv
<1>3. wdata' \in [Start -> Seq(1..MaxBytes)] /\ TypeBytes'
  <2>1. CASE ~udp_recv(w)
    BY <2>1 DEF BInv, TypeWorkers, TypeBytes, bytes, worker_test, worker_get, worker_none
  <2>2. CASE udp_recv(w)
    <3>1. PICK n \in 1..MaxDgram :
            /\ recvd + n <= MaxBytes /\ recvd' = recvd + n /\ UNCHANGED past
            /\ wdata' = [wdata EXCEPT ![w] = [i \in 1..n |-> recvd + i]]
      BY <2>2 DEF udp_recv
    <3>2. recvd \in Nat /\ n \in Nat
      BY DEF BInv, TypeBytes
    <3>3. [i \in 1..n |-> recvd + i] \in Seq(1..MaxBytes)
      <4>1. \A i \in 1..n : recvd + i \in 1..MaxBytes
        BY <3>1, <3>2
      <4>2. [i \in 1..n |-> recvd + i] \in [1..n -> 1..MaxBytes]
        BY <4>1
      <4> QED
        BY <3>2, <4>2
    <3>4. TypeBytes'
      BY <3>1, <3>2 DEF BInv, TypeBytes
    <3> QED
      BY <3>1, <3>3, <3>4 DEF BInv, TypeWorkers
  <2> QED
    BY <2>1, <2>2
<1>4. TypeWorkers'
  <2>1. /\ UNCHANGED wclient /\ wlisten' \in [Start -> Start \cup {None}]
        /\ wpc' = [wpc EXCEPT ![w] = wpc'[w]]
        /\ wpc'[w] \in {"test", "get", "wait", "append", "done"}
    BY WorkerMoves
  <2>2. wpc' \in [Start -> {"off", "test", "get", "wait", "install", "append", "done"}]
    BY <2>1 DEF BInv, TypeWorkers
  <2> QED
    BY <1>3, <2>1, <2>2 DEF BInv, TypeWorkers
<1> QED
  BY <1>1, <1>2, <1>3, <1>4, Unread DEF BInv, requests

LEMMA AcceptConnInv ==
  ASSUME BInv, NEW w \in Start, accept_conn(w)
  PROVE  BInv'
<1> USE DEF TypeOK, Set
<1>1. /\ wpc[w] = "wait" /\ backlog # <<>> /\ backlog' = Tail(backlog)
      /\ wclient' = [wclient EXCEPT ![w] = Head(backlog)]
      /\ wpc' = [wpc EXCEPT ![w] = "install"]
      /\ UNCHANGED <<lock, fields, requests, wlisten, wdata, listening, kind, starts, conn, bytes, late>>
  BY DEF accept_conn
<1>2. /\ Head(backlog) \in Conn /\ Tail(backlog) \in Seq(Conn)
      /\ backlog \in Seq(Conn)
  BY <1>1, HeadTailProperties DEF BInv, TypeSockets
<1>3. TypeSockets'
  BY <1>1, <1>2 DEF BInv, TypeSockets
<1>4. TypeWorkers'
  BY <1>1, <1>2 DEF BInv, TypeWorkers
<1>5. /\ \A v \in Start : v # w => wpc'[v] = wpc[v] /\ wclient'[v] = wclient[v]
      /\ wpc'[w] = "install" /\ wclient'[w] = Head(backlog)
  BY <1>1 DEF BInv, TypeWorkers
<1>6. \A c \in Waiting : c = Head(backlog) \/ c \in Waiting'
  <2> SUFFICES ASSUME NEW i \in DOMAIN backlog, backlog[i] # Head(backlog)
               PROVE  \E j \in DOMAIN Tail(backlog) : Tail(backlog)[j] = backlog[i]
    BY <1>1 DEF Waiting
  <2>1. DOMAIN backlog = 1..Len(backlog) /\ Len(backlog) \in Nat
    BY <1>2, LenProperties
  <2>2. i # 1
    BY <1>2
  <2>3. /\ Len(Tail(backlog)) = Len(backlog) - 1
        /\ \A k \in 1..Len(Tail(backlog)) : Tail(backlog)[k] = backlog[k + 1]
    BY <1>1, <1>2, HeadTailProperties
  <2>4. DOMAIN Tail(backlog) = 1..Len(Tail(backlog))
    BY <1>2, LenProperties
  <2>5. i - 1 \in DOMAIN Tail(backlog) /\ (i - 1) + 1 = i
    BY <2>1, <2>2, <2>3, <2>4
  <2>6. Tail(backlog)[i - 1] = backlog[i]
    BY <2>3, <2>4, <2>5
  <2> QED
    BY <2>5, <2>6
<1>7. NoConnectionLeaks'
  <2> SUFFICES ASSUME NEW c \in Conn, conn'[c] \in {"open", "dropped"}
               PROVE  c = client' \/ c \in Waiting' \/ \E v \in LiveWorkers' : wclient'[v] = c
    BY DEF NoConnectionLeaks
  <2>1. c = client \/ c \in Waiting \/ \E v \in LiveWorkers : wclient[v] = c
    BY <1>1 DEF BInv, NoConnectionLeaks
  <2>2. wclient[w] = None /\ w \in LiveWorkers' /\ client' = client
    BY <1>1, <1>5 DEF BInv, Carried, LiveWorkers, fields
  <2>3. \A v \in LiveWorkers : v \in Start /\ v \in LiveWorkers'
    BY <1>5, <2>2 DEF LiveWorkers
  <2>4. CASE c \in Waiting
    BY <1>5, <1>6, <2>2, <2>4
  <2>5. ASSUME NEW v \in LiveWorkers, wclient[v] = c
        PROVE  \E u \in LiveWorkers' : wclient'[u] = c
    <3>1. v # w
      BY <2>2, <2>5
    <3> QED
      BY <1>5, <2>3, <2>5, <3>1
  <2> QED
    BY <2>1, <2>2, <2>4, <2>5
<1>8. Carried'
  BY <1>5 DEF BInv, Carried
<1>9. NotYetStarted'
  BY <1>1, <1>5 DEF BInv, NotYetStarted, TypeRequests, TypeSockets, requests
<1> QED
  BY <1>1, <1>3, <1>4, <1>7, <1>8, <1>9, Unread DEF BInv, requests

LEMMA AcceptInstallInv ==
  ASSUME BInv, NEW w \in Start, accept_install(w)
  PROVE  BInv'
<1> USE DEF TypeOK, Set
<1>1. /\ wpc[w] = "install" /\ conn' = Closed({client}) /\ client' = wclient[w]
      /\ addr' = wlisten[w]
      /\ wclient' = [wclient EXCEPT ![w] = None] /\ wpc' = [wpc EXCEPT ![w] = "test"]
      /\ UNCHANGED <<lock, mode, listen, running, worker, ser, rx_buf, requests, wlisten, wdata,
                     listening, kind, starts, backlog, bytes, late>>
  BY DEF accept_install, Replaced
<1>2. TypeFields'
  BY <1>1 DEF BInv, TypeFields, TypeWorkers
<1>3. TypeWorkers'
  BY <1>1 DEF BInv, TypeWorkers
<1>4. TypeSockets'
  BY <1>1, ClosedFacts DEF BInv, TypeSockets
<1>5. /\ \A v \in Start : v # w => wpc'[v] = wpc[v] /\ wclient'[v] = wclient[v]
      /\ wpc'[w] = "test" /\ wclient'[w] = None
  BY <1>1 DEF BInv, TypeWorkers
<1>6. NoConnectionLeaks'
  <2> SUFFICES ASSUME NEW c \in Conn, conn'[c] \in {"open", "dropped"}
               PROVE  c = client' \/ c \in Waiting' \/ \E v \in LiveWorkers' : wclient'[v] = c
    BY DEF NoConnectionLeaks
  <2>1. c # client /\ conn[c] \in {"open", "dropped"}
    BY <1>1, ClosedFacts
  <2>2. c \in Waiting \/ \E v \in LiveWorkers : wclient[v] = c
    BY <2>1 DEF BInv, NoConnectionLeaks
  <2>3. \A v \in LiveWorkers : v \in Start /\ v \in LiveWorkers'
    BY <1>5 DEF LiveWorkers
  <2>4. CASE c \in Waiting
    BY <1>1, <2>4 DEF Waiting
  <2>5. ASSUME NEW v \in LiveWorkers, wclient[v] = c
        PROVE  c = client' \/ \E u \in LiveWorkers' : wclient'[u] = c
    <3>1. CASE v = w
      BY <1>1, <2>5, <3>1
    <3>2. CASE v # w
      BY <1>5, <2>3, <2>5, <3>2
    <3> QED
      BY <3>1, <3>2
  <2> QED
    BY <2>2, <2>4, <2>5
<1>7. Carried'
  BY <1>5 DEF BInv, Carried
<1>8. NotYetStarted'
  BY <1>1, <1>5 DEF BInv, NotYetStarted, TypeRequests, TypeSockets, requests
<1> QED
  BY <1>1, <1>2, <1>3, <1>4, <1>6, <1>7, <1>8, Unread DEF BInv, requests

(* The buffer never exceeds RxMax.                                          *)
LEMMA TrimmedFacts ==
  ASSUME NEW buf \in Seq(1..MaxBytes)
  PROVE  /\ Trimmed(buf) \in Seq(1..MaxBytes) /\ Len(Trimmed(buf)) <= RxMax
         /\ Trimmed(buf) # buf => Len(buf) - RxKeep \in 1..Len(buf)
<1>1. Len(buf) \in Nat
  BY LenProperties
<1>2. CASE Len(buf) > RxMax
  <2>1. Len(buf) - RxKeep + 1 \in 1..Len(buf) /\ Len(buf) - RxKeep \in 1..Len(buf)
    BY <1>1, <1>2
  <2>2. \A i \in (Len(buf) - RxKeep + 1)..Len(buf) : buf[i] \in 1..MaxBytes
    BY <1>1, <2>1, ElementOfSeq
  <2>3. /\ SubSeq(buf, Len(buf) - RxKeep + 1, Len(buf)) \in Seq(1..MaxBytes)
        /\ Len(SubSeq(buf, Len(buf) - RxKeep + 1, Len(buf))) = Len(buf) - (Len(buf) - RxKeep + 1) + 1
    BY <1>1, <2>1, <2>2, SubSeqProperties
  <2>4. Len(buf) - (Len(buf) - RxKeep + 1) + 1 = RxKeep
    BY <1>1
  <2> QED
    BY <1>2, <2>1, <2>3, <2>4 DEF Trimmed
<1>3. CASE ~(Len(buf) > RxMax)
  BY <1>1, <1>3 DEF Trimmed
<1> QED
  BY <1>2, <1>3

LEMMA UdpAppendInv ==
  ASSUME BInv, NEW w \in Start, udp_append(w)
  PROVE  BInv'
<1> USE DEF TypeOK, Set
<1> DEFINE buf == rx_buf \o wdata[w]
<1>1. /\ wpc[w] = "append" /\ addr' = wlisten[w] /\ rx_buf' = Trimmed(buf)
      /\ past' = IF rx_buf' = buf THEN past ELSE buf[Len(buf) - RxKeep]
      /\ wdata' = [wdata EXCEPT ![w] = <<>>] /\ wpc' = [wpc EXCEPT ![w] = "test"]
      /\ UNCHANGED <<lock, mode, listen, client, running, worker, ser, requests, wlisten, wclient,
                     sockets, recvd, late>>
  BY DEF udp_append
<1>2. buf \in Seq(1..MaxBytes)
  BY ConcatProperties DEF BInv, TypeFields, TypeWorkers
<1> HIDE DEF buf
<1>3. TypeFields'
  BY <1>1, <1>2, TrimmedFacts DEF BInv, TypeFields, TypeWorkers
<1>4. TypeWorkers'
  <2>1. <<>> \in Seq(1..MaxBytes)
    BY EmptySeq
  <2> QED
    BY <1>1, <2>1 DEF BInv, TypeWorkers
<1>5. TypeBytes'
  <2>1. CASE rx_buf' = buf
    BY <1>1, <2>1 DEF BInv, TypeBytes
  <2>2. CASE rx_buf' # buf
    <3>1. Len(buf) - RxKeep \in 1..Len(buf)
      BY <1>1, <1>2, <2>2, TrimmedFacts
    <3>2. buf[Len(buf) - RxKeep] \in 1..MaxBytes
      BY <1>2, <3>1, ElementOfSeq
    <3> QED
      BY <1>1, <2>2, <3>2 DEF BInv, TypeBytes
  <2> QED
    BY <2>1, <2>2
<1>6. \A v \in Start : (v # w => wpc'[v] = wpc[v]) /\ wpc'[w] = "test"
  BY <1>1 DEF BInv, TypeWorkers
<1>7. wclient[w] = None
  BY <1>1 DEF BInv, Carried
<1>8. Carried'
  BY <1>1, <1>6, <1>7 DEF BInv, Carried
<1>9. NoConnectionLeaks'
  <2>1. \A v \in LiveWorkers : v \in LiveWorkers'
    BY <1>6 DEF LiveWorkers
  <2> QED
    BY <1>1, <2>1 DEF BInv, NoConnectionLeaks, Waiting, sockets
<1>10. NotYetStarted'
  BY <1>1, <1>6 DEF BInv, NotYetStarted, TypeRequests, TypeSockets, requests, sockets
<1> QED
  BY <1>1, <1>3, <1>4, <1>5, <1>8, <1>9, <1>10, Unread DEF BInv, requests

(* The page's reads, and the device.                                        *)
LEMMA ReadInv ==
  ASSUME BInv, read_gone \/ read_udp
  PROVE  BInv'
<1> USE DEF TypeOK
<1>1. CASE read_gone
  <2>1. /\ conn' = Closed({client}) /\ client' = None /\ addr' = None
        /\ UNCHANGED <<lock, mode, listen, running, worker, ser, rx_buf, requests, workers,
                       listening, kind, starts, backlog, bytes, late>>
    BY <1>1 DEF read_gone
  <2>2. TypeFields'
    BY <2>1 DEF BInv, TypeFields
  <2>3. TypeSockets'
    BY <2>1, ClosedFacts DEF BInv, TypeSockets
  <2>4. NoConnectionLeaks' /\ Carried'
    <3> SUFFICES ASSUME NEW c \in Conn, conn'[c] \in {"open", "dropped"}
                 PROVE  c \in Waiting' \/ \E v \in LiveWorkers' : wclient'[v] = c
      BY <2>1 DEF BInv, NoConnectionLeaks, Carried, workers
    <3>1. c # client /\ conn[c] \in {"open", "dropped"}
      BY <2>1, ClosedFacts
    <3> QED
      BY <2>1, <3>1 DEF BInv, NoConnectionLeaks, Waiting, LiveWorkers, workers
  <2> QED
    BY <2>1, <2>2, <2>3, <2>4, Unread DEF BInv, requests, workers
<1>2. CASE read_udp
  <2> DEFINE n == IF ReadMax < Len(rx_buf) THEN ReadMax ELSE Len(rx_buf)
  <2>1. /\ rx_buf # <<>> /\ past' = rx_buf[n] /\ rx_buf' = SubSeq(rx_buf, n + 1, Len(rx_buf))
        /\ UNCHANGED <<lock, mode, listen, client, running, worker, ser, addr, requests, workers,
                       sockets, recvd, late>>
    BY <1>2 DEF read_udp, Rest
  <2>2. rx_buf \in Seq(1..MaxBytes) /\ Len(rx_buf) \in Nat /\ Len(rx_buf) <= RxMax
    BY LenProperties DEF BInv, TypeFields
  <2>3. Len(rx_buf) # 0
    BY <2>1, <2>2, EmptySeq
  <2>4. n \in 1..Len(rx_buf)
    BY <2>2, <2>3
  <2> HIDE DEF n
  <2>5. rx_buf[n] \in 1..MaxBytes
    BY <2>2, <2>4, ElementOfSeq
  <2>6. /\ SubSeq(rx_buf, n + 1, Len(rx_buf)) \in Seq(1..MaxBytes)
        /\ Len(SubSeq(rx_buf, n + 1, Len(rx_buf))) <= RxMax
    <3>1. \A i \in (n + 1)..Len(rx_buf) : rx_buf[i] \in 1..MaxBytes
      BY <2>2, <2>4, ElementOfSeq
    <3>2. /\ SubSeq(rx_buf, n + 1, Len(rx_buf)) \in Seq(1..MaxBytes)
          /\ Len(SubSeq(rx_buf, n + 1, Len(rx_buf)))
               = IF n + 1 <= Len(rx_buf) THEN Len(rx_buf) - (n + 1) + 1 ELSE 0
      BY <2>2, <2>4, <3>1, SubSeqProperties
    <3> QED
      BY <2>2, <2>4, <3>2
  <2>7. TypeFields' /\ TypeBytes'
    BY <2>1, <2>5, <2>6, SMTT(60) DEF BInv, TypeFields, TypeBytes
  <2> QED
    BY <2>1, <2>7, Unread DEF BInv, requests, workers, sockets
<1> QED
  BY <1>1, <1>2

LEMMA DeviceInv ==
  ASSUME BInv, Dial \/ Drop
  PROVE  BInv'
<1> USE DEF TypeOK, Set
<1>1. CASE Dial
  <2>1. PICK c \in Conn : /\ conn[c] = "none" /\ conn' = [conn EXCEPT ![c] = "open"]
                          /\ backlog' = Append(backlog, c)
    BY <1>1 DEF Dial
  <2>2. UNCHANGED <<lock, fields, requests, workers, listening, kind, starts, bytes, late>>
    BY <1>1 DEF Dial
  <2>3. /\ backlog \in Seq(Conn) /\ backlog' \in Seq(Conn)
        /\ Len(backlog) \in Nat /\ Len(backlog') = Len(backlog) + 1
        /\ backlog'[Len(backlog) + 1] = c
        /\ \A i \in 1..Len(backlog) : backlog'[i] = backlog[i]
    BY <2>1, AppendProperties, LenProperties DEF BInv, TypeSockets
  <2>4. DOMAIN backlog = 1..Len(backlog) /\ DOMAIN backlog' = 1..(Len(backlog) + 1)
    BY <2>3, LenProperties
  <2>5. c \in Waiting' /\ \A d \in Waiting : d \in Waiting'
    BY <2>3, <2>4, SMTT(60) DEF Waiting
  <2>6. TypeSockets'
    BY <2>1, <2>2, <2>3 DEF BInv, TypeSockets
  <2>7. \A d \in Conn : d # c => conn'[d] = conn[d]
    BY <2>1 DEF BInv, TypeSockets
  <2>8. NoConnectionLeaks' /\ Carried'
    BY <2>2, <2>5, <2>7 DEF BInv, NoConnectionLeaks, Carried, LiveWorkers, fields, workers
  <2> QED
    BY <2>2, <2>6, <2>8, Unread DEF BInv, requests, workers
<1>2. CASE Drop
  <2>1. PICK c \in Conn : conn[c] = "open" /\ conn' = [conn EXCEPT ![c] = "dropped"]
    BY <1>2 DEF Drop
  <2>2. UNCHANGED <<lock, fields, requests, workers, listening, kind, starts, backlog, bytes, late>>
    BY <1>2 DEF Drop
  <2>3. TypeSockets'
    BY <2>1, <2>2 DEF BInv, TypeSockets
  <2>4. \A d \in Conn : conn'[d] \in {"open", "dropped"} => conn[d] \in {"open", "dropped"}
    BY <2>1 DEF BInv, TypeSockets
  <2>5. NoConnectionLeaks' /\ Carried'
    BY <2>2, <2>4 DEF BInv, NoConnectionLeaks, Carried, Waiting, LiveWorkers, fields, workers
  <2> QED
    BY <2>2, <2>3, <2>5, Unread DEF BInv, requests, workers
<1> QED
  BY <1>1, <1>2

LEMMA StatusInv ==
  ASSUME BInv, status_begin \/ status_end \/ UNCHANGED vars
  PROVE  BInv'
<1>1. UNCHANGED <<fields, requests, workers, sockets, bytes, late>> /\ lock' \in {"free", "status"}
  BY DEF status_begin, status_end, vars, BInv, TypeOK, TypeFields
<1>2. TypeFields'
  BY <1>1 DEF BInv, TypeOK, TypeFields, fields
<1> QED
  BY <1>1, <1>2, Unread DEF BInv, TypeOK, fields, requests, workers, sockets

LEMMA NextBInv == BInv /\ [Next]_vars => BInv'
<1> SUFFICES ASSUME BInv, [Next]_vars PROVE BInv'
  OBVIOUS
<1>1. ASSUME NEW t \in Tab, NEW what \in {"tcp", "udp", "serial", "disconnect"}, Request(t, what)
      PROVE  BInv'
  BY <1>1, RequestStepInv
<1>2. ASSUME NEW t \in Tab, RequestStep(t) PROVE BInv'
  BY <1>2, RequestStepInv, StopClearInv DEF RequestStep
<1>3. ASSUME NEW w \in Start, WorkerStep(w) PROVE BInv'
  BY <1>3, WorkerMovesInv, AcceptConnInv, AcceptInstallInv, UdpAppendInv DEF WorkerStep
<1> QED
  BY <1>1, <1>2, <1>3, ReadInv, DeviceInv, StatusInv DEF Next

(* However many tabs, servers and connections, and even when a join gives   *)
(* up and an old worker runs beside a new one: a connection the PC has not  *)
(* closed is the client, waits in a backlog or is about to be installed,    *)
(* and the UDP buffer stays within its limit.                               *)
THEOREM BridgeSafe == Spec => []BridgeInv
<1>1. BInv => BridgeInv
  BY DEF BInv, BridgeInv
<1> QED
  BY InitBInv, NextBInv, <1>1, PTL DEF Spec
=============================================================================
