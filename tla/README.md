# TLA+ models of esp_audio_pcm_toolkit

`esp_audio_pcm_toolkit` streams PCM audio from an ESP32 to a PC over USB
Serial/JTAG, UART, TCP or UDP, and takes text commands (`vol`, `gain`, `gch`,
`stream`) back over the same transport. This directory holds TLA+ models of the
concurrent parts of that code, the TLC configurations that check them and the
proofs that TLAPS checks. Paths below are relative to the repository.

## 1. The system

| Part | State | Operations | Talks to |
|---|---|---|---|
| Handle and API, `src/esp_audio_pcm.c` | `initialized`, `opened`, `stream_enabled`, `config`, `ops` | `new`, `open`, `close`, `delete`, `read`, `write` (with up to `ESP_AUDIO_PCM_WRITE_RETRY_MAX` tries), stream on/off | the application's tasks above, one transport below |
| TCP transport, `src/esp_audio_pcm_tcp.c` | `sock` under `sock_mux`; the ring (`tx_buf`, `tx_rd`, `tx_wr`, `tx_used`, high-water mark) under `tx_mux`; `tx_run`, `tx_task`; the drop counters | `tcp_init`, `tcp_deinit`, `tcp_open`, `tcp_close`, `tcp_read`, `tcp_write`; the transmit task `tcp_tx_task` | lwIP; the transmit task is woken by a task notification |
| UDP transport, `src/esp_audio_pcm_udp.c` | `sock` under `sock_mux`, the server's address | the same six, no task | lwIP |
| USB and UART transports | none of their own: the driver of the port, which several handles and other code may share | `init`, `deinit`, `read`, `write`, one driver call each | ESP-IDF drivers |
| Control channel, `src/esp_audio_pcm_ctrl.c` | `ctrl_running`, `ctrl_task`, `ctrl_cbs`; in the task `line`, `pos`, `rx` | `ctrl_start`, `ctrl_stop`, the task, `dispatch_line` | `esp_audio_pcm_read`; the application's callbacks |
| PC bridge, `tools/pcm_monitor/pcm_serial_bridge.py` | `_mode`, `_ser`, `_listen_sock`, `_client_sock`, `_client_addr`, `_rx_buf`, `_running`, `_worker`, mostly under `_lock` | `connect`, `disconnect`, `read`, `write_cmd`, `status`; one worker thread per server | HTTP requests, each in a thread of its own; the device |
| Browser monitor, `tools/pcm_monitor/pcm_serial_monitor.html` | connection flag, poll timers, recorded chunks, play ring, history | connect, poll loops, disconnect, playback, export | the bridge over HTTP, or Web Serial |
| Example application, `examples/basic_example` | volume, gains, `play_running` | `new`, `app_net_init`, `open`, `ctrl_start`; a record task that writes | the API |

A TCP device has four tasks that meet in the transport. The **producer** calls
`esp_audio_pcm_write`, which fills the ring. The **transmit task**, started by
`esp_audio_pcm_new`, connects and reconnects, empties the ring in chunks and
sends them. The **control task** receives and closes the connection when it
finds it dead. The **application task** opens, closes and deletes. None of them
holds a lock while it blocks in lwIP: each copies `ctx->sock` under `sock_mux`
and uses the number afterwards.

### What is hard, and what makes each part correct

* **Ring.** Two cursors and a fill level, copies split at the end of the array.
  It has to be a bounded FIFO wherever the cursors are.
* **Data path.** Partial queueing, timeouts, retries, partial sends, a
  connection that ends at any moment. Bytes reach the PC in order and once;
  what does not arrive was reported or lost with a connection, and a connection
  costs only so much; a blocked producer is released; the drop counter means
  something.
* **Descriptors.** Three tasks use a descriptor outside the lock, lwIP reuses
  numbers, and `open` connects at the same time as the transmit task. Each open
  descriptor has one owner, none leaks, the published one is connected; the
  device reconnects whoever closed the last connection; `delete` returns and
  frees only what nobody uses. `open` and `close` change the connection first and
  the handle's `opened` afterwards, without a lock around the two.
* **UDP transport.** One mutex around every call on the socket, held by the
  control task through its receive timeout. Calls never overlap, a call is on an
  open socket, failed opens leave nothing behind, and producer and control task both
  get their turn. A task that closes the handle may not (section 3, fairness).
* **Control channel.** A read can end anywhere in a line, a line can be longer
  than the buffer, and stop polls a field that the task clears. Every line is
  dispatched once and in order, and callbacks are there while the task is.
* **Handles on serial ports.** A driver belongs to a port, not to a handle: `init`
  takes an installed driver for its own and `deinit` uninstalls it under whoever
  else uses it. A live handle has its driver unless another one's delete took it,
  none is left behind, what a write reports is what the driver got even when it
  vanishes half way, and every call returns.
* **PC bridge.** Requests overlap each other and the worker thread; the join has
  a timeout and the flag that stops a worker is shared with its successor, which
  may be of the other kind. What is stopped is stopped, what is started has
  exactly its worker and socket, no connection is forgotten, commands go to the
  device of the server that runs, and UDP bytes reach the page in order.

`PROJECT.json` lists the hazards line by line, with the properties that watch
them and the ones nothing watches yet.

## 2. Modules

| Module | Models | Checked by |
|---|---|---|
| `PcmFifo` | abstract: a bounded byte queue that accepts what fits | as the property `FifoSpec` |
| `PcmRing` | the ring, byte for byte | run `ring`, proofs in `PcmRingProofs` |
| `PcmChannel` | abstract: one queue from the application to the PC, with losses | as the property `ChannelSpec` |
| `TcpStream` | the data path, application to PC | run `stream`, proofs in `TcpStreamProofs` |
| `PcmLink` | abstract: one connection as the two tasks that use it see it | as the property `ConnectionSpec` |
| `TcpSocket` | who owns which descriptor | runs `socket`, `socket_fresh`, `socket_freed`, `socket_leak`, proofs in `TcpSocketProofs` |
| `PcmCommands` | abstract: lines handed to callbacks between start and stop | as the property `CommandsSpec` |
| `CtrlTask` | the control channel | runs `ctrl`, `ctrl_merge`, proofs in `CtrlTaskProofs` |
| `PcmDatagrams` | abstract: one datagram socket with three users | as the property `DatagramsSpec` |
| `UdpTransport` | the UDP transport and the three tasks on its socket | run `udp`, proofs in `UdpTransportProofs` |
| `PcmHandle` | handles and the serial drivers they share | run `handle`, proofs in `PcmHandleProofs` |
| `PcmBridge` | the PC's serial port, TCP server and UDP server | runs `bridge`, `bridge_slow`, proofs in `PcmBridgeProofs` and `PcmBridgeServerProofs` |

The `MC...` modules extend these for TLC and the `.cfg` files give the
constants. The models compose by abstraction, and five of them are shown to
implement a specification of what they promise:

* `PcmRing` implements `PcmFifo`, the bounded FIFO that `TcpStream` uses as its `ring`.
* `TcpStream` implements `PcmChannel`, which is what an application and a reader of
  the stream rely on: a call appends its bytes in order and reports the rest, the PC
  gets the oldest byte, and a connection that ends costs one stretch near the head.
* `TcpSocket` implements `PcmLink`. `TcpStream` knows a connection only as absent, up
  or broken, as `PcmLink` does. It relies on what `PcmLink` says of calls: one that has
  begun may outlive its connection (`swapped` for the transmit task, `rswapped` for the
  control task), then find itself on the next, and when it fails take that one down.
* `CtrlTask` implements `PcmCommands`. It sees the transport as bytes that arrive or
  are lost; `PcmHandle` keeps of it only where it is.
* `UdpTransport` implements `PcmDatagrams`.

Definitions whose names end like `Wrap_AtMax`, `KeepWriting_IgnoreStop` or
`Replaced_Kept` are not part of a model. Each is a plausible mistake in the
definition after it, and shows that a property would notice it.

### How state and actions correspond to the code

**PcmRing.** The variables are the fields of `tcp_ctx_t`; `tx_chunk` and `ret`
are what an operation hands back. `ring_write_locked` and `ring_read_locked`
run under `tx_mux`, so each is one step. `CopyIn` and `CopyOut` are the pairs of
`memcpy`. Memory nobody wrote holds `Uninit`, so a read of it shows.

**TcpStream.** Bytes are numbered as the application offers them, so order,
duplication and loss are statements about numbers. `wpc` follows the producer
through `esp_audio_pcm_write` and `tcp_write`: `call` (entry), `loop` (the test
of `tx_run`), `push` (the ring), `ret` (back in the retry loop). `tpc` follows
the transmit task: `loop`, `conn`, `dial`, `read`, `send`, `done`. `mpc` is the
application task, with `opening` and `closing` for the places between the change of
the connection and that of `opened`. `wire` is what `send()` accepted and the PC has not read.
`swapped` and `rswapped` say that the connection was taken from under a call of the
transmit task or of the control task; that call may then fail on whatever connection is installed.
`refused` and `lost` are history: bytes the caller was told were not queued, and
bytes that went with a connection. `block_on_full` is the option of the build: Init
chooses it and nothing changes it, so one run covers both. Clocks are left out: without
the option a full ring may time the call out at any moment.

**TcpSocket.** `fdtab` is lwIP's table. `Socket` takes the lowest free
descriptor, and one that was closed under a `recv` or `send` still in progress
is free only when that call returns. A connection has an identity of its own
(`state`), recycled when nothing refers to it any more. `tpc`, `cpc`, `mpc` are
the places of the three tasks; `tfd`, `mfd` the descriptor a task is connecting;
`tsnap`, `csnap` the snapshots of `ctx->sock`; `tconn`, `cconn` the connection
the snapshot stood for. Each section under `sock_mux` is one step. `deinit_free`
is the wait of `tcp_deinit`: it ends when the task has ended, or gives up while
the task is where only lwIP decides when it comes back. `open` and `close` end in a step
of their own: `open_publish` installs the new connection and `esp_audio_pcm_opened` sets
`opened`; `esp_audio_pcm_close` and `delete_close` close and `esp_audio_pcm_closed` clears
it. In between the transmit task may publish over the new connection, or dial again
after the close. `Phase` shows these places to `PcmLink`, which has the same four steps.

**CtrlTask.** A byte is the number of the line it belongs to, a blank or an end
of line. `cpc` is `test`, `read`, `bytes` (the `for` over what was read), `exit`
or `off` (`ctrl_task` is `NULL`). `sent` is what should be dispatched: each line
cut to `LineMax - 1` characters, its leading blanks removed, empty ones left out.

**UdpTransport.** `sock_mux` names its holder. A section that cannot block is one
step, enabled while the mutex is free; `sendto` and `recvfrom` are steps during which
the caller holds it. `take` is the wait that gives up after 200 ms, possible
whenever another task holds the mutex. `open` first resolves the server's address
(`udp_resolve_server`, which may fail), then waits for the mutex. Writes and commands are numbered;
`returned_ok` remembers which writes reported success.

**PcmHandle.** `driver` is the set of ports with a driver; `console` marks those
that other code installed and `robbed` the handles whose driver another handle's
delete took, both history. Each handle has an application task (`mpc`: `none`,
`live`, `stop` and `delete` while it waits in `ctrl_stop`, `deinit`, `freed`),
a control task (`cpc`: `loop`, or `read` while it is in the driver) and a write
in progress (`wpc`, `ptr`, `end`, `retry`). `Install` is the driver's answer and
`InitOk` what `init` makes of it. `Accepts` is what one driver call takes: nothing
without a driver, everything by UART, any part by USB. The two transports differ in
nothing else.

**PcmBridge.** Network sockets and the workers started with them share a
number, and `kind` says which loop the worker is in. A section under `_lock` that
cannot block is one step. `status()` is two, because it holds the lock while it
asks the resolver and runs a host tool. `_running` and `_worker` are read and
written outside the lock, as in the code. A request is one of four (`req`) and goes
through the sections of `disconnect` before it opens or binds anything. Bytes that
arrive by UDP are numbered; `past` is the last one the page has read, or a trim or a
stop gave up. `_client_addr` is kept as the socket the address was heard on.
`join(timeout=1.0)` may return at any time, and `late` remembers that one has given up on
a worker that had not ended. `_worker` is tested (`stop_network`) and read again
(`stop_worker`): with two tabs it may be `None` by then, and the request dies of an
`AttributeError`.

## 3. Runs

All bounds are constants of the modules. "Bound of the model" in a comment marks
those that only keep the state space finite.

| Run | Instance | What it shows |
|---|---|---|
| `ring` | capacity 3, writes up to 4, reads up to 2, two byte values | `RingInv`; the ring implements `PcmFifo`. 1.5 k states |
| `stream` | ring 2, chunk 2, socket 1, 2 tries, writes up to 3, 3 bytes, two connections lost besides the one delete ends, both settings of BLOCK_ON_FULL | order, accounting, nothing dropped by a blocking producer, the counter never understates; the whole implements `PcmChannel`, its bound on what is lost included; and the three liveness properties. 341 k states |
| `socket` | 3 descriptors, 4 connection identities | ownership, no more than two descriptors; the whole implements `PcmLink`; reconnection of an open handle, delete returns. 67 k states |
| `ctrl` | line buffer 3, reads of 2, 2 lines of up to 3 characters with blanks and CR LF, 1 loss, 2 starts | lines in order; the whole implements `PcmCommands`; all lines are dispatched, stop returns. 83 k states |
| `udp` | 2 descriptors, 2 tries, 2 writes, 2 commands | serialized calls, no leaked socket, ESP_OK means sent once; the whole implements `PcmDatagrams`; writes, open and delete return and commands are read. 6.5 k states |
| `handle` | 2 handles, one USB and one UART port in every assignment, 2 tries, 2 bytes each | drivers and their owners, truthful writes, calls return. 534 k states |
| `bridge` | 1 tab, 2 servers of either kind, serial mode, 2 connections, buffer 2 trimmed to 1, datagrams up to 2, 3 bytes | nothing forgotten, stop stops, start serves, commands go to the right device, UDP bytes in order, requests and dials are answered. 436 k states |

Why these sizes are enough to be interesting. The ring's capacity is no multiple
of the read length and shorter than the longest write, so every split of a copy
occurs, including the ones that end exactly at the boundary. In the stream a write is longer
than the ring, a chunk empties it, and a socket accepts less than a chunk, so
queueing and sending are both partial; a connection can be lost anywhere, twice so that
a call left over from one can take down the next, and the safety properties are proved
for any number of losses and bytes. Two descriptors are the most the transport can
hold: `TwoDescriptors` is checked with a third one to spare. Four identities
cover two open connections and two remembered ones (`SocketAssumption`). A
line can be longer than the buffer and a read can end anywhere in it; two
lines suffice to glue one to the other. Two servers are enough for an old worker
to meet a new server, of its own kind or the other. Three bytes overflow the buffer
in one datagram or in two. Two handles on one port are enough for one to take the
driver from the other in the middle of a write, between two tries or in a read.

### Fairness

* Tasks and threads are scheduled (weak fairness on their steps). FreeRTOS
  guarantees it for tasks of which none of higher priority runs for ever, and Python for
  threads. The control task can run for ever where its reads fail at once (a hazard in
  `PROJECT.json`); the models have no processor time and do not show whom it starves. Blocking calls return: `connect` has a timeout, `recv` has
  `SO_RCVTIMEO`, and `send` comes back with `EAGAIN` or an error.
* `stream`: the PC reads what has arrived, and a server that is dialled
  for ever answers at last (strong fairness on `tx_connect`). Without the second,
  a full ring with `BLOCK_ON_FULL` blocks its producer for ever, which is what
  the option says. `send()` with no room is no step: the loop of
  `tcp_send_chunk` goes round unchanged.
* `socket`: strong fairness on dialling and on being answered, and, while the handle is
  open, on having something to send: `esp_audio_pcm_write` queues nothing for a handle
  that is not open. `Reconnects` is asked only of behaviours in which connections stop
  breaking, and only of open handles. A connection the transmit task made for a handle
  that is closed, or not open yet, carries no call that could fail; when it dies nobody
  notices before the handle is opened.
* `udp`: the control task gets `sock_mux` if it is free again and again; its only steady
  rival is the producer, which waits for samples between two writes. The producer needs no such assumption: its waits give up.
  Nothing of the kind is assumed for the application task. The control task gives
  the mutex and takes it again without a pause, so a task of the same or a lower priority on
  its core may lose every time (`app_main` has priority 1, the control task 4). In the
  model as on the device a close of a handle whose control task reads may wait for ever;
  `AppReturns` leaves it out. `open` and `delete` meet no control task that reads and need
  only weak fairness.
* `bridge`: strong fairness for whoever waits for `_lock`. A `threading.Lock`
  does not promise it; polls every few milliseconds with gaps between them do
  in practice. A status request ends, since its tools have timeouts.
* `handle`: a call that has begun goes on, and the control task is scheduled.
* Nothing makes the application call anything, a device dial, or a link break.

## 4. Where the code and its documentation part

Each of these is a run that TLC must find violated. The property is what a
comment or document says of the program.

| Run | Said | Done |
|---|---|---|
| `socket_fresh` | `tcp_close_if` never tears down a connection that replaced the failed one | it compares descriptor numbers; the new connection may have the old number |
| `socket_freed` | `esp_audio_pcm_delete` stops and frees | it gives up on the transmit task after 2 s while `connect()` may take 5 s, and frees what the task uses |
| `socket_leak` | `esp_audio_pcm_delete` stops and closes | `tcp_deinit` closes, then waits: a task that was in `connect()` publishes its connection after that and ends in time, and nobody closes it |
| `ctrl_merge` | one command is one line | a partial line survives a lost connection and is joined to the next one's first line |
| `bridge_slow` | the page says the server is stopped when disconnect returns | the worker outlives the 1 s join if a status request holds the lock, and installs a device afterwards |

## 5. Proofs

Eight modules hold proofs. Each theorem is for every value of the constants that
the module's assumption allows; the runs show the same properties on small
instances.

`PcmRingProofs`, from `RingAssumption` alone (the capacity and the bounds are
positive, uninitialised memory is no byte):

* `RingSafe`: `Spec => []RingInv`. The invariant is inductive as it stands
  because it says more than types: `CursorsAgree` ties the separately kept write
  cursor to the read cursor and the fill level (full and empty have equal
  cursors, so neither can be derived from the two cursors alone), and
  `LiveSlotsWritten` follows the written region around the array. The lemmas
  about `%` reduce a wrapped cursor to two cases, before and after the end of the array.
* `RingRefinesFifo`: `Spec => FifoSpec`. The mapping lists the live slots from
  the oldest. A write appends exactly the accepted prefix and a read removes
  exactly the returned one, through either half of a split copy. The step uses
  `RingInv` as an invariant.

`TcpSocketProofs`, from `SocketAssumption` (a positive number of descriptors, at
least four connection identities):

* `SocketSafe`: `Spec => []SocketInv`. `OwnedOnce`, the part that matters, needs
  the others. Opening a descriptor keeps `TableConsistent` only if an identity is
  left to give it, which follows from `InstalledWhileDialing` and
  `OpenOnlyWhenClosed`: a connection that is installed while the transmit task dials is
  one that `open` has made, also in the steps in which the handle does not know of it yet
  (`OpenMadeOne`), so the application task is not dialling too. At most one other
  descriptor is open then, and the tasks remember two more identities, hence the four. The only part to add is
  `SnapshotTaken`: a task past its snapshot has a descriptor in it. Lemmas first
  say what `close`, `socket` and a change of a connection's state do to lwIP's
  tables; the steps are then grouped by which of these they call.
* `SocketBounded`: `Spec => []TwoDescriptors`. Of `ctx->sock` and the two
  descriptors being connected, one is always absent.
* `SocketRefinesLink`: `Spec => ConnectionSpec`. The mapping gives each task a view of
  its call: outside one, on the installed connection, or on an old one. Two facts are
  missing from `SocketInv` and make it `LinkInv`. `Remembered`: while the connection a
  task remembers is not closed, the task's number names it, so that a task on the
  installed connection has the number that `tcp_close_if` looks for, and takes
  it down when it fails; a number that names another connection means the first was closed.
  That identities are not given out while they are remembered is part of the argument.
  `Deleting`: after the wait in delete there is no control task and the handle is closed, so
  `tcp_deinit` closes under no reader. The steps are sorted by what they do to the
  installed connection: nothing (`Untouched`), close it or replace it. Those that set or
  clear `opened` touch neither connection nor calls and are the abstract `Opened` and
  `Closed` (`TellRefines`).

`CtrlTaskProofs`, from `CtrlAssumption` (buffers of at least one byte):

* `CtrlSafe`: `Spec => []CtrlInv`. Inductive as it stands. `LineFits` is the
  buffer bound with the terminating NUL; `CallbacksWhileRunning` and
  `StoppedMeansGone` carry each other through start and stop.
* `CtrlOrdered`: `Spec => []LinesInOrder`. That sentence compares two ends of a queue,
  so the invariant `OrderInv` says what the task will have done after each byte that is
  under way: some function of the position gives its line and another its dispatches
  (`Foretells`); they start with what it has, follow its own step from one byte to the
  next and end with an empty line and what the PC sent. A byte processed shifts them by one, a read
  leaves them alone, and a line that is sent extends them. That no position is ahead of
  `sent` is part of the invariant, so no induction over positions is needed.
* `CtrlRefinesCommands`: `Spec => CommandsSpec`. A byte that ends a line with something
  in it hands the PC's next line to a callback; no other byte is seen from outside. That it is
  the next line follows from `OrderInv` in the state after the step, that there is a start
  without a return of stop from `StoppedMeansGone`.

`UdpTransportProofs`, from `UdpAssumption`:

* `UdpSafe`: `Spec => []UdpInv`. To be inductive it needs that the control task
  holds a descriptor before it waits for the mutex (`SnapshotTaken`), is off
  unless it runs or is being stopped (`OffUnlessRunning`), and that producer and
  control task are at rest from the end of the wait in delete on (`AtRest`).
* `UdpReportsTruly`: `Spec => []ReportedAsSent`. The strengthening `SentInv`
  orders the numbers sent below the write in progress and follows the moment
  between `sendto` and the return of `ESP_OK`.
* `UdpRefinesDatagrams`: `Spec => DatagramsSpec`. The holder of the mutex is the user of
  the socket. Beyond `UdpSafe` it takes one more invariant, `KnownHasSocket` (a PC that has an
  address to send to has it from a socket that is still there): open, close and
  delete take the mutex, so they replace the socket only when nobody uses it, and what was
  received on the old one goes with it.

`TcpStreamProofs`, from `StreamAssumption` (positive sizes and retry limit):

* `StreamTypes`, `StreamOrdered`, `StreamAccounted`: `Spec => []TypeOK`, `[]InOrder`
  and `[]Accounted`, by one inductive invariant, `StreamInv`. `Ordered` says of `recvd \o wire \o chunk \o ring` what
  `InOrder` says, one inequality for every two places a byte can be in; `Parts` is the
  partition, with the places as sets. Neither survives a step without
  `Settled` (a producer at rest has nothing half queued, a task that is not sending
  has no chunk) and `WireUp` (bytes in a socket need a connection that is up). Lemmas about cutting and
  joining increasing sequences carry the steps that move bytes from one queue
  to the next.
* `StreamLoss`: `Spec => []LossBounded`. The bound alone is not
  inductive, because a chunk is lost only after the connection it was for has
  ended. `Owed` adds to `lost` the chunks that connections already ended may still
  cost (`Credit`, at most two), and `Paid` bounds the sum. No run lists `LossBounded`, because
  `ChannelSpec` checks the same bound at every loss.
* `StreamCounted`, `StreamBlocks`: `Spec => []DropsCounted` and `[]NoProducerDrop`,
  for both settings of the option, with the place of the producer deciding which bytes the counter
  already holds (`DropsNoted`).
* `StreamRefinesChannel`: `Spec => ChannelSpec`. The queue is `wire \o chunk \o ring`, of at
  most `Cap + Chunk + SndBuf` bytes. Steps that move bytes from one part to the next leave
  it as it is (`MoveKeeps`); a push appends what `tcp_write` will report; each way of
  losing bytes cuts one stretch out of the first `Chunk + SndBuf` (`CutOut`), and
  `StreamLoss` gives the bound that `PcmChannel` puts on the sum.

`PcmHandleProofs`, from `HandleAssumption`, for any set of handles on any ports:

* `HandleTypes`, `HandleDriver`, `HandleClean`, `HandleReader`: `Spec => []TypeOK`,
  `[]LiveHasDriver`, `[]NoDriverLeft` and `[]ReaderSafe`. The three parts are
  inductive with the types and `Remaining` (a write in progress
  has bytes left, one at rest has none): a delete that takes the driver from another
  live handle records it in `robbed`, and it cannot get there before its own control
  task has ended.
* `HandleWrites`: `Spec => []WritesTruthful`, by an invariant per handle. The work
  is in showing that what the other handles append to a shared port leaves the
  subsequence of this one alone.

`PcmBridgeProofs`, from `BridgeAssumption`, for any tabs and servers:

* `BridgeSafe`: `Spec => []BridgeInv`, joins that give up and overlapping requests
  of several tabs included. `Carried` (a worker holds a connection only between accept
  and install) shows that none ends with one; `NotYetStarted` (the socket a request
  holds is its own and its worker has not run) and `SocketWanted` (only a request
  for a server is about to bind) that starting a worker overwrites none.

`PcmBridgeServerProofs`, from `BridgeAssumption` and `OneTab` (the requests come from
one tab), for any servers, connections and datagrams:

* `OneTabStopped`, `OneTabServed`, `OneTabPeer`, `OneTabBuffered`:
  `Spec => [](OneTab => ...)` for `StoppedUnlessLate`, `ServedUnlessLate`,
  `PeerIsServed` and `BufferedUnlessLate`. Between requests the bridge is in one of two
  states, `NothingRuns` and `ServerRuns`, and `Place` says what is left of them at each
  section of a request. `OnListenSock` keeps a worker on the socket in `_listen_sock`,
  `BacklogListens` a waiting connection behind a socket that still listens, and
  `BytesInOrder` follows a datagram from the worker into the buffer. None of these
  survives a join that gives up, so the invariant asks them of behaviours in which
  none has; what still holds then is `BridgeInv`, on which the steps also rely.

Every safety property of a passing run is proved, the five refinements included: each of
them is one lemma per step of the abstract specification that a group of steps
implements, and one for the steps it does not see. Liveness and `ENABLED` are out of
reach of the prover: `WriteReturns`, `Delivered`, `TxTaskEnds`, `Reconnects`,
`DeleteReturns`, `AllDispatched`, `StopReturns`, `CommandsRead`, `AppReturns`,
`DialAnswered`, `RequestsReturn` and `CallsReturn` are model-checked only.

## 6. Not modelled

* Kconfig, default configurations, logging, and argument checks that return before
  anything changes.
* The text of commands: which callback a line calls is a matter of `sscanf`
  patterns without state.
* Time, except as "may time out". Task priorities.
* The browser monitor. Its callbacks run on one thread, and most of the file
  draws, plays and exports. Two hazards of its poll loops are listed in
  `PROJECT.json` without a property: a poll that re-arms its timer across a
  disconnect and connect, and the bytes after the last whole frame of a chunk.
* The native monitor and command-line tools (single-threaded) and the design
  mock-up.
* Applications that use a handle while they delete it, or start and stop its
  control task from two tasks at once.
* Connects of two browser tabs that overlap, except for what `BridgeSafe` proves of
  them. The second worker then shares `_running` and `_worker` with the first, and
  nothing in the code or its documents promises which server survives.
  `start_worker` is one step for `_running`, `_worker` and `start()`.
* In the bridge: bytes of a TCP connection and of the serial port (the page reads
  them straight from the socket and the port) and those of commands.

## 7. What could follow

1. An abstract server for `PcmBridge` with one tab (stopped, or serving one device at a
   time), implemented unless a join gives up.
2. An abstract serial port for `PcmHandle`: one stream of bytes per handle that may end
   when another handle goes.
3. Browser monitor: the poll timers across disconnect and connect, and the play
   ring.
