# sstapp: TLA+ models, checks and proofs

sstapp is a TCP echo server that narrates what it does as JSON lines, a
visualizer that streams those lines to browsers, a desktop GUI, load
generators, and the C programs the Go server imitates. This directory holds
TLA+ models of its parts, the TLC runs that check them on small instances, and
theorems about them that TLAPS proves for every value of the constants. File
and line references are to `src/`.

## 1. The system

```
 clients --TCP 8080--> echo server --stdout, JSON lines--> visualizer --SSE 8000--> index.html, GUI
                       server/main.go                      visualizer/main.go
                       or epoll_visual_server.c            or visualizer.py
 managed clients of the visualizer, GUI, traffic generators --TCP 8080--> echo server
 GUI --go run--> visualizer --server.exe or go run--> echo server
```

| Component | State | Operations | What is hard | What makes it correct |
|---|---|---|---|---|
| Go echo server, `server/main.go` | `nextFD`, `clients`; per connection a `bufio.Reader`, `WriteBuf`, `WriteLen`, `Backpressure` | accept, `handleClient`, `handleRead`, `flushWrite`, `handleReadError`, `emit` | one goroutine per connection, an unlocked counter, state and telemetry updated in separate steps, blocking writes, resets in the middle of a write | registry and telemetry agree with the live connections; nothing stale is echoed; a client that leaves is reaped |
| Traffic generators, `traffic/*.go`, `traffic_generator.py` | the sockets, a `WaitGroup` | the normal, churn and stress scenarios | goroutines that block in `Write` or `Read` with `main` waiting for all of them | "complete" means that nothing is left open; a scenario ends |
| SSE hub, `visualizer/main.go` 42-130, 283-303 | `sseClients`, `lastInitEvent`, two RW mutexes | scan, `broadcastEvent`, `handleSSE`, `handleAPIStatus` | network writes under a read lock, writer preference, subscribers that come and go, two writers of one response | no write to a returned handler, no missed init event, no gap, nobody waits for ever |
| Managed clients, `visualizer/main.go` 132-240 | `managedConns`, `connCounter` | spawn, send, choke, close | connections used after the lock is released, writes without a deadline, a panic after a Dial | every connection has one owner; a request is answered |
| Process management, `visualizer/main.go` 253-357, `gui/main.go` 65-130, `start.bat` | child processes, ports, the stop channel | start, stop | killing `go run` is not killing the server; waiting for a pipe; two calls of `stopServer` at once; a killed visualizer's server lives on | who leaves frees the port; a stop is honoured |
| Desktop GUI, `gui/main.go` | `clientMap`, `logEntries` | SSE goroutine with its handlers, UI callbacks, buttons | two goroutines without a lock; events missed during a reconnection or torn by a greeting; fds that connections share | no panic; the list shows the server's clients |
| Web dashboard, `index.html` | `clientStates` | `handleEvent`, `updateUI` | it knows only what the events say | the table equals the server's state |
| C servers, `epoll_server.c`, `epoll_buffered_server.c`, `epoll_visual_server.c` | per client a write buffer with offsets and, in the last, `epollout_armed`; the kernel's epoll set | event loop, accept, read, flush, free | edge triggering, short writes, EAGAIN, EPOLLOUT armed one call after the failed write, freed clients, reused descriptors | echo in order and at most once, no lost wake-up, no byte dropped without backpressure |
| Python visualizer, `visualizer.py` | `sse_clients` with a queue per stream, `managed_clients`, child | HTTP handlers one at a time, `read_stdout`, reader threads | bounded queues dropped when full, one HTTP thread for everything, a lock held while sleeping | streams without gaps, no queue left behind, the HTTP thread comes free when a viewer hangs up, an unchoked client is read |
| Telemetry file, `server/telemetry_file.go` | `telemetry.log` | append | two locks, two orders | not modelled |
| C stdin loop, static pages and request log, build files | none that lasts | | | not modelled |

`PROJECT.json` lists every part with its status (`components`) and the places
where things can go wrong (`hazards`).

## 2. Modules

```
 Dashboard <--------- GoServer <-- Traffic <-- MCTraffic, GoServer_proofs
     ^                    ^------- MCGoServer
     +--------------- EpollVisualServer <-- MCEpollVisualServer, EpollVisualServer_proofs
                             |
 EpollKernel <- EventLoop <- WriteBuffers <- EpollBufferedServer <- MCEpollBufferedServer
                    ^             ^
                    |             +--- EpollServers_proofs <- EpollVisualServer_proofs
                    |                    (with instances of EpollBufferedServer, EpollServer)
                    +-- EpollServer <- MCEpollServer
 EchoContract: refined by EpollServer, EpollBufferedServer, EpollVisualServer
 RWMutex <----------- SseHub       <-- MCSseHub, SseHub_proofs
                      ManagedConns <-- MCManagedConns, ManagedConns_proofs
                      Lifecycle    <-- MCLifecycle, Lifecycle_proofs
                      Gui          <-- MCGui, Gui_proofs
                      PyVisualizer <-- MCPyVisualizer, PyVisualizer_proofs
```

**Dashboard** is `clientStates` and `handleEvent` of index.html as pure
operators. A server that prints telemetry keeps in its variable `dash` what
the page would show after the events printed so far; a JSON number the emitter
leaves out is the model value `Undefined`, as it is in JavaScript.

**GoServer** has one `pc` per connection. A step ends where another goroutine
or the network can see or change what is used next: the three accesses of
`s.nextFD++; return s.nextFD` (`LoadNextFD`, `StoreNextFD`, `ReturnNextFD`),
each locked access to `clients` (`AddClient`, `RemoveClient`), each blocking
call (`ReadData`, `ReadTimeout`, `ReadError`, `WriteSome`, `WriteDone`,
`WriteFails`, `CloseConn`) and each emit (`EmitAccept`, `EmitClose`; the read
and write events are part of `HandleRead` and `WriteDone`). A byte is its
position in the client's stream; the `bufio.Reader` of a connection holds the
positions `rd+1 .. got`, so that "consume one byte, then peek at the rest"
(lines 126-138) is arithmetic. `client.mu` is only ever taken by the
connection's own goroutine and is left out.

**Traffic** extends GoServer: the program that in GoServer is "any client" is
here the generator. `main` is where `runNormalScenario`, `runChurnScenario` or
`runStressScenario` stands, `user` where the socket's goroutine (or `main`
working on that socket) stands, `wg` the WaitGroup's counter. Every step of the
driver is a client action of GoServer or leaves the server alone, so that
`TrafficSpec => Spec` is a refinement by inclusion.

**RWMutex** is Go's `sync.RWMutex` as a value: a writer that calls `Lock`
announces itself and waits for the readers inside, later readers wait for it,
and its `Unlock` lets all of them in.

**SseHub** has the scanner goroutine (`spc`), one handler per `/events` request
(`hpc`) and a status request (`apc`). A write to a `ResponseWriter` has a
beginning and an end and blocks while the subscriber's connection is full;
the handler's two handshake frames and a broadcast may be inside writes of one
response at once (`mixed` remembers it), and then either may be lost (`torn`).
The histories `bcast` and `joined` record what was broadcast to whom.

**ManagedConns** has one goroutine per API request (`pc`), and names a
connection by the request that dialled it. A step ends at each `Dial`, at each
wait in `Write` or `Read` and where `managedConnsMu` is let go. The server's end
of a connection is external and does what GoServer does: after a read of more
than a byte it echoes without reading again. `SendPanics` is the negative
`?size=`, `Collect` the finalizer that closes a connection a panic left behind,
`Expire` the read deadline, `ServerDies` the server's end.

**Lifecycle** is the processes: GUIs, visualizers and servers, started by one
another or by hand. `go run` is a process of its own that compiles the files it
is given, starts the program if that succeeds (`Builds`) and can be killed
without it. `stopServer` is modelled line by line for its two callers (the
deferred call and the `SetOnClosed` function), the visualizer's `main` with its
listener, its stop channel of capacity one, `Shutdown`, and the deferred function
as two steps: `VisKills` strikes the child (`struck`), which ends in a step of its
own (`ChildEnds`), and `VisWaits` is `main` returning after `Wait` has seen it. The
servers compete for one port. Visualizers and servers by hand are built programs
or `go run .`: start.bat's `go run main.go` does not get past the compiler.

**Gui** has the two goroutines that share the Dashboard without a lock: "sse"
(`connectSSE` and its handlers, which also call `addLog`) and "ui" (the toolkit:
`buildUI`, the callbacks of the two lists, the buttons). Each access to
`logEntries` is a step of its own, in `addLog` and in the callbacks; `clientMap`
is written in one step and ranged over in two. A panic ends the process; `crash`
says which. The `Refresh` of the list of clients that ends `handleAccept` and
`handleClose` (196, 230) is left out: it reads `clientMap` on the only goroutine
that writes it. GoServer and SseHub are present by what they show: accept, data
and close events in order, under an fd that other connections may have too
(`open` counts them), passed on to whoever is connected (`Arrives`) or lost
(`GoesAstray`), and the greeting of `handleSSE` (`Greets`), of which and of an
event written at the same time either may be torn. `feed` is what is under way,
`lost` the fds whose last accept or close did not come through, `twins` those
whose last event closed one of several connections.

**PyVisualizer** is visualizer.py. `serving` is the request that the only HTTP
thread handles and `hpc` where it stands; `backlog` holds the others. A stream
is registered (`Register`), greeted (`Hello`, or `HelloFails`, whose early return
leaves the queue in the list), takes lines off its queue (`GetLine`), writes
them (`WriteLine`, blocked while the viewer's connection is full) and ends by
`GetTimesOut` or `WriteFails` and `Finally`. Then the handler is at "next": the
header `Connection: keep-alive` (107) makes http.server read the viewer's next
request, and only `ConnectionEnds`, after the viewer has hung up, lets it serve
another. `Broadcast` is a line read by
read_stdout and put into every queue; a full one leaves the list. The API calls
take `managed_clients_lock` once each; `run_reader` is `ReaderChecks` (which
falls asleep with the lock if its client is choked or gone), `ReaderWakes`,
`ReaderReceives`, `ReaderEnds`. The bytes of the managed sockets are left out: the
C server reads and drops what it cannot echo, so `sendall` does not wait for the
echo to be read. As requests are handled one at a time, the unlocked access at
the end of `handle_spawn_client` (167) meets no `close_clients`.

**EpollKernel** is external to the repository: sockets and an edge-triggered
epoll instance as the C programs use them. An item enters the ready list when
something happens that its interest set names, or when `epoll_ctl` ADD or MOD
finds an event pending; `epoll_wait` polls each listed item once and takes it
off. Free send space is an event only if a write or a poll has found none
since (`nospace`, the kernel's SOCK_NOSPACE). The clients are actions: dial,
send, receive, FIN, RST, at any moment between two system calls of the server.

**EventLoop** is what the three C servers share: main's loop and
`handle_accept`. **WriteBuffers** is what `epoll_buffered_server.c` and
`epoll_visual_server.c` share: `handle_client_read`, `flush_write_buffer`,
`free_client`. Both modules give the common part of each step as an operator;
**EpollServer**, **EpollBufferedServer** and **EpollVisualServer** are the
specifications, one action per system call with the computation up to the next
one, and add what is particular: the unbuffered write with its read loop that a
client can keep going by sending without end (`flood`), the unconditional
EPOLL_CTL_MOD, the `epollout_armed` flag and the telemetry. A server whose
process is gone is in `pc = "dead"`: `WriteFails` from inside the read loop
(flush_write_buffer frees the client, handle_client_read then reads and frees
it again, which the allocator aborts) and `BrokenPipe` (SIGPIPE is not ignored).
An event names its client; a batch holds at most one event per client and a
client is closed only while its own event is handled, so an event cannot reach
a descriptor's next owner (`LoopInv` in EpollServers_proofs).

**EchoContract** is the abstract specification of a C echo server: a connection
is opened once and closed once; what comes back is made of bytes received from
that client, in order, each at most once; nothing comes back after the close.
It does not promise that every byte is echoed: the servers do lose bytes. The
mapping is `status <- sock`, `received <- got`, `echoed <- out`.

## 3. Runs

| Run | Instance | Shows |
|---|---|---|
| `go_server` | 2 connections, 4 bytes and 1 byte, reader of 3, send queue of 2, fairness | `TypeOK`, `NoStaleBytes`, `RegisteredIsLive`, `ListedIfDistinct`, `QuietClientIsReaped` |
| `traffic` | 2 sockets, payload and window of 2, reader of 2, send queue of 1, all three scenarios, fairness | `CompleteMeansClosed`, `TrafficEnds` |
| `go_echo_lost` (violation) | 1 connection | the first byte of a burst is never echoed: `EchoIsPrefix` |
| `hub` | 2 subscribers, one of which may stop reading, 2 lines, window 1, fairness | `TypeOK`, `NoWriteAfterReturn`, `InitNeverMissed`, `StreamHasNoGaps`, `InitLostOnlyByOverlap`, `LeaverIsRemoved`, `BroadcastEnds` |
| `managed_conns` | 3 requests of any kind, sizes -1, 0, 1, 5, connections of 2 bytes, fairness | `OwnedOnce`, `SendIsAnswered`, `CloseFreesSenders` |
| `lifecycle` | 1 GUI, 2 visualizers, 1 server by hand, with and without server.exe, fairness of the visualizers | `NilIsNeverUsed`, `ExitNeedsTwoStops`, `RestartFindsPort`, `StopIsHonoured` |
| `gui_launch` (violation) | 1 GUI, fairness | `go run` of main.go alone starts nothing: `GuiLaunchesVisualizer` |
| `gui` | 1 fd, 2 connections at a time, 2 frames under way, a log of 2, 1 click that logs, events and breaks without bound, fairness | `TypeOK`, `PanicHasCause`, `ListIsTrue`, `ClosedIsUnlisted` |
| `buffered_bytes` | 1 connection, 6 bytes, buffer of 3, send queue of 2, failing accept, fairness | `TypeOK`, `EveryByteAccounted`, `DropsOnlyUnderBackpressure`, `ImplementsContract`, `BufferDrains` |
| `visual_wakeups` | 2 connections, 2 bytes, batches of 2, failing accept, symmetry | `NoLostWakeup`, `DashboardMirrors` |
| `unbuffered_served` | 2 connections, 2 bytes and floods, batches of 2, failing accept, fairness | `ImplementsContract`, `InputIsRead`, `HangupIsClosed`, `DialIsAccepted` |
| `py_streams` | 1 viewer, 2 managed clients, 2 lines, queue, window and backlog of 1, fairness | `StreamHasNoGaps`, `LeakIsShed`, `HangupFreesServer`, `UnchokedIsRead` |

Each property of a passing run has a mutant: a variant of one definition with
a plausible bug (a dropped guard, a lock released early, an offset not reset)
that makes TLC find the property violated in the same run. The mutants stand
in the modules next to the definitions they replace.

**Bounds and why they are enough.** The Go server's connections interact only
through `nextFD`, the registry and the dashboard: two connections give every
race on the three accesses of `nextFD`, and a reader of three bytes against a
send queue of two lets a burst be split by the reader and by the queue. One
connection bursts and the other sends a byte, which keeps the liveness check
small. In `traffic` a payload of two is what fills the reader and makes the
server stop reading, and a second write of a socket then finds its window full;
two sockets give a goroutine that is done while the other is stuck. In the hub
two subscribers give one that is written to while the other locks, or one that
is stalled while the other leaves; two lines give a line after the init line,
and a window of one frame gives blocking writes. Three managed requests are a
spawn, a send and a close, or two sends on one connection and what overtakes
them; five bytes exceed what the connection and the server's reader hold
together, one byte is swallowed without an answer, zero and minus one are the
edges of the payload. Two visualizers give two that want the same port, one of
which lives without it. In the GUI a log of two is trimmed by the third entry;
two connections with one fd are what a close confuses; two frames under way are
an accept and a close of one fd, or a greeting and an event; one click that logs
is what `addLog` needs to meet itself. In visualizer.py a queue of one is full at
the second line, which is enough to shed a queue that is drained and one that is
left behind; the API calls are the requests that wait behind the one viewer; two
clients give a reader that sleeps in the lock while another wants it. In the C servers a
buffer of three against a queue of two and six bytes give short writes, EAGAIN,
a partly written buffer that more input is appended to, and a full buffer; the
event loop treats clients one at a time, so two connections with batches of two
give the interleavings of different clients, of accepts and of reused
descriptors. `MaxEcho` bounds a history of the Go model only: a goroutine that
rereads its buffer echoes without end.

What the instances leave out, theorems cover for most safety properties
(section 5): they hold for any number of connections, subscribers, requests,
processes and viewers and any sizes.

**CHECK_DEADLOCK is FALSE** in every run: clients may stop, the server may
print no more lines, requests are used up, processes may all have ended; none of
it is an error here. That whoever owes something does not stop is what the
liveness properties and `NoLostWakeup` say.

**Fairness.** Nobody has to dial, send, hang up, click, ask or print.

* Go server: the runtime runs every goroutine that can run (weak fairness per
  goroutine); a closed client's kernel answers data with a reset.
* Traffic: weak fairness of `main`, of each socket's goroutine and of each
  goroutine of the server; `TrafficEnds` starts when the time has passed.
* Hub: weak fairness of handlers, scanner and status request; a goroutine in
  `Lock` is not overtaken for ever, as sync.Mutex hands over in its starvation
  mode (strong fairness of `CallLock`). Subscribers outside `Slow` keep reading.
* Managed clients: weak fairness of each handler, of each deadline, and of the
  server's reading goroutine until it is killed. Its echoing is owed nothing:
  `SendIsAnswered` is about the deadline that makes do without it.
* Lifecycle: `StopIsHonoured` needs the visualizer's own `main` only
  and that a process that was killed ends (`VisFairSpec`). `gui_launch` adds every other goroutine and process
  (`FairSpec`), so that what it shows is not for lack of time.
* GUI: weak fairness of each of the two goroutines. What a button waits for
  (`SendReturns`) is owed by nobody.
* Python: weak fairness of the HTTP thread, of the viewers' reading and of each
  reader thread; a thread that waits for `managed_clients_lock` gets no more,
  because Python's locks promise no more. `HangupFreesServer` and `UnchokedIsRead`
  therefore except readers that fall asleep in the lock again and again; and the
  first speaks of a C server that has fallen silent, which the bound on lines
  brings about.
* C: the server process runs (weak fairness of its next step); for
  `BufferDrains` the client reads what it is sent, and does not flood. A flood need
  not end: the three liveness properties of `epoll_server.c` except a client kept
  waiting by another's flood that goes on for ever, and nothing else.

## 4. What the runs found

Two disagreements between code and documents have a run of their own:

* **A burst loses its first byte and repeats the rest** (`go_echo_lost`).
  `handleClient` consumes one byte (server/main.go:129) and echoes what is
  behind it with Peek (138), which consumes nothing, so the rest is echoed over
  and over. The comment says "Echo back immediately" (161), go_app_overview.md:47
  "Core TCP echo server".
* **The GUI launches no visualizer** (`gui_launch`). `go run ...\main.go`
  (gui/main.go:102) compiles one file; `withLogging` is in
  visualizer/middleware.go:9. `cmd.Start` succeeds, the build fails, nobody looks.
  go_app_overview.md:113 promises the launch. The visualizer's own fallback,
  `go run` of the server's main.go, fails in the same way.

Others are the exceptions the checked properties have to make, or what the
models do in states that no property forbids:

* *Go server.* A goroutine with bytes left in its reader never reads the socket
  again and a failed write does not end it (198-203): it spins, the fd is never
  closed, against go_app_overview.md:58; `QuietClientIsReaped` excepts exactly
  these. `net.Conn.Write` returns when all is written, so the backpressure event
  (225-236) is dead code, against go_app_overview.md:63 (theorem
  `NeverSignalled`). Two clients can share an fd (80-83), and then closing one
  takes the other off the dashboard (go_app_overview.md:110); `ListedIfDistinct`
  says that nothing else does. `omitempty` drops zero counters (34-35), and the
  page's pending gauge is NaN (index.html:736). `active_clients` is counted under
  the lock and printed after it (112). A persistent Accept error spins (275).
* *Traffic.* Since the server stops reading a socket after its first payload, a
  stress goroutine that keeps writing blocks for good, and with it `wg.Wait`:
  `TrafficEnds` excepts this case only.
* *Hub.* Handler and broadcast write one `ResponseWriter` unsynchronised
  (visualizer/main.go:97-107 and 65-67) and the init event may be torn, against
  go_app_overview.md:80; `InitLostOnlyByOverlap` says that only this loses it.
  One subscriber that stops reading stops all the others (64), against
  go_app_overview.md:79; `BroadcastEnds` and `LeaverIsRemoved` say that only
  this does. `/api/status` says "running" whatever the server does (128).
* *Managed clients.* A send larger than what the connection holds never returns
  from `Write` until `close_clients` (`SendIsAnswered`, `CloseFreesSenders`); a
  negative size panics and leaves a dialled connection to the finalizer.
* *Processes.* `cmd.Wait` waits for the copy of a pipe that nobody closes
  (gui/main.go:99-101, 118), so a GUI whose window is closed does not exit unless
  its two calls of `stopServer` overlap (`ExitNeedsTwoStops`). What is killed is
  `go run`, not what it runs, so go_app_overview.md:114 ("terminate the entire
  child process tree") does not hold either. A second server ends when the
  port is taken (server/main.go:248), and a second visualizer only logs that its own is
  (346): it lives on without a listener. A visualizer that is killed leaves its
  server holding the port, and the next one's server ends at its bind:
  `RestartFindsPort` says that one which leaves `main` does not. start.bat:3-4 runs
  `go run main.go` of packages of two files, which does not compile.
* *GUI.* `connectSSE` can handle an event before `buildUI` has made the widgets
  (89): a nil widget. Go ends a process that ranges over a map and writes it at
  once (194). With the log at its limit the list's callback can index past its
  end, and two goroutines in `addLog` can make the trim itself panic
  (`PanicHasCause`); one can also undo the
  other's trim with a stale length, so that the log grows past its limit. A client stays in the list for good if its
  close was printed while the stream was down or was torn by a greeting, and is
  taken off it by the close of another with the same fd; `ListIsTrue` says that
  only this makes the list wrong. A button waits for the server's answer
  on the toolkit's goroutine without a deadline (284): the window freezes.
* *Python visualizer.* The reader of a choked client, or of a closed one, for
  ever, sleeps in `managed_clients_lock` and takes it again at once
  (visualizer.py:149-154): other readers and the API calls wait, against the
  comment at 147. `UnchokedIsRead` and `HangupFreesServer` except that case. A
  viewer that does not read blocks the stream's write (126) and with it every
  request. After thirty seconds without a line the stream is over, but the
  connection is not (keep-alive, 107): the viewer gets no more events, and the only
  HTTP thread waits for its next request until it hangs up (`HangupFreesServer`).
* *C servers.* They keep all that is checked of them. What they do not promise
  and do not do: a client that sends as fast as it is read keeps the read loop
  (epoll_server.c:110) to itself, and the others wait; `epoll_server.c` loses what
  a write does not take (115), the
  other two drop input that does not fit the buffer (164) and bytes that come
  with a FIN (the hang-up is handled first, 238); a write error inside the read
  loop uses a freed client (172), and a write after a FIN and a reset ends the
  process by SIGPIPE (110).

## 5. Proofs

Eight modules. Every theorem holds for any value of the constants that satisfies
the modules' named assumptions (`GoServerAssumption`, `TrafficAssumption`,
`SseHubAssumption`, ...); nothing else is assumed. They say that sizes are
positive, that a limit is a natural number, that the listener is no connection;
`DashboardAssumption` says that `undefined` is no number. In each module the
listed theorems follow from an inductive invariant, and the proof that a step
preserves it has one case per action.

**GoServer_proofs**:

* `TypeCorrect`: `TypeOK` with its bounds (`rd <= got <= sent`, the reader never
  holds its full size after the read consumed a byte, `wn <= Len(wbuf)`). `TypeOK`
  is not inductive: `ReadData` keeps the bound of the reader only because it
  reads into an empty one. The invariant is `TypeInv == TypeOK /\
  ReadFromEmpty`, where a goroutine at "read" has `rd = got`.
* `RegistryIsLive`: whatever numbers the race on `nextFD` hands out, a registry
  entry belongs to a live connection whose own fd is its key. Inductive with
  `TypeInv`, because an entry can be overwritten or deleted by another
  connection but only its owner leaves "announce" ... "remove".
* `NothingStale` and `NeverSignalled`, from `EchoInv`: the write buffer equals
  what the reader holds while a write is under way, is empty otherwise, and
  `Backpressure` is down. Nothing weaker is inductive: `flushWrite` leaves an
  empty buffer because it writes the whole of it.
* `ListedWhenDistinct`: if the fds are distinct, dashboard and registry are
  exact. Steps either leave both key sets and both groups of connections alone
  (`Steady`), or add or delete one connection's key in one of them (`KeyAdded`,
  `KeyDeleted`); a number used twice before makes the premise false and it
  stays false (`DistinctFDs` is never regained). Lemmas about `HandleEvent`
  (which keys an event adds, deletes or keeps) carry the dashboard's part.

In the same module, of **Traffic**: `TrafficIsAClient` is `TrafficSpec => Spec`:
every step of the driver is a client's step or leaves the server alone. So
`ServerHoldsUnderTraffic` gets GoServer's theorems for free. `WaitGroupCounts`
and `CompleteLeavesNoneOpen` follow from `DriverInv`, which adds to the typing
that `wg` is the cardinality of the goroutines between `Add` and `Done` and that
a socket's goroutine past its `Close` has left a closed socket; lemmas about
cardinalities of sets with one element more or less carry the counter.

**SseHub_proofs**: `HubTypeCorrect`, `WriterIsValid` (`NoWriteAfterReturn`),
`StreamsAreContiguous` (`StreamHasNoGaps`), `InitIsWritten` (`InitNeverMissed`)
and `OverlapAloneLosesInit` (`InitLostOnlyByOverlap`) follow from `HubInv`, of
six parts. `LockInv` ties `sseClientsMu` to the program counters: a scanner at
"range" or "write" holds the read lock, the map is exactly the handlers between
`Register` and `Deregister`, and the range visits members of the map. It is what
makes a subscriber stay valid during a write, because `Register` and
`Deregister` need a lock without readers. `LineInv` says that at most one line
is under way and that the init line is cached before it is broadcast;
`StreamInv` counts, for every subscriber, the lines since it registered up to
the line the range has reached; `InitInv` says that a handler which found the
cache empty had registered before any broadcast was over. `ConnInv` is types.
`GotInv` says which writes of the init event, once over, have reached a
connected subscriber or been overlapped: the replay of a handler that found it
cached, and the first broadcast to one registered before. `StreamHasNoGaps`
needs `LockInv` to know that nobody joins or leaves during a range,
`InitNeverMissed` needs `StreamInv` to know that the first line a subscriber was
sent is the first line of all.

**ManagedConns_proofs**: `ConnectionsAreOwned` (`OwnedOnce`), `ManagedTypeCorrect`,
and `IdsStayUnique`: a client_id denotes one connection for good, also after
`close_clients`. The invariant `Numbered` adds to them `Shape` (which program
counters go with which local `conn`, and that a connection exists exactly if the
request it is named after has dialled it) and `Counted` (no id exceeds
`connCounter`):
`OwnedOnce` survives an insertion because the new key is above every other.

**Lifecycle_proofs**: `StopServerIsSafe` (`NilIsNeverUsed`), `ExitIsByRace`
(`ExitNeedsTwoStops`), `PortIsFreed` (`RestartFindsPort`) and `LifecycleTypes`.
`Stops(g)` is the argument about the two callers: `d.server` is forgotten only after
a `Wait` that came second, the first `Wait` never returns, so once `d.server` is nil
no caller is left to use it. `ChildIsOver` is the one about the port: between its
`Kill` and the return of its `Wait` a visualizer's child is struck or over, and once
`main` has returned it is over, and nothing starts it again. So a server that loses
the port loses it to one whose visualizer has not left.

**Gui_proofs**: `GuiTypes` and `PanicsHaveCauses`. The bound on the log is
inductive only as `Causes`: until two goroutines have met in `addLog`, the one
inside is `Alone`, knows the length it has read to be the length there is, and
trims before the next append. `ListFollowsServer` (`ListIsTrue`): what the list
will show of an fd is decided by the last frame under way about it, if any; an
accept or a close that arrives is behind all others and decides, one that goes
astray or is cut off with the stream puts its fd into `lost`, a torn greeting
decides nothing, and a handler takes the first frame and leaves the decision to
the rest.

**PyVisualizer_proofs**: `PyTypeCorrect`, `PyStreamsAreContiguous`
(`StreamHasNoGaps`), `PyLeaksAreShed` (`LeakIsShed`), from `PyInv`. Its part
`StreamInv` speaks of what was written, the line the handler holds and what is
queued as three consecutive runs, each starting where the one before ends;
`AskInv` (a viewer is in the backlog once, and not while served) is what makes a
stream register once. That the three runs concatenated are one run is a lemma
about sequences (`RunConcat`), applied at the end.

**EpollServers_proofs** and **EpollVisualServer_proofs** treat the C servers.
The two with write buffers differ in when they call `epoll_ctl`: one calls it
after every EAGAIN and every drained buffer, the other when its flag
`epollout_armed` says that something would change. `SharedStep` is a step that
may do either: it may leave out an EPOLL_CTL_MOD that would change nothing. The
invariants are proved of `SharedStep` once. That `epoll_buffered_server.c` takes
shared steps (`BufferedShares`) is its definition; that `epoll_visual_server.c` does
(`VisualShares`) needs `ArmedInv`, that the flag agrees with the epoll set, which
in turn is preserved because every call of `epoll_ctl` sets the flag.

* `BufferedTypeCorrect`, `BufferedBytesAccounted` (`EveryByteAccounted`),
  `BufferedImplementsContract` (`Spec => ImplementsContract`), and the same for the
  other server, `VisualTypeCorrect`, `VisualBytesAccounted`, `VisualImplementsContract`,
  from `BufInv`: `KernelInv` (only open sockets and the listener are in the epoll
  set), `LoopInv` (a batch names each client once and not the one being handled,
  so no event outlives its client) and `ByteInv` (echoed bytes, then buffered
  ones, are increasing positions, and with the dropped ones they are all that
  was read). For the refinement, `StepImplements` maps every step to `OpenConn`,
  `Receive`, `Echo`, `CloseConn` of the contract or to a stutter; a flush is an
  `Echo` because what a slice of the buffer adds is above all that was echoed
  (`CatIncreases`, `SliceFacts`).
* `BufferedLosesNoWakeup` and `VisualLosesNoWakeup` (`NoLostWakeup`), from `WakeInv`.
  `NoLostWakeup` speaks of states in which the server is about to block; `WakeInv`
  says where the duty is in every other state. `InputInv`: readable input is on the
  ready list, in the batch, or being read by the handler that is running and has
  not yet met EAGAIN; a dialled connection is announced in the same sense or
  accept has failed. `OutputInv`: a client that `flush_write_buffer` is not working
  on has EPOLLOUT subscribed exactly if it has output, and then an event of its
  is pending or in the batch, or its queue is full and the kernel will report
  room (`nospace`). The window between the write that failed and the
  `epoll_ctl` behind it closes because EPOLL_CTL_MOD polls again.
* `BufferedDropsLate`, `VisualDropsLate` (`DropsOnlyUnderBackpressure`, an action
  property): where a read finds no room the buffer is not empty, and by
  `OutputInv` EPOLLOUT is subscribed.
* `DashboardIsRight` (`DashboardMirrors`), from `DashInv` together with `ArmedInv` and
  `WakeInv`: the page's entry for a client may hold offsets older than the
  client's, because it does not handle `buffer_cleared`, but their difference is
  kept; and no two open clients have one descriptor, because finitely many are
  open, so the lowest free one exists and is no open client's (`LowestFree`).
* `UnbufferedImplementsContract`: `epoll_server.c` refines the same contract, from
  `ServeInv`. Its one buffer serves all clients; what keeps one client's bytes from
  another is that it is filled and offered in one visit to a client
  (`ChunkInv`: at "write" it holds bytes of `cur` above all that was echoed to it).

**Model-checked only.** The liveness properties (`QuietClientIsReaped`, `TrafficEnds`,
`LeaverIsRemoved`, `BroadcastEnds`, `SendIsAnswered`, `CloseFreesSenders`,
`StopIsHonoured`, `ClosedIsUnlisted`, `BufferDrains`, `InputIsRead`, `HangupIsClosed`,
`DialIsAccepted`, `HangupFreesServer`, `UnchokedIsRead`): fairness and ENABLED are out of
the prover's reach. Every invariant and action property the passing runs check has
a theorem.

## 6. Not modelled

* `telemetry_file.go`: nothing in the repository reads the file, and its mutex
  never nests with another lock.
* `epoll_loop.c`: a stand-alone demonstration no other part starts or talks to.
* Static pages, `/health`, `withLogging`: no state.
* `traffic_generator.py`: the same scenarios as the Go generator, for the C
  servers; covered by the client actions of EpollKernel.
* In modelled parts: start-up failures of the C servers (socket, bind,
  epoll_create1), EINTR, a failing calloc and epoll_wait; the Go accept loop on a
  persistent error; the canvas, event log, buttons and EventSource reconnection
  of index.html; texts and layout of the GUI; compiling and starting the C server
  in visualizer.py.
* Build files hold no run-time state.

## 7. Plan

1. `InputAnnounced` for `epoll_server.c`, by `InputInv` with its own program counters:
   the safety half of its liveness properties.
2. **Pipeline**, which composes the server's `emit` with a hub that is stalled: a
   full pipe blocks the server.
3. **TelemetryLog**, for the order of stdout and telemetry.log.
