------------------------------ MODULE PyVisualizer ------------------------------
(***************************************************************************)
(* visualizer.py: the dashboard of the C server.  http.server.HTTPServer   *)
(* handles one request at a time, an /events request for as long as its    *)
(* stream lasts; the read_stdout thread broadcasts the server's lines into *)
(* one bounded queue per stream; each managed client has a run_reader      *)
(* thread that takes the echo off its socket.                              *)
(*                                                                         *)
(* Data.  The server's lines are numbered from 1.  The blocks under        *)
(* sse_lock neither block nor sleep, so each is one step.  run_reader      *)
(* sleeps inside managed_clients_lock, so that lock is a variable.  What   *)
(* the sockets carry is left out: the C server reads, and drops, whatever  *)
(* it cannot echo, so sendall never waits for the echo to be read.         *)
(*                                                                         *)
(* handle_sse sends "Connection: keep-alive", so its return does not end   *)
(* the request handler: that waits on the same connection for another      *)
(* request, until the viewer hangs up.  A viewer sends none: to it the     *)
(* stream, which has no length, is not over.  The other answers end their  *)
(* connection.                                                             *)
(***************************************************************************)
EXTENDS Integers, Sequences, FiniteSets

CONSTANTS Viewers,    \* /events requests (a reconnect is a new one)
          Clients,    \* sockets handle_spawn_client may open
          Nobody,     \* no request, no lock holder
          QueueSize,  \* maxsize of a stream's queue (100)
          Window,     \* frames a connection buffers before a write blocks
          Backlog,    \* connections that wait in listen's backlog
          MaxLines    \* bound: lines the server prints

Calls == {"spawn", "send", "choke", "unchoke", "close"}
Requests == Viewers \cup Calls

ASSUME PyVisualizerAssumption ==
  /\ {QueueSize, Window, Backlog} \subseteq Nat \ {0} /\ MaxLines \in Nat
  /\ Viewers \cap Calls = {} /\ Nobody \notin Requests \cup Clients

VARIABLES
  backlog,    \* requests not yet accepted, oldest first
  serving,    \* the request being handled
  hpc,        \* where its handler stands
  asked,      \* the viewers that have connected so far
  sseClients, \* sse_clients: the streams whose queue is in the list
  queue,      \* the queue of each stream
  msg,        \* the line handle_sse has got and not yet written (0: none)
  conn,       \* a viewer's connection: "up" or "gone"
  unread,     \* frames the viewer has not read
  line,       \* lines the server has printed and read_stdout broadcast
  up,         \* the C server runs
  managed,    \* the keys of managed_clients
  choked,     \* info["choked"]
  reader,     \* where each run_reader thread stands
  lock,       \* the run_reader that sleeps in managed_clients_lock
  joined,     \* history: line when the stream's queue entered the list
  written     \* history: lines written to the viewer

httpVars   == <<backlog, serving, hpc, asked>>
streamVars == <<sseClients, queue, msg, conn, unread, joined, written>>
clientVars == <<managed, choked, reader, lock>>
vars == <<httpVars, streamVars, clientVars, line, up>>

Init ==
  /\ backlog = << >> /\ serving = Nobody /\ hpc = "idle" /\ asked = {}
  /\ sseClients = {} /\ queue = [v \in Viewers |-> << >>] /\ msg = 0
  /\ conn = [v \in Viewers |-> "up"] /\ unread = [v \in Viewers |-> 0]
  /\ line = 0 /\ up = TRUE
  /\ managed = {} /\ choked = [c \in Clients |-> FALSE]
  /\ reader = [c \in Clients |-> "none"] /\ lock = Nobody
  /\ joined = [v \in Viewers |-> 0] /\ written = [v \in Viewers |-> << >>]
-----------------------------------------------------------------------------
(* HTTPServer.                                                             *)
Request(r) ==
  /\ Len(backlog) < Backlog /\ r # serving /\ \A i \in DOMAIN backlog : backlog[i] # r
  /\ r \in Viewers => r \notin asked
  /\ r = "spawn" => \E c \in Clients : reader[c] = "none"
  /\ backlog' = Append(backlog, r) /\ asked' = asked \cup ({r} \cap Viewers)
  /\ UNCHANGED <<serving, hpc, streamVars, clientVars, line, up>>

AcceptRequest ==
  /\ serving = Nobody /\ backlog # << >>
  /\ serving' = Head(backlog) /\ backlog' = Tail(backlog)
  /\ hpc' = IF serving' \in Viewers THEN "headers" ELSE "call"
  /\ UNCHANGED <<asked, streamVars, clientVars, line, up>>

(* An answer without keep-alive ends the connection.                       *)
Return    == serving' = Nobody /\ hpc' = "idle" /\ UNCHANGED <<backlog, asked>>
Goto(at)  == hpc' = at /\ UNCHANGED <<backlog, serving, asked>>
-----------------------------------------------------------------------------
(* handle_sse.  A write to a connection that is gone may still succeed.    *)
CanWrite(v) == conn[v] = "gone" \/ unread[v] < Window
Write(v)    == unread' = [unread EXCEPT ![v] = IF conn[v] = "up" THEN @ + 1 ELSE @]

(* The response header, then the new queue enters the list.                *)
Register(v) ==
  /\ hpc = "headers" /\ serving = v
  /\ sseClients' = sseClients \cup {v} /\ joined' = [joined EXCEPT ![v] = line]
  /\ Goto("hello")
  /\ UNCHANGED <<queue, msg, conn, unread, written, clientVars, line, up>>

HeaderFails(v) ==
  /\ hpc = "headers" /\ serving = v /\ conn[v] = "gone"
  /\ Return /\ UNCHANGED <<streamVars, clientVars, line, up>>

Hello(v) ==
  /\ hpc = "hello" /\ serving = v /\ CanWrite(v)
  /\ Write(v) /\ Goto("get")
  /\ UNCHANGED <<sseClients, queue, msg, conn, joined, written, clientVars, line, up>>

(* The early return leaves the queue in the list.                          *)
HelloFails(v) ==
  /\ hpc = "hello" /\ serving = v /\ conn[v] = "gone"
  /\ Goto("next") /\ UNCHANGED <<streamVars, clientVars, line, up>>

GetLine(v) ==
  /\ hpc = "get" /\ serving = v /\ queue[v] # << >>
  /\ msg' = Head(queue[v]) /\ queue' = [queue EXCEPT ![v] = Tail(@)]
  /\ Goto("write")
  /\ UNCHANGED <<sseClients, conn, unread, joined, written, clientVars, line, up>>

(* Mutant: q.get() has no timeout.                                         *)
GetWaits(v) == FALSE /\ UNCHANGED vars

(* queue.Empty after thirty seconds.                                       *)
GetTimesOut(v) ==
  /\ hpc = "get" /\ serving = v /\ queue[v] = << >>
  /\ Goto("finally") /\ UNCHANGED <<streamVars, clientVars, line, up>>

WriteLine(v) ==
  /\ hpc = "write" /\ serving = v /\ CanWrite(v)
  /\ Write(v) /\ written' = [written EXCEPT ![v] = Append(@, msg)] /\ msg' = 0
  /\ Goto("get")
  /\ UNCHANGED <<sseClients, queue, conn, joined, clientVars, line, up>>

WriteFails(v) ==
  /\ hpc = "write" /\ serving = v /\ conn[v] = "gone"
  /\ Goto("finally") /\ UNCHANGED <<streamVars, clientVars, line, up>>

(* With the return msg and the queue are garbage.                          *)
Finally(v) ==
  /\ hpc = "finally" /\ serving = v
  /\ sseClients' = sseClients \ {v} /\ Goto("next")
  /\ queue' = [queue EXCEPT ![v] = << >>] /\ msg' = 0
  /\ UNCHANGED <<conn, unread, joined, written, clientVars, line, up>>

(* BaseHTTPRequestHandler.handle waits for the connection's next request   *)
(* and finds its end instead.                                              *)
ConnectionEnds(v) ==
  /\ hpc = "next" /\ serving = v /\ conn[v] = "gone"
  /\ Return /\ UNCHANGED <<streamVars, clientVars, line, up>>

(* The viewers.                                                            *)
Read(v) ==
  /\ conn[v] = "up" /\ unread[v] > 0 /\ unread' = [unread EXCEPT ![v] = @ - 1]
  /\ UNCHANGED <<httpVars, sseClients, queue, msg, conn, joined, written, clientVars, line, up>>

(* What it has not read is lost.                                           *)
Leave(v) ==
  /\ v \in asked /\ conn[v] = "up" /\ conn' = [conn EXCEPT ![v] = "gone"]
  /\ unread' = [unread EXCEPT ![v] = 0]
  /\ UNCHANGED <<httpVars, sseClients, queue, msg, joined, written, clientVars, line, up>>
-----------------------------------------------------------------------------
(* read_stdout and broadcast_event; the server may end at any time.        *)
HasRoom(v) == Len(queue[v]) < QueueSize
Put(S) == queue' = [v \in Viewers |-> IF v \in S THEN Append(queue[v], line') ELSE queue[v]]

(* Mutant: a line that does not fit is dropped and the queue stays.        *)
BroadcastSkipsFull ==
  /\ up /\ line < MaxLines /\ line' = line + 1
  /\ Put({v \in sseClients : HasRoom(v)})
  /\ UNCHANGED <<httpVars, sseClients, msg, conn, unread, joined, written, clientVars, up>>

Broadcast ==
  /\ up /\ line < MaxLines /\ line' = line + 1
  /\ sseClients' = {v \in sseClients : HasRoom(v)} /\ Put(sseClients')
  /\ UNCHANGED <<httpVars, msg, conn, unread, joined, written, clientVars, up>>

ServerExits ==
  /\ up /\ up' = FALSE
  /\ UNCHANGED <<httpVars, streamVars, clientVars, line>>
-----------------------------------------------------------------------------
(* The API calls.  Each takes managed_clients_lock once; a call names one  *)
(* client or addresses all of them.                                        *)
Call(op) == hpc = "call" /\ serving = op /\ lock = Nobody /\ Return
Targets  == {managed} \cup {{c} : c \in managed}

Spawn(c) ==
  /\ Call("spawn") /\ reader[c] = "none" /\ up
  /\ managed' = managed \cup {c} /\ reader' = [reader EXCEPT ![c] = "check"]
  /\ UNCHANGED <<choked, lock, streamVars, line, up>>

(* connect() fails before the lock.                                        *)
SpawnFails ==
  /\ hpc = "call" /\ serving = "spawn" /\ ~up /\ Return
  /\ UNCHANGED <<streamVars, clientVars, line, up>>

(* The list is copied under the lock; a sendall that fails is passed over. *)
SendData == Call("send") /\ UNCHANGED <<streamVars, clientVars, line, up>>

ChokeClient ==
  /\ Call("choke") \/ Call("unchoke")
  /\ \E S \in Targets :
       choked' = [c \in Clients |-> IF c \in S THEN serving = "choke" ELSE choked[c]]
  /\ UNCHANGED <<managed, reader, lock, streamVars, line, up>>

CloseClients ==
  /\ Call("close") /\ managed' = {} /\ choked' = [c \in Clients |-> FALSE]
  /\ UNCHANGED <<reader, lock, streamVars, line, up>>
-----------------------------------------------------------------------------
(* run_reader.                                                             *)
ReaderGoto(c, at) == reader' = [reader EXCEPT ![c] = at]

(* A reader whose client is choked, or closed, sleeps with the lock.       *)
ReaderChecks(c) ==
  /\ reader[c] = "check" /\ lock = Nobody
  /\ IF c \in managed /\ ~choked[c]
     THEN ReaderGoto(c, "recv") /\ UNCHANGED lock
     ELSE ReaderGoto(c, "asleep") /\ lock' = c
  /\ UNCHANGED <<managed, choked, httpVars, streamVars, line, up>>

ReaderWakes(c) ==
  /\ reader[c] = "asleep" /\ ReaderGoto(c, "check") /\ lock' = Nobody
  /\ UNCHANGED <<managed, choked, httpVars, streamVars, line, up>>

(* Mutant: half a second without data ends the reader.                     *)
ReaderReceivesOnce(c) ==
  /\ reader[c] = "recv" /\ \E next \in {"check", "ended"} : ReaderGoto(c, next)
  /\ UNCHANGED <<managed, choked, lock, httpVars, streamVars, line, up>>

(* Data, or half a second without any.                                     *)
ReaderReceives(c) ==
  /\ reader[c] = "recv" /\ ReaderGoto(c, "check")
  /\ UNCHANGED <<managed, choked, lock, httpVars, streamVars, line, up>>

(* The peer has closed, or the socket was closed before recv.              *)
ReaderEnds(c) ==
  /\ reader[c] = "recv" /\ (~up \/ c \notin managed) /\ ReaderGoto(c, "ended")
  /\ UNCHANGED <<managed, choked, lock, httpVars, streamVars, line, up>>
-----------------------------------------------------------------------------
HandlerStep ==
  \/ \E v \in Viewers :
       \/ Register(v) \/ HeaderFails(v) \/ Hello(v) \/ HelloFails(v) \/ GetLine(v)
       \/ GetTimesOut(v) \/ WriteLine(v) \/ WriteFails(v) \/ Finally(v)
       \/ ConnectionEnds(v)
  \/ \E c \in Clients : Spawn(c)
  \/ SpawnFails \/ SendData \/ ChokeClient \/ CloseClients

ReaderStep(c) ==
  ReaderChecks(c) \/ ReaderWakes(c) \/ ReaderReceives(c) \/ ReaderEnds(c)

Next ==
  \/ \E r \in Requests : Request(r)
  \/ AcceptRequest \/ HandlerStep
  \/ \E v \in Viewers : Read(v) \/ Leave(v)
  \/ Broadcast \/ ServerExits
  \/ \E c \in Clients : ReaderStep(c)

Spec == Init /\ [][Next]_vars

(* Every thread that can run runs, the one of the HTTP server between two  *)
(* requests and in a handler, and viewers with something to read go on     *)
(* reading.  Nobody has to ask, leave or print.  Weak fairness is all that *)
(* Python's locks give: a thread that waits for one may be overtaken.      *)
Fairness ==
  /\ WF_vars(AcceptRequest \/ HandlerStep)
  /\ WF_vars(\E v \in Viewers : Read(v))
  /\ \A c \in Clients : WF_vars(ReaderStep(c))

FairSpec == Spec /\ Fairness
-----------------------------------------------------------------------------
(* The variables keep to their types: no queue, backlog or connection is   *)
(* over its bound, and managed_clients_lock is held by who sleeps in it.   *)
TypeOK ==
  /\ backlog \in Seq(Requests) /\ Len(backlog) <= Backlog
  /\ serving \in Requests \cup {Nobody} /\ asked \subseteq Viewers
  /\ hpc \in {"idle", "headers", "hello", "get", "write", "finally", "next", "call"}
  /\ (hpc = "idle") <=> (serving = Nobody)
  /\ sseClients \subseteq asked
  /\ queue \in [Viewers -> Seq(1 .. line)] /\ \A v \in Viewers : Len(queue[v]) <= QueueSize
  /\ msg \in 0 .. line /\ line \in 0 .. MaxLines /\ up \in BOOLEAN
  /\ conn \in [Viewers -> {"up", "gone"}] /\ unread \in [Viewers -> 0 .. Window]
  /\ managed \subseteq Clients /\ choked \in [Clients -> BOOLEAN]
  /\ reader \in [Clients -> {"none", "check", "asleep", "recv", "ended"}]
  /\ lock \in Clients \cup {Nobody} /\ \A c \in Clients : (lock = c) <=> (reader[c] = "asleep")
  /\ joined \in [Viewers -> 0 .. line] /\ written \in [Viewers -> Seq(1 .. line)]

(* Lines that have left the queue of v, and those still in it.             *)
Pending(v) == (IF serving = v /\ msg # 0 THEN <<msg>> ELSE << >>) \o queue[v]
Stream(v)  == written[v] \o Pending(v)

(* What a viewer is written, what its handler holds and what its queue     *)
(* holds is the run of the server's lines from its registration on; as     *)
(* long as the queue is in the list, up to the last line.  A queue that    *)
(* was full is out of the list for good: the stream breaks off, without a  *)
(* gap.                                                                    *)
StreamHasNoGaps ==
  \A v \in Viewers :
    /\ \A i \in DOMAIN Stream(v) : Stream(v)[i] = joined[v] + i
    /\ v \in sseClients => joined[v] + Len(Stream(v)) = line

(* The queue that handle_sse leaves behind when its greeting fails is      *)
(* dropped from the list after QueueSize lines.                            *)
LeakIsShed ==
  \A v \in sseClients : (serving = v => hpc = "next") => line - joined[v] <= QueueSize

(* The HTTP server comes free for the next request again and again, unless *)
(* a viewer that never hangs up keeps it, or a reader the lock.  While the *)
(* C server prints nothing (it prints at most MaxLines lines here) it is   *)
(* the thirty seconds' timeout that leads to the hang-up's discovery.      *)
HangupFreesServer ==
  \/ []<>(serving = Nobody)
  \/ \E v \in Viewers : <>[](serving = v /\ conn[v] = "up")
  \/ []<>(lock # Nobody)

(* The reader of a client that is not choked gets to its socket, unless    *)
(* another reader falls asleep in the lock again and again: one that is    *)
(* choked, or whose client was closed, is all that can starve it.          *)
UnchokedIsRead ==
  \A c \in Clients :
    \/ (c \in managed /\ up) ~> (reader[c] = "recv" \/ choked[c] \/ c \notin managed \/ ~up)
    \/ \E d \in Clients \ {c} : []<>(lock = d)
===============================================================================
