--------------------------------- MODULE SseHub ---------------------------------
(***************************************************************************)
(* The event streamer of the visualizer (visualizer/main.go): the          *)
(* goroutine that scans the server's stdout, caches the init event and     *)
(* broadcasts every line, one handler goroutine per /events request, and   *)
(* /api/status.  They share sseClients under sseClientsMu and lastInitEvent *)
(* under a lock of its own, held for one access.                           *)
(*                                                                         *)
(* Data.  The server's lines are numbered 1, 2, ... and the first is its   *)
(* init event.  Frame 0 is the sse_connected event.  A write and its Flush *)
(* are one write, with a beginning and an end: it blocks while the         *)
(* subscriber's connection takes no more, and two goroutines can be inside *)
(* writes of one ResponseWriter at once.  What was on its way to a         *)
(* subscriber that has disconnected is of no interest and is forgotten.    *)
(***************************************************************************)
EXTENDS RWMutex, Integers, Sequences, FiniteSets

CONSTANTS Subs,      \* /events requests (a reconnect is a new one)
          Slow,      \* those whose reader owes nothing: it may stop reading
          MaxLines,  \* bound: lines the server prints
          Window     \* frames a connection buffers before a write blocks

ASSUME SseHubAssumption ==
  /\ Slow \subseteq Subs /\ MaxLines \in Nat /\ Window \in Nat \ {0}
  /\ {"scanner", "status"} \cap Subs = {} /\ Nobody \notin Subs \cup {"scanner", "status"}

VARIABLES
  hpc,       \* where each /events handler stands
  spc,       \* where the scanner goroutine stands
  apc,       \* where the /api/status handler stands
  mu,        \* sseClientsMu
  sseClients,
  lastInit,  \* lastInitEvent # ""
  initEv,    \* the handlers' copy of it
  line,      \* lines scanned
  done,      \* lines whose broadcast is over
  todo,      \* clients the range loop of broadcastEvent has not visited
  cur,       \* the one it is writing to
  conn,      \* a subscriber's connection: "up" or "gone"
  unread,    \* frames its reader has not taken
  inWrite,   \* who is inside a write of its ResponseWriter
  torn,      \* connected subscribers on whose ResponseWriter writes overlap
  mixed,     \* history: those on whose ResponseWriter writes ever overlapped
  gotInit,   \* history: connected subscribers the init event reached whole
  bcast,     \* history: lines broadcastEvent wrote to the subscriber
  joined     \* history: done at the moment the subscriber registered

handlerVars == <<hpc, initEv, joined>>
scannerVars == <<spc, lastInit, line, done, todo, cur, bcast>>
streamVars  == <<unread, inWrite, torn, mixed, gotInit>>
vars == <<handlerVars, scannerVars, streamVars, apc, mu, sseClients, conn>>

IsInit(n) == n = 1

Init ==
  /\ hpc = [s \in Subs |-> "idle"] /\ spc = "scan" /\ apc = "idle"
  /\ mu = Unlocked /\ sseClients = {}
  /\ lastInit = FALSE /\ initEv = [s \in Subs |-> FALSE]
  /\ line = 0 /\ done = 0 /\ todo = {} /\ cur = Nobody
  /\ conn = [s \in Subs |-> "up"]
  /\ unread = [s \in Subs |-> 0]
  /\ inWrite = [s \in Subs |-> {}] /\ torn = {}
  /\ mixed = {} /\ gotInit = {}
  /\ bcast = [s \in Subs |-> << >>] /\ joined = [s \in Subs |-> 0]
-----------------------------------------------------------------------------
(* Writing a frame to a subscriber.  http.ResponseWriter is not safe for   *)
(* concurrent use: of two writes that overlap, each may or may not reach   *)
(* the subscriber whole.                                                   *)
BeginWrite(s, who) ==
  /\ inWrite' = [inWrite EXCEPT ![s] = @ \cup {who}]
  /\ torn' = IF inWrite[s] = {} \/ conn[s] = "gone" THEN torn ELSE torn \cup {s}
  /\ mixed' = mixed \cup torn'
  /\ UNCHANGED <<unread, gotInit>>

EndWrite(s, who, frame) ==
  /\ conn[s] = "gone" \/ unread[s] < Window
  /\ inWrite' = [inWrite EXCEPT ![s] = @ \ {who}]
  /\ torn' = IF inWrite[s] = {who} THEN torn \ {s} ELSE torn
  /\ UNCHANGED mixed
  /\ unread' = [unread EXCEPT ![s] = IF conn[s] = "up" THEN @ + 1 ELSE @]
  /\ \/ IsInit(frame) /\ conn[s] = "up" /\ gotInit' = gotInit \cup {s}
     \/ (IsInit(frame) /\ conn[s] = "up" => s \in torn) /\ UNCHANGED gotInit
-----------------------------------------------------------------------------
(* handleSSE                                                               *)
HandlerGoto(s, label) == hpc' = [hpc EXCEPT ![s] = label]

Connect(s) ==
  /\ hpc[s] = "idle" /\ HandlerGoto(s, "lock")
  /\ UNCHANGED <<initEv, joined, scannerVars, streamVars, apc, mu, sseClients, conn>>

(* sseClientsMu.Lock(), to register and again to deregister.               *)
CallLock(s) ==
  /\ hpc[s] \in {"lock", "relock"} /\ CanAnnounce(mu)
  /\ mu' = Announce(mu, s)
  /\ HandlerGoto(s, IF hpc[s] = "lock" THEN "register" ELSE "deregister")
  /\ UNCHANGED <<initEv, joined, scannerVars, streamVars, apc, sseClients, conn>>

Register(s) ==
  /\ hpc[s] = "register" /\ HoldsWrite(mu, s)
  /\ sseClients' = sseClients \cup {s}
  /\ mu' = Unlock(mu)
  /\ joined' = [joined EXCEPT ![s] = done]
  /\ HandlerGoto(s, "hello")
  /\ UNCHANGED <<initEv, scannerVars, streamVars, apc, conn>>

(* The handler's two Fprintf calls: sse_connected, then the cached init.   *)
BeginHandshake(s) ==
  /\ \/ hpc[s] = "hello" /\ HandlerGoto(s, "helloing")
     \/ hpc[s] = "replay" /\ HandlerGoto(s, "replaying")
  /\ BeginWrite(s, "handler")
  /\ UNCHANGED <<initEv, joined, scannerVars, apc, mu, sseClients, conn>>

EndHandshake(s) ==
  /\ \/ hpc[s] = "helloing" /\ EndWrite(s, "handler", 0) /\ HandlerGoto(s, "fetch")
     \/ hpc[s] = "replaying" /\ EndWrite(s, "handler", 1) /\ HandlerGoto(s, "serve")
  /\ UNCHANGED <<initEv, joined, scannerVars, apc, mu, sseClients, conn>>

FetchInit(s) ==
  /\ hpc[s] = "fetch"
  /\ initEv' = [initEv EXCEPT ![s] = lastInit]
  /\ HandlerGoto(s, IF lastInit THEN "replay" ELSE "serve")
  /\ UNCHANGED <<joined, scannerVars, streamVars, apc, mu, sseClients, conn>>

(* Mutant: the handler returns without deregistering.                      *)
ContextDoneReturning(s) ==
  /\ hpc[s] = "serve" /\ conn[s] = "gone"
  /\ HandlerGoto(s, "returned")
  /\ UNCHANGED <<initEv, joined, scannerVars, streamVars, apc, mu, sseClients, conn>>

(* <-r.Context().Done()                                                    *)
ContextDone(s) ==
  /\ hpc[s] = "serve" /\ conn[s] = "gone"
  /\ HandlerGoto(s, "relock")
  /\ UNCHANGED <<initEv, joined, scannerVars, streamVars, apc, mu, sseClients, conn>>

(* Mutant: the delete does not wait for the broadcast to let go.           *)
DeregisterUnlocked(s) ==
  /\ hpc[s] = "deregister"
  /\ sseClients' = sseClients \ {s}
  /\ mu' = Unlock(mu)
  /\ HandlerGoto(s, "returned")
  /\ UNCHANGED <<initEv, joined, scannerVars, streamVars, apc, conn>>

(* delete, Unlock and return: net/http takes the ResponseWriter back.      *)
Deregister(s) ==
  /\ hpc[s] = "deregister" /\ HoldsWrite(mu, s)
  /\ sseClients' = sseClients \ {s}
  /\ mu' = Unlock(mu)
  /\ HandlerGoto(s, "returned")
  /\ UNCHANGED <<initEv, joined, scannerVars, streamVars, apc, conn>>
-----------------------------------------------------------------------------
(* The scanner goroutine of main and broadcastEvent.                       *)
(* Mutant: the test for the init event never matches.                      *)
ScanWithoutCache ==
  /\ spc = "scan" /\ line < MaxLines
  /\ line' = line + 1 /\ spc' = "rlock"
  /\ UNCHANGED <<lastInit, done, todo, cur, bcast,
                 handlerVars, streamVars, apc, mu, sseClients, conn>>

Scan ==
  /\ spc = "scan" /\ line < MaxLines
  /\ line' = line + 1
  /\ spc' = IF IsInit(line + 1) THEN "cache" ELSE "rlock"
  /\ UNCHANGED <<lastInit, done, todo, cur, bcast,
                 handlerVars, streamVars, apc, mu, sseClients, conn>>

CacheInit ==
  /\ spc = "cache" /\ lastInit' = TRUE /\ spc' = "rlock"
  /\ UNCHANGED <<line, done, todo, cur, bcast,
                 handlerVars, streamVars, apc, mu, sseClients, conn>>

CallRLock ==
  /\ spc = "rlock" /\ mu' = RLock(mu, "scanner") /\ spc' = "locked"
  /\ UNCHANGED <<lastInit, line, done, todo, cur, bcast,
                 handlerVars, streamVars, apc, sseClients, conn>>

BeginBroadcast ==
  /\ spc = "locked" /\ HoldsRead(mu, "scanner")
  /\ todo' = sseClients /\ spc' = "range"
  /\ UNCHANGED <<lastInit, line, done, cur, bcast,
                 handlerVars, streamVars, apc, mu, sseClients, conn>>

(* The range over the map visits the clients in any order.                 *)
BroadcastTo(s) ==
  /\ spc = "range" /\ s \in todo
  /\ cur' = s /\ spc' = "write"
  /\ BeginWrite(s, "scanner")
  /\ UNCHANGED <<lastInit, line, done, todo, bcast,
                 handlerVars, apc, mu, sseClients, conn>>

(* Mutant: a failed write ends the range.                                  *)
BroadcastStopsAtError ==
  /\ spc = "write"
  /\ EndWrite(cur, "scanner", line)
  /\ bcast' = [bcast EXCEPT ![cur] = Append(@, line)]
  /\ todo' = IF conn[cur] = "gone" THEN {} ELSE todo \ {cur}
  /\ cur' = Nobody /\ spc' = "range"
  /\ UNCHANGED <<lastInit, line, done, handlerVars, apc, mu, sseClients, conn>>

BroadcastWritten ==
  /\ spc = "write"
  /\ EndWrite(cur, "scanner", line)
  /\ bcast' = [bcast EXCEPT ![cur] = Append(@, line)]
  /\ todo' = todo \ {cur} /\ cur' = Nobody /\ spc' = "range"
  /\ UNCHANGED <<lastInit, line, done, handlerVars, apc, mu, sseClients, conn>>

EndBroadcast ==
  /\ spc = "range" /\ todo = {}
  /\ mu' = RUnlock(mu, "scanner")
  /\ done' = line /\ spc' = "scan"
  /\ UNCHANGED <<lastInit, line, todo, cur, bcast,
                 handlerVars, streamVars, apc, sseClients, conn>>
-----------------------------------------------------------------------------
(* handleAPIStatus: RLock, len(sseClients), RUnlock, answer.               *)
StatusCall ==
  /\ apc = "idle" /\ mu' = RLock(mu, "status") /\ apc' = "locked"
  /\ UNCHANGED <<handlerVars, scannerVars, streamVars, sseClients, conn>>

(* Mutant: /api/status answers without RUnlock.                            *)
StatusAnswerLocked ==
  /\ apc = "locked" /\ HoldsRead(mu, "status")
  /\ apc' = "idle"
  /\ UNCHANGED <<handlerVars, scannerVars, streamVars, mu, sseClients, conn>>

StatusAnswer ==
  /\ apc = "locked" /\ HoldsRead(mu, "status")
  /\ mu' = RUnlock(mu, "status") /\ apc' = "idle"
  /\ UNCHANGED <<handlerVars, scannerVars, streamVars, sseClients, conn>>

(* The subscribers.                                                        *)
Read(s) ==
  /\ unread[s] > 0 /\ conn[s] = "up"
  /\ unread' = [unread EXCEPT ![s] = @ - 1]
  /\ UNCHANGED <<inWrite, torn, mixed, gotInit, handlerVars, scannerVars,
                 apc, mu, sseClients, conn>>

Disconnect(s) ==
  /\ hpc[s] \notin {"idle", "returned"} /\ conn[s] = "up"
  /\ conn' = [conn EXCEPT ![s] = "gone"] /\ unread' = [unread EXCEPT ![s] = 0]
  /\ torn' = torn \ {s} /\ mixed' = mixed \ {s} /\ gotInit' = gotInit \ {s}
  /\ UNCHANGED <<inWrite, handlerVars, scannerVars, apc, mu, sseClients>>
-----------------------------------------------------------------------------
HandlerStep(s) ==
  \/ Register(s) \/ BeginHandshake(s) \/ EndHandshake(s)
  \/ FetchInit(s) \/ ContextDone(s) \/ Deregister(s)

ScannerStep ==
  \/ CacheInit \/ CallRLock \/ BeginBroadcast
  \/ \E s \in Subs : BroadcastTo(s)
  \/ BroadcastWritten \/ EndBroadcast

Next ==
  \/ \E s \in Subs : Connect(s) \/ CallLock(s) \/ HandlerStep(s)
                       \/ Read(s) \/ Disconnect(s)
  \/ Scan \/ ScannerStep
  \/ StatusCall \/ StatusAnswer

Spec == Init /\ [][Next]_vars

(* Every goroutine that can run runs; a goroutine blocked in Lock is not   *)
(* overtaken forever (sync.Mutex hands over in its starvation mode).  The  *)
(* readers of connections outside Slow keep reading.  Nobody must connect, *)
(* disconnect or ask for the status, and the server need not print.        *)
Fairness ==
  /\ \A s \in Subs : WF_vars(HandlerStep(s)) /\ SF_vars(CallLock(s))
  /\ WF_vars(ScannerStep) /\ WF_vars(StatusAnswer)
  /\ \A s \in Subs \ Slow : WF_vars(Read(s))

FairSpec == Spec /\ Fairness
-----------------------------------------------------------------------------
Registered == {"hello", "helloing", "fetch", "replay", "replaying",
               "serve", "relock", "deregister"}

(* The variables keep to their types: the broadcast visits registered      *)
(* subscribers only, and no connection holds more frames than its window.  *)
TypeOK ==
  /\ hpc \in [Subs -> Registered \cup {"idle", "lock", "register", "returned"}]
  /\ spc \in {"scan", "cache", "rlock", "locked", "range", "write"}
  /\ apc \in {"idle", "locked"}
  /\ mu.readers \cup mu.waiting \subseteq {"scanner", "status"}
  /\ mu.writer \in Subs \cup {Nobody}
  /\ sseClients \subseteq Subs /\ todo \subseteq sseClients
  /\ cur \in Subs \cup {Nobody} /\ (spc = "write" <=> cur # Nobody)
  /\ lastInit \in BOOLEAN /\ initEv \in [Subs -> BOOLEAN]
  /\ line \in 0 .. MaxLines /\ done \in 0 .. line
  /\ conn \in [Subs -> {"up", "gone"}] /\ unread \in [Subs -> 0 .. Window]
  /\ inWrite \in [Subs -> SUBSET {"handler", "scanner"}] /\ torn \subseteq Subs
  /\ mixed \subseteq Subs /\ gotInit \subseteq Subs
  /\ bcast \in [Subs -> Seq(1 .. MaxLines)] /\ joined \in [Subs -> 0 .. MaxLines]

(* While broadcastEvent is inside a write to a subscriber, that request's  *)
(* handler has not returned: the ResponseWriter is still valid.  The write *)
(* lock taken for the delete is what keeps the handler there.              *)
NoWriteAfterReturn == spc = "write" => hpc[cur] \in Registered

(* Every subscriber whose handshake is over has had the init event written *)
(* to it once the server has printed it: by the broadcast, if it was       *)
(* registered in time, or else from the cache.  Caching before the         *)
(* broadcast and registering before the look-up is what closes the gap.    *)
InitNeverMissed ==
  \A s \in Subs :
    hpc[s] = "serve" /\ done >= 1 =>
      initEv[s] \/ \E i \in DOMAIN bcast[s] : IsInit(bcast[s][i])

(* The lines written to a subscriber are the server's lines in order,      *)
(* without a gap and without a repetition, from its registration on; as    *)
(* long as it is registered none is missing at the end either.             *)
StreamHasNoGaps ==
  \A s \in Subs :
    /\ \A i \in DOMAIN bcast[s] : bcast[s][i] = joined[s] + i
    /\ s \in sseClients =>
         joined[s] + Len(bcast[s]) =
           IF spc \in {"range", "write"} /\ s \notin todo THEN line ELSE done

(* A subscriber that is connected and past its handshake has received the  *)
(* init event whole, once it was broadcast, unless the handler and the     *)
(* broadcast were inside writes of its response at the same time: that     *)
(* overlap is all that can lose it.                                        *)
InitLostOnlyByOverlap ==
  \A s \in Subs :
    hpc[s] = "serve" /\ conn[s] = "up" /\ done >= 1 => s \in gotInit \cup mixed

(* The broadcast waits for a subscriber that has stopped reading.          *)
Stalled == spc = "write" /\ cur \in Slow /\ conn[cur] = "up" /\ unread[cur] = Window

(* Subscribers that disconnect leave sseClients and their handlers return, *)
(* and every line the server prints is broadcast to the end, however often *)
(* subscribers come and go and ask for the status: only a broadcast        *)
(* stalled for ever by one that does not read prevents it.                 *)
Leaving == {s \in Subs : conn[s] = "gone" /\ (hpc[s] # "returned" \/ s \in sseClients)}
LeaverIsRemoved == (Leaving # {}) ~> (Leaving = {} \/ []Stalled)
BroadcastEnds == (done < line) ~> (done = line \/ []Stalled)
===============================================================================
