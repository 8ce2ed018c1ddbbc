------------------------------ MODULE ManagedConns ------------------------------
(***************************************************************************)
(* The managed clients of the visualizer (visualizer/main.go): spawn_client, *)
(* send_data, choke_client and close_clients, one goroutine per request,   *)
(* over managedConns and connCounter under managedConnsMu.                 *)
(*                                                                         *)
(* A connection is named by the request that dialled it.  No goroutine     *)
(* blocks inside the lock, so each locked section is one step; a step ends *)
(* at each Dial, at each wait in Write or Read and where the lock is let   *)
(* go.  Write and Read also take a lock of the connection: as every byte   *)
(* is an `A', who of two senders is first is left open instead.            *)
(*                                                                         *)
(* The echo server is external here.  What its goroutine does to a         *)
(* connection is what GoServer does: a read that finds one byte drops it,  *)
(* one that finds more echoes the rest over and over and never reads again. *)
(***************************************************************************)
EXTENDS Integers, FiniteSets

CONSTANTS Calls,    \* HTTP requests
          Sizes,    \* values of ?size= (any integer)
          Cap,      \* bytes a connection holds in each direction
          BufSize,  \* the server's bufio.Reader
          NoConn

ASSUME ManagedConnsAssumption ==
  /\ Sizes \subseteq Int /\ Cap \in Nat \ {0} /\ BufSize \in Nat \ {0}
  /\ NoConn \notin Calls

VARIABLES
  pc,           \* where each request's handler stands
  conn,         \* its local variable conn
  size, left,   \* its payload, and what Write has still to pass on
  managedConns, \* id -> connection
  connCounter,
  id,           \* the client_id a spawn has answered
  end,          \* the visualizer's end: "none", "open" or "closed"
  expired,      \* the connection's read deadline has passed
  peer,         \* the server's goroutine: "reading", "echoing" or "gone"
  toServer, toClient,  \* bytes under way
  up            \* the server listens

registry == <<managedConns, connCounter, id>>
link     == <<peer, toServer, toClient, up>>
vars == <<pc, conn, size, left, registry, end, expired, link>>

Least(a, b) == IF a < b THEN a ELSE b
Managed == {managedConns[i] : i \in DOMAIN managedConns}
Goto(r, label) == pc' = [pc EXCEPT ![r] = label]
closeAfter(r) == conn[r] = r

Init ==
  /\ pc = [r \in Calls |-> "idle"] /\ conn = [r \in Calls |-> NoConn]
  /\ size = [r \in Calls |-> 0] /\ left = [r \in Calls |-> 0]
  /\ managedConns = [i \in {} |-> i] /\ connCounter = 0
  /\ id = [r \in Calls |-> 0]
  /\ end = [c \in Calls |-> "none"] /\ expired = [c \in Calls |-> FALSE]
  /\ peer = [c \in Calls |-> "reading"]
  /\ toServer = [c \in Calls |-> 0] /\ toClient = [c \in Calls |-> 0]
  /\ up = TRUE
-----------------------------------------------------------------------------
(* net.Dial("tcp", "127.0.0.1:8080")                                       *)
Dial(r) ==
  /\ up
  /\ conn' = [conn EXCEPT ![r] = r]
  /\ end' = [end EXCEPT ![r] = "open"]

(* handleSpawnClient                                                       *)
SpawnDial(r) ==
  /\ pc[r] = "idle" /\ Dial(r) /\ Goto(r, "insert")
  /\ UNCHANGED <<size, left, registry, expired, link>>

SpawnFails(r) ==
  /\ pc[r] = "idle" /\ ~up /\ Goto(r, "done")
  /\ UNCHANGED <<conn, size, left, registry, end, expired, link>>

(* The locked section, and the answer.                                     *)
SpawnInsert(r) ==
  /\ pc[r] = "insert" /\ Goto(r, "done")
  /\ connCounter' = connCounter + 1
  /\ managedConns' = [i \in DOMAIN managedConns \cup {connCounter'} |->
                        IF i = connCounter' THEN r ELSE managedConns[i]]
  /\ id' = [id EXCEPT ![r] = connCounter']
  /\ UNCHANGED <<conn, size, left, end, expired, link>>
-----------------------------------------------------------------------------
(* handleSendData: any managed connection, or none.                        *)
SendPick(r) ==
  /\ pc[r] = "idle"
  /\ \E s \in Sizes : size' = [size EXCEPT ![r] = s] /\ left' = [left EXCEPT ![r] = s]
  /\ \/ /\ \E c \in Managed : conn' = [conn EXCEPT ![r] = c]
        /\ Goto(r, "write")
     \/ /\ Managed = {} /\ Goto(r, "dial") /\ UNCHANGED conn
  /\ UNCHANGED <<registry, end, expired, link>>

SendDial(r) ==
  /\ pc[r] = "dial" /\ Dial(r) /\ Goto(r, "write")
  /\ UNCHANGED <<size, left, registry, expired, link>>

SendDialFails(r) ==
  /\ pc[r] = "dial" /\ ~up /\ Goto(r, "done")
  /\ UNCHANGED <<conn, size, left, registry, end, expired, link>>

(* make([]byte, size) panics; net/http recovers and drops the request.  A  *)
(* connection dialled for it is closed by nobody but the finalizer.        *)
SendPanics(r) ==
  /\ pc[r] = "write" /\ size[r] < 0 /\ Goto(r, "panicked")
  /\ UNCHANGED <<conn, size, left, registry, end, expired, link>>

Collect(r) ==
  /\ pc[r] = "panicked" /\ closeAfter(r) /\ end[r] = "open"
  /\ end' = [end EXCEPT ![r] = "closed"]
  /\ UNCHANGED <<pc, conn, size, left, registry, expired, link>>

WriteSome(r) ==
  LET c == conn[r]
      n == Least(left[r], Cap - toServer[c])
  IN /\ pc[r] = "write" /\ end[c] = "open" /\ n > 0
     /\ left' = [left EXCEPT ![r] = @ - n]
     /\ toServer' = [toServer EXCEPT ![c] = @ + n]
     /\ UNCHANGED <<pc, conn, size, registry, end, expired, peer, toClient, up>>

(* Write returns; SetReadDeadline gives every reader of the connection     *)
(* another two seconds.                                                    *)
WriteDone(r) ==
  /\ pc[r] = "write" /\ left[r] = 0 /\ end[conn[r]] = "open"
  /\ Goto(r, "read")
  /\ expired' = [expired EXCEPT ![conn[r]] = FALSE]
  /\ UNCHANGED <<conn, size, left, registry, end, link>>

(* The end of every path of handleSendData past the dial.                  *)
Finish(r) ==
  /\ end' = IF closeAfter(r) THEN [end EXCEPT ![r] = "closed"] ELSE end
  /\ Goto(r, "done")

(* Mutant: the error path forgets closeAfter.                              *)
WriteFailsOpen(r) ==
  /\ pc[r] = "write" /\ size[r] >= 0
  /\ end[conn[r]] = "closed" \/ peer[conn[r]] = "gone"
  /\ Goto(r, "done")
  /\ UNCHANGED <<conn, size, left, registry, end, expired, link>>

WriteFails(r) ==
  /\ pc[r] = "write" /\ size[r] >= 0
  /\ end[conn[r]] = "closed" \/ peer[conn[r]] = "gone"
  /\ Finish(r)
  /\ UNCHANGED <<conn, size, left, registry, expired, link>>

(* One Read of at most size bytes; what it leaves stays unread.            *)
ReadSome(r) ==
  LET c == conn[r] IN
  /\ pc[r] = "read" /\ end[c] = "open" /\ ~expired[c] /\ size[r] > 0 /\ toClient[c] > 0
  /\ toClient' = [toClient EXCEPT ![c] = @ - Least(size[r], @)]
  /\ Finish(r)
  /\ UNCHANGED <<conn, size, left, registry, expired, peer, toServer, up>>

(* Mutant: Read has no deadline.                                           *)
ReadNothingButEnd(r) ==
  LET c == conn[r] IN
  /\ pc[r] = "read"
  /\ size[r] = 0 \/ end[c] = "closed" \/ (peer[c] = "gone" /\ toClient[c] = 0)
  /\ Finish(r)
  /\ UNCHANGED <<conn, size, left, registry, expired, link>>

(* Read returns 0: no room asked for, deadline, end of stream, or closed.  *)
ReadNothing(r) ==
  LET c == conn[r] IN
  /\ pc[r] = "read"
  /\ \/ size[r] = 0 \/ expired[c] \/ end[c] = "closed"
     \/ peer[c] = "gone" /\ toClient[c] = 0
  /\ Finish(r)
  /\ UNCHANGED <<conn, size, left, registry, expired, link>>
-----------------------------------------------------------------------------
(* handleChokeClient answers the flag it was sent and does nothing.        *)
ChokeClient(r) ==
  /\ pc[r] = "idle" /\ Goto(r, "done")
  /\ UNCHANGED <<conn, size, left, registry, end, expired, link>>

(* Mutant: the map is emptied, the connections stay open.                  *)
CloseClientsForgets(r) ==
  /\ pc[r] = "idle" /\ Goto(r, "done")
  /\ managedConns' = [i \in {} |-> i]
  /\ UNCHANGED <<conn, size, left, connCounter, id, end, expired, link>>

CloseClients(r) ==
  /\ pc[r] = "idle" /\ Goto(r, "done")
  /\ end' = [c \in Calls |-> IF c \in Managed THEN "closed" ELSE end[c]]
  /\ managedConns' = [i \in {} |-> i]
  /\ UNCHANGED <<conn, size, left, connCounter, id, expired, link>>
-----------------------------------------------------------------------------
(* The server's goroutine, the server's end and the clock.                 *)
ServerReads(c) ==
  LET n == Least(toServer[c], BufSize) IN
  /\ end[c] = "open" /\ peer[c] = "reading" /\ n > 0
  /\ toServer' = [toServer EXCEPT ![c] = @ - n]
  /\ peer' = [peer EXCEPT ![c] = IF n > 1 THEN "echoing" ELSE @]
  /\ UNCHANGED <<pc, conn, size, left, registry, end, expired, toClient, up>>

ServerEchoes(c) ==
  /\ end[c] = "open" /\ peer[c] = "echoing"
  /\ \E n \in toClient[c] + 1 .. Cap : toClient' = [toClient EXCEPT ![c] = n]
  /\ UNCHANGED <<pc, conn, size, left, registry, end, expired, peer, toServer, up>>

ServerDies ==
  /\ up /\ up' = FALSE
  /\ peer' = [c \in Calls |-> IF end[c] = "none" THEN peer[c] ELSE "gone"]
  /\ UNCHANGED <<pc, conn, size, left, registry, end, expired, toServer, toClient>>

Expire(c) ==
  /\ ~expired[c] /\ \E r \in Calls : pc[r] = "read" /\ conn[r] = c
  /\ expired' = [expired EXCEPT ![c] = TRUE]
  /\ UNCHANGED <<pc, conn, size, left, registry, end, link>>
-----------------------------------------------------------------------------
Arrive(r) ==
  \/ SpawnDial(r) \/ SpawnFails(r) \/ SendPick(r) \/ ChokeClient(r) \/ CloseClients(r)

Handler(r) ==
  \/ SpawnInsert(r) \/ SendDial(r) \/ SendDialFails(r) \/ SendPanics(r)
  \/ WriteSome(r) \/ WriteDone(r) \/ WriteFails(r) \/ ReadSome(r) \/ ReadNothing(r)

Next ==
  \/ \E r \in Calls : Arrive(r) \/ Handler(r) \/ Collect(r)
  \/ \E c \in Calls : ServerReads(c) \/ ServerEchoes(c) \/ Expire(c)
  \/ ServerDies

Spec == Init /\ [][Next]_vars

(* The Go scheduler runs every handler that can run, and time passes.  The *)
(* server's goroutine runs too, unless it is killed.                       *)
Fairness ==
  \A r \in Calls :
    WF_vars(Handler(r)) /\ WF_vars(Expire(r)) /\ WF_vars(ServerReads(r))

FairSpec == Spec /\ Fairness
-----------------------------------------------------------------------------
(* The variables keep to their types; no connection holds more than Cap in *)
(* a direction, and Write passes on the payload and no more.               *)
TypeOK ==
  /\ pc \in [Calls -> {"idle", "insert", "dial", "write", "read", "done", "panicked"}]
  /\ conn \in [Calls -> Calls \cup {NoConn}]
  /\ size \in [Calls -> Sizes \cup {0}] /\ left \in [Calls -> Int]
  /\ \A r \in Calls : size[r] >= 0 => left[r] \in 0 .. size[r]
  /\ connCounter \in Nat /\ id \in [Calls -> Nat]
  /\ DOMAIN managedConns \subseteq Nat
  /\ managedConns \in [DOMAIN managedConns -> Calls]
  /\ end \in [Calls -> {"none", "open", "closed"}] /\ expired \in [Calls -> BOOLEAN]
  /\ peer \in [Calls -> {"reading", "echoing", "gone"}]
  /\ toServer \in [Calls -> 0 .. Cap] /\ toClient \in [Calls -> 0 .. Cap]
  /\ up \in BOOLEAN

(* The handler that dialled connection c and has yet to insert or close it, *)
(* or has panicked and left it to the finalizer.                           *)
HeldByDialer(c) == conn[c] = c /\ pc[c] \in {"insert", "write", "read", "panicked"}

(* No connection is lost and none is owned twice, in whatever order spawns, *)
(* sends and closes overlap: an open connection is in managedConns or held *)
(* by the handler that dialled it, never both, and managedConns has it     *)
(* once and holds open connections only.                                   *)
OwnedOnce ==
  /\ \A c \in Calls : end[c] = "open" => (c \in Managed \/ HeldByDialer(c))
  /\ \A c \in Managed : end[c] = "open" /\ ~HeldByDialer(c)
  /\ \A i, j \in DOMAIN managedConns : managedConns[i] = managedConns[j] => i = j

(* A client_id that was answered denotes that client for good: it is never *)
(* given out again, also after close_clients has emptied the map.          *)
IdsAreForever ==
  /\ \A r, q \in Calls : id[r] = id[q] /\ id[r] # 0 => r = q
  /\ \A i \in DOMAIN managedConns : id[managedConns[i]] = i

(* Everything the server would need to take another byte is used up: its   *)
(* goroutine is past the reads that empty the connection.                  *)
Stuck(c) == end[c] = "open" /\ peer[c] = "echoing" /\ toServer[c] = Cap

(* Every send is answered, or it waits in a Write without a deadline on a  *)
(* connection whose server goroutine never reads again.                    *)
SendIsAnswered ==
  \A r \in Calls :
    pc[r] \in {"dial", "write", "read"} ~>
      \/ pc[r] \in {"done", "panicked"}
      \/ pc[r] = "write" /\ Stuck(conn[r])

(* close_clients frees the sends that wait on the connections it removes.  *)
CloseFreesSenders ==
  \A r \in Calls :
    (pc[r] \in {"write", "read"} /\ conn[r] # r /\ conn[r] \notin Managed) ~>
      pc[r] \in {"done", "panicked"}
===============================================================================
