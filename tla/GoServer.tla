-------------------------------- MODULE GoServer --------------------------------
(***************************************************************************)
(* The Go echo server (server/main.go): the accept loop, one goroutine per *)
(* connection running handleClient, the shared registry (nextFD, clients)  *)
(* and the telemetry it prints, as index.html sees it.                     *)
(*                                                                         *)
(* Data.  A byte is its position in the client's stream, 1, 2, ...  The    *)
(* bufio.Reader of a connection holds the positions rd+1 .. got.           *)
(*                                                                         *)
(* Atomicity.  A step ends where another goroutine or the network can see  *)
(* or change what the goroutine uses next: the three unsynchronised        *)
(* accesses to nextFD, each locked access to clients, each blocking call   *)
(* and each emit.  client.mu is taken by the connection's own goroutine    *)
(* only and is left out.                                                   *)
(***************************************************************************)
EXTENDS Dashboard, Sequences, FiniteSets

CONSTANTS Conns,    \* connections clients may open
          BufSize,  \* size of the bufio.Reader (4096 in the program)
          Half,     \* writeBufSize/2, the backpressure threshold (32768)
          SendCap,  \* bytes the kernel takes before Write blocks
          MaxSend,  \* bound: bytes the client of each connection sends
          MaxEcho   \* bound: echoed bytes remembered in the history out

ASSUME GoServerAssumption ==
  /\ BufSize \in Nat \ {0} /\ Half \in Nat \ {0} /\ SendCap \in Nat \ {0}
  /\ MaxSend \in [Conns -> Nat] /\ MaxEcho \in Nat

VARIABLES
  pc,        \* where each connection's goroutine stands
  nextFD,    \* Server.nextFD
  reg,       \* the value of nextFD a goroutine has loaded and not yet stored
  fd,        \* the fd handleClient works with
  clients,   \* Server.clients
  sent,      \* bytes the client has sent
  peer,      \* the client's end: "open", closed ("fin") or reset ("rst")
  got, rd,   \* bufio.Reader: bytes filled in and bytes consumed so far
  wbuf,      \* Client.WriteBuf[:Client.WriteLen]
  wn,        \* bytes of wbuf the current Conn.Write has passed on
  bp,        \* Client.Backpressure
  inflight,  \* echoed bytes the client has not read
  out,       \* history: positions echoed so far (the first MaxEcho)
  dash       \* index.html's clientStates after the events printed so far

registry == <<nextFD, reg, fd, clients>>
network  == <<sent, peer>>
reader   == <<got, rd>>
writer   == <<wbuf, wn, bp, inflight, out>>
vars == <<pc, registry, network, reader, writer, dash>>

Least(a, b) == IF a < b THEN a ELSE b
Unread(c)   == sent[c] - got[c]
Buffered(c) == got[c] - rd[c]
Room(c)     == SendCap - inflight[c]

(* A goroutine that is between `go server.handleClient' and its return.    *)
Running == {"load", "store", "reload", "add", "announce", "loop", "read",
            "handle", "write", "close", "remove", "bye"}
(* ... that has printed its accept event and not yet its close event.      *)
Announced == {"loop", "read", "handle", "write", "close", "remove", "bye"}

(* encoding/json with omitempty: a field whose value is 0 is left out.     *)
OmitEmpty(n) == IF n = 0 THEN Undefined ELSE n

Goto(c, label) == pc' = [pc EXCEPT ![c] = label]
Emit(ev)       == dash' = HandleEvent(dash, ev)

Init ==
  /\ pc = [c \in Conns |-> "none"]
  /\ nextFD = 0
  /\ reg = [c \in Conns |-> 0]
  /\ fd = [c \in Conns |-> 0]
  /\ clients = [f \in {} |-> f]
  /\ sent = [c \in Conns |-> 0]
  /\ peer = [c \in Conns |-> "open"]
  /\ got = [c \in Conns |-> 0]
  /\ rd = [c \in Conns |-> 0]
  /\ wbuf = [c \in Conns |-> << >>]
  /\ wn = [c \in Conns |-> 0]
  /\ bp = [c \in Conns |-> FALSE]
  /\ inflight = [c \in Conns |-> 0]
  /\ out = [c \in Conns |-> << >>]
  /\ dash = NoClients
-----------------------------------------------------------------------------
(* The clients and the network.                                            *)

Dial(c) ==
  /\ pc[c] = "none"
  /\ Goto(c, "backlog")
  /\ UNCHANGED <<registry, network, reader, writer, dash>>

Send(c) ==
  /\ pc[c] # "none" /\ peer[c] = "open"
  /\ \E n \in 1 .. MaxSend[c] - sent[c] : sent' = [sent EXCEPT ![c] = @ + n]
  /\ UNCHANGED <<pc, registry, peer, reader, writer, dash>>

Recv(c) ==
  /\ peer[c] = "open" /\ inflight[c] > 0
  /\ inflight' = [inflight EXCEPT ![c] = 0]
  /\ UNCHANGED <<pc, registry, network, reader, wbuf, wn, bp, out, dash>>

Hangup(c) ==
  /\ pc[c] # "none" /\ peer[c] = "open"
  /\ peer' = [peer EXCEPT ![c] = "fin"]
  /\ UNCHANGED <<pc, registry, sent, reader, writer, dash>>

(* A client aborts, or its kernel answers data for a closed socket.        *)
Reset(c) ==
  /\ pc[c] # "none" /\ peer[c] \in {"open", "fin"}
  /\ peer' = [peer EXCEPT ![c] = "rst"]
  /\ UNCHANGED <<pc, registry, sent, reader, writer, dash>>
-----------------------------------------------------------------------------
(* main: Accept, then `go server.handleClient(conn)'.                      *)
Accept(c) ==
  /\ pc[c] = "backlog"
  /\ Goto(c, "load")
  /\ UNCHANGED <<registry, network, reader, writer, dash>>

(* nextClientFD: s.nextFD++ and the return are three accesses without a    *)
(* lock; what was loaded is forgotten once it has been stored.             *)
LoadNextFD(c) ==
  /\ pc[c] = "load"
  /\ reg' = [reg EXCEPT ![c] = nextFD]
  /\ Goto(c, "store")
  /\ UNCHANGED <<nextFD, fd, clients, network, reader, writer, dash>>

StoreNextFD(c) ==
  /\ pc[c] = "store"
  /\ nextFD' = reg[c] + 1
  /\ reg' = [reg EXCEPT ![c] = 0]
  /\ Goto(c, "reload")
  /\ UNCHANGED <<fd, clients, network, reader, writer, dash>>

ReturnNextFD(c) ==
  /\ pc[c] = "reload"
  /\ fd' = [fd EXCEPT ![c] = nextFD]
  /\ Goto(c, "add")
  /\ UNCHANGED <<nextFD, reg, clients, network, reader, writer, dash>>

AddClient(c) ==
  /\ pc[c] = "add"
  /\ clients' = [f \in DOMAIN clients \cup {fd[c]} |->
                   IF f = fd[c] THEN c ELSE clients[f]]
  /\ Goto(c, "announce")
  /\ UNCHANGED <<nextFD, reg, fd, network, reader, writer, dash>>

EmitAccept(c) ==
  /\ pc[c] = "announce"
  /\ Emit(Accepted(fd[c]))
  /\ Goto(c, "loop")
  /\ UNCHANGED <<registry, network, reader, writer>>

(* The top of the for loop: Peek(Buffered()) never fails and never         *)
(* consumes; only an empty buffer leads to a read of the socket.           *)
LoopTop(c) ==
  /\ pc[c] = "loop"
  /\ Goto(c, IF Buffered(c) = 0 THEN "read" ELSE "handle")
  /\ UNCHANGED <<registry, network, reader, writer, dash>>

(* Mutant: the read is not limited to the bufio.Reader's size.             *)
ReadDataUnlimited(c) ==
  /\ pc[c] = "read" /\ Unread(c) > 0
  /\ got' = [got EXCEPT ![c] = sent[c]]
  /\ Goto(c, IF Unread(c) > 1 THEN "handle" ELSE "loop")
  /\ rd' = [rd EXCEPT ![c] = @ + 1]
  /\ UNCHANGED <<registry, network, writer, dash>>

(* reader.Read(make([]byte, 1)) on an empty bufio.Reader: fill it with one *)
(* read of the socket, consume one byte; then Peek at what is left.        *)
ReadData(c) ==
  /\ pc[c] = "read" /\ Unread(c) > 0
  /\ LET n == Least(Unread(c), BufSize) IN
       /\ got' = [got EXCEPT ![c] = @ + n]
       /\ Goto(c, IF n > 1 THEN "handle" ELSE "loop")
  /\ rd' = [rd EXCEPT ![c] = @ + 1]
  /\ UNCHANGED <<registry, network, writer, dash>>

(* The 100 ms deadline expires; `continue'.                                *)
ReadTimeout(c) ==
  /\ pc[c] = "read" /\ Unread(c) = 0 /\ peer[c] = "open"
  /\ Goto(c, "loop")
  /\ UNCHANGED <<registry, network, reader, writer, dash>>

(* Mutant: only io.EOF ends the loop, another error is a `continue'.       *)
ReadErrorEOF(c) ==
  /\ pc[c] = "read" /\ peer[c] = "fin" /\ Unread(c) = 0
  /\ Goto(c, "close")
  /\ UNCHANGED <<registry, network, reader, writer, dash>>

(* io.EOF, or any other error: both end in handleReadError.                *)
ReadError(c) ==
  /\ pc[c] = "read"
  /\ \/ peer[c] = "fin" /\ Unread(c) = 0
     \/ peer[c] = "rst"
  /\ Goto(c, "close")
  /\ UNCHANGED <<registry, network, reader, writer, dash>>
-----------------------------------------------------------------------------
(* handleRead: print the read event (WriteLen before the append, WritePos  *)
(* 0), append the buffered bytes, enter flushWrite.                        *)
HandleRead(c) ==
  /\ pc[c] = "handle"
  /\ Emit(ReadEvent(fd[c], OmitEmpty(Len(wbuf[c])), OmitEmpty(0)))
  /\ wbuf' = [wbuf EXCEPT ![c] = @ \o [i \in 1 .. Buffered(c) |-> rd[c] + i]]
  /\ wn' = [wn EXCEPT ![c] = 0]
  /\ Goto(c, "write")
  /\ UNCHANGED <<registry, network, reader, bp, inflight, out>>

(* Conn.Write passes on what the kernel takes and blocks for the rest.     *)
WriteSome(c) ==
  LET n == Least(Room(c), Len(wbuf[c]) - wn[c])
      s == out[c] \o SubSeq(wbuf[c], wn[c] + 1, wn[c] + n)
  IN /\ pc[c] = "write" /\ peer[c] # "rst" /\ n > 0
     /\ wn' = [wn EXCEPT ![c] = @ + n]
     /\ inflight' = [inflight EXCEPT ![c] = @ + n]
     /\ out' = [out EXCEPT ![c] = SubSeq(s, 1, Least(Len(s), MaxEcho))]
     /\ UNCHANGED <<pc, registry, network, reader, wbuf, bp, dash>>

(* Conn.Write returns n = WriteLen and no error: print the write event,    *)
(* drop what was written, then buffer_cleared or backpressure.             *)
WriteDone(c) ==
  LET n    == wn[c]
      left == SubSeq(wbuf[c], n + 1, Len(wbuf[c]))
      wrote == HandleEvent(dash, WriteEvent(fd[c], OmitEmpty(Len(wbuf[c])), OmitEmpty(n)))
      signal == left # << >> /\ Len(left) >= Half
  IN /\ pc[c] = "write" /\ n = Len(wbuf[c])
     /\ wbuf' = [wbuf EXCEPT ![c] = left]
     /\ wn' = [wn EXCEPT ![c] = 0]
     /\ bp' = [bp EXCEPT ![c] = (left # << >>) /\ (signal \/ @)]
     /\ dash' = IF signal
                THEN HandleEvent(wrote, BackpressureEvent(fd[c], TRUE, Len(left), Undefined))
                ELSE wrote
     /\ Goto(c, "loop")
     /\ UNCHANGED <<registry, network, reader, inflight, out>>

(* Mutant: a failed write keeps the buffered bytes.                        *)
WriteFailsKeeping(c) ==
  /\ pc[c] = "write" /\ wn[c] < Len(wbuf[c]) /\ peer[c] = "rst"
  /\ wn' = [wn EXCEPT ![c] = 0]
  /\ bp' = [bp EXCEPT ![c] = FALSE]
  /\ Goto(c, "loop")
  /\ UNCHANGED <<registry, network, reader, wbuf, inflight, out, dash>>

(* Conn.Write fails: forget the buffered bytes and go on with the loop.    *)
WriteFails(c) ==
  /\ pc[c] = "write" /\ wn[c] < Len(wbuf[c]) /\ peer[c] = "rst"
  /\ wbuf' = [wbuf EXCEPT ![c] = << >>]
  /\ wn' = [wn EXCEPT ![c] = 0]
  /\ bp' = [bp EXCEPT ![c] = FALSE]
  /\ Goto(c, "loop")
  /\ UNCHANGED <<registry, network, reader, inflight, out, dash>>
-----------------------------------------------------------------------------
(* handleReadError: Conn.Close, removeClient, the close event.             *)
CloseConn(c) ==
  /\ pc[c] = "close"
  /\ inflight' = [inflight EXCEPT ![c] = 0]
  /\ Goto(c, "remove")
  /\ UNCHANGED <<registry, network, reader, wbuf, wn, bp, out, dash>>

(* Mutant: the key deleted is the newest fd, not the connection's.         *)
RemoveNewest(c) ==
  /\ pc[c] = "remove"
  /\ clients' = [f \in DOMAIN clients \ {nextFD} |-> clients[f]]
  /\ Goto(c, "bye")
  /\ UNCHANGED <<nextFD, reg, fd, network, reader, writer, dash>>

RemoveClient(c) ==
  /\ pc[c] = "remove"
  /\ clients' = [f \in DOMAIN clients \ {fd[c]} |-> clients[f]]
  /\ Goto(c, "bye")
  /\ UNCHANGED <<nextFD, reg, fd, network, reader, writer, dash>>

(* Mutant: the close event is printed for io.EOF only.                     *)
EmitCloseEOF(c) ==
  /\ pc[c] = "bye"
  /\ dash' = IF peer[c] = "fin" THEN HandleEvent(dash, Closed(fd[c])) ELSE dash
  /\ Goto(c, "done")
  /\ UNCHANGED <<registry, network, reader, writer>>

EmitClose(c) ==
  /\ pc[c] = "bye"
  /\ Emit(Closed(fd[c]))
  /\ Goto(c, "done")
  /\ UNCHANGED <<registry, network, reader, writer>>
-----------------------------------------------------------------------------
Goroutine(c) ==
  \/ LoadNextFD(c) \/ StoreNextFD(c) \/ ReturnNextFD(c)
  \/ AddClient(c) \/ EmitAccept(c) \/ LoopTop(c)
  \/ ReadData(c) \/ ReadTimeout(c) \/ ReadError(c)
  \/ HandleRead(c) \/ WriteSome(c) \/ WriteDone(c) \/ WriteFails(c)
  \/ CloseConn(c) \/ RemoveClient(c) \/ EmitClose(c)

Environment(c) == Dial(c) \/ Send(c) \/ Recv(c) \/ Hangup(c) \/ Reset(c)

Next == \E c \in Conns : Accept(c) \/ Goroutine(c) \/ Environment(c)

Spec == Init /\ [][Next]_vars

(* The Go scheduler runs every goroutine that can run, the accept loop     *)
(* too; a closed client's kernel answers data with a reset.  Clients owe   *)
(* nothing: they may never send, never read and never close.               *)
Fairness ==
  \A c \in Conns :
    /\ WF_vars(Accept(c)) /\ WF_vars(Goroutine(c))
    /\ WF_vars(peer[c] = "fin" /\ inflight[c] > 0 /\ Reset(c))

FairSpec == Spec /\ Fairness
-----------------------------------------------------------------------------
IsRegistry(m) == DOMAIN m \subseteq Nat /\ m \in [DOMAIN m -> Conns]

(* The variables keep to their types: positions count up to what was sent, *)
(* the bufio.Reader never holds more than its size, and the write buffer   *)
(* and the registry hold what Go's types let them hold.                    *)
RegistryOK ==
  /\ nextFD \in Nat /\ reg \in [Conns -> Nat] /\ fd \in [Conns -> Nat]
  /\ IsRegistry(clients)
ReaderOK ==
  /\ sent \in [Conns -> Nat] /\ got \in [Conns -> Nat] /\ rd \in [Conns -> Nat]
  /\ \A c \in Conns :
       /\ rd[c] <= got[c] /\ got[c] <= sent[c] /\ sent[c] <= MaxSend[c]
       /\ Buffered(c) < BufSize
WriterOK ==
  /\ wbuf \in [Conns -> Seq(Nat)] /\ wn \in [Conns -> Nat]
  /\ \A c \in Conns : wn[c] <= Len(wbuf[c])
  /\ bp \in [Conns -> BOOLEAN]
  /\ inflight \in [Conns -> 0 .. SendCap] /\ out \in [Conns -> Seq(Nat)]
TypeOK ==
  /\ pc \in [Conns -> Running \cup {"none", "backlog", "done"}]
  /\ peer \in [Conns -> {"open", "fin", "rst"}]
  /\ RegistryOK /\ ReaderOK /\ WriterOK /\ ClientStates(dash)

(* An entry of Server.clients belongs to a connection whose goroutine has  *)
(* not run removeClient yet, even when the unsynchronised nextFD gave two  *)
(* connections the same key and one overwrote the other: the registry      *)
(* never keeps a connection that is gone.                                  *)
RegisteredIsLive ==
  \A f \in DOMAIN clients :
    /\ fd[clients[f]] = f
    /\ pc[clients[f]] \in {"announce"} \cup (Announced \ {"bye"})

(* Every connection that has an fd has one of its own.                     *)
Numbered == {c \in Conns : pc[c] \in (Running \ {"load", "store", "reload"})
                                       \cup {"done"}}
DistinctFDs == \A c, d \in Numbered : fd[c] = fd[d] => c = d

(* As long as no two connections were given the same fd, the dashboard     *)
(* lists exactly the connections that are announced and not closed, and    *)
(* the registry exactly those that are added and not removed, whatever the *)
(* order in which the goroutines print and lock.                           *)
ListedIfDistinct ==
  DistinctFDs =>
    /\ DOMAIN dash = {fd[c] : c \in {d \in Conns : pc[d] \in Announced}}
    /\ DOMAIN clients =
         {fd[c] : c \in {d \in Conns :
                           pc[d] \in {"announce"} \cup (Announced \ {"bye"})}}

(* What handleRead puts into the write buffer is exactly what the reader   *)
(* holds, and flushWrite leaves nothing behind: no byte of an earlier,     *)
(* failed or blocked write is echoed again with a later one, and the       *)
(* Backpressure flag is never left up over an empty buffer.                *)
NoStaleBytes ==
  \A c \in Conns :
    /\ wbuf[c] = IF pc[c] = "write"
                 THEN [i \in 1 .. Buffered(c) |-> rd[c] + i] ELSE << >>
    /\ bp[c] => wbuf[c] # << >>

(* A connection whose goroutine never found more than one byte at a time   *)
(* is closed, removed and reported once its client is gone.                *)
QuietClientIsReaped ==
  \A c \in Conns :
    (pc[c] # "none" /\ peer[c] # "open") ~> (pc[c] = "done" \/ Buffered(c) > 0)
-----------------------------------------------------------------------------
(* What the documents and comments say and the code does not do.           *)

(* "TCP echo server", "Echo back immediately": the client reads back its   *)
(* own bytes, from the first one on.                                       *)
EchoIsPrefix == \A c \in Conns : \A i \in DOMAIN out[c] : out[c][i] = i
===============================================================================
