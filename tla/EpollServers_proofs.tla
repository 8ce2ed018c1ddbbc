--------------------------- MODULE EpollServers_proofs ---------------------------
(***************************************************************************)
(* Theorems about the C servers, for any connections, send queues, buffer  *)
(* and batch sizes.                                                        *)
(*                                                                         *)
(* What the two servers with write buffers do to sockets and buffers is    *)
(* the same but for when they call epoll_ctl.  SharedStep allows both:     *)
(* after EAGAIN a server asks for EPOLLOUT, or leaves it as it is if it    *)
(* has it; after the last byte it takes the request back, or leaves it as  *)
(* it is if it has none.  The inductive invariants are proved of           *)
(* SharedStep once, and each server's Next is shown to be a SharedStep:    *)
(* epoll_buffered_server.c in this module, epoll_visual_server.c in        *)
(* EpollVisualServer_proofs.  epoll_server.c, which has no write buffers,  *)
(* is last; what the kernel does to it is what it does to the others.      *)
(***************************************************************************)
EXTENDS WriteBuffers, TLAPS, SequenceTheorems

bufVars == <<kernelVars, loopVars, then, bufferVars>>
restVars == <<then, bufferVars>>

(* epoll_wait may return any of the listed items.                          *)
WaitSome ==
  /\ pc = "wait"
  /\ \E S \in SUBSET ready :
       /\ batch' = {e \in {Event(x) : x \in S} : e.in \/ e.out \/ e.hup}
       /\ ready' = ready \ S
       /\ nospace' = [c \in Conns |->
                        nospace[c] \/ (c \in S /\ "out" \in interest[c] /\ ~Writable(c))]
  /\ pc' = IF batch' = {} THEN "wait" ELSE "dispatch"
  /\ UNCHANGED <<sockVars, interest, cur, stranded>>
Waits == WaitSome /\ UNCHANGED restVars

AcceptEvent(e) == IsAccept(e) /\ Enter(e, "accept") /\ UNCHANGED restVars
HangupEvent(e) == IsHangup(e) /\ FreeState(e.who)
TakesOne(e) ==
  Take(e) /\ (AcceptEvent(e) \/ HangupEvent(e) \/ EnterFlush(e) \/ EnterRead(e))
BatchEnds == BatchDone /\ UNCHANGED restVars

Accepts(c)  == AddConn(c) /\ UNCHANGED restVars
Rejects(c)  == DropConn(c) /\ UNCHANGED restVars
AcceptStops == AcceptReturns /\ UNCHANGED restVars

Reads   == ReadCall(Fitting, "read")
Writes  == WriteCall(wpos[cur])
Blocks  == WouldBlock("arm") \/ (WouldBlock(then) /\ "out" \in interest[cur])
Returns == FlushReturns(TRUE) \/ (FlushReturns(FALSE) /\ "out" \notin interest[cur])

ClientActs(c) == pc # "dead" /\ Client(c) /\ UNCHANGED <<loopVars, then, bufferVars>>

SharedStep ==
  \/ Waits \/ (\E e \in batch : TakesOne(e)) \/ BatchEnds
  \/ (\E c \in Conns : Accepts(c)) \/ (\E c \in Conns : Rejects(c)) \/ AcceptStops
  \/ Reads \/ ReadReturns \/ ReadFails
  \/ Writes \/ Blocks \/ Subscribe \/ Returns \/ FlushFails \/ Killed
  \/ (\E c \in Conns : ClientActs(c)) \/ UNCHANGED bufVars
-----------------------------------------------------------------------------
(* Only connections that are open, and the listener, are in the epoll set  *)
(* and on its ready list.                                                  *)
KernelInv ==
  /\ KernelOK
  /\ \A c \in Conns : c \notin Open => interest[c] = {}
  /\ ready \subseteq Open \cup {Listener}

(* A batch has one event of each client at most, and none of the client a  *)
(* handler is working on: so nothing in it outlives its client.            *)
Handling == {"read", "flush", "arm"}
LoopInv ==
  /\ pc \in Handling \cup {"wait", "dispatch", "accept", "dead"}
  /\ then \in {"read", "dispatch"} /\ stranded \in BOOLEAN
  /\ cur \in Conns \cup {Listener}
  /\ \A e \in batch : e.who \in Open \cup {Listener}
  /\ \A e, f \in batch : e.who = f.who => e = f
  /\ pc \in Handling => cur \in Open /\ \A e \in batch : e.who # cur

(* What is echoed and what is buffered behind write_pos, position by       *)
(* position.                                                               *)
Increases(s) == \A i, j \in DOMAIN s : i < j => s[i] < s[j]
ByteTypes ==
  /\ wbuf \in [Conns -> Seq(Nat)] /\ wpos \in [Conns -> Nat]
  /\ lost \in [Conns -> Nat] /\ out \in [Conns -> Seq(Nat)]
Bytes(c) ==
  /\ wpos[c] <= Len(wbuf[c]) /\ Len(wbuf[c]) <= BufSize
  /\ Increases(out[c]) /\ Increases(wbuf[c])
  /\ \A i \in DOMAIN out[c] : out[c][i] \in 1 .. got[c]
  /\ \A j \in DOMAIN wbuf[c] : wbuf[c][j] \in 1 .. got[c]
  /\ \A i \in DOMAIN out[c], j \in DOMAIN wbuf[c] : wpos[c] < j => out[c][i] < wbuf[c][j]
  /\ sock[c] # "closed" => Len(out[c]) + (Len(wbuf[c]) - wpos[c]) + lost[c] = got[c]
  /\ sock[c] \in {"none", "backlog"} => got[c] = 0
ByteInv == ByteTypes /\ \A c \in Conns : Bytes(c)

BufInv == KernelInv /\ LoopInv /\ ByteInv
-----------------------------------------------------------------------------
LEMMA Constants ==
  /\ Listener \notin Conns /\ SendCap \in Nat \ {0} /\ MaxSend \in Nat
  /\ MaxEvents \in Nat \ {0} /\ BufSize \in Nat \ {0}
BY EpollKernelAssumption, EventLoopAssumption, WriteBuffersAssumption

(* Steps that leave sockets, epoll set and ready list alone.               *)
Quiet == UNCHANGED <<sock, interest, ready>>

LEMMA KernelQuiet ==
  ASSUME KernelInv, Quiet, KernelOK' PROVE KernelInv'
BY DEF KernelInv, Quiet, Open

LEMMA KernelClose ==
  ASSUME KernelInv, NEW c \in Conns, CloseSocket(c) PROVE KernelInv'
<1>1. KernelOK'
  BY Constants DEF KernelInv, KernelOK, CloseSocket
<1>2. Open' = Open \ {c} BY DEF KernelInv, KernelOK, CloseSocket, Open
<1>3. ready' = ready \ {c} /\ interest' = [interest EXCEPT ![c] = {}]
  BY DEF CloseSocket
<1>4. interest \in [Conns -> SUBSET {"in", "out"}] BY DEF KernelInv, KernelOK
<1> QED BY <1>1, <1>2, <1>3, <1>4 DEF KernelInv

LEMMA KernelCtl ==
  ASSUME KernelInv, NEW c \in Conns, NEW mask \in SUBSET {"in", "out"}, EpollCtl(c, mask),
         UNCHANGED <<peer, sent, got, inflight>>,
         \/ sock' = sock /\ c \in Open
         \/ sock' = [sock EXCEPT ![c] = "open"]
  PROVE  KernelInv'
<1>1. Open' = Open \cup {c} BY DEF KernelInv, KernelOK, Open
<1>2. interest' = [interest EXCEPT ![c] = mask] /\ ready' \subseteq ready \cup {c}
      /\ nospace' \in [Conns -> BOOLEAN]
  BY DEF EpollCtl, KernelInv, KernelOK, Writable, IsReset
<1>3. KernelOK'
  BY <1>2 DEF KernelInv, KernelOK
<1>4. interest \in [Conns -> SUBSET {"in", "out"}] BY DEF KernelInv, KernelOK
<1> QED BY <1>1, <1>2, <1>3, <1>4 DEF KernelInv

LEMMA KernelClient ==
  ASSUME KernelInv, NEW c \in Conns, Client(c)
  PROVE  /\ KernelInv' /\ Open' = Open /\ got' = got
         /\ \A d \in Conns : \/ sock'[d] = sock[d]
                             \/ sock[d] = "none" /\ sock'[d] = "backlog"
<1> USE DEF KernelInv
<1>1. CASE Dial(c)
  <2>1. Open' = Open BY <1>1 DEF Dial, Open, KernelOK
  <2>2. KernelOK' BY <1>1 DEF Dial, KernelOK
  <2>3. ASSUME NEW d \in Conns
        PROVE  sock'[d] = sock[d] \/ (sock[d] = "none" /\ sock'[d] = "backlog")
    <3>1. sock[c] = "none" /\ sock' = [sock EXCEPT ![c] = "backlog"] BY <1>1 DEF Dial
    <3>2. DOMAIN sock = Conns BY DEF KernelOK
    <3> QED BY <3>1, <3>2
  <2>4. interest' = interest /\ got' = got /\ ready' = ready \cup {Listener}
    BY <1>1 DEF Dial
  <2> QED BY <2>1, <2>2, <2>3, <2>4
<1>2. CASE Send(c) \/ Fin(c) \/ Rst(c)
  <2>1. /\ sock' = sock /\ interest' = interest /\ Wake(c, "in") /\ got' = got
        /\ UNCHANGED <<inflight, nospace>>
    BY <1>2 DEF Send, Fin, Rst
  <2>2. Open' = Open BY <2>1 DEF Open
  <2>3. ready' \subseteq Open \cup {Listener} BY <2>1 DEF Wake
  <2>4. sent' \in [Conns -> 0 .. MaxSend] /\ \A d \in Conns : got[d] <= sent'[d]
    <3>1. CASE Send(c)
      <4>1. PICK n \in 1 .. MaxSend - sent[c] : sent' = [sent EXCEPT ![c] = @ + n]
        BY <3>1 DEF Send
      <4>2. sent[c] \in 0 .. MaxSend /\ MaxSend \in Nat /\ got[c] \in Nat /\ got[c] <= sent[c]
        BY Constants DEF KernelOK
      <4>3. sent[c] + n \in 0 .. MaxSend /\ got[c] <= sent[c] + n BY <4>2
      <4> QED BY <4>1, <4>3 DEF KernelOK
    <3>2. CASE Fin(c) \/ Rst(c)
      BY <3>2 DEF Fin, Rst, KernelOK
    <3> QED BY <1>2, <3>1, <3>2
  <2>5. peer' \in [Conns -> {"open", "fin", "rst", "pipe"}]
    BY <1>2 DEF Send, Fin, Rst, KernelOK
  <2>6. KernelOK' BY <2>1, <2>3, <2>4, <2>5 DEF KernelOK, Open
  <2> QED BY <2>1, <2>2, <2>3, <2>6
<1>3. CASE Recv(c)
  <2>1. /\ sock' = sock /\ interest' = interest /\ UNCHANGED <<peer, sent, got>>
        /\ nospace' = [nospace EXCEPT ![c] = FALSE] /\ c \in Open
    BY <1>3 DEF Recv, Open
  <2>2. Open' = Open BY <2>1 DEF Open
  <2>3. ready' \subseteq Open \cup {Listener} BY <1>3, <2>1 DEF Recv, Wake
  <2>4. inflight' \in [Conns -> 0 .. SendCap]
    <3>1. PICK n \in 1 .. inflight[c] : inflight' = [inflight EXCEPT ![c] = @ - n]
      BY <1>3 DEF Recv
    <3>2. inflight[c] \in 0 .. SendCap /\ SendCap \in Nat BY Constants DEF KernelOK
    <3>3. inflight[c] - n \in 0 .. SendCap BY <3>2
    <3> QED BY <3>1, <3>3 DEF KernelOK
  <2>5. KernelOK' BY <2>1, <2>3, <2>4 DEF KernelOK, Open
  <2> QED BY <2>1, <2>2, <2>3, <2>5
<1> QED BY <1>1, <1>2, <1>3 DEF Client

LEMMA KernelWait ==
  ASSUME KernelInv, WaitSome PROVE KernelInv'
<1>1. UNCHANGED <<sockVars, interest>> /\ ready' \subseteq ready
  BY DEF WaitSome
<1>2. nospace' \in [Conns -> BOOLEAN]
  BY DEF WaitSome, KernelInv, KernelOK, Writable, IsReset
<1> QED BY <1>1, <1>2 DEF KernelInv, KernelOK, sockVars, Open

LEMMA ReadBounds ==
  ASSUME KernelInv, cur \in Conns
  PROVE  /\ Least(Unread(cur), BufSize) <= BufSize
         /\ Least(Unread(cur), BufSize) \in Nat
         /\ got[cur] + Least(Unread(cur), BufSize) \in 0 .. MaxSend
         /\ got[cur] + Least(Unread(cur), BufSize) <= sent[cur]
<1>1. got[cur] \in 0 .. MaxSend /\ sent[cur] \in 0 .. MaxSend /\ got[cur] <= sent[cur]
      /\ BufSize \in Nat /\ MaxSend \in Nat
  BY Constants DEF KernelInv, KernelOK
<1> QED BY <1>1 DEF Least, Unread

LEMMA WriteBounds ==
  ASSUME KernelInv, LoopInv, ByteInv, cur \in Conns
  PROVE  /\ Least(Room(cur), ToWrite(cur)) <= ToWrite(cur)
         /\ Least(Room(cur), ToWrite(cur)) \in Nat /\ ToWrite(cur) \in Nat
         /\ inflight[cur] + Least(Room(cur), ToWrite(cur)) \in 0 .. SendCap
<1>1. /\ inflight[cur] \in 0 .. SendCap /\ SendCap \in Nat
      /\ wpos[cur] \in Nat /\ Len(wbuf[cur]) \in Nat /\ wpos[cur] <= Len(wbuf[cur])
  BY Constants DEF KernelInv, KernelOK, ByteInv, ByteTypes, Bytes
<1>2. Room(cur) \in Nat /\ inflight[cur] + Room(cur) = SendCap /\ ToWrite(cur) \in Nat
  BY <1>1 DEF Room, ToWrite
<1> QED BY <1>1, <1>2 DEF Least

LEMMA KernelStep == BufInv /\ SharedStep => KernelInv'
<1> SUFFICES ASSUME KernelInv, LoopInv, ByteInv, SharedStep PROVE KernelInv'
  BY DEF BufInv
<1>u. UNCHANGED kernelVars => KernelInv'
  BY DEF kernelVars, sockVars, epollVars, KernelInv, KernelOK, Open
<1>h. pc \in Handling => cur \in Conns /\ cur \in Open BY DEF LoopInv, Open
<1>1. CASE Waits
  BY <1>1, KernelWait DEF Waits
<1>2. ASSUME NEW e \in batch, TakesOne(e) PROVE KernelInv'
  <2>1. CASE HangupEvent(e)
    <3>1. e.who \in Conns BY <2>1 DEF HangupEvent, IsHangup, LoopInv, Open
    <3> QED BY <2>1, <3>1, KernelClose DEF HangupEvent, FreeState, Release
  <2>2. CASE ~HangupEvent(e)
    BY <1>2, <2>2, <1>u DEF TakesOne, AcceptEvent, restVars, EnterFlush, EnterRead, Enter
  <2> QED BY <2>1, <2>2
<1>3. CASE BatchEnds \/ AcceptStops \/ ReadReturns \/ Killed \/ UNCHANGED bufVars
  BY <1>3, <1>u DEF BatchEnds, restVars, BatchDone, AcceptStops, AcceptReturns, ReadReturns, Killed, bufVars
<1>4. ASSUME NEW c \in Conns, Accepts(c) PROVE KernelInv'
  <2>1. sock' = [sock EXCEPT ![c] = "open"] /\ EpollCtl(c, {"in"}) /\ UNCHANGED <<peer, sent, got, inflight>>
    BY <1>4 DEF Accepts, restVars, AddConn
  <2> QED BY <2>1, KernelCtl
<1>5. ASSUME NEW c \in Conns, Rejects(c) PROVE KernelInv'
  BY <1>5, KernelClose DEF Rejects, restVars, DropConn
<1>6. CASE Reads
  <2>1. cur \in Conns BY <1>6, <1>h DEF Reads, ReadCall, Handling
  <2>2. /\ got' = [got EXCEPT ![cur] = @ + Least(Unread(cur), BufSize)]
        /\ UNCHANGED <<sock, peer, sent, inflight, epollVars>>
    BY <1>6 DEF Reads, ReadCall
  <2>3. KernelOK' BY <2>1, <2>2, ReadBounds DEF KernelInv, KernelOK, epollVars
  <2> QED BY <2>2, <2>3, KernelQuiet DEF Quiet, epollVars
<1>7. CASE ReadFails
  BY <1>7, <1>h, KernelClose DEF ReadFails, FreeState, Release, Handling
<1>8. CASE Writes
  <2>1. cur \in Conns BY <1>8, <1>h DEF Writes, WriteCall, Handling
  <2>2. /\ inflight' = [inflight EXCEPT ![cur] = @ + Least(Room(cur), ToWrite(cur))]
        /\ \E b \in BOOLEAN : nospace' = [nospace EXCEPT ![cur] = b]
        /\ UNCHANGED <<sock, peer, sent, got, interest, ready>>
    <3>1. nospace' = [nospace EXCEPT ![cur] = nospace[cur] \/ Least(Room(cur), ToWrite(cur)) < ToWrite(cur)]
      BY <1>8 DEF Writes, WriteCall
    <3>2. (nospace[cur] \/ Least(Room(cur), ToWrite(cur)) < ToWrite(cur)) \in BOOLEAN
      BY <2>1 DEF KernelInv, KernelOK
    <3> QED BY <1>8, <3>1, <3>2 DEF Writes, WriteCall
  <2>3. KernelOK' BY <2>1, <2>2, WriteBounds DEF KernelInv, KernelOK
  <2> QED BY <2>2, <2>3, KernelQuiet DEF Quiet
<1>9. CASE Blocks
  <2>1. cur \in Conns BY <1>9, <1>h DEF Blocks, WouldBlock, Handling
  <2>2. nospace' = [nospace EXCEPT ![cur] = TRUE] /\ UNCHANGED <<sockVars, interest, ready>>
    BY <1>9 DEF Blocks, WouldBlock
  <2>3. KernelOK' BY <2>2 DEF KernelInv, KernelOK, sockVars
  <2> QED BY <2>2, <2>3, KernelQuiet DEF Quiet, sockVars
<1>10. CASE Subscribe
  BY <1>10, <1>h, KernelCtl DEF Subscribe, Handling, sockVars
<1>11. CASE Returns
  <2>1. CASE FlushReturns(TRUE)
    BY <2>1, <1>h, KernelCtl DEF FlushReturns, Handling, sockVars
  <2>2. CASE FlushReturns(FALSE)
    BY <2>2, <1>u DEF FlushReturns, kernelVars
  <2> QED BY <1>11, <2>1, <2>2 DEF Returns
<1>12. CASE FlushFails
  BY <1>12, <1>h, KernelClose DEF FlushFails, Handling
<1>13. ASSUME NEW c \in Conns, ClientActs(c) PROVE KernelInv'
  BY <1>13, KernelClient DEF ClientActs
<1> QED
  BY <1>1, <1>2, <1>3, <1>4, <1>5, <1>6, <1>7, <1>8, <1>9, <1>10, <1>11, <1>12, <1>13 DEF SharedStep

-----------------------------------------------------------------------------
(* The loop.  Closing takes one client out of Open, and the batch has no   *)
(* event of that client left.                                              *)
LEMMA OpenKept == sock' = sock => Open' = Open
BY DEF Open

LEMMA OpenClosed ==
  ASSUME KernelInv, NEW c \in Conns, CloseSocket(c) PROVE Open' = Open \ {c}
BY DEF KernelInv, KernelOK, CloseSocket, Open

LEMMA LoopStep == BufInv /\ SharedStep => LoopInv'
<1> SUFFICES ASSUME KernelInv, LoopInv, ByteInv, SharedStep PROVE LoopInv'
  BY DEF BufInv
<1> USE DEF Handling
<1>h. pc \in Handling => cur \in Conns BY DEF LoopInv, Open
<1>1. CASE Waits
  <2>1. PICK S \in SUBSET ready : batch' = {e \in {Event(x) : x \in S} : e.in \/ e.out \/ e.hup}
    BY <1>1 DEF Waits, restVars, WaitSome
  <2>2. \A x : Event(x).who = x BY DEF Event
  <2>3. Open' = Open BY <1>1, OpenKept DEF Waits, restVars, WaitSome, sockVars
  <2>4. S \subseteq Open \cup {Listener} BY DEF KernelInv
  <2>5. \A e \in batch' : e.who \in Open' \cup {Listener} BY <2>1, <2>2, <2>3, <2>4
  <2>6. \A e, f \in batch' : e.who = f.who => e = f BY <2>1, <2>2
  <2>7. pc' \in {"wait", "dispatch"} /\ UNCHANGED <<then, stranded, cur>>
    BY <1>1 DEF Waits, restVars, WaitSome
  <2> QED BY <2>5, <2>6, <2>7 DEF LoopInv
<1>2. ASSUME NEW e \in batch, TakesOne(e) PROVE LoopInv'
  <2>1. batch' = batch \ {e} /\ (\A f \in batch' : f.who # e.who) /\ e.who \in Open \cup {Listener}
    BY <1>2 DEF TakesOne, Take, LoopInv
  <2>2. CASE HangupEvent(e)
    <3>1. e.who \in Conns /\ CloseSocket(e.who) /\ pc' = "dispatch" /\ UNCHANGED <<cur, stranded, then>>
      BY <2>1, <2>2 DEF HangupEvent, IsHangup, FreeState, Release, Open
    <3>2. Open' = Open \ {e.who} BY <3>1, OpenClosed
    <3> QED BY <2>1, <3>1, <3>2 DEF LoopInv
  <2>3. CASE AcceptEvent(e)
    <3>1. /\ pc' = "accept" /\ cur' = e.who /\ UNCHANGED <<sock, stranded, then>>
      BY <2>3 DEF AcceptEvent, restVars, Enter, kernelVars, sockVars
    <3> QED BY <2>1, <3>1, OpenKept DEF LoopInv, Open
  <2>4. CASE EnterFlush(e) \/ EnterRead(e)
    <3>1. /\ pc' \in {"flush", "read"} /\ cur' = e.who /\ UNCHANGED <<sock, stranded>>
          /\ e.who # Listener /\ then' \in {"read", "dispatch"}
      BY <2>4 DEF EnterFlush, EnterRead, IsOut, IsIn, Enter, kernelVars, sockVars, LoopInv
    <3> QED BY <2>1, <3>1, OpenKept DEF LoopInv, Open
  <2> QED BY <1>2, <2>2, <2>3, <2>4 DEF TakesOne
<1>3. CASE BatchEnds \/ AcceptStops \/ ReadReturns \/ Killed \/ UNCHANGED bufVars
  <2>1. UNCHANGED <<sock, batch, cur, then>> /\ stranded' \in BOOLEAN
        /\ (pc' \in {"wait", "dispatch", "dead"} \/ pc' = pc)
    BY <1>3 DEF BatchEnds, restVars, BatchDone, AcceptStops, AcceptReturns, ReadReturns, Killed,
     bufVars, kernelVars, sockVars, loopVars, LoopInv
  <2> QED BY <2>1, OpenKept DEF LoopInv
<1>4. ASSUME NEW c \in Conns, Accepts(c) PROVE LoopInv'
  <2>1. sock' = [sock EXCEPT ![c] = "open"] /\ UNCHANGED <<loopVars, then>> /\ pc = "accept"
    BY <1>4 DEF Accepts, restVars, AddConn
  <2>2. Open \subseteq Open' BY <2>1 DEF Open, KernelInv, KernelOK
  <2> QED BY <2>1, <2>2 DEF LoopInv, loopVars
<1>5. ASSUME NEW c \in Conns, Rejects(c) PROVE LoopInv'
  <2>1. CloseSocket(c) /\ sock[c] = "backlog" /\ UNCHANGED <<loopVars, then>> /\ pc = "accept"
    BY <1>5 DEF Rejects, restVars, DropConn
  <2>2. Open' = Open BY <2>1, OpenClosed DEF Open
  <2> QED BY <2>1, <2>2 DEF LoopInv, loopVars
<1>6. CASE Reads
  <2>1. /\ pc = "read" /\ pc' = "flush" /\ then' = "read" /\ UNCHANGED <<sock, batch, cur, stranded>>
    BY <1>6 DEF Reads, ReadCall
  <2> QED BY <2>1, OpenKept DEF LoopInv
<1>7. CASE ReadFails \/ FlushFails
  <2>1. /\ pc \in Handling /\ CloseSocket(cur) /\ UNCHANGED <<batch, cur, stranded, then>>
        /\ pc' \in {"dispatch", "dead"}
    BY <1>7 DEF ReadFails, FreeState, Release, FlushFails
  <2>2. Open' = Open \ {cur} BY <1>h, <2>1, OpenClosed
  <2>3. \A e \in batch : e.who # cur BY <2>1 DEF LoopInv
  <2> QED BY <2>1, <2>2, <2>3 DEF LoopInv
<1>8. CASE Writes \/ Blocks \/ Subscribe \/ Returns
  <2>1. /\ pc \in {"flush", "arm"} /\ UNCHANGED <<sock, batch, cur, stranded, then>>
        /\ pc' \in {"flush", "arm", "read", "dispatch"}
    BY <1>8 DEF Writes, WriteCall, Blocks, WouldBlock, Subscribe, Returns, FlushReturns,
     loopVars, sockVars, LoopInv
  <2> QED BY <2>1, OpenKept DEF LoopInv
<1>9. ASSUME NEW c \in Conns, ClientActs(c) PROVE LoopInv'
  <2>1. Open' = Open /\ UNCHANGED <<loopVars, then>> BY <1>9, KernelClient DEF ClientActs
  <2> QED BY <2>1 DEF LoopInv, loopVars
<1> QED BY <1>1, <1>2, <1>3, <1>4, <1>5, <1>6, <1>7, <1>8, <1>9 DEF SharedStep
-----------------------------------------------------------------------------
(* Sequences of positions.                                                 *)
LEMMA ChunkFacts ==
  ASSUME NEW g \in Nat, NEW n \in Nat
  PROVE  LET x == [i \in 1 .. n |-> g + i]
         IN x \in Seq(Nat) /\ Len(x) = n /\ DOMAIN x = 1 .. n /\ \A i \in 1 .. n : x[i] = g + i
<1> DEFINE x == [i \in 1 .. n |-> g + i]
<1>1. x \in [1 .. n -> Nat] OBVIOUS
<1>2. x \in Seq(Nat) /\ DOMAIN x = 1 .. n BY <1>1
<1>3. Len(x) = n BY <1>2, <1>1
<1> QED BY <1>2, <1>3

(* y is s with t behind it.                                                *)
Joined(y, s, t) ==
  /\ y \in Seq(Nat) /\ Len(y) = Len(s) + Len(t)
  /\ \A i \in DOMAIN y : \/ i \in DOMAIN s /\ y[i] = s[i]
                         \/ i - Len(s) \in DOMAIN t /\ y[i] = t[i - Len(s)] /\ i > Len(s)

LEMMA CatFacts ==
  ASSUME NEW s \in Seq(Nat), NEW t \in Seq(Nat) PROVE Joined(s \o t, s, t)
<1>1. /\ s \o t \in Seq(Nat) /\ Len(s \o t) = Len(s) + Len(t)
      /\ DOMAIN (s \o t) = 1 .. Len(s) + Len(t)
      /\ DOMAIN s = 1 .. Len(s) /\ DOMAIN t = 1 .. Len(t) /\ Len(s) \in Nat /\ Len(t) \in Nat
      /\ \A i \in 1 .. Len(s) + Len(t) : (s \o t)[i] = IF i <= Len(s) THEN s[i] ELSE t[i - Len(s)]
  OBVIOUS
<1> QED BY <1>1 DEF Joined

(* x is what lies between two positions of s.                              *)
Slice(x, s, a, n) ==
  /\ x \in Seq(Nat) /\ Len(x) = n /\ DOMAIN x = 1 .. n
  /\ \A i \in 1 .. n : a + i \in DOMAIN s /\ x[i] = s[a + i]

LEMMA SliceFacts ==
  ASSUME NEW s \in Seq(Nat), NEW a \in Nat, NEW n \in Nat, a + n <= Len(s)
  PROVE  Slice(SubSeq(s, a + 1, a + n), s, a, n)
<1>1. DOMAIN s = 1 .. Len(s) /\ \A i \in a + 1 .. a + n : i \in DOMAIN s /\ s[i] \in Nat
  OBVIOUS
<1>2. a + 1 \in Int /\ a + n \in Int OBVIOUS
<1>3. /\ SubSeq(s, a + 1, a + n) \in Seq(Nat)
      /\ Len(SubSeq(s, a + 1, a + n)) = IF a + 1 <= a + n THEN (a + n) - (a + 1) + 1 ELSE 0
      /\ \A i \in 1 .. (a + n) - (a + 1) + 1 : SubSeq(s, a + 1, a + n)[i] = s[a + 1 + i - 1]
  BY <1>1, <1>2, SubSeqProperties
<1>4. Len(SubSeq(s, a + 1, a + n)) = n /\ DOMAIN SubSeq(s, a + 1, a + n) = 1 .. n
  BY <1>3
<1>5. ASSUME NEW i \in 1 .. n
      PROVE  a + i \in DOMAIN s /\ SubSeq(s, a + 1, a + n)[i] = s[a + i]
  <2>1. a + 1 + i - 1 = a + i /\ i \in 1 .. (a + n) - (a + 1) + 1 /\ a + i \in a + 1 .. a + n
    OBVIOUS
  <2> QED BY <1>1, <1>3, <2>1
<1> QED BY <1>3, <1>4, <1>5 DEF Slice

(* Two increasing sequences, the first below the second, make one.         *)
LEMMA CatIncreases ==
  ASSUME NEW s \in Seq(Nat), NEW t \in Seq(Nat), Increases(s), Increases(t),
         \A i \in DOMAIN s, j \in DOMAIN t : s[i] < t[j]
  PROVE  Increases(s \o t)
<1>1. SUFFICES ASSUME NEW i \in DOMAIN (s \o t), NEW j \in DOMAIN (s \o t), i < j
               PROVE  (s \o t)[i] < (s \o t)[j]
  BY DEF Increases
<1>2. i \in Int /\ j \in Int /\ Len(s) \in Nat /\ DOMAIN s = 1 .. Len(s) BY CatFacts DEF Joined
<1>3. CASE i \in DOMAIN s /\ (s \o t)[i] = s[i] /\ j \in DOMAIN s /\ (s \o t)[j] = s[j]
  BY <1>1, <1>3 DEF Increases
<1>4. CASE /\ i \in DOMAIN s /\ (s \o t)[i] = s[i]
           /\ j - Len(s) \in DOMAIN t /\ (s \o t)[j] = t[j - Len(s)]
  BY <1>4
<1>5. CASE /\ i - Len(s) \in DOMAIN t /\ (s \o t)[i] = t[i - Len(s)]
           /\ j - Len(s) \in DOMAIN t /\ (s \o t)[j] = t[j - Len(s)]
  <2>1. i - Len(s) < j - Len(s) BY <1>1, <1>2
  <2> QED BY <1>5, <2>1 DEF Increases
<1>6. CASE i > Len(s) /\ j \in DOMAIN s
  BY <1>1, <1>2, <1>6
<1> QED BY <1>3, <1>4, <1>5, <1>6, CatFacts DEF Joined
-----------------------------------------------------------------------------
(* The bytes.                                                              *)
Progresses ==
  \A c \in Conns : /\ sock'[c] # "closed" => sock[c] # "closed"
                   /\ sock'[c] \in {"none", "backlog"} => sock[c] \in {"none", "backlog"}

LEMMA BytesKept ==
  ASSUME ByteInv, Progresses, UNCHANGED <<bufferVars, got>> PROVE ByteInv'
<1>1. ByteTypes' BY DEF ByteInv, ByteTypes, bufferVars
<1>2. ASSUME NEW c \in Conns PROVE Bytes(c)'
  BY DEF ByteInv, Bytes, Progresses, bufferVars
<1> QED BY <1>1, <1>2 DEF ByteInv

LEMMA BytesCleared ==
  ASSUME KernelInv, ByteInv, Progresses, NEW c \in Conns, Clear(c), UNCHANGED <<lost, out, got>>,
         sock'[c] = "closed" \/ ToWrite(c) = 0
  PROVE  ByteInv'
<1>1. wbuf' = [wbuf EXCEPT ![c] = << >>] /\ wpos' = [wpos EXCEPT ![c] = 0] BY DEF Clear
<1>2. ByteTypes' BY <1>1 DEF ByteInv, ByteTypes
<1>3. ASSUME NEW d \in Conns, d # c PROVE Bytes(d)'
  <2>1. wbuf'[d] = wbuf[d] /\ wpos'[d] = wpos[d] BY <1>1, <1>3 DEF ByteInv, ByteTypes
  <2> QED BY <2>1 DEF ByteInv, Bytes, Progresses
<1>4. Bytes(c)'
  <2>1. wbuf'[c] = << >> /\ wpos'[c] = 0 BY <1>1 DEF ByteInv, ByteTypes
  <2>2. Len(wbuf'[c]) = 0 /\ DOMAIN wbuf'[c] = {} BY <2>1
  <2>3. Increases(wbuf'[c]) BY <2>2 DEF Increases
  <2>4. sock'[c] # "closed" => Len(out[c]) + 0 + lost[c] = got[c]
    <3>1. Len(wbuf[c]) \in Nat /\ wpos[c] \in Nat /\ Len(out[c]) \in Nat
      BY DEF ByteInv, ByteTypes
    <3> QED BY <3>1 DEF ByteInv, Bytes, Progresses, ToWrite
  <2> QED BY <2>1, <2>2, <2>3, <2>4, Constants DEF ByteInv, Bytes, Progresses, Increases
<1> QED BY <1>2, <1>3, <1>4 DEF ByteInv

LEMMA Closing ==
  ASSUME KernelInv, NEW c \in Conns, CloseSocket(c)
  PROVE  Progresses /\ sock'[c] = "closed" /\ got' = got
BY DEF KernelInv, KernelOK, CloseSocket, Progresses

(* A read appends what fits of its bytes and counts the rest as lost.      *)
LEMMA BytesRead ==
  ASSUME KernelInv, LoopInv, ByteInv, Reads PROVE ByteInv'
<1>1. PICK c \in Conns : c = cur /\ sock[c] = "open"
  BY DEF Reads, ReadCall, LoopInv, Open, Handling
<1> DEFINE n == Least(Unread(c), BufSize)
           x == [i \in 1 .. Fitting |-> got[c] + i]
<1>2. /\ got' = [got EXCEPT ![c] = @ + n] /\ wbuf' = [wbuf EXCEPT ![c] = @ \o x]
      /\ lost' = [lost EXCEPT ![c] = @ + (n - Fitting)] /\ UNCHANGED <<sock, wpos, out>>
  BY <1>1 DEF Reads, ReadCall
<1>3. /\ Len(wbuf[c]) \in Nat /\ Len(wbuf[c]) <= BufSize /\ BufSize \in Nat
      /\ wbuf[c] \in Seq(Nat) /\ wpos[c] \in Nat /\ lost[c] \in Nat /\ out[c] \in Seq(Nat)
      /\ Len(out[c]) \in Nat
  BY <1>1, Constants DEF ByteInv, ByteTypes, Bytes
<1>4. n \in Nat /\ got[c] \in Nat BY <1>1, ReadBounds DEF KernelInv, KernelOK
<1>5. Fitting \in Nat /\ Fitting <= n /\ Len(wbuf[c]) + Fitting <= BufSize
  BY <1>1, <1>3, <1>4 DEF Fitting, Least
<1> HIDE DEF n
<1>6. x \in Seq(Nat) /\ Len(x) = Fitting /\ DOMAIN x = 1 .. Fitting
      /\ \A i \in 1 .. Fitting : x[i] = got[c] + i
  BY <1>4, <1>5, ChunkFacts
<1> HIDE DEF x
<1>y. PICK y : y = wbuf[c] \o x /\ Joined(y, wbuf[c], x) BY <1>3, <1>6, CatFacts
<1>7. /\ wbuf'[c] = y /\ got'[c] = got[c] + n /\ lost'[c] = lost[c] + (n - Fitting)
      /\ \A d \in Conns \ {c} : wbuf'[d] = wbuf[d] /\ got'[d] = got[d] /\ lost'[d] = lost[d]
  BY <1>1, <1>2, <1>y DEF ByteInv, ByteTypes, KernelInv, KernelOK
<1>8. ByteTypes'
  <2>1. y \in Seq(Nat) BY <1>y DEF Joined
  <2>2. lost[c] + (n - Fitting) \in Nat BY <1>3, <1>4, <1>5
  <2> QED BY <1>2, <1>y, <2>1, <2>2 DEF ByteInv, ByteTypes
<1>9. ASSUME NEW d \in Conns, d # c PROVE Bytes(d)'
  <2>1. wbuf'[d] = wbuf[d] /\ got'[d] = got[d] /\ lost'[d] = lost[d] BY <1>7, <1>9
  <2> QED BY <1>2, <2>1 DEF ByteInv, Bytes
<1>10. Bytes(c)'
  <2>1. Bytes(c) BY <1>1 DEF ByteInv
  <2>2. Len(wbuf'[c]) = Len(wbuf[c]) + Fitting BY <1>6, <1>7, <1>y DEF Joined
  <2>3. \A j \in DOMAIN wbuf[c] : wbuf[c][j] \in 1 .. got[c] BY <2>1 DEF Bytes
  <2>4. Increases(wbuf'[c])
    <3>1. Increases(x) BY <1>4, <1>5, <1>6 DEF Increases
    <3>2. \A i \in DOMAIN wbuf[c], j \in DOMAIN x : wbuf[c][i] < x[j]
      BY <1>4, <1>5, <1>6, <2>3
    <3>3. Increases(y) BY <1>3, <1>6, <2>1, <3>1, <3>2, <1>y, CatIncreases DEF Bytes
    <3> QED BY <1>7, <3>3
  <2>5. \A i \in DOMAIN out'[c] : out'[c][i] \in 1 .. got'[c]
    BY <1>2, <1>4, <1>7, <2>1 DEF Bytes
  <2>6. \A j \in DOMAIN wbuf'[c] :
          \/ j \in DOMAIN wbuf[c] /\ wbuf'[c][j] = wbuf[c][j]
          \/ wbuf'[c][j] \in got[c] + 1 .. got[c] + n
    <3>1. \A i \in DOMAIN x : x[i] \in got[c] + 1 .. got[c] + n BY <1>4, <1>5, <1>6
    <3> QED BY <1>7, <1>y, <3>1 DEF Joined
  <2>7. \A j \in DOMAIN wbuf'[c] : wbuf'[c][j] \in 1 .. got'[c]
    BY <1>4, <1>7, <2>3, <2>6
  <2>8. \A i \in DOMAIN out'[c], j \in DOMAIN wbuf'[c] : wpos'[c] < j => out'[c][i] < wbuf'[c][j]
    <3>1. SUFFICES ASSUME NEW i \in DOMAIN out[c], NEW j \in DOMAIN wbuf'[c], wpos[c] < j
                   PROVE  out[c][i] < wbuf'[c][j]
      BY <1>2
    <3>2. out[c][i] \in 1 .. got[c] BY <2>1 DEF Bytes
    <3>3. CASE j \in DOMAIN wbuf[c] /\ wbuf'[c][j] = wbuf[c][j]
      BY <2>1, <3>1, <3>3 DEF Bytes
    <3>4. CASE wbuf'[c][j] \in got[c] + 1 .. got[c] + n
      BY <1>4, <3>2, <3>4
    <3> QED BY <2>6, <3>3, <3>4
  <2>9. Len(out'[c]) + (Len(wbuf'[c]) - wpos'[c]) + lost'[c] = got'[c]
    <3>1. Len(out[c]) + (Len(wbuf[c]) - wpos[c]) + lost[c] = got[c]
      BY <1>1, <2>1 DEF Bytes
    <3>2. /\ out'[c] = out[c] /\ wpos'[c] = wpos[c] /\ got'[c] = got[c] + n
          /\ lost'[c] = lost[c] + (n - Fitting)
      BY <1>2, <1>7
    <3>3. Len(out[c]) + ((Len(wbuf[c]) + Fitting) - wpos[c]) + (lost[c] + (n - Fitting)) = got[c] + n
      <4>1. PICK o \in Nat, w \in Nat, p \in Nat, l \in Nat, f \in Nat, m \in Nat, g \in Nat :
              /\ o = Len(out[c]) /\ w = Len(wbuf[c]) /\ p = wpos[c] /\ l = lost[c]
              /\ f = Fitting /\ m = n /\ g = got[c]
        BY <1>3, <1>4, <1>5
      <4>2. o + (w - p) + l = g BY <3>1, <4>1
      <4>3. o + ((w + f) - p) + (l + (m - f)) = g + m BY <4>2
      <4> QED BY <4>1, <4>3
    <3> QED BY <2>2, <3>2, <3>3
  <2>10. wpos'[c] <= Len(wbuf'[c]) /\ Len(wbuf'[c]) <= BufSize
    BY <1>2, <1>3, <1>5, <2>1, <2>2 DEF Bytes
  <2>11. Increases(out'[c]) BY <1>2, <2>1 DEF Bytes
  <2> QED BY <1>1, <1>2, <2>4, <2>5, <2>7, <2>8, <2>9, <2>10, <2>11 DEF Bytes
<1> QED BY <1>8, <1>9, <1>10 DEF ByteInv

(* A write moves the next bytes behind write_pos to the client.            *)
LEMMA Written ==
  ASSUME KernelInv, LoopInv, ByteInv, Writes
  PROVE  LET n == Least(Room(cur), ToWrite(cur))
             x == SubSeq(wbuf[cur], wpos[cur] + 1, wpos[cur] + n)
         IN /\ cur \in Conns /\ sock[cur] = "open" /\ n \in Nat \ {0}
            /\ wpos' = [wpos EXCEPT ![cur] = @ + n] /\ out' = [out EXCEPT ![cur] = @ \o x]
            /\ UNCHANGED <<sock, got, wbuf, lost>>
            /\ wpos[cur] \in Nat /\ wpos[cur] + n <= Len(wbuf[cur])
            /\ Slice(x, wbuf[cur], wpos[cur], n)
<1> DEFINE n == Least(Room(cur), ToWrite(cur))
<1>1. cur \in Conns /\ sock[cur] = "open" BY DEF Writes, WriteCall, LoopInv, Open, Handling
<1>2. /\ n > 0 /\ wpos' = [wpos EXCEPT ![cur] = @ + n]
      /\ out' = [out EXCEPT ![cur] = @ \o SubSeq(wbuf[cur], wpos[cur] + 1, wpos[cur] + n)]
      /\ UNCHANGED <<sock, got, wbuf, lost>>
  BY DEF Writes, WriteCall
<1>3. n \in Nat /\ n <= ToWrite(cur) BY <1>1, WriteBounds
<1>4. wpos[cur] \in Nat /\ Len(wbuf[cur]) \in Nat /\ wbuf[cur] \in Seq(Nat)
  BY <1>1 DEF ByteInv, ByteTypes
<1>5. wpos[cur] + n <= Len(wbuf[cur]) BY <1>3, <1>4 DEF ToWrite
<1> HIDE DEF n
<1>6. n \in Nat \ {0} BY <1>2, <1>3
<1> DEFINE x == SubSeq(wbuf[cur], wpos[cur] + 1, wpos[cur] + n)
<1>7. Slice(x, wbuf[cur], wpos[cur], n)
  <2>1. n \in Nat BY <1>6
  <2> QED BY <1>4, <1>5, <2>1, SliceFacts
<1> QED BY <1>1, <1>2, <1>4, <1>5, <1>6, <1>7 DEF n

LEMMA BytesWritten ==
  ASSUME KernelInv, LoopInv, ByteInv, Writes PROVE ByteInv'
<1>c. PICK c \in Conns : c = cur BY DEF Writes, WriteCall, LoopInv, Open, Handling
<1> DEFINE n == Least(Room(c), ToWrite(c))
           x == SubSeq(wbuf[c], wpos[c] + 1, wpos[c] + n)
<1>1. /\ c \in Conns /\ sock[c] = "open" /\ n \in Nat \ {0}
      /\ wpos' = [wpos EXCEPT ![c] = @ + n] /\ out' = [out EXCEPT ![c] = @ \o x]
      /\ UNCHANGED <<sock, got, wbuf, lost>>
      /\ wpos[c] \in Nat /\ wpos[c] + n <= Len(wbuf[c])
      /\ Slice(x, wbuf[c], wpos[c], n)
  BY <1>c, Written
<1> HIDE DEF n, x
<1>3. out[c] \in Seq(Nat) /\ wbuf[c] \in Seq(Nat) /\ DOMAIN wbuf[c] \subseteq Nat
      /\ Len(out[c]) \in Nat /\ Len(wbuf[c]) \in Nat
  BY <1>1 DEF ByteInv, ByteTypes
<1>x. /\ x \in Seq(Nat) /\ Len(x) = n /\ DOMAIN x = 1 .. n
      /\ \A i \in 1 .. n : wpos[c] + i \in DOMAIN wbuf[c] /\ x[i] = wbuf[c][wpos[c] + i]
  BY <1>1 DEF Slice
<1>y. PICK y : y = out[c] \o x /\ Joined(y, out[c], x) BY <1>3, <1>x, CatFacts
<1>2. /\ wpos'[c] = wpos[c] + n /\ out'[c] = y
      /\ \A d \in Conns \ {c} : wpos'[d] = wpos[d] /\ out'[d] = out[d]
  BY <1>1, <1>y DEF ByteInv, ByteTypes
<1>4. ByteTypes'
  <2>1. y \in Seq(Nat) BY <1>y DEF Joined
  <2>2. wpos[c] + n \in Nat BY <1>1
  <2> QED BY <1>1, <1>y, <2>1, <2>2 DEF ByteInv, ByteTypes
<1>5. ASSUME NEW d \in Conns, d # c PROVE Bytes(d)'
  <2>1. wpos'[d] = wpos[d] /\ out'[d] = out[d] BY <1>2, <1>5
  <2> QED BY <1>1, <2>1 DEF ByteInv, Bytes
<1>6. Bytes(c)'
  <2>1. Bytes(c) BY <1>1 DEF ByteInv
  <2>2. Increases(x)
    <3>1. SUFFICES ASSUME NEW i \in 1 .. n, NEW j \in 1 .. n, i < j PROVE x[i] < x[j]
      BY <1>x DEF Increases
    <3>2. wpos[c] + i < wpos[c] + j BY <1>1, <3>1
    <3> QED BY <1>x, <2>1, <3>2 DEF Bytes, Increases
  <2>3. \A i \in DOMAIN out[c], j \in DOMAIN x : out[c][i] < x[j]
    <3>1. ASSUME NEW j \in 1 .. n PROVE wpos[c] < wpos[c] + j BY <1>1
    <3> QED BY <1>x, <2>1, <3>1 DEF Bytes
  <2>4. Increases(out'[c])
    <3>1. Increases(y) BY <1>3, <1>x, <1>y, <2>1, <2>2, <2>3, CatIncreases DEF Bytes
    <3> QED BY <1>2, <3>1
  <2>5. \A i \in DOMAIN out'[c] :
          \/ i \in DOMAIN out[c] /\ out'[c][i] = out[c][i]
          \/ \E k \in 1 .. n : out'[c][i] = wbuf[c][wpos[c] + k] /\ wpos[c] + k \in DOMAIN wbuf[c]
    BY <1>2, <1>x, <1>y DEF Joined
  <2>6. \A i \in DOMAIN out'[c] : out'[c][i] \in 1 .. got'[c]
    BY <1>1, <2>1, <2>5 DEF Bytes
  <2>7. \A i \in DOMAIN out'[c], j \in DOMAIN wbuf'[c] : wpos'[c] < j => out'[c][i] < wbuf'[c][j]
    <3>1. SUFFICES ASSUME NEW i \in DOMAIN out'[c], NEW j \in DOMAIN wbuf[c], wpos[c] + n < j
                   PROVE  out'[c][i] < wbuf[c][j]
      BY <1>1, <1>2
    <3>0. j \in Nat BY <1>3
    <3>2. wpos[c] < j BY <1>1, <3>0, <3>1
    <3>3. \A k \in 1 .. n : wpos[c] + k < j BY <1>1, <3>0, <3>1
    <3> QED BY <2>1, <2>5, <3>1, <3>2, <3>3 DEF Bytes, Increases
  <2>8. Len(out'[c]) + (Len(wbuf'[c]) - wpos'[c]) + lost'[c] = got'[c]
    <3>1. Len(out'[c]) = Len(out[c]) + n BY <1>2, <1>x, <1>y DEF Joined
    <3>2. Len(out[c]) + (Len(wbuf[c]) - wpos[c]) + lost[c] = got[c] /\ lost[c] \in Nat
      BY <1>1, <2>1 DEF Bytes, ByteInv, ByteTypes
    <3> QED BY <1>1, <1>2, <1>3, <3>1, <3>2
  <2>9. wpos'[c] <= Len(wbuf'[c]) /\ Len(wbuf'[c]) <= BufSize BY <1>1, <1>2, <2>1 DEF Bytes
  <2>10. Increases(wbuf'[c]) /\ \A j \in DOMAIN wbuf'[c] : wbuf'[c][j] \in 1 .. got'[c]
    BY <1>1, <2>1 DEF Bytes
  <2> QED BY <1>1, <2>4, <2>6, <2>7, <2>8, <2>9, <2>10 DEF Bytes
<1> QED BY <1>4, <1>5, <1>6 DEF ByteInv

LEMMA ByteStep == BufInv /\ SharedStep => ByteInv'
<1> SUFFICES ASSUME KernelInv, LoopInv, ByteInv, SharedStep PROVE ByteInv'
  BY DEF BufInv
<1>h. pc \in Handling => cur \in Conns BY DEF LoopInv, Open
<1>k. UNCHANGED <<sock, got, bufferVars>> => ByteInv' BY BytesKept DEF Progresses
<1>1. ASSUME NEW e \in batch, TakesOne(e) PROVE ByteInv'
  <2>1. CASE HangupEvent(e)
    <3>1. e.who \in Conns BY <2>1 DEF HangupEvent, IsHangup, LoopInv, Open
    <3>2. CloseSocket(e.who) /\ Clear(e.who) /\ UNCHANGED <<lost, out>>
      BY <2>1 DEF HangupEvent, FreeState, Release
    <3> QED BY <3>1, <3>2, Closing, BytesCleared
  <2>2. CASE ~HangupEvent(e)
    BY <1>1, <2>2, <1>k DEF TakesOne, AcceptEvent, restVars, EnterFlush, EnterRead, Enter, kernelVars, sockVars
  <2> QED BY <2>1, <2>2
<1>2. CASE \/ Waits \/ BatchEnds \/ AcceptStops \/ ReadReturns
           \/ Blocks \/ Subscribe \/ Killed \/ UNCHANGED bufVars
  BY <1>2, <1>k DEF Waits, restVars, WaitSome, BatchEnds, BatchDone, AcceptStops, AcceptReturns,
     ReadReturns, Blocks, WouldBlock, Subscribe, Killed, bufVars, kernelVars,
     sockVars
<1>3. ASSUME NEW c \in Conns, Accepts(c) PROVE ByteInv'
  <2>1. sock[c] = "backlog" /\ sock' = [sock EXCEPT ![c] = "open"] /\ UNCHANGED <<got, bufferVars>>
    BY <1>3 DEF Accepts, restVars, AddConn
  <2>2. Progresses BY <2>1 DEF Progresses, KernelInv, KernelOK
  <2> QED BY <2>1, <2>2, BytesKept
<1>4. ASSUME NEW c \in Conns, Rejects(c) PROVE ByteInv'
  <2>1. CloseSocket(c) /\ UNCHANGED bufferVars BY <1>4 DEF Rejects, restVars, DropConn
  <2> QED BY <2>1, Closing, BytesKept
<1>5. CASE ReadFails \/ FlushFails
  <2>1. cur \in Conns /\ CloseSocket(cur) /\ Clear(cur) /\ UNCHANGED <<lost, out>>
    BY <1>5, <1>h DEF ReadFails, FreeState, Release, FlushFails, Handling
  <2> QED BY <2>1, Closing, BytesCleared
<1>6. CASE Returns
  <2>1. /\ cur \in Conns /\ Clear(cur) /\ ToWrite(cur) = 0 /\ UNCHANGED <<sock, got, lost, out>>
    BY <1>6, <1>h DEF Returns, FlushReturns, Handling, sockVars
  <2>2. Progresses BY <2>1 DEF Progresses
  <2> QED BY <2>1, <2>2, BytesCleared
<1>7. ASSUME NEW c \in Conns, ClientActs(c) PROVE ByteInv'
  <2>1. UNCHANGED <<got, bufferVars>> /\ Progresses
    BY <1>7, KernelClient DEF ClientActs, Progresses
  <2> QED BY <2>1, BytesKept
<1> QED BY BytesRead, BytesWritten, <1>1, <1>2, <1>3, <1>4, <1>5, <1>6, <1>7 DEF SharedStep
-----------------------------------------------------------------------------
LEMMA BufStart == BuffersInit => BufInv
<1> SUFFICES ASSUME BuffersInit PROVE BufInv OBVIOUS
<1> USE DEF BuffersInit, LoopInit, KernelInit
<1>1. KernelInv BY Constants DEF KernelInv, KernelOK, Open
<1>2. LoopInv BY DEF LoopInv, Handling
<1>3. ByteInv BY Constants DEF ByteInv, ByteTypes, Bytes, Increases
<1> QED BY <1>1, <1>2, <1>3 DEF BufInv

LEMMA BufStep == BufInv /\ SharedStep => BufInv'
BY KernelStep, LoopStep, ByteStep DEF BufInv
-----------------------------------------------------------------------------
(* What is still to be echoed: Stream(c) is out[c] and then the bytes      *)
(* behind write_pos.                                                       *)
LEMMA StreamFacts ==
  ASSUME BufInv, NEW c \in Open
  PROVE  /\ Increases(Stream(c))
         /\ \A i \in DOMAIN Stream(c) : Stream(c)[i] \in 1 .. got[c]
         /\ Len(Stream(c)) + lost[c] = got[c]
<1>1. c \in Conns /\ sock[c] = "open" BY DEF Open
<1>2. /\ wbuf[c] \in Seq(Nat) /\ Len(wbuf[c]) \in Nat /\ wpos[c] \in Nat /\ lost[c] \in Nat
      /\ out[c] \in Seq(Nat) /\ Len(out[c]) \in Nat /\ wpos[c] <= Len(wbuf[c]) /\ Bytes(c)
  BY <1>1 DEF BufInv, ByteInv, ByteTypes, Bytes
<1>3. PICK n \in Nat : wpos[c] + n = Len(wbuf[c])
  <2>1. Len(wbuf[c]) - wpos[c] \in Nat /\ wpos[c] + (Len(wbuf[c]) - wpos[c]) = Len(wbuf[c])
    BY <1>2
  <2> QED BY <2>1
<1>4. PICK x : /\ x = SubSeq(wbuf[c], wpos[c] + 1, wpos[c] + n)
               /\ Slice(x, wbuf[c], wpos[c], n)
  <2>1. wpos[c] + n <= Len(wbuf[c]) BY <1>2, <1>3
  <2> QED BY <1>2, <2>1, SliceFacts
<1>5. /\ x \in Seq(Nat) /\ Len(x) = n /\ DOMAIN x = 1 .. n
      /\ \A i \in 1 .. n : wpos[c] + i \in DOMAIN wbuf[c] /\ x[i] = wbuf[c][wpos[c] + i]
  BY <1>4 DEF Slice
<1>6. PICK y : y = out[c] \o x /\ Joined(y, out[c], x) BY <1>2, <1>5, CatFacts
<1>7. Stream(c) = y BY <1>3, <1>4, <1>6 DEF Stream
<1>8. Increases(x)
  <2>1. SUFFICES ASSUME NEW i \in 1 .. n, NEW j \in 1 .. n, i < j PROVE x[i] < x[j]
    BY <1>5 DEF Increases
  <2>2. wpos[c] + i < wpos[c] + j BY <1>2, <2>1
  <2> QED BY <1>2, <1>5, <2>2 DEF Bytes, Increases
<1>9. \A i \in DOMAIN out[c], j \in DOMAIN x : out[c][i] < x[j]
  <2>1. \A j \in 1 .. n : wpos[c] < wpos[c] + j BY <1>2
  <2> QED BY <1>2, <1>5, <2>1 DEF Bytes
<1>10. Increases(y) BY <1>2, <1>5, <1>6, <1>8, <1>9, CatIncreases DEF Bytes
<1>11. \A i \in DOMAIN y : y[i] \in 1 .. got[c]
  <2>1. \A i \in DOMAIN x : x[i] \in 1 .. got[c] BY <1>2, <1>5 DEF Bytes
  <2> QED BY <1>2, <1>6, <2>1 DEF Bytes, Joined
<1>12. Len(y) + lost[c] = got[c]
  <2>1. Len(y) = Len(out[c]) + n BY <1>5, <1>6 DEF Joined
  <2>2. Len(out[c]) + (Len(wbuf[c]) - wpos[c]) + lost[c] = got[c] BY <1>1, <1>2 DEF Bytes
  <2> QED BY <1>2, <1>3, <2>1, <2>2
<1> QED BY <1>7, <1>10, <1>11, <1>12

LEMMA TypeFollows == BufInv => TypeOK
<1> SUFFICES ASSUME BufInv PROVE TypeOK OBVIOUS
<1>1. LoopOK BY DEF BufInv, KernelInv, LoopInv, LoopOK
<1>2. \A c \in Conns : wpos[c] \in 0 .. Len(wbuf[c]) /\ Len(wbuf[c]) <= BufSize
  <2>1. ASSUME NEW c \in Conns PROVE wpos[c] \in 0 .. Len(wbuf[c]) /\ Len(wbuf[c]) <= BufSize
    BY DEF BufInv, ByteInv, ByteTypes, Bytes
  <2> QED BY <2>1
<1> QED BY <1>1, <1>2 DEF BufInv, LoopInv, Handling, TypeOK

LEMMA AccountFollows == BufInv => EveryByteAccounted
BY StreamFacts DEF EveryByteAccounted, Increases
-----------------------------------------------------------------------------
(* The contract's view of a connection.                                    *)
Status == [c \in Conns |-> IF sock[c] \in {"none", "backlog"} THEN "new" ELSE sock[c]]
ViewKept == UNCHANGED <<Status, got, out>>

LEMMA StatusKept == sock' = sock => Status' = Status
BY DEF Status

LEMMA Stutters == ViewKept => UNCHANGED Service!contractVars
BY DEF ViewKept, Status, Service!contractVars

LEMMA Closes ==
  ASSUME KernelInv, NEW c \in Conns, CloseSocket(c), sock[c] # "closed", out' = out
  PROVE  Service!CloseConn(c)
<1>1. sock' = [sock EXCEPT ![c] = "closed"] /\ got' = got /\ DOMAIN sock = Conns
  BY DEF CloseSocket, KernelInv, KernelOK
<1>2. Status[c] # "closed" /\ Status' = [Status EXCEPT ![c] = "closed"]
  BY <1>1 DEF Status
<1> QED BY <1>1, <1>2 DEF Service!CloseConn, Status

LEMMA Opens ==
  ASSUME KernelInv, NEW c \in Conns, sock[c] = "backlog", sock' = [sock EXCEPT ![c] = "open"],
         UNCHANGED <<got, out>>
  PROVE  Service!OpenConn(c)
<1>1. DOMAIN sock = Conns BY DEF KernelInv, KernelOK
<1>2. Status[c] = "new" /\ Status' = [Status EXCEPT ![c] = "open"]
  BY <1>1 DEF Status
<1> QED BY <1>2 DEF Service!OpenConn, Status

LEMMA Receives ==
  ASSUME KernelInv, cur \in Conns, sock[cur] = "open", UNCHANGED <<sock, out>>,
         Least(Unread(cur), BufSize) > 0,
         got' = [got EXCEPT ![cur] = @ + Least(Unread(cur), BufSize)]
  PROVE  Service!Receive(cur)
<1>1. PICK n : /\ n = Least(Unread(cur), BufSize) /\ n > 0
               /\ got' = [got EXCEPT ![cur] = @ + n]
  OBVIOUS
<1>2. n \in Nat /\ got[cur] \in Nat /\ DOMAIN got = Conns
  BY <1>1, ReadBounds DEF KernelInv, KernelOK
<1>3. got'[cur] = got[cur] + n /\ got' = [got EXCEPT ![cur] = got'[cur]]
  BY <1>1, <1>2
<1>4. got'[cur] > got[cur] BY <1>1, <1>2, <1>3
<1>5. Status[cur] = "open" /\ Status' = Status BY StatusKept DEF Status
<1> QED BY <1>3, <1>4, <1>5 DEF Service!Receive, Status

LEMMA PrefixOfCat ==
  ASSUME NEW s \in Seq(Nat), NEW t \in Seq(Nat) PROVE SubSeq(s \o t, 1, Len(s)) = s
OBVIOUS

LEMMA Echoes ==
  ASSUME BufInv, BufInv', Writes PROVE Service!Echo(cur)
<1>c. PICK c \in Conns : c = cur /\ sock[c] = "open"
  BY DEF Writes, WriteCall, BufInv, LoopInv, Open, Handling
<1> DEFINE n == Least(Room(c), ToWrite(c))
<1>1. PICK x : /\ n \in Nat \ {0} /\ out' = [out EXCEPT ![c] = @ \o x]
               /\ UNCHANGED <<sock, got>> /\ x \in Seq(Nat) /\ Len(x) = n
  BY <1>c, Written DEF BufInv, Slice
<1> HIDE DEF n
<1>2. out[c] \in Seq(Nat) /\ out'[c] = out[c] \o x /\ out' = [out EXCEPT ![c] = out'[c]]
  BY <1>1 DEF BufInv, ByteInv, ByteTypes
<1>3. Joined(out'[c], out[c], x) BY <1>1, <1>2, CatFacts
<1>4. Len(out[c]) \in Nat /\ Len(out'[c]) > Len(out[c]) BY <1>1, <1>2, <1>3 DEF Joined
<1>5. SubSeq(out'[c], 1, Len(out[c])) = out[c] BY <1>1, <1>2, PrefixOfCat
<1>6. Bytes(c)' BY DEF BufInv, ByteInv
<1>7. Increases(out'[c]) /\ \A i \in DOMAIN out'[c] : out'[c][i] \in 1 .. got[c]
  BY <1>1, <1>6 DEF Bytes
<1>8. Status[c] = "open" /\ Status' = Status BY <1>1, <1>c, StatusKept DEF Status
<1>9. Service!Increasing(out'[c]) BY <1>7 DEF Service!Increasing, Increases
<1>10. Service!Echo(c)
  BY <1>1, <1>2, <1>4, <1>5, <1>7, <1>8, <1>9 DEF Service!Echo, Status
<1> QED BY <1>c, <1>10

LEMMA StepImplements ==
  ASSUME BufInv, BufInv', SharedStep
  PROVE  [Service!ContractNext]_(Service!contractVars)
<1>c. ASSUME NEW c \in Conns,
             Service!OpenConn(c) \/ Service!Receive(c) \/ Service!Echo(c) \/ Service!CloseConn(c)
      PROVE  Service!ContractNext
  BY <1>c DEF Service!ContractNext
<1>u. UNCHANGED <<sock, got, out>> => UNCHANGED Service!contractVars
  BY Stutters, StatusKept DEF ViewKept
<1>h. pc \in Handling => cur \in Conns /\ sock[cur] = "open" BY DEF BufInv, LoopInv, Open
<1>k. KernelInv BY DEF BufInv
<1>1. ASSUME NEW e \in batch, TakesOne(e)
      PROVE  Service!ContractNext \/ UNCHANGED Service!contractVars
  <2>1. CASE HangupEvent(e)
    <3>1. e.who \in Conns /\ sock[e.who] = "open" /\ CloseSocket(e.who) /\ out' = out
      BY <2>1 DEF HangupEvent, IsHangup, BufInv, LoopInv, Open, FreeState, Release
    <3> QED BY <3>1, <1>c, <1>k, Closes
  <2>2. CASE ~HangupEvent(e)
    BY <1>1, <2>2, <1>u DEF TakesOne, AcceptEvent, restVars, EnterFlush, EnterRead, Enter, kernelVars, sockVars,
     bufferVars
  <2> QED BY <2>1, <2>2
<1>2. CASE \/ Waits \/ BatchEnds \/ AcceptStops \/ ReadReturns
           \/ Blocks \/ Subscribe \/ Returns \/ Killed \/ UNCHANGED bufVars
  BY <1>2, <1>u DEF Waits, restVars, WaitSome, BatchEnds, BatchDone, AcceptStops, AcceptReturns,
     ReadReturns, Blocks, WouldBlock, Subscribe, Returns, FlushReturns, Killed,
     bufVars, kernelVars, sockVars, bufferVars
<1>3. CASE ReadFails \/ FlushFails
  <2>1. cur \in Conns /\ sock[cur] = "open" /\ CloseSocket(cur) /\ out' = out
    BY <1>3, <1>h DEF ReadFails, FreeState, Release, FlushFails, Handling
  <2> QED BY <2>1, <1>c, <1>k, Closes
<1>4. ASSUME NEW c \in Conns, Rejects(c) PROVE Service!ContractNext
  <2>1. CloseSocket(c) /\ sock[c] = "backlog" /\ out' = out
    BY <1>4 DEF Rejects, restVars, DropConn, bufferVars
  <2> QED BY <2>1, <1>c, <1>k, Closes
<1>5. CASE Reads
  BY <1>5, <1>c, <1>h, <1>k, Receives DEF Reads, ReadCall, Handling
<1>6. CASE Writes
  <2>1. cur \in Conns BY <1>6, <1>h DEF Writes, WriteCall, Handling
  <2> QED BY <2>1, <1>6, <1>c, Echoes
<1>7. ASSUME NEW c \in Conns, ClientActs(c) PROVE UNCHANGED Service!contractVars
  <2>1. /\ UNCHANGED <<got, out>>
        /\ \A d \in Conns : \/ sock'[d] = sock[d]
                            \/ sock[d] = "none" /\ sock'[d] = "backlog"
    BY <1>7, KernelClient DEF ClientActs, bufferVars, BufInv
  <2>2. Status' = Status BY <2>1 DEF Status
  <2> QED BY <2>1, <2>2, Stutters DEF ViewKept
<1>8. ASSUME NEW c \in Conns, Accepts(c) PROVE Service!ContractNext
  BY <1>8, <1>c, <1>k, Opens DEF Accepts, AddConn, restVars, bufferVars
<1> QED BY <1>1, <1>2, <1>3, <1>4, <1>5, <1>6, <1>7, <1>8 DEF SharedStep
-----------------------------------------------------------------------------
(* No wake-up is lost: what the invariant says of every state, NoLostWakeup *)
(* says of those in which the server is about to block.  Input is listed,  *)
(* in the batch, or read by the handler that is running.                   *)
Reading(c) == cur = c /\ (pc = "read" \/ (pc \in {"flush", "arm"} /\ then = "read"))
Incoming(c) == c \in ready \/ Reading(c) \/ \E e \in batch : e.who = c /\ e.in
Watched(c) == "in" \in interest[c] /\ (Readable(c) => Incoming(c))
Dialled == Backlog # {} =>
  Listener \in ready \/ stranded \/ pc = "accept" \/ \E e \in batch : e.who = Listener
InputInv ==
  pc # "dead" => /\ pc = "wait" => batch = {}
                 /\ \A c \in Open : Watched(c)
                 /\ Dialled

(* Between two calls of flush_write_buffer EPOLLOUT is asked for exactly   *)
(* for a buffer that is not empty, and then it is pending, or taken by the *)
(* batch, or will be raised by the client's next read.                     *)
Flushing(c) == cur = c /\ pc \in {"flush", "arm"}
Outgoing(c) ==
  \/ c \in ready \/ (nospace[c] /\ Room(c) = 0)
  \/ \E e \in batch : e.who = c /\ (e.out \/ e.hup)
Subscribed(c) ==
  /\ "out" \in interest[c] <=> ToWrite(c) > 0
  /\ ToWrite(c) = 0 => wbuf[c] = << >>
  /\ ToWrite(c) > 0 => Outgoing(c)
OutputInv ==
  pc # "dead" => /\ \A c \in Conns \ Open : wbuf[c] = << >>
                 /\ pc = "arm" => ToWrite(cur) > 0
                 /\ \A c \in Open : Flushing(c) \/ Subscribed(c)

WakeInv == InputInv /\ OutputInv
-----------------------------------------------------------------------------
LEMMA WaitBatch ==
  ASSUME WaitSome
  PROVE  /\ \A x \in ready : x \in ready' \/ (Event(x).in \/ Event(x).out \/ Event(x).hup => Event(x) \in batch')
         /\ \A c \in Conns : c \in ready /\ c \notin ready' /\ "out" \in interest[c] /\ ~Writable(c)
                              => nospace'[c]
         /\ \A c \in Conns : nospace[c] => nospace'[c]
         /\ pc = "wait" /\ UNCHANGED <<sockVars, interest, cur, stranded>>
         /\ pc' \in {"wait", "dispatch"} /\ (pc' = "wait" => batch' = {})
BY DEF WaitSome

LEMMA WaitedInput ==
  ASSUME KernelInv, InputInv, Waits PROVE InputInv'
<1>1. pc = "wait" /\ batch = {} BY WaitBatch DEF Waits, InputInv
<1>2. UNCHANGED <<sockVars, interest, stranded>> /\ Open' = Open /\ Backlog' = Backlog
  BY WaitBatch DEF Waits, Open, Backlog, sockVars
<1>3. ASSUME NEW c \in Open PROVE Watched(c)'
  <2>1. "in" \in interest'[c] BY <1>1, <1>2 DEF InputInv, Watched
  <2>2. ASSUME Readable(c)' PROVE Incoming(c)'
    <3>1. Readable(c) BY <1>2, <2>2 DEF Readable, Unread, sockVars
    <3>2. c \in ready BY <1>1, <3>1 DEF InputInv, Watched, Incoming, Reading
    <3>3. Event(c).who = c /\ Event(c).in BY <3>1 DEF Event, Open
    <3>4. c \in ready' \/ Event(c) \in batch' BY <3>2, <3>3, WaitBatch DEF Waits
    <3> QED BY <3>3, <3>4 DEF Incoming
  <2> QED BY <2>1, <2>2 DEF Watched
<1>4. Dialled'
  <2>1. Event(Listener).who = Listener /\ Event(Listener).in BY DEF Event
  <2>2. Listener \in ready => Listener \in ready' \/ Event(Listener) \in batch'
    BY <2>1, WaitBatch DEF Waits
  <2> QED BY <1>1, <1>2, <2>1, <2>2 DEF InputInv, Dialled
<1> QED BY <1>2, <1>3, <1>4, WaitBatch DEF InputInv, Waits

LEMMA WaitedOutput ==
  ASSUME BufInv, OutputInv, InputInv, Waits PROVE OutputInv'
<1>1. pc = "wait" /\ batch = {} BY WaitBatch DEF Waits, InputInv
<1>2. UNCHANGED <<sockVars, interest, bufferVars, cur>> /\ Open' = Open
  BY WaitBatch DEF Waits, restVars, Open, sockVars
<1>3. \A c : ToWrite(c)' = ToWrite(c) /\ Room(c)' = Room(c)
  BY <1>2 DEF ToWrite, Room, bufferVars, sockVars
<1>4. ASSUME NEW c \in Open PROVE Subscribed(c)'
  <2>1. c \in Conns /\ Subscribed(c) BY <1>1 DEF OutputInv, Flushing, Open
  <2>2. ASSUME ToWrite(c) > 0 PROVE Outgoing(c)'
    <3>1. "out" \in interest[c] /\ (c \in ready \/ (nospace[c] /\ Room(c) = 0))
      BY <1>1, <2>1, <2>2 DEF Subscribed, Outgoing
    <3>2. CASE nospace[c] /\ Room(c) = 0
      BY <1>3, <2>1, <3>2, WaitBatch DEF Waits, Outgoing
    <3>3. CASE c \in ready /\ Writable(c)
      <4>1. Event(c).who = c /\ Event(c).out BY <2>1, <3>1, <3>3 DEF Event
      <4> QED BY <3>3, <4>1, WaitBatch DEF Waits, Outgoing
    <3>4. CASE c \in ready /\ ~Writable(c)
      <4>1. Room(c) = 0
        <5>1. inflight[c] \in 0 .. SendCap BY <2>1 DEF BufInv, KernelInv, KernelOK
        <5> QED BY <3>4, <5>1, Constants DEF Writable, Room
      <4>2. c \in ready' \/ nospace'[c] BY <2>1, <3>1, <3>4, WaitBatch DEF Waits
      <4> QED BY <1>3, <4>1, <4>2 DEF Outgoing
    <3> QED BY <3>1, <3>2, <3>3, <3>4
  <2> QED BY <1>2, <1>3, <2>1, <2>2 DEF Subscribed, bufferVars
<1> QED BY <1>1, <1>2, <1>3, <1>4, WaitBatch DEF OutputInv, Waits, bufferVars
-----------------------------------------------------------------------------
(* Steps that only add to the ready list and leave every socket as it is.  *)
LEMMA InputKept ==
  ASSUME InputInv, pc # "dead", UNCHANGED <<sock, peer, sent, batch>>, ready \subseteq ready',
         pc' = "wait" => pc = "wait" \/ batch = {},
         \A c \in Open :
           /\ "in" \in interest'[c]
           /\ Unread(c)' > 0 => Unread(c) > 0
           /\ Reading(c) => Reading(c)' \/ ~Readable(c),
         stranded => stranded',
         pc = "accept" => pc' = "accept" \/ Backlog = {} \/ stranded'
  PROVE  InputInv'
<1>1. Open' = Open /\ Backlog' = Backlog BY DEF Open, Backlog
<1>2. ASSUME NEW c \in Open PROVE Watched(c)'
  <2>1. Readable(c)' => Readable(c) BY DEF Readable
  <2>2. Watched(c) BY DEF InputInv
  <2> QED BY <2>1, <2>2 DEF Watched, Incoming
<1>3. Dialled' BY <1>1 DEF InputInv, Dialled
<1>4. pc' = "wait" => batch' = {} BY DEF InputInv
<1> QED BY <1>1, <1>2, <1>3, <1>4 DEF InputInv

LEMMA ClosedFacts ==
  ASSUME KernelInv, NEW c \in Conns, CloseSocket(c)
  PROVE  /\ Open' = Open \ {c} /\ Backlog' = Backlog \ {c} /\ ready' = ready \ {c}
         /\ \A d \in Conns \ {c} : /\ interest'[d] = interest[d] /\ nospace'[d] = nospace[d]
                                   /\ inflight'[d] = inflight[d]
         /\ UNCHANGED <<peer, sent, got>>
         /\ Listener \in ready => Listener \in ready'
BY Constants DEF KernelInv, KernelOK, CloseSocket, Open, Backlog

(* A client is closed; the others keep what announces them.                *)
LEMMA InputClosed ==
  ASSUME KernelInv, InputInv, pc # "dead", NEW c \in Conns, CloseSocket(c),
         \A e \in batch : e.who # c => e \in batch',
         pc' # "wait", stranded' = stranded,
         pc = "accept" => pc' = "accept",
         \A d \in Open \ {c} : ~Reading(d)
  PROVE  InputInv'
<1>1. /\ Open' = Open \ {c} /\ Backlog' \subseteq Backlog /\ ready' = ready \ {c}
      /\ \A d \in Conns \ {c} : interest'[d] = interest[d]
      /\ UNCHANGED <<peer, sent, got>>
      /\ Listener \in ready => Listener \in ready'
  BY ClosedFacts
<1>2. ASSUME NEW d \in Open \ {c} PROVE Watched(d)'
  <2>1. Watched(d) /\ d \in Conns BY DEF InputInv, Open
  <2>2. Readable(d)' => Readable(d) BY <1>1 DEF Readable, Unread
  <2>3. Readable(d) => Incoming(d)' BY <1>1, <2>1 DEF Watched, Incoming
  <2> QED BY <1>1, <2>1, <2>2, <2>3 DEF Watched
<1>3. Dialled'
  <2>1. (\E e \in batch : e.who = Listener) => \E e \in batch' : e.who = Listener
    BY Constants
  <2> QED BY <1>1, <2>1 DEF InputInv, Dialled
<1> QED BY <1>1, <1>2, <1>3 DEF InputInv

LEMMA InputTaken ==
  ASSUME BufInv, InputInv, NEW e \in batch, TakesOne(e) PROVE InputInv'
<1>1. pc = "dispatch" /\ batch' = batch \ {e} /\ \A f \in batch' : f.who # e.who
  BY DEF TakesOne, Take, BufInv, LoopInv
<1>2. CASE HangupEvent(e)
  <2>1. e.who \in Conns BY <1>2 DEF HangupEvent, IsHangup, BufInv, LoopInv, Open
  <2>2. CloseSocket(e.who) /\ pc' = "dispatch" /\ UNCHANGED <<cur, stranded>>
    BY <1>2 DEF HangupEvent, FreeState, Release
  <2>3. \A d : ~Reading(d) BY <1>1 DEF Reading
  <2> QED BY <1>1, <2>1, <2>2, <2>3, InputClosed DEF BufInv
<1>3. CASE ~HangupEvent(e)
  <2>1. UNCHANGED <<kernelVars, stranded>> /\ cur' = e.who /\ pc' \in {"accept", "flush", "read"}
    BY <1>3 DEF TakesOne, AcceptEvent, EnterFlush, EnterRead, Enter
  <2>2. Open' = Open /\ Backlog' = Backlog BY <2>1 DEF Open, Backlog, kernelVars, sockVars
  <2>3. e.who = Listener => pc' = "accept"
    BY <1>3 DEF TakesOne, AcceptEvent, EnterFlush, EnterRead, Enter, IsOut, IsIn
  <2>4. ASSUME NEW c \in Open PROVE Watched(c)'
    <3>1. Watched(c) /\ c \in Conns BY <1>1 DEF InputInv, Open
    <3>2. Readable(c)' => Readable(c)
      BY <2>1 DEF Readable, Unread, kernelVars, sockVars
    <3>3. ASSUME Readable(c) PROVE Incoming(c)'
      <4>1. c \in ready \/ \E f \in batch : f.who = c /\ f.in
        BY <1>1, <3>1, <3>3 DEF Watched, Incoming, Reading
      <4>2. CASE c \in ready BY <2>1, <4>2 DEF Incoming, kernelVars, epollVars
      <4>3. ASSUME NEW f \in batch, f.who = c, f.in, f # e PROVE Incoming(c)'
        BY <1>1, <4>3 DEF Incoming
      <4>4. CASE e.who = c /\ e.in
        <5>1. e.who # Listener BY <3>1, <4>4, Constants
        <5>2. EnterRead(e) \/ (EnterFlush(e) /\ then' = "read" /\ pc' = "flush")
          BY <1>3, <4>4, <5>1 DEF TakesOne, AcceptEvent, IsAccept, EnterFlush, Enter
        <5> QED BY <2>1, <4>4, <5>2 DEF Incoming, Reading, EnterRead, Enter
      <4> QED BY <4>1, <4>2, <4>3, <4>4
    <3> QED BY <2>1, <3>1, <3>2, <3>3 DEF Watched, kernelVars, epollVars
  <2>5. Dialled'
    <3>1. (\E f \in batch : f.who = Listener) =>
            pc' = "accept" \/ \E f \in batch' : f.who = Listener
      BY <1>1, <2>3
    <3> QED BY <1>1, <2>1, <2>2, <3>1 DEF InputInv, Dialled, kernelVars, epollVars
  <2> QED BY <2>1, <2>2, <2>4, <2>5 DEF InputInv
<1> QED BY <1>2, <1>3

LEMMA InputAccepted ==
  ASSUME BufInv, InputInv, NEW c \in Conns, Accepts(c) PROVE InputInv'
<1>1. /\ pc = "accept" /\ sock[c] = "backlog" /\ sock' = [sock EXCEPT ![c] = "open"]
      /\ interest' = [interest EXCEPT ![c] = {"in"}]
      /\ ready' = IF Poll(c, {"in"}) # {} THEN ready \cup {c} ELSE ready
      /\ UNCHANGED <<peer, sent, got, loopVars>>
  BY DEF Accepts, AddConn, EpollCtl
<1>2. sock \in [Conns -> {"none", "backlog", "open", "closed"}]
      /\ interest \in [Conns -> SUBSET {"in", "out"}]
  BY DEF BufInv, KernelInv, KernelOK
<1>3. Open' = Open \cup {c} /\ c \notin Open /\ ready \subseteq ready'
  BY <1>1, <1>2 DEF Open
<1>4. Watched(c)'
  <2>1. Readable(c)' => Readable(c) BY <1>1 DEF Readable, Unread
  <2>2. Readable(c) => c \in ready' BY <1>1 DEF Poll
  <2> QED BY <1>1, <1>2, <2>1, <2>2 DEF Watched, Incoming
<1>5. ASSUME NEW d \in Open PROVE Watched(d)'
  <2>1. Watched(d) /\ d \in Conns /\ d # c BY <1>1, <1>3 DEF InputInv, Open
  <2>2. Readable(d)' => Readable(d) BY <1>1 DEF Readable, Unread
  <2>3. interest'[d] = interest[d] BY <1>1, <1>2, <2>1
  <2>4. Incoming(d) => Incoming(d)' BY <1>1, <1>3 DEF Incoming, Reading, loopVars
  <2> QED BY <2>1, <2>2, <2>3, <2>4 DEF Watched
<1>6. Dialled' BY <1>1 DEF Dialled, loopVars
<1> QED BY <1>1, <1>3, <1>4, <1>5, <1>6 DEF InputInv, loopVars

LEMMA InputClient ==
  ASSUME BufInv, InputInv, NEW c \in Conns, ClientActs(c) PROVE InputInv'
<1>1. pc # "dead" /\ Client(c) /\ UNCHANGED loopVars BY DEF ClientActs
<1>2. /\ sock \in [Conns -> {"none", "backlog", "open", "closed"}]
      /\ peer \in [Conns -> {"open", "fin", "rst", "pipe"}]
      /\ sent \in [Conns -> 0 .. MaxSend]
  BY DEF BufInv, KernelInv, KernelOK
<1>3. Open' = Open BY <1>1, KernelClient DEF BufInv
<1>4. interest' = interest /\ got' = got /\ ready \subseteq ready'
  BY <1>1 DEF Client, Dial, Send, Recv, Fin, Rst, Wake
<1>5. ASSUME NEW d \in Open PROVE Watched(d)'
  <2>1. Watched(d) /\ d \in Conns BY <1>1 DEF InputInv, Open
  <2>2. CASE sent'[d] = sent[d] /\ peer'[d] = peer[d]
    <3>1. Readable(d)' => Readable(d) BY <1>4, <2>2 DEF Readable, Unread
    <3>2. Incoming(d) => Incoming(d)' BY <1>1, <1>4 DEF Incoming, Reading, loopVars, ClientActs
    <3> QED BY <1>4, <2>1, <3>1, <3>2 DEF Watched
  <2>3. CASE ~(sent'[d] = sent[d] /\ peer'[d] = peer[d])
    <3>1. Send(c) \/ Fin(c) \/ Rst(c) BY <1>1, <2>3 DEF Client, Dial, Recv
    <3>2. d = c
      <4>1. CASE Send(c)
        <5>1. peer' = peer /\ \E n \in 1 .. MaxSend - sent[c] : sent' = [sent EXCEPT ![c] = @ + n]
          BY <4>1 DEF Send
        <5> QED BY <1>2, <2>1, <2>3, <5>1
      <4>2. CASE Fin(c) \/ Rst(c)
        <5>1. sent' = sent /\ \E v : peer' = [peer EXCEPT ![c] = v] BY <4>2 DEF Fin, Rst
        <5> QED BY <1>2, <2>1, <2>3, <5>1
      <4> QED BY <3>1, <4>1, <4>2
    <3>3. Wake(c, "in") BY <3>1 DEF Send, Fin, Rst
    <3>4. d \in ready' BY <2>1, <3>2, <3>3 DEF Wake, Watched
    <3> QED BY <1>4, <2>1, <3>4 DEF Watched, Incoming
  <2> QED BY <2>2, <2>3
<1>6. Dialled'
  <2>1. CASE Dial(c) BY <2>1 DEF Dial, Dialled
  <2>2. CASE ~Dial(c)
    <3>1. sock' = sock BY <1>1, <2>2 DEF Client, Send, Recv, Fin, Rst
    <3>2. Dialled BY <1>1 DEF InputInv
    <3> QED BY <1>1, <1>4, <3>1, <3>2 DEF Dialled, Backlog, loopVars
  <2> QED BY <2>1, <2>2
<1> QED BY <1>1, <1>3, <1>5, <1>6 DEF InputInv, loopVars

LEMMA CtlInput ==
  ASSUME KernelInv, InputInv, pc # "dead", NEW c \in Conns, NEW mask, "in" \in mask, EpollCtl(c, mask)
  PROVE  ready \subseteq ready' /\ \A d \in Open : "in" \in interest'[d]
<1>1. interest' = [interest EXCEPT ![c] = mask] /\ ready \subseteq ready' BY DEF EpollCtl
<1>2. interest \in [Conns -> SUBSET {"in", "out"}] BY DEF KernelInv, KernelOK
<1>3. \A d \in Open : d \in Conns /\ "in" \in interest[d] BY DEF InputInv, Watched, Open
<1> QED BY <1>1, <1>2, <1>3

LEMMA InputStep == BufInv /\ InputInv /\ SharedStep => InputInv'
<1> SUFFICES ASSUME BufInv, InputInv, SharedStep PROVE InputInv' OBVIOUS
<1> USE DEF Handling
<1>h. pc \in Handling => cur \in Conns /\ cur \in Open BY DEF BufInv, LoopInv, Open
<1>i. pc # "dead" => \A d \in Open : "in" \in interest[d] /\ d \in Conns
  BY DEF InputInv, Watched, Open
<1>1. CASE Waits BY <1>1, WaitedInput DEF BufInv
<1>2. CASE BatchEnds \/ AcceptStops \/ ReadReturns
  <2>1. UNCHANGED <<kernelVars, batch, cur, then>> /\ pc \in {"dispatch", "accept", "read"}
    BY <1>2 DEF BatchEnds, restVars, BatchDone, AcceptStops, AcceptReturns, ReadReturns
  <2>2. pc = "read" => ~Readable(cur)
    BY <1>2 DEF BatchEnds, BatchDone, AcceptStops, AcceptReturns, ReadReturns
  <2>3. \A d : Reading(d) => ~Readable(d) BY <2>1, <2>2 DEF Reading
  <2>4. /\ pc' = "wait" => batch = {}
        /\ pc = "accept" => Backlog = {} \/ stranded'
        /\ stranded => stranded'
    <3>1. stranded \in BOOLEAN BY DEF BufInv, LoopInv
    <3>2. CASE BatchEnds \/ ReadReturns BY <3>2 DEF BatchEnds, BatchDone, ReadReturns
    <3>3. CASE AcceptStops BY <3>1, <3>3 DEF AcceptStops, AcceptReturns
    <3> QED BY <1>2, <3>2, <3>3
  <2> QED BY <1>i, <2>1, <2>3, <2>4, InputKept DEF kernelVars, sockVars, epollVars, Unread
<1>3. CASE Reads
  <2>1. PICK n \in Nat : n > 0 /\ got' = [got EXCEPT ![cur] = @ + n]
    BY <1>3, <1>h, ReadBounds DEF Reads, ReadCall, BufInv
  <2>2. got \in [Conns -> 0 .. MaxSend] /\ sent \in [Conns -> 0 .. MaxSend]
    BY DEF BufInv, KernelInv, KernelOK
  <2>3. UNCHANGED <<sock, peer, sent, interest, ready, batch, cur, stranded>>
        /\ pc = "read" /\ pc' = "flush" /\ then' = "read"
    BY <1>3 DEF Reads, ReadCall, epollVars
  <2>4. ASSUME NEW d \in Open, Unread(d)' > 0 PROVE Unread(d) > 0
    <3>1. d \in Conns BY DEF Open
    <3>2. got[d] \in Nat /\ sent[d] \in Nat /\ got[d] <= got'[d] BY <2>1, <2>2, <3>1
    <3>3. got'[d] \in Nat BY <2>1, <2>2, <3>1
    <3> QED BY <2>3, <2>4, <3>2, <3>3 DEF Unread
  <2>5. \A d : Reading(d) => Reading(d)' BY <2>3 DEF Reading
  <2> QED BY <1>i, <2>3, <2>4, <2>5, InputKept
<1>4. CASE Writes \/ Blocks
  <2>1. /\ UNCHANGED <<sock, peer, sent, got, interest, ready, batch, cur, stranded, then>>
        /\ pc = "flush" /\ pc' \in {"flush", "arm", then}
    BY <1>4 DEF Writes, WriteCall, Blocks, WouldBlock, sockVars, loopVars
  <2>2. \A d : Reading(d) => Reading(d)' BY <2>1 DEF Reading
  <2>3. then \in {"read", "dispatch"} BY DEF BufInv, LoopInv
  <2> QED BY <1>i, <2>1, <2>2, <2>3, InputKept DEF Unread
<1>5. CASE Subscribe \/ Returns
  <2>1. /\ UNCHANGED <<sock, peer, sent, got, batch, cur, stranded, then>>
        /\ pc \in {"flush", "arm"} /\ pc' = then
    BY <1>5 DEF Subscribe, Returns, FlushReturns, sockVars
  <2>2. ready \subseteq ready' /\ \A d \in Open : "in" \in interest'[d]
    <3>1. CASE \E mask : "in" \in mask /\ EpollCtl(cur, mask)
      BY <1>h, <2>1, <3>1, CtlInput DEF BufInv
    <3>2. CASE UNCHANGED epollVars BY <1>i, <2>1, <3>2 DEF epollVars
    <3>3. "in" \in {"in", "out"} /\ "in" \in {"in"} OBVIOUS
    <3> QED BY <1>5, <3>1, <3>2, <3>3 DEF Subscribe, Returns, FlushReturns
  <2>3. \A d : Reading(d) => Reading(d)' BY <2>1 DEF Reading
  <2>4. then \in {"read", "dispatch"} BY DEF BufInv, LoopInv
  <2> QED BY <2>1, <2>2, <2>3, <2>4, InputKept DEF Unread
<1>6. CASE ReadFails \/ FlushFails
  <2>1. /\ pc \in Handling /\ CloseSocket(cur) /\ UNCHANGED <<batch, stranded>>
        /\ pc' \in {"dispatch", "dead"}
    BY <1>6 DEF ReadFails, FreeState, Release, FlushFails
  <2>2. \A d \in Open \ {cur} : ~Reading(d) BY DEF Reading
  <2> QED BY <1>h, <2>1, <2>2, InputClosed DEF BufInv
<1>7. ASSUME NEW c \in Conns, Rejects(c) PROVE InputInv'
  <2>1. pc = "accept" /\ CloseSocket(c) /\ UNCHANGED <<pc, batch, stranded>>
    BY <1>7 DEF Rejects, DropConn, loopVars
  <2>2. \A d : ~Reading(d) BY <2>1 DEF Reading
  <2> QED BY <2>1, <2>2, InputClosed DEF BufInv
<1>8. CASE Killed BY <1>8 DEF Killed, InputInv
<1>9. CASE UNCHANGED bufVars
  BY <1>9 DEF bufVars, kernelVars, sockVars, epollVars, loopVars, InputInv, Watched, Incoming,
     Reading, Dialled, Open, Backlog, Readable, Unread
<1> QED
  BY <1>1, <1>2, <1>3, <1>4, <1>5, <1>6, <1>7, <1>8, <1>9, InputTaken, InputAccepted, InputClient
  DEF SharedStep
-----------------------------------------------------------------------------
(* A step that concerns one client at most: the others keep what announces *)
(* their output.                                                           *)
LEMMA OutputExcept ==
  ASSUME OutputInv, pc # "dead", NEW c,
         Open' \ {c} = Open \ {c},
         \A d \in Conns \ {c} :
           /\ wbuf'[d] = wbuf[d] /\ wpos'[d] = wpos[d] /\ interest'[d] = interest[d]
           /\ (nospace[d] => nospace'[d]) /\ inflight'[d] = inflight[d]
           /\ d \in ready => d \in ready',
         \A d \in Open \ {c} : Flushing(d) => Flushing(d)',
         \A e \in batch : e.who # c => e \in batch',
         pc' = "arm" => ToWrite(cur)' > 0,
         c \in Open' => Flushing(c)' \/ Subscribed(c)',
         c \in Conns \ Open' => wbuf'[c] = << >>
  PROVE  OutputInv'
<1>1. ASSUME NEW d \in Open' \ {c} PROVE Flushing(d)' \/ Subscribed(d)'
  <2>1. d \in Open \ {c} /\ d \in Conns BY DEF Open
  <2>2. ToWrite(d)' = ToWrite(d) /\ Room(d)' = Room(d) BY <2>1 DEF ToWrite, Room
  <2>3. Outgoing(d) => Outgoing(d)' BY <2>1, <2>2 DEF Outgoing
  <2>4. Subscribed(d) => Subscribed(d)' BY <2>1, <2>2, <2>3 DEF Subscribed
  <2>5. Flushing(d) \/ Subscribed(d) BY <2>1 DEF OutputInv
  <2> QED BY <2>1, <2>4, <2>5
<1>2. ASSUME NEW d \in (Conns \ Open') \ {c} PROVE wbuf'[d] = << >>
  <2>1. d \in Conns \ Open BY <1>2
  <2> QED BY <2>1 DEF OutputInv
<1> QED BY <1>1, <1>2 DEF OutputInv

(* The other clients in a step of the handler of one.                      *)
HandlesOnly(c) ==
  /\ UNCHANGED <<sock, batch, cur>> /\ cur = c /\ c \in Open /\ pc \in Handling
  /\ \A d \in Conns \ {c} :
       /\ wbuf'[d] = wbuf[d] /\ wpos'[d] = wpos[d] /\ interest'[d] = interest[d]
       /\ (nospace[d] => nospace'[d]) /\ inflight'[d] = inflight[d]
       /\ d \in ready => d \in ready'

LEMMA OutputHandled ==
  ASSUME OutputInv, NEW c, HandlesOnly(c),
         pc' = "arm" => ToWrite(c)' > 0,
         Flushing(c)' \/ Subscribed(c)'
  PROVE  OutputInv'
<1>1. Open' = Open BY DEF HandlesOnly, Open
<1>2. \A d \in Open \ {c} : ~Flushing(d) BY DEF HandlesOnly, Flushing
<1>3. pc' = "arm" => ToWrite(cur)' > 0 BY DEF HandlesOnly, ToWrite
<1> QED BY <1>1, <1>2, <1>3, OutputExcept DEF HandlesOnly, Handling

LEMMA Typed ==
  ASSUME BufInv
  PROVE  /\ sock \in [Conns -> {"none", "backlog", "open", "closed"}]
         /\ interest \in [Conns -> SUBSET {"in", "out"}] /\ nospace \in [Conns -> BOOLEAN]
         /\ inflight \in [Conns -> 0 .. SendCap]
         /\ wbuf \in [Conns -> Seq(Nat)] /\ wpos \in [Conns -> Nat]
BY DEF BufInv, KernelInv, KernelOK, ByteInv, ByteTypes

(* A client whose handler is closing it.                                   *)
LEMMA OutputClosed ==
  ASSUME BufInv, OutputInv, pc # "dead", NEW c \in Conns, CloseSocket(c),
         Clear(c) \/ (UNCHANGED <<wbuf, wpos>> /\ c \notin Open),
         \A e \in batch : e.who # c => e \in batch',
         pc' # "arm", \A d \in Open \ {c} : ~Flushing(d)
  PROVE  OutputInv'
<1>1. KernelInv /\ Open' \ {c} = Open \ {c} /\ c \notin Open'
  BY ClosedFacts DEF BufInv
<1>2. /\ ready' = ready \ {c}
      /\ \A d \in Conns \ {c} : /\ interest'[d] = interest[d] /\ nospace'[d] = nospace[d]
                                /\ inflight'[d] = inflight[d]
  BY <1>1, ClosedFacts
<1>3. \A d \in Conns \ {c} : wbuf'[d] = wbuf[d] /\ wpos'[d] = wpos[d] BY Typed DEF Clear
<1>4. wbuf'[c] = << >> BY Typed DEF Clear, OutputInv
<1> QED BY <1>1, <1>2, <1>3, <1>4, OutputExcept

LEMMA OutputTaken ==
  ASSUME BufInv, OutputInv, NEW e \in batch, TakesOne(e) PROVE OutputInv'
<1>1. pc = "dispatch" /\ batch' = batch \ {e} /\ \A f \in batch : f.who # e.who => f \in batch'
  BY DEF TakesOne, Take
<1>2. \A d : ~Flushing(d) BY <1>1 DEF Flushing
<1>3. CASE HangupEvent(e)
  <2>1. e.who \in Conns BY <1>3 DEF HangupEvent, IsHangup, BufInv, LoopInv, Open
  <2>2. CloseSocket(e.who) /\ Clear(e.who) /\ pc' = "dispatch"
    BY <1>3 DEF HangupEvent, FreeState, Release
  <2> QED BY <1>1, <1>2, <2>1, <2>2, OutputClosed
<1>4. CASE ~HangupEvent(e)
  <2>1. UNCHANGED <<kernelVars, bufferVars>> /\ cur' = e.who /\ pc' \in {"accept", "flush", "read"}
    BY <1>4 DEF TakesOne, AcceptEvent, restVars, EnterFlush, EnterRead, Enter
  <2>2. Open' = Open BY <2>1 DEF Open, kernelVars, sockVars
  <2>3. e.who \in Open => Flushing(e.who)' \/ Subscribed(e.who)'
    <3>1. SUFFICES ASSUME e.who \in Open, ~EnterFlush(e) PROVE Subscribed(e.who)'
      BY <2>1 DEF EnterFlush, Enter, Flushing
    <3>2. e.who # Listener BY <3>1, Constants DEF Open
    <3>3. EnterRead(e) BY <1>4, <3>1, <3>2 DEF TakesOne, AcceptEvent, IsAccept
    <3>4. ~e.out /\ ~e.hup BY <3>3 DEF EnterRead, IsIn
    <3>5. Subscribed(e.who) BY <1>1, <1>2, <3>1 DEF OutputInv
    <3>6. Outgoing(e.who) => Outgoing(e.who)'
      BY <1>1, <2>1, <3>4 DEF Outgoing, Room, kernelVars, sockVars, epollVars
    <3> QED BY <2>1, <3>5, <3>6 DEF Subscribed, ToWrite, bufferVars, kernelVars, epollVars
  <2>4. e.who \in Conns \ Open' => wbuf'[e.who] = << >>
    BY <1>1, <2>1, <2>2 DEF OutputInv, bufferVars
  <2> QED
    BY <1>1, <1>2, <2>1, <2>2, <2>3, <2>4, OutputExcept
    DEF kernelVars, sockVars, epollVars, bufferVars
<1> QED BY <1>3, <1>4

LEMMA OutputAccepted ==
  ASSUME BufInv, OutputInv, NEW c \in Conns, Accepts(c) PROVE OutputInv'
<1>1. /\ pc = "accept" /\ sock[c] = "backlog" /\ sock' = [sock EXCEPT ![c] = "open"]
      /\ interest' = [interest EXCEPT ![c] = {"in"}] /\ ready \subseteq ready'
      /\ nospace' = [nospace EXCEPT ![c] = @ \/ ("out" \in {"in"} /\ ~Writable(c))]
      /\ UNCHANGED <<inflight, pc, batch, cur, wbuf, wpos>>
  BY DEF Accepts, AddConn, EpollCtl, restVars, bufferVars, loopVars
<1>2. Open' \ {c} = Open \ {c} /\ c \in Conns \ Open /\ c \in Open' BY <1>1, Typed DEF Open
<1>3. /\ \A d \in Conns \ {c} : interest'[d] = interest[d] /\ nospace'[d] = nospace[d]
      /\ interest'[c] = {"in"}
  BY <1>1, Typed
<1>4. wbuf[c] = << >> /\ ToWrite(c)' = 0
  <2>1. wbuf[c] = << >> BY <1>1, <1>2 DEF OutputInv
  <2>2. wpos[c] \in Nat /\ wpos[c] <= Len(wbuf[c]) BY Typed DEF BufInv, ByteInv, Bytes
  <2>3. Len(wbuf[c]) = 0 BY <2>1
  <2> QED BY <1>1, <2>1, <2>2, <2>3 DEF ToWrite
<1>5. Subscribed(c)' BY <1>1, <1>3, <1>4 DEF Subscribed
<1>6. \A d : ~Flushing(d) BY <1>1 DEF Flushing
<1> QED BY <1>1, <1>2, <1>3, <1>5, <1>6, OutputExcept

LEMMA OutputClient ==
  ASSUME BufInv, OutputInv, NEW c \in Conns, ClientActs(c) PROVE OutputInv'
<1>1. pc # "dead" /\ Client(c) /\ UNCHANGED <<loopVars, bufferVars>> BY DEF ClientActs
<1>2. Open' = Open /\ interest' = interest
  BY <1>1, KernelClient DEF BufInv, Client, Dial, Send, Recv, Fin, Rst
<1>3. \A d : Flushing(d)' <=> Flushing(d) BY <1>1 DEF Flushing, loopVars
<1>4. \A d : ToWrite(d)' = ToWrite(d) BY <1>1 DEF ToWrite, bufferVars
<1>5. CASE Recv(c)
  <2>1. /\ ready' = IF nospace[c] /\ "out" \in interest[c] THEN ready \cup {c} ELSE ready
        /\ nospace' = [nospace EXCEPT ![c] = FALSE]
        /\ \A d \in Conns \ {c} : inflight'[d] = inflight[d]
    <3>1. PICK n : inflight' = [inflight EXCEPT ![c] = @ - n] BY <1>5 DEF Recv
    <3> QED BY <1>5, <3>1, Typed DEF Recv, Wake
  <2>2. \A d \in Conns \ {c} : nospace'[d] = nospace[d] BY <2>1, Typed
  <2>3. Subscribed(c) => Subscribed(c)'
    <3>1. ASSUME Subscribed(c), ToWrite(c) > 0 PROVE Outgoing(c)'
      <4>1. "out" \in interest[c] /\ Outgoing(c) BY <3>1 DEF Subscribed
      <4> QED BY <1>1, <2>1, <4>1 DEF Outgoing, loopVars
    <3> QED BY <1>1, <1>2, <1>4, <3>1 DEF Subscribed, bufferVars
  <2>4. c \in Open => Flushing(c) \/ Subscribed(c) BY <1>1 DEF OutputInv
  <2>5. c \in Conns \ Open => wbuf[c] = << >> BY <1>1 DEF OutputInv
  <2>6. pc = "arm" => ToWrite(cur) > 0 BY <1>1 DEF OutputInv
  <2> QED
    BY <1>1, <1>2, <1>3, <1>4, <2>1, <2>2, <2>3, <2>4, <2>5, <2>6, OutputExcept
    DEF loopVars, bufferVars
<1>6. CASE ~Recv(c)
  <2>1. UNCHANGED <<inflight, nospace>> /\ ready \subseteq ready'
    BY <1>1, <1>6 DEF Client, Dial, Send, Fin, Rst, Wake
  <2>2. ASSUME NEW d \in Open PROVE Flushing(d)' \/ Subscribed(d)'
    <3>1. Flushing(d) \/ Subscribed(d) BY <1>1 DEF OutputInv
    <3>2. Outgoing(d) => Outgoing(d)' BY <1>1, <2>1 DEF Outgoing, Room, loopVars
    <3> QED BY <1>1, <1>2, <1>3, <1>4, <3>1, <3>2 DEF Subscribed, bufferVars
  <2> QED BY <1>1, <1>2, <1>4, <2>2 DEF OutputInv, loopVars, bufferVars
<1> QED BY <1>5, <1>6

LEMMA OutputStep == BufInv /\ InputInv /\ OutputInv /\ SharedStep => OutputInv'
<1> SUFFICES ASSUME BufInv, InputInv, OutputInv, SharedStep PROVE OutputInv' OBVIOUS
<1> USE DEF Handling
<1>h. pc \in Handling => cur \in Conns /\ cur \in Open BY DEF BufInv, LoopInv, Open
<1>t. then \in {"read", "dispatch"} BY DEF BufInv, LoopInv
<1>1. CASE BatchEnds \/ AcceptStops \/ ReadReturns
  <2>1. /\ UNCHANGED <<kernelVars, batch, cur, bufferVars>>
        /\ pc \in {"dispatch", "accept", "read"} /\ pc' \in {"wait", "dispatch"}
    BY <1>1 DEF BatchEnds, restVars, BatchDone, AcceptStops, AcceptReturns, ReadReturns
  <2>2. ASSUME NEW d \in Open PROVE Subscribed(d)'
    <3>1. Subscribed(d) BY <2>1 DEF OutputInv, Flushing
    <3> QED BY <2>1, <3>1
        DEF Subscribed, Outgoing, ToWrite, Room, kernelVars, sockVars, epollVars, bufferVars
  <2> QED BY <2>1, <2>2 DEF OutputInv, Open, kernelVars, sockVars, bufferVars
<1>2. CASE Reads
  <2>1. /\ UNCHANGED <<sock, inflight, epollVars, batch, cur, wpos>> /\ pc = "read" /\ pc' = "flush"
        /\ \A d \in Conns \ {cur} : wbuf'[d] = wbuf[d]
    BY <1>2, Typed DEF Reads, ReadCall
  <2>2. HandlesOnly(cur) BY <1>h, <2>1 DEF HandlesOnly, epollVars
  <2> QED BY <2>1, <2>2, OutputHandled DEF Flushing
<1>3. CASE Writes
  <2>1. PICK n : /\ wpos' = [wpos EXCEPT ![cur] = @ + n]
                 /\ inflight' = [inflight EXCEPT ![cur] = @ + n]
                 /\ nospace' = [nospace EXCEPT ![cur] = @ \/ n < ToWrite(cur)]
                 /\ UNCHANGED <<sock, interest, ready, loopVars, wbuf>> /\ pc = "flush"
    BY <1>3 DEF Writes, WriteCall
  <2>2. HandlesOnly(cur) BY <1>h, <2>1, Typed DEF HandlesOnly, loopVars
  <2> QED BY <2>1, <2>2, OutputHandled DEF Flushing, loopVars
<1>4. CASE Blocks
  <2>c. PICK c \in Conns : c = cur /\ c \in Open BY <1>h, <1>4 DEF Blocks, WouldBlock
  <2>1. /\ pc = "flush" /\ ToWrite(c) > 0 /\ Room(c) = 0
        /\ nospace' = [nospace EXCEPT ![c] = TRUE]
        /\ UNCHANGED <<sock, inflight, interest, ready, batch, cur, bufferVars>>
    BY <1>4, <2>c DEF Blocks, WouldBlock, sockVars
  <2>2. HandlesOnly(c) BY <2>c, <2>1, Typed DEF HandlesOnly, bufferVars
  <2>3. ToWrite(c)' > 0 /\ Room(c)' = 0 /\ nospace'[c]
    BY <2>c, <2>1, Typed DEF ToWrite, Room, bufferVars
  <2>4. CASE pc' = "arm" BY <2>1, <2>2, <2>3, <2>4, <2>c, OutputHandled DEF Flushing
  <2>5. CASE pc' = then /\ "out" \in interest[c]
    <3>1. ToWrite(c) \in Int BY <2>c, <2>1, Typed DEF ToWrite
    <3>2. ToWrite(c)' = ToWrite(c) BY <2>1 DEF ToWrite, bufferVars
    <3>3. Subscribed(c)' BY <2>1, <2>3, <2>5, <3>1, <3>2 DEF Subscribed, Outgoing
    <3> QED BY <1>t, <2>2, <2>5, <3>3, OutputHandled
  <2> QED BY <1>4, <2>4, <2>5, <2>c DEF Blocks, WouldBlock
<1>5. CASE Subscribe
  <2>c. PICK c \in Conns : c = cur /\ c \in Open BY <1>h, <1>5 DEF Subscribe
  <2>1. /\ pc = "arm" /\ pc' = then /\ EpollCtl(c, {"in", "out"})
        /\ UNCHANGED <<sock, inflight, batch, cur, bufferVars, peer>>
    BY <1>5, <2>c DEF Subscribe, sockVars
  <2>2. /\ interest' = [interest EXCEPT ![c] = {"in", "out"}]
        /\ ready' = IF Poll(c, {"in", "out"}) # {} THEN ready \cup {c} ELSE ready
        /\ nospace' = [nospace EXCEPT ![c] = @ \/ ("out" \in {"in", "out"} /\ ~Writable(c))]
    BY <2>1 DEF EpollCtl
  <2>3. HandlesOnly(c) BY <2>c, <2>1, <2>2, Typed DEF HandlesOnly, bufferVars
  <2>4. "out" \in interest'[c] BY <2>c, <2>2, Typed
  <2>5. Writable(c) => c \in ready' BY <2>2 DEF Poll
  <2>6. ~Writable(c) => nospace'[c] /\ Room(c)' = 0
    <3>1. inflight[c] \in 0 .. SendCap BY <2>c, <2>1, Typed
    <3>2. ~Writable(c) => Room(c) = 0 BY <3>1, Constants DEF Writable, Room
    <3>3. ~Writable(c) => nospace'[c] BY <2>c, <2>1, <2>2, Typed
    <3> QED BY <2>1, <3>2, <3>3 DEF Room
  <2>7. ToWrite(c)' > 0 /\ ToWrite(c)' = ToWrite(c) /\ ToWrite(c) \in Int
    BY <2>c, <2>1, Typed DEF OutputInv, ToWrite, bufferVars
  <2>8. Subscribed(c)' BY <2>4, <2>5, <2>6, <2>7 DEF Subscribed, Outgoing
  <2> QED BY <1>t, <2>1, <2>3, <2>8, OutputHandled
<1>6. CASE Returns
  <2>c. PICK c \in Conns : c = cur /\ c \in Open BY <1>h, <1>6 DEF Returns, FlushReturns
  <2>1. /\ pc = "flush" /\ pc' = then /\ Clear(c)
        /\ UNCHANGED <<sock, inflight, batch, cur>>
        /\ EpollCtl(c, {"in"}) \/ (UNCHANGED epollVars /\ "out" \notin interest[c])
    BY <1>6, <2>c DEF Returns, FlushReturns, sockVars
  <2>2. /\ wbuf'[c] = << >> /\ wpos'[c] = 0
        /\ \A d \in Conns \ {c} : wbuf'[d] = wbuf[d] /\ wpos'[d] = wpos[d]
    BY <2>c, <2>1, Typed DEF Clear
  <2>3. "out" \notin interest'[c]
    BY <2>c, <2>1, Typed DEF EpollCtl, epollVars
  <2>4. \A d \in Conns \ {c} : interest'[d] = interest[d] /\ (nospace[d] => nospace'[d])
    BY <2>c, <2>1, Typed DEF EpollCtl, epollVars
  <2>5. ready \subseteq ready' BY <2>1 DEF EpollCtl, epollVars
  <2>6. HandlesOnly(c) BY <2>c, <2>1, <2>2, <2>4, <2>5 DEF HandlesOnly
  <2>7. ToWrite(c)' = 0 BY <2>2 DEF ToWrite
  <2>8. Subscribed(c)' BY <2>2, <2>3, <2>7 DEF Subscribed
  <2> QED BY <1>t, <2>1, <2>6, <2>8, OutputHandled
<1>7. CASE ReadFails \/ FlushFails
  <2>1. /\ pc \in Handling /\ CloseSocket(cur) /\ Clear(cur) /\ batch' = batch
        /\ pc' \in {"dispatch", "dead"}
    BY <1>7 DEF ReadFails, FreeState, Release, FlushFails
  <2>2. \A d \in Open \ {cur} : ~Flushing(d) BY DEF Flushing
  <2> QED BY <1>h, <2>1, <2>2, OutputClosed
<1>8. ASSUME NEW c \in Conns, Rejects(c) PROVE OutputInv'
  <2>1. /\ pc = "accept" /\ CloseSocket(c) /\ UNCHANGED <<pc, batch, wbuf, wpos>>
        /\ sock[c] = "backlog"
    BY <1>8 DEF Rejects, DropConn, loopVars, restVars, bufferVars
  <2>2. c \notin Open BY <2>1 DEF Open
  <2>3. \A d : ~Flushing(d) BY <2>1 DEF Flushing
  <2> QED BY <2>1, <2>2, <2>3, OutputClosed
<1>9. CASE Killed BY <1>9 DEF Killed, OutputInv
<1>10. CASE UNCHANGED bufVars
  BY <1>10 DEF bufVars, kernelVars, sockVars, epollVars, loopVars, bufferVars, OutputInv,
     Subscribed, Outgoing, Flushing, ToWrite, Open, Room
<1> QED
  BY <1>1, <1>2, <1>3, <1>4, <1>5, <1>6, <1>7, <1>8, <1>9, <1>10, WaitedOutput, OutputTaken,
     OutputAccepted, OutputClient
  DEF SharedStep
-----------------------------------------------------------------------------
LEMMA WakeStart == BuffersInit => WakeInv
<1> SUFFICES ASSUME BuffersInit PROVE WakeInv OBVIOUS
<1> USE DEF BuffersInit, LoopInit, KernelInit
<1>1. Open = {} /\ Backlog = {} BY DEF Open, Backlog
<1>2. InputInv BY <1>1 DEF InputInv, Dialled
<1>3. OutputInv BY <1>1 DEF OutputInv
<1> QED BY <1>2, <1>3 DEF WakeInv

LEMMA WakeStep == BufInv /\ WakeInv /\ SharedStep => WakeInv'
BY InputStep, OutputStep DEF WakeInv

LEMMA WakeFollows == WakeInv => NoLostWakeup
<1> SUFFICES ASSUME WakeInv PROVE NoLostWakeup OBVIOUS
<1>1. InputAnnounced
  BY DEF WakeInv, InputInv, InputAnnounced, Watched, Incoming, Reading, Dialled
<1>2. ASSUME pc = "wait", NEW c \in Open
      PROVE  /\ "out" \in interest[c] <=> ToWrite(c) > 0
             /\ ToWrite(c) > 0 => c \in ready \/ (nospace[c] /\ Room(c) = 0)
  BY <1>2 DEF WakeInv, InputInv, OutputInv, Flushing, Subscribed, Outgoing
<1> QED BY <1>1, <1>2 DEF NoLostWakeup

(* What does not fit was read while output of an earlier read was waiting. *)
DropsNothing == \A c \in Conns : lost'[c] > lost[c] => "out" \in interest[c]

LEMMA DropStep == BufInv /\ WakeInv /\ SharedStep => DropsNothing
<1> SUFFICES ASSUME BufInv, WakeInv, SharedStep,
                    NEW c \in Conns, lost'[c] > lost[c]
             PROVE  "out" \in interest[c]
  BY DEF DropsNothing
<1>1. lost[c] \in Nat BY DEF BufInv, ByteInv, ByteTypes
<1>2. Reads
  <2>1. lost' # lost BY <1>1
  <2> QED BY <2>1
      DEF SharedStep, Waits, restVars, bufferVars, TakesOne, AcceptEvent, HangupEvent, FreeState,
          EnterFlush, EnterRead, BatchEnds, Accepts, Rejects, AcceptStops, ReadReturns, ReadFails,
          Writes, WriteCall, Blocks, WouldBlock, Subscribe, Returns, FlushReturns, FlushFails,
          Killed, ClientActs, bufVars
<1>3. /\ pc = "read" /\ cur \in Open
      /\ lost' = [lost EXCEPT ![cur] = @ + (Least(Unread(cur), BufSize) - Fitting)]
  BY <1>2 DEF Reads, ReadCall, BufInv, LoopInv, Handling
<1>4. c = cur
  <2>1. lost \in [Conns -> Nat] BY DEF BufInv, ByteInv, ByteTypes
  <2> QED BY <1>1, <1>3, <2>1
<1>5. Least(Unread(c), BufSize) > Fitting
  <2>1. lost'[c] = lost[c] + (Least(Unread(c), BufSize) - Fitting)
    BY <1>3, <1>4 DEF BufInv, ByteInv, ByteTypes
  <2>2. Least(Unread(c), BufSize) \in Nat BY <1>4, ReadBounds DEF BufInv
  <2>3. Fitting \in Int
    BY <1>4, <2>2, Constants DEF Fitting, Least, BufInv, ByteInv, ByteTypes
  <2> QED BY <1>1, <2>1, <2>2, <2>3
<1>6. wbuf[c] # << >>
  <2>1. SUFFICES ASSUME wbuf[c] = << >> PROVE FALSE OBVIOUS
  <2>2. Len(wbuf[c]) = 0 BY <2>1
  <2>3. Least(Unread(c), BufSize) \in Nat /\ Least(Unread(c), BufSize) <= BufSize
    BY <1>4, ReadBounds DEF BufInv
  <2>4. Fitting = Least(Least(Unread(c), BufSize), BufSize) BY <1>4, <2>2, Constants DEF Fitting
  <2> QED BY <1>5, <2>3, <2>4, Constants DEF Least
<1>7. Subscribed(c) BY <1>3, <1>4 DEF WakeInv, OutputInv, Flushing
<1>8. ToWrite(c) \in Nat
  BY DEF BufInv, ByteInv, ByteTypes, Bytes, ToWrite
<1> QED BY <1>6, <1>7, <1>8 DEF Subscribed
-----------------------------------------------------------------------------
(* epoll_buffered_server.c.  Its steps are shared steps that always call   *)
(* epoll_ctl; the definitions it shares with this module are the same.     *)
Buffered == INSTANCE EpollBufferedServer

LEMMA SameViews ==
  /\ \A c : Buffered!Readable(c) = Readable(c) /\ Buffered!Writable(c) = Writable(c)
            /\ Buffered!IsReset(c) = IsReset(c)
  /\ \A c : Buffered!Unread(c) = Unread(c) /\ Buffered!Room(c) = Room(c)
            /\ Buffered!ToWrite(c) = ToWrite(c)
  /\ \A x : Buffered!Event(x) = Event(x)
  /\ Buffered!Backlog = Backlog /\ Buffered!Fitting = Fitting
BY DEF Buffered!Readable, Readable, Buffered!Unread, Unread, Buffered!Writable, Writable,
       Buffered!Room, Room, Buffered!IsReset, IsReset, Buffered!ToWrite, ToWrite,
       Buffered!Event, Event, Buffered!HungUp, HungUp, Buffered!Backlog, Backlog,
       Buffered!Fitting, Fitting, Buffered!Least, Least

LEMMA BufferedLoop ==
  /\ Buffered!EpollWait => Waits
  /\ \A e \in batch : /\ Buffered!Take(e) => Take(e)
                      /\ Buffered!DispatchAccept(e) => AcceptEvent(e)
                      /\ Buffered!DispatchHangup(e) => HangupEvent(e)
                      /\ Buffered!DispatchOut(e) => EnterFlush(e)
                      /\ Buffered!DispatchIn(e) => EnterRead(e)
  /\ Buffered!DispatchEnds => BatchEnds
<1>1. Buffered!EpollWait => Waits
  BY SameViews
  DEF Buffered!EpollWait, Buffered!WaitCall, Waits, WaitSome, restVars, Buffered!sockVars,
      sockVars, Buffered!bufferVars, bufferVars
<1>2. \A e \in batch :
        /\ Buffered!Take(e) => Take(e)
        /\ Buffered!DispatchAccept(e) => AcceptEvent(e)
        /\ Buffered!DispatchOut(e) => EnterFlush(e)
        /\ Buffered!DispatchIn(e) => EnterRead(e)
  BY DEF Buffered!Take, Take, Buffered!DispatchAccept, AcceptEvent, Buffered!IsAccept, IsAccept,
      Buffered!Enter, Enter, restVars, Buffered!DispatchOut, EnterFlush, Buffered!EnterFlush,
      Buffered!IsOut, IsOut, Buffered!DispatchIn, EnterRead, Buffered!EnterRead, Buffered!IsIn,
      IsIn, Buffered!kernelVars, kernelVars, Buffered!bufferVars, bufferVars,
      Buffered!sockVars, sockVars, Buffered!epollVars, epollVars
<1>3. \A e \in batch : Buffered!DispatchHangup(e) => HangupEvent(e)
  BY DEF Buffered!DispatchHangup, HangupEvent, Buffered!IsHangup, IsHangup, Buffered!FreeState,
      FreeState, Buffered!Release, Release, Buffered!CloseSocket, CloseSocket, Buffered!Clear, Clear
<1>4. Buffered!DispatchEnds => BatchEnds
  BY DEF Buffered!DispatchEnds, BatchEnds, Buffered!BatchDone, BatchDone, restVars,
      Buffered!kernelVars, kernelVars, Buffered!sockVars, sockVars, Buffered!epollVars, epollVars,
      Buffered!bufferVars, bufferVars
<1> QED BY <1>1, <1>2, <1>3, <1>4

LEMMA SameCalls ==
  /\ \A c, mask : Buffered!EpollCtl(c, mask) => EpollCtl(c, mask)
  /\ \A c : Buffered!CloseSocket(c) => CloseSocket(c)
  /\ \A c : Buffered!Clear(c) => Clear(c)
BY SameViews
DEF Buffered!EpollCtl, EpollCtl, Buffered!Poll, Poll, Buffered!CloseSocket, CloseSocket,
    Buffered!Clear, Clear

LEMMA BufferedAccept ==
  /\ \A c \in Conns : /\ Buffered!AcceptConn(c) => Accepts(c)
                      /\ Buffered!SetupFails(c) => Rejects(c)
  /\ Buffered!AcceptEnds => AcceptStops
<1>1. ASSUME NEW c \in Conns, Buffered!AcceptConn(c) PROVE Accepts(c)
  BY <1>1, SameCalls
  DEF Buffered!AcceptConn, Accepts, Buffered!AddConn, AddConn, restVars,
      Buffered!loopVars, loopVars, Buffered!bufferVars, bufferVars
<1>2. ASSUME NEW c \in Conns, Buffered!SetupFails(c) PROVE Rejects(c)
  BY <1>2, SameCalls
  DEF Buffered!SetupFails, Rejects, Buffered!DropConn, DropConn, restVars,
      Buffered!loopVars, loopVars, Buffered!bufferVars, bufferVars
<1>3. ASSUME Buffered!AcceptEnds PROVE AcceptStops
  BY <1>3, SameViews
  DEF Buffered!AcceptEnds, AcceptStops, Buffered!AcceptReturns, AcceptReturns, restVars,
      Buffered!kernelVars, kernelVars, Buffered!sockVars, sockVars, Buffered!epollVars, epollVars,
      Buffered!bufferVars, bufferVars
<1> QED BY <1>1, <1>2, <1>3

LEMMA BufferedHandlers ==
  /\ Buffered!ReadData => Reads
  /\ Buffered!ReadEagain => ReadReturns
  /\ Buffered!ReadEnds => ReadFails
  /\ Buffered!Write => Writes
  /\ Buffered!WriteEagain => Blocks
  /\ Buffered!Arm => Subscribe
  /\ Buffered!Drained => Returns
  /\ Buffered!WriteFails => FlushFails
  /\ Buffered!BrokenPipe => Killed
<1> USE DEF Buffered!kernelVars, kernelVars, Buffered!sockVars, sockVars, Buffered!epollVars,
            epollVars, Buffered!loopVars, loopVars, Buffered!bufferVars, bufferVars
<1>1. Buffered!ReadData => Reads
  BY SameViews DEF Buffered!ReadData, Reads, Buffered!ReadCall, ReadCall, Buffered!Least, Least
<1>2. Buffered!ReadEagain => ReadReturns
  BY SameViews DEF Buffered!ReadEagain, Buffered!ReadReturns, ReadReturns
<1>3. Buffered!ReadEnds => ReadFails
  BY SameViews, SameCalls
  DEF Buffered!ReadEnds, Buffered!ReadFails, ReadFails, Buffered!FreeState, FreeState,
      Buffered!Release, Release
<1>4. Buffered!Write => Writes
  BY SameViews DEF Buffered!Write, Writes, Buffered!WriteCall, WriteCall, Buffered!Least, Least
<1>5. Buffered!WriteEagain => Blocks
  BY SameViews DEF Buffered!WriteEagain, Blocks, Buffered!WouldBlock, WouldBlock
<1>6. Buffered!Arm => Subscribe
  BY SameCalls DEF Buffered!Arm, Buffered!Subscribe, Subscribe
<1>7. Buffered!Drained => Returns
  BY SameViews, SameCalls DEF Buffered!Drained, Returns, Buffered!FlushReturns, FlushReturns
<1>8. Buffered!WriteFails => FlushFails
  BY SameViews, SameCalls DEF Buffered!WriteFails, Buffered!FlushFails, FlushFails
<1>9. Buffered!BrokenPipe => Killed
  BY SameViews DEF Buffered!BrokenPipe, Buffered!Killed, Killed
<1> QED BY <1>1, <1>2, <1>3, <1>4, <1>5, <1>6, <1>7, <1>8, <1>9

LEMMA BufferedClient ==
  ASSUME NEW c \in Conns, Buffered!ClientStep(c) PROVE ClientActs(c)
<1>1. Buffered!Client(c) => Client(c)
  BY SameViews
  DEF Buffered!Client, Client, Buffered!Dial, Dial, Buffered!Send, Send, Buffered!Recv, Recv,
      Buffered!Fin, Fin, Buffered!Rst, Rst, Buffered!Wake, Wake
<1> QED
  BY <1>1 DEF Buffered!ClientStep, ClientActs, Buffered!loopVars, loopVars,
              Buffered!bufferVars, bufferVars

LEMMA BufferedShares == [Buffered!Next]_(Buffered!vars) => SharedStep
<1>1. UNCHANGED Buffered!vars => UNCHANGED bufVars
  BY DEF Buffered!vars, bufVars, Buffered!kernelVars, kernelVars, Buffered!sockVars, sockVars,
         Buffered!epollVars, epollVars, Buffered!loopVars, loopVars, Buffered!bufferVars, bufferVars
<1>2. ASSUME Buffered!Server PROVE SharedStep
  <2>1. CASE Buffered!Dispatch
    BY <2>1, BufferedLoop DEF Buffered!Dispatch, SharedStep, TakesOne
  <2>2. CASE Buffered!EpollWait \/ Buffered!DispatchEnds
    BY <2>2, BufferedLoop DEF SharedStep
  <2>3. CASE (\E c \in Conns : Buffered!AcceptConn(c) \/ Buffered!SetupFails(c)) \/ Buffered!AcceptEnds
    BY <2>3, BufferedAccept DEF SharedStep
  <2> QED BY <1>2, <2>1, <2>2, <2>3, BufferedHandlers DEF Buffered!Server, SharedStep
<1>3. ASSUME NEW c \in Conns, Buffered!ClientStep(c) PROVE SharedStep
  BY <1>3, BufferedClient DEF SharedStep
<1> QED BY <1>1, <1>2, <1>3 DEF Buffered!Next, SharedStep

LEMMA BufferedStarts == Buffered!Init => BuffersInit
BY DEF Buffered!Init, Buffered!BuffersInit, BuffersInit, Buffered!LoopInit, LoopInit,
       Buffered!KernelInit, KernelInit

LEMMA BufferedAlways == Buffered!Spec => [](BufInv /\ WakeInv)
<1>1. BuffersInit => BufInv /\ WakeInv BY BufStart, WakeStart
<1>2. BufInv /\ WakeInv /\ [Buffered!Next]_(Buffered!vars) => (BufInv /\ WakeInv)'
  BY BufStep, WakeStep, BufferedShares
<1> QED BY <1>1, <1>2, BufferedStarts, PTL DEF Buffered!Spec

(* epoll_buffered_server.c: a handler works on an open client only,        *)
(* write_pos never passes write_len, and write_len never the end of        *)
(* write_buf.                                                              *)
THEOREM BufferedTypeCorrect == Buffered!Spec => []TypeOK
BY BufferedAlways, TypeFollows, PTL

(* epoll_buffered_server.c: the bytes echoed and the bytes still to write  *)
(* are bytes read, in the order sent, and with those that did not fit they *)
(* are all of them, however reads, short writes and the resets of the      *)
(* offsets alternate.                                                      *)
THEOREM BufferedBytesAccounted == Buffered!Spec => []EveryByteAccounted
BY BufferedAlways, AccountFollows, PTL

(* epoll_buffered_server.c: when it is about to block, whatever it owes a  *)
(* client is announced by an event that is pending or sure to come, though *)
(* EPOLLET announces it only once and EPOLLOUT is asked for one system     *)
(* call after the write that failed.                                       *)
THEOREM BufferedLosesNoWakeup == Buffered!Spec => []NoLostWakeup
BY BufferedAlways, WakeFollows, PTL

(* epoll_buffered_server.c drops a byte only of a client it has found      *)
(* slow, with EPOLLOUT subscribed.                                         *)
THEOREM BufferedDropsLate == Buffered!Spec => DropsOnlyUnderBackpressure
<1>1. BufInv /\ WakeInv /\ [Buffered!Next]_(Buffered!vars)
        => [\A c \in Conns : lost'[c] > lost[c] => "out" \in interest[c]]_<<lost, interest>>
  BY DropStep, BufferedShares DEF DropsNothing
<1> QED BY <1>1, BufferedAlways, PTL DEF Buffered!Spec, DropsOnlyUnderBackpressure

(* epoll_buffered_server.c implements the contract: every step of it is a  *)
(* step the contract allows, or one the client cannot see.                 *)
THEOREM BufferedImplementsContract == Buffered!Spec => ImplementsContract
<1>1. Buffered!Init => Service!ContractInit
  BY BufferedStarts DEF BuffersInit, LoopInit, KernelInit, Service!ContractInit
<1>2. BufInv /\ BufInv' /\ [Buffered!Next]_(Buffered!vars)
        => [Service!ContractNext]_(Service!contractVars)
  BY StepImplements, BufferedShares
<1> QED
  BY <1>1, <1>2, BufferedAlways, PTL DEF Buffered!Spec, ImplementsContract, Service!Contract
-----------------------------------------------------------------------------
(* epoll_server.c, which has one buffer for all clients, wbuf here, and    *)
(* clients that flood.                                                     *)
VARIABLE flood
Unbuffered == INSTANCE EpollServer WITH buffer <- wbuf

LEMMA UnbufferedViews ==
  /\ \A c : Unbuffered!Readable(c) = Readable(c) /\ Unbuffered!Writable(c) = Writable(c)
            /\ Unbuffered!IsReset(c) = IsReset(c)
  /\ \A c : Unbuffered!Unread(c) = Unread(c) /\ Unbuffered!Room(c) = Room(c)
  /\ \A x : Unbuffered!Event(x) = Event(x)
  /\ Unbuffered!Backlog = Backlog
BY DEF Unbuffered!Readable, Readable, Unbuffered!Unread, Unread, Unbuffered!Writable, Writable,
       Unbuffered!Room, Room, Unbuffered!IsReset, IsReset, Unbuffered!Event, Event,
       Unbuffered!HungUp, HungUp, Unbuffered!Backlog, Backlog

LEMMA UnbufferedCalls ==
  /\ \A c, mask : Unbuffered!EpollCtl(c, mask) => EpollCtl(c, mask)
  /\ \A c : Unbuffered!CloseSocket(c) => CloseSocket(c)
  /\ \A c : Unbuffered!Client(c) => Client(c)
  /\ Unbuffered!WaitCall => WaitSome
<1>1. \A c, mask : Unbuffered!EpollCtl(c, mask) => EpollCtl(c, mask)
  BY UnbufferedViews DEF Unbuffered!EpollCtl, EpollCtl, Unbuffered!Poll, Poll
<1>2. \A c : Unbuffered!CloseSocket(c) => CloseSocket(c)
  BY DEF Unbuffered!CloseSocket, CloseSocket
<1>3. \A c : Unbuffered!Client(c) => Client(c)
  BY UnbufferedViews
  DEF Unbuffered!Client, Client, Unbuffered!Dial, Dial, Unbuffered!Send, Send, Unbuffered!Recv,
      Recv, Unbuffered!Fin, Fin, Unbuffered!Rst, Rst, Unbuffered!Wake, Wake
<1>4. Unbuffered!WaitCall => WaitSome
  BY UnbufferedViews DEF Unbuffered!WaitCall, WaitSome, Unbuffered!sockVars, sockVars
<1> QED BY <1>1, <1>2, <1>3, <1>4

(* As for the others: the batch outlives no client, and the handler's      *)
(* client is open.                                                         *)
Serving == {"read", "write"}
ServeLoopInv ==
  /\ pc \in Serving \cup {"wait", "dispatch", "accept", "dead"}
  /\ cur \in Conns \cup {Listener}
  /\ \A e \in batch : e.who \in Open \cup {Listener}
  /\ \A e, f \in batch : e.who = f.who => e = f
  /\ pc \in Serving => cur \in Open /\ \A e \in batch : e.who # cur

(* What is echoed was read, in order; what has been read and not yet       *)
(* offered to write follows it.                                            *)
ChunkInv ==
  /\ wbuf \in Seq(Nat) /\ out \in [Conns -> Seq(Nat)]
  /\ \A c \in Conns : /\ Increases(out[c])
                      /\ \A i \in DOMAIN out[c] : out[c][i] \in 1 .. got[c]
  /\ pc = "write" =>
       /\ Increases(wbuf)
       /\ \A j \in DOMAIN wbuf : wbuf[j] \in 1 .. got[cur]
       /\ \A i \in DOMAIN out[cur], j \in DOMAIN wbuf : out[cur][i] < wbuf[j]

ServeInv == KernelInv /\ ServeLoopInv /\ ChunkInv

(* The steps of epoll_server.c in terms of the operators above.            *)
Pauses == WaitSome /\ UNCHANGED <<wbuf, out>>
Hands(e) ==
  /\ pc = "dispatch" /\ e \in batch /\ batch' = batch \ {e}
  /\ pc' = IF e.who = Listener THEN "accept" ELSE "read"
  /\ cur' = e.who /\ UNCHANGED <<kernelVars, wbuf, out>>
Drops(e) ==
  /\ pc = "dispatch" /\ e \in batch /\ batch' = batch \ {e} /\ pc' = "dispatch"
  /\ e.who # Listener /\ CloseSocket(e.who) /\ UNCHANGED <<cur, wbuf, out>>
Stays ==
  /\ pc' \in {"wait", "dispatch", "dead", pc}
  /\ UNCHANGED <<kernelVars, batch, cur, wbuf, out>>
Admits(c) ==
  /\ pc = "accept" /\ sock[c] = "backlog" /\ sock' = [sock EXCEPT ![c] = "open"]
  /\ EpollCtl(c, {"in"}) /\ UNCHANGED <<peer, sent, got, inflight, pc, batch, cur, wbuf, out>>
Refuses(c) ==
  /\ pc = "accept" /\ sock[c] = "backlog" /\ CloseSocket(c)
  /\ UNCHANGED <<pc, batch, cur, wbuf, out>>
Fetches ==
  LET n == Least(Unread(cur), BufSize)
  IN /\ pc = "read" /\ pc' = "write"
     /\ got' = [got EXCEPT ![cur] = @ + n]
     /\ wbuf' = [i \in 1 .. n |-> got[cur] + i]
     /\ UNCHANGED <<sock, peer, sent, inflight, epollVars, batch, cur, out>>
Quits ==
  /\ pc \in Serving /\ pc' = "dispatch" /\ CloseSocket(cur)
  /\ UNCHANGED <<batch, cur, out>> /\ wbuf' \in {wbuf, << >>}
Sends ==
  LET n == Least(Room(cur), Len(wbuf))
  IN /\ pc = "write" /\ pc' = "read"
     /\ inflight' = [inflight EXCEPT ![cur] = @ + n]
     /\ nospace' = [nospace EXCEPT ![cur] = @ \/ n < Len(wbuf)]
     /\ out' = [out EXCEPT ![cur] = @ \o SubSeq(wbuf, 1, n)] /\ wbuf' = << >>
     /\ UNCHANGED <<sock, peer, sent, got, interest, ready, batch, cur>>
Peers(c) == Client(c) /\ UNCHANGED <<pc, batch, cur, wbuf, out>>

ServeStep ==
  \/ Pauses \/ (\E e \in batch : Hands(e)) \/ (\E e \in batch : Drops(e)) \/ Stays
  \/ (\E c \in Conns : Admits(c)) \/ (\E c \in Conns : Refuses(c))
  \/ Fetches \/ Quits \/ Sends \/ (\E c \in Conns : Peers(c))

LEMMA UnbufferedServes == [Unbuffered!Next]_(Unbuffered!vars) => ServeStep
<1> SUFFICES ASSUME [Unbuffered!Next]_(Unbuffered!vars) PROVE ServeStep OBVIOUS
<1> USE DEF Unbuffered!kernelVars, kernelVars, Unbuffered!sockVars, sockVars,
            Unbuffered!epollVars, epollVars, Unbuffered!loopVars, loopVars
<1>1. CASE UNCHANGED Unbuffered!vars
  BY <1>1 DEF Unbuffered!vars, ServeStep, Stays
<1>2. CASE Unbuffered!EpollWait
  BY <1>2, UnbufferedCalls DEF Unbuffered!EpollWait, ServeStep, Pauses
<1>3. CASE Unbuffered!Dispatch
  <2>1. PICK e \in batch :
          /\ pc = "dispatch" /\ batch' = batch \ {e} /\ UNCHANGED <<wbuf, out>>
          /\ \/ Unbuffered!DispatchAccept(e) \/ Unbuffered!DispatchHangup(e)
             \/ Unbuffered!DispatchIn(e)
    BY <1>3 DEF Unbuffered!Dispatch, Unbuffered!Take, Unbuffered!DispatchAccept,
       Unbuffered!DispatchHangup, Unbuffered!DispatchIn
  <2>2. CASE Unbuffered!DispatchHangup(e)
    BY <2>1, <2>2, UnbufferedCalls
    DEF Unbuffered!DispatchHangup, Unbuffered!IsHangup, Unbuffered!Release, ServeStep, Drops
  <2>3. CASE Unbuffered!DispatchAccept(e) \/ Unbuffered!DispatchIn(e)
    BY <2>1, <2>3
    DEF Unbuffered!DispatchAccept, Unbuffered!IsAccept, Unbuffered!DispatchIn, Unbuffered!IsIn,
        Unbuffered!Enter, ServeStep, Hands
  <2> QED BY <2>1, <2>2, <2>3
<1>4. CASE \/ Unbuffered!DispatchEnds \/ Unbuffered!AcceptEnds \/ Unbuffered!ReadEagain
           \/ Unbuffered!BrokenPipe
  BY <1>4 DEF Unbuffered!DispatchEnds, Unbuffered!BatchDone, Unbuffered!AcceptEnds,
     Unbuffered!AcceptReturns, Unbuffered!ReadEagain, Unbuffered!BrokenPipe, ServeStep, Stays
<1>5. ASSUME NEW c \in Conns, Unbuffered!AcceptConn(c) \/ Unbuffered!SetupFails(c)
      PROVE  Admits(c) \/ Refuses(c)
  BY <1>5, UnbufferedCalls DEF Unbuffered!AcceptConn, Unbuffered!AddConn, Unbuffered!SetupFails,
     Unbuffered!DropConn, Admits, Refuses
<1>6. CASE Unbuffered!ReadData
  BY <1>6, UnbufferedViews DEF Unbuffered!ReadData, Unbuffered!Least, Least, ServeStep, Fetches
<1>7. CASE Unbuffered!ReadEnds \/ Unbuffered!WriteFails
  BY <1>7, UnbufferedCalls
  DEF Unbuffered!ReadEnds, Unbuffered!WriteFails, Unbuffered!Release, Serving, ServeStep, Quits
<1>8. CASE Unbuffered!Write
  BY <1>8, UnbufferedViews DEF Unbuffered!Write, Unbuffered!Least, Least, ServeStep, Sends
<1>9. ASSUME NEW c \in Conns, Unbuffered!ClientStep(c) PROVE Peers(c) \/ Stays
  BY <1>9, UnbufferedCalls
  DEF Unbuffered!ClientStep, Unbuffered!Floods, Unbuffered!StopsFlooding, Peers, Stays
<1> QED
  BY <1>1, <1>2, <1>3, <1>4, <1>5, <1>6, <1>7, <1>8, <1>9
  DEF Unbuffered!Next, Unbuffered!Server, ServeStep

LEMMA ServeStart == Unbuffered!Init => ServeInv
<1> SUFFICES ASSUME Unbuffered!Init PROVE ServeInv OBVIOUS
<1> USE DEF Unbuffered!Init, Unbuffered!LoopInit, Unbuffered!KernelInit
<1>1. KernelInv BY Constants DEF KernelInv, KernelOK, Open
<1>2. ServeLoopInv BY DEF ServeLoopInv, Serving
<1>3. ChunkInv BY DEF ChunkInv, Increases
<1> QED BY <1>1, <1>2, <1>3 DEF ServeInv

LEMMA SendBounds ==
  ASSUME ServeInv, cur \in Conns
  PROVE  /\ Least(Room(cur), Len(wbuf)) \in Nat /\ Least(Room(cur), Len(wbuf)) <= Len(wbuf)
         /\ inflight[cur] + Least(Room(cur), Len(wbuf)) \in 0 .. SendCap
<1>1. inflight[cur] \in 0 .. SendCap /\ SendCap \in Nat /\ Len(wbuf) \in Nat
  BY Constants DEF ServeInv, KernelInv, KernelOK, ChunkInv
<1>2. Room(cur) \in Nat /\ inflight[cur] + Room(cur) = SendCap
  BY <1>1 DEF Room
<1> QED BY <1>1, <1>2 DEF Least

LEMMA ServeKernel == ServeInv /\ ServeStep => KernelInv'
<1> SUFFICES ASSUME ServeInv, ServeStep PROVE KernelInv' OBVIOUS
<1>k. KernelInv BY DEF ServeInv
<1>u. UNCHANGED kernelVars => KernelInv'
  BY <1>k DEF kernelVars, sockVars, epollVars, KernelInv, KernelOK, Open
<1>h. pc \in Serving => cur \in Conns BY DEF ServeInv, ServeLoopInv, Open
<1>1. CASE Pauses BY <1>1, <1>k, KernelWait DEF Pauses
<1>2. ASSUME NEW e \in batch, Hands(e) PROVE KernelInv' BY <1>2, <1>u DEF Hands
<1>3. ASSUME NEW e \in batch, Drops(e) PROVE KernelInv'
  <2>1. e.who \in Conns BY <1>3 DEF Drops, ServeInv, ServeLoopInv, Open
  <2> QED BY <1>3, <1>k, <2>1, KernelClose DEF Drops
<1>4. CASE Stays BY <1>4, <1>u DEF Stays
<1>5. ASSUME NEW c \in Conns, Admits(c) PROVE KernelInv'
  BY <1>5, <1>k, KernelCtl DEF Admits
<1>6. ASSUME NEW c \in Conns, Refuses(c) PROVE KernelInv'
  BY <1>6, <1>k, KernelClose DEF Refuses
<1>7. CASE Fetches
  <2>1. cur \in Conns BY <1>7, <1>h DEF Fetches, Serving
  <2>2. /\ got' = [got EXCEPT ![cur] = @ + Least(Unread(cur), BufSize)]
        /\ UNCHANGED <<sock, peer, sent, inflight, epollVars>>
    BY <1>7 DEF Fetches
  <2>3. KernelOK' BY <1>k, <2>1, <2>2, ReadBounds DEF KernelInv, KernelOK, epollVars
  <2> QED BY <1>k, <2>2, <2>3, KernelQuiet DEF Quiet, epollVars
<1>8. CASE Quits BY <1>8, <1>h, <1>k, KernelClose DEF Quits
<1>9. CASE Sends
  <2>1. cur \in Conns BY <1>9, <1>h DEF Sends, Serving
  <2>2. /\ inflight' = [inflight EXCEPT ![cur] = @ + Least(Room(cur), Len(wbuf))]
        /\ nospace' = [nospace EXCEPT ![cur] = @ \/ Least(Room(cur), Len(wbuf)) < Len(wbuf)]
        /\ UNCHANGED <<sock, peer, sent, got, interest, ready>>
    BY <1>9 DEF Sends
  <2>3. inflight' \in [Conns -> 0 .. SendCap] /\ nospace' \in [Conns -> BOOLEAN]
    BY <1>k, <2>1, <2>2, SendBounds DEF KernelInv, KernelOK
  <2>4. KernelOK' BY <1>k, <2>2, <2>3 DEF KernelInv, KernelOK
  <2> QED BY <1>k, <2>2, <2>4, KernelQuiet DEF Quiet
<1>10. ASSUME NEW c \in Conns, Peers(c) PROVE KernelInv'
  BY <1>10, <1>k, KernelClient DEF Peers
<1> QED BY <1>1, <1>2, <1>3, <1>4, <1>5, <1>6, <1>7, <1>8, <1>9, <1>10 DEF ServeStep

LEMMA ServeLoop == ServeInv /\ ServeStep => ServeLoopInv'
<1> SUFFICES ASSUME KernelInv, ServeLoopInv, ServeStep PROVE ServeLoopInv' BY DEF ServeInv
<1> USE DEF Serving
<1>1. CASE Pauses
  <2>1. PICK S \in SUBSET ready : batch' = {e \in {Event(x) : x \in S} : e.in \/ e.out \/ e.hup}
    BY <1>1 DEF Pauses, WaitSome
  <2>2. \A x : Event(x).who = x BY DEF Event
  <2>3. Open' = Open /\ cur' = cur /\ pc' \in {"wait", "dispatch"}
    BY <1>1, OpenKept DEF Pauses, WaitSome, sockVars
  <2>4. S \subseteq Open \cup {Listener} BY DEF KernelInv
  <2> QED BY <2>1, <2>2, <2>3, <2>4 DEF ServeLoopInv
<1>2. ASSUME NEW e \in batch, Hands(e) PROVE ServeLoopInv'
  <2>1. Open' = Open BY <1>2, OpenKept DEF Hands, kernelVars, sockVars
  <2> QED BY <1>2, <2>1 DEF Hands, ServeLoopInv, Open
<1>3. ASSUME NEW e \in batch, Drops(e) PROVE ServeLoopInv'
  <2>1. e.who \in Conns BY <1>3 DEF Drops, ServeLoopInv, Open
  <2>2. Open' = Open \ {e.who} BY <1>3, <2>1, OpenClosed DEF Drops
  <2> QED BY <1>3, <2>2 DEF Drops, ServeLoopInv
<1>4. CASE Stays
  BY <1>4, OpenKept DEF Stays, kernelVars, sockVars, ServeLoopInv
<1>5. ASSUME NEW c \in Conns, Admits(c) PROVE ServeLoopInv'
  <2>1. Open \subseteq Open' BY <1>5 DEF Admits, Open, KernelInv, KernelOK
  <2> QED BY <1>5, <2>1 DEF Admits, ServeLoopInv
<1>6. ASSUME NEW c \in Conns, Refuses(c) PROVE ServeLoopInv'
  <2>1. Open' = Open BY <1>6, OpenClosed DEF Refuses, Open
  <2> QED BY <1>6, <2>1 DEF Refuses, ServeLoopInv
<1>7. CASE Quits
  <2>1. cur \in Conns BY <1>7 DEF Quits, ServeLoopInv, Open
  <2>2. Open' = Open \ {cur} BY <1>7, <2>1, OpenClosed DEF Quits
  <2> QED BY <1>7, <2>2 DEF Quits, ServeLoopInv
<1>8. CASE Fetches \/ Sends
  <2>1. /\ pc \in Serving /\ pc' \in Serving /\ UNCHANGED <<sock, batch, cur>>
    BY <1>8 DEF Fetches, Sends
  <2> QED BY <2>1, OpenKept DEF ServeLoopInv
<1>9. ASSUME NEW c \in Conns, Peers(c) PROVE ServeLoopInv'
  BY <1>9, KernelClient DEF Peers, ServeLoopInv
<1> QED BY <1>1, <1>2, <1>3, <1>4, <1>5, <1>6, <1>7, <1>8, <1>9 DEF ServeStep

(* A read fills the buffer with the positions that follow those read.      *)
LEMMA ChunkFetched ==
  ASSUME ServeInv, Fetches PROVE ChunkInv'
<1>c. PICK c \in Conns : c = cur BY DEF Fetches, ServeInv, ServeLoopInv, Serving, Open
<1> DEFINE n == Least(Unread(c), BufSize)
<1>1. /\ got' = [got EXCEPT ![c] = @ + n] /\ wbuf' = [i \in 1 .. n |-> got[c] + i]
      /\ UNCHANGED <<cur, out>>
  BY <1>c DEF Fetches
<1>2. n \in Nat /\ got[c] \in Nat /\ DOMAIN got = Conns
  BY <1>c, ReadBounds DEF ServeInv, KernelInv, KernelOK
<1> HIDE DEF n
<1>3. /\ wbuf' \in Seq(Nat) /\ DOMAIN wbuf' = 1 .. n
      /\ \A i \in 1 .. n : wbuf'[i] = got[c] + i
  BY <1>1, <1>2, ChunkFacts
<1>4. got'[c] = got[c] + n /\ \A d \in Conns \ {c} : got'[d] = got[d] BY <1>1, <1>2
<1>5. Increases(wbuf') BY <1>2, <1>3 DEF Increases
<1>6. \A j \in DOMAIN wbuf' : wbuf'[j] \in 1 .. got'[c] BY <1>2, <1>3, <1>4
<1>7. \A i \in DOMAIN out[c] : out[c][i] \in 1 .. got[c] BY DEF ServeInv, ChunkInv
<1>8. \A i \in DOMAIN out[c], j \in DOMAIN wbuf' : out[c][i] < wbuf'[j] BY <1>2, <1>3, <1>7
<1>9. ASSUME NEW d \in Conns
      PROVE  Increases(out'[d]) /\ \A i \in DOMAIN out'[d] : out'[d][i] \in 1 .. got'[d]
  <2>1. Increases(out[d]) /\ \A i \in DOMAIN out[d] : out[d][i] \in 1 .. got[d]
    BY DEF ServeInv, ChunkInv
  <2> QED BY <1>1, <1>2, <1>4, <2>1
<1> QED BY <1>c, <1>1, <1>3, <1>5, <1>6, <1>8, <1>9 DEF ServeInv, ChunkInv

(* A write moves the beginning of the buffer to the client.                *)
LEMMA ChunkSent ==
  ASSUME ServeInv, Sends PROVE ChunkInv'
<1>c. PICK c \in Conns : c = cur BY DEF Sends, ServeInv, ServeLoopInv, Serving, Open
<1> DEFINE n == Least(Room(c), Len(wbuf))
           x == SubSeq(wbuf, 0 + 1, 0 + n)
<1>0. n \in Nat /\ n <= Len(wbuf) BY <1>c, SendBounds
<1>1. /\ out' = [out EXCEPT ![c] = @ \o x] /\ UNCHANGED <<got, cur>>
      /\ pc = "write" /\ pc' = "read" /\ wbuf' = << >>
  <2>1. 0 + 1 = 1 /\ 0 + n = n BY <1>0
  <2> QED BY <1>c, <2>1 DEF Sends
<1> HIDE DEF n
<1>2. /\ out[c] \in Seq(Nat) /\ wbuf \in Seq(Nat) /\ Increases(out[c]) /\ Increases(wbuf)
      /\ \A j \in DOMAIN wbuf : wbuf[j] \in 1 .. got[c]
      /\ \A i \in DOMAIN out[c] : out[c][i] \in 1 .. got[c]
      /\ \A i \in DOMAIN out[c], j \in DOMAIN wbuf : out[c][i] < wbuf[j]
  BY <1>c, <1>1 DEF ServeInv, ChunkInv
<1>3. Slice(x, wbuf, 0, n)
  <2>1. 0 \in Nat /\ 0 + n <= Len(wbuf) BY <1>0
  <2> QED BY <1>0, <1>2, <2>1, SliceFacts
<1> HIDE DEF x
<1>4. /\ x \in Seq(Nat) /\ DOMAIN x = 1 .. n
      /\ \A i \in 1 .. n : i \in DOMAIN wbuf /\ x[i] = wbuf[i]
  BY <1>3 DEF Slice
<1>5. Increases(x) BY <1>2, <1>4 DEF Increases
<1>6. \A i \in DOMAIN out[c], j \in DOMAIN x : out[c][i] < x[j] BY <1>2, <1>4
<1>y. PICK y : y = out[c] \o x /\ Joined(y, out[c], x) BY <1>2, <1>4, CatFacts
<1>7. Increases(y) BY <1>2, <1>4, <1>5, <1>6, <1>y, CatIncreases
<1>8. y \in Seq(Nat) /\ \A i \in DOMAIN y : y[i] \in 1 .. got[c]
  BY <1>2, <1>4, <1>y DEF Joined
<1>9. out \in [Conns -> Seq(Nat)] BY DEF ServeInv, ChunkInv
<1>10. out' = [out EXCEPT ![c] = y] BY <1>1, <1>y
<1>11. ASSUME NEW d \in Conns
       PROVE  Increases(out'[d]) /\ \A i \in DOMAIN out'[d] : out'[d][i] \in 1 .. got'[d]
  <2>1. CASE d = c BY <1>1, <1>7, <1>8, <1>9, <1>10, <2>1
  <2>2. CASE d # c BY <1>1, <1>9, <1>10, <2>2 DEF ServeInv, ChunkInv
  <2> QED BY <2>1, <2>2
<1>12. out' \in [Conns -> Seq(Nat)] BY <1>8, <1>9, <1>10
<1>13. wbuf' \in Seq(Nat) /\ pc' # "write" BY <1>1
<1> QED BY <1>11, <1>12, <1>13 DEF ChunkInv

LEMMA ServeStays == ServeInv /\ ServeStep => ServeInv'
<1> SUFFICES ASSUME ServeInv, ServeStep PROVE ServeInv' OBVIOUS
<1>1. CASE Fetches \/ Sends
  BY <1>1, ServeKernel, ServeLoop, ChunkFetched, ChunkSent DEF ServeInv
<1>2. CASE ~(Fetches \/ Sends)
  <2>1. got' = got /\ out' = out /\ wbuf' \in {wbuf, << >>}
        /\ (pc' = "write" => pc = "write" /\ UNCHANGED <<cur, wbuf>>)
    BY <1>2, KernelClient
    DEF ServeStep, Pauses, WaitSome, Hands, Drops, CloseSocket, Stays, Admits, Refuses, Quits,
        Peers, kernelVars, sockVars, ServeInv
  <2>2. wbuf' \in Seq(Nat)
    <3>1. wbuf \in Seq(Nat) /\ << >> \in Seq(Nat) BY DEF ServeInv, ChunkInv
    <3> QED BY <2>1, <3>1
  <2>3. ASSUME pc' = "write"
        PROVE  /\ Increases(wbuf') /\ \A j \in DOMAIN wbuf' : wbuf'[j] \in 1 .. got'[cur']
               /\ \A i \in DOMAIN out'[cur'], j \in DOMAIN wbuf' : out'[cur'][i] < wbuf'[j]
    <3>1. pc = "write" /\ UNCHANGED <<cur, wbuf, out, got>> BY <2>1, <2>3
    <3> QED BY <3>1 DEF ServeInv, ChunkInv
  <2>4. ChunkInv' BY <2>1, <2>2, <2>3 DEF ServeInv, ChunkInv
  <2> QED BY <2>4, ServeKernel, ServeLoop DEF ServeInv
<1> QED BY <1>1, <1>2

(* A write that takes nothing is a step the client cannot see.             *)
LEMMA ServeEchoes ==
  ASSUME ServeInv, ServeInv', Sends
  PROVE  Service!Echo(cur) \/ UNCHANGED <<sock, got, out>>
<1>c. PICK c \in Conns : c = cur /\ sock[c] = "open"
  BY DEF Sends, ServeInv, ServeLoopInv, Serving, Open
<1> DEFINE n == Least(Room(c), Len(wbuf))
           x == SubSeq(wbuf, 0 + 1, 0 + n)
<1>1. n \in Nat /\ n <= Len(wbuf) /\ wbuf \in Seq(Nat) /\ out \in [Conns -> Seq(Nat)]
  BY <1>c, SendBounds DEF ServeInv, ChunkInv
<1>2. out' = [out EXCEPT ![c] = @ \o x] /\ UNCHANGED <<sock, got>>
  <2>1. 0 + 1 = 1 /\ 0 + n = n BY <1>1
  <2> QED BY <1>c, <2>1 DEF Sends
<1> HIDE DEF n
<1>3. Slice(x, wbuf, 0, n)
  <2>1. 0 \in Nat /\ 0 + n <= Len(wbuf) BY <1>1
  <2> QED BY <1>1, <2>1, SliceFacts
<1> HIDE DEF x
<1>4. x \in Seq(Nat) /\ Len(x) = n BY <1>3 DEF Slice
<1>5. out[c] \in Seq(Nat) /\ out'[c] = out[c] \o x /\ out' = [out EXCEPT ![c] = out'[c]]
  BY <1>1, <1>2
<1>6. Joined(out'[c], out[c], x) BY <1>4, <1>5, CatFacts
<1>7. CASE n = 0
  <2>1. out[c] \o x = out[c] BY <1>4, <1>5, <1>7
  <2> QED BY <1>1, <1>2, <1>5, <2>1
<1>8. CASE n > 0
  <2>1. Len(out'[c]) > Len(out[c]) BY <1>4, <1>5, <1>6, <1>8 DEF Joined
  <2>2. SubSeq(out'[c], 1, Len(out[c])) = out[c] BY <1>4, <1>5, PrefixOfCat
  <2>3. Increases(out'[c]) /\ \A i \in DOMAIN out'[c] : out'[c][i] \in 1 .. got[c]
    BY <1>2 DEF ServeInv, ChunkInv
  <2>4. Status[c] = "open" /\ Status' = Status BY <1>2, <1>c, StatusKept DEF Status
  <2>5. Service!Increasing(out'[c]) BY <2>3 DEF Service!Increasing, Increases
  <2>6. Service!Echo(c)
    BY <1>2, <1>5, <2>1, <2>2, <2>3, <2>4, <2>5 DEF Service!Echo, Status
  <2> QED BY <1>c, <2>6
<1> QED BY <1>1, <1>7, <1>8

LEMMA ServeImplements ==
  ASSUME ServeInv, ServeInv', ServeStep
  PROVE  [Service!ContractNext]_(Service!contractVars)
<1>c. ASSUME NEW c \in Conns,
             Service!OpenConn(c) \/ Service!Receive(c) \/ Service!Echo(c) \/ Service!CloseConn(c)
      PROVE  Service!ContractNext
  BY <1>c DEF Service!ContractNext
<1>u. UNCHANGED <<sock, got, out>> => UNCHANGED Service!contractVars
  BY Stutters, StatusKept DEF ViewKept
<1>h. pc \in Serving => cur \in Conns /\ sock[cur] = "open"
  BY DEF ServeInv, ServeLoopInv, Open
<1>k. KernelInv BY DEF ServeInv
<1>1. CASE Pauses \/ Stays \/ \E e \in batch : Hands(e)
  BY <1>1, <1>u DEF Pauses, WaitSome, Stays, Hands, kernelVars, sockVars
<1>2. ASSUME NEW e \in batch, Drops(e) PROVE Service!ContractNext
  <2>1. e.who \in Conns /\ sock[e.who] = "open"
    BY <1>2 DEF Drops, ServeInv, ServeLoopInv, Open
  <2> QED BY <1>2, <1>c, <1>k, <2>1, Closes DEF Drops
<1>3. ASSUME NEW c \in Conns, Admits(c) PROVE Service!ContractNext
  BY <1>3, <1>c, <1>k, Opens DEF Admits
<1>4. ASSUME NEW c \in Conns, Refuses(c) PROVE Service!ContractNext
  BY <1>4, <1>c, <1>k, Closes DEF Refuses
<1>5. CASE Fetches
  <2>1. cur \in Conns BY <1>5, <1>h DEF Fetches, Serving
  <2> DEFINE n == Least(Unread(cur), BufSize)
  <2>2. n \in Nat /\ got \in [Conns -> Nat]
    BY <1>k, <2>1, ReadBounds DEF KernelInv, KernelOK
  <2>3. got' = [got EXCEPT ![cur] = @ + n] /\ UNCHANGED <<sock, out>>
    BY <1>5 DEF Fetches
  <2>4. CASE n = 0
    <3>1. got' = got BY <2>1, <2>2, <2>3, <2>4
    <3> QED BY <1>u, <2>3, <3>1
  <2>5. CASE n > 0
    BY <1>5, <1>c, <1>h, <1>k, <2>1, <2>5, Receives DEF Fetches, Serving
  <2> QED BY <2>2, <2>4, <2>5
<1>6. CASE Quits BY <1>6, <1>c, <1>h, <1>k, Closes DEF Quits
<1>7. CASE Sends
  <2>1. cur \in Conns BY <1>7, <1>h DEF Sends, Serving
  <2> QED BY <1>7, <1>c, <1>u, <2>1, ServeEchoes
<1>8. ASSUME NEW c \in Conns, Peers(c) PROVE UNCHANGED Service!contractVars
  <2>1. /\ UNCHANGED <<got, out>>
        /\ \A d \in Conns : \/ sock'[d] = sock[d]
                            \/ sock[d] = "none" /\ sock'[d] = "backlog"
    BY <1>8, <1>k, KernelClient DEF Peers
  <2>2. Status' = Status BY <2>1 DEF Status
  <2> QED BY <2>1, <2>2, Stutters DEF ViewKept
<1> QED BY <1>1, <1>2, <1>3, <1>4, <1>5, <1>6, <1>7, <1>8 DEF ServeStep

(* epoll_server.c implements the same contract with one buffer for all     *)
(* clients: whatever its short writes leave out, nothing comes back twice, *)
(* out of order, or to another client.                                     *)
THEOREM UnbufferedImplementsContract == Unbuffered!Spec => ImplementsContract
<1>1. Unbuffered!Init => Service!ContractInit
  BY DEF Unbuffered!Init, Unbuffered!LoopInit, Unbuffered!KernelInit, Service!ContractInit
<1>2. ServeInv /\ [Unbuffered!Next]_(Unbuffered!vars) => ServeInv'
  BY UnbufferedServes, ServeStays
<1>3. ServeInv /\ ServeInv' /\ [Unbuffered!Next]_(Unbuffered!vars)
        => [Service!ContractNext]_(Service!contractVars)
  BY UnbufferedServes, ServeImplements
<1> QED
  BY ServeStart, <1>1, <1>2, <1>3, PTL
  DEF Unbuffered!Spec, ImplementsContract, Service!Contract
===============================================================================
