------------------------------ MODULE WriteBuffers ------------------------------
(***************************************************************************)
(* client_state_t and the handlers epoll_buffered_server.c and             *)
(* epoll_visual_server.c share: handle_client_read appends what it reads   *)
(* to the client's write buffer, flush_write_buffer writes it out.  As in  *)
(* EventLoop the operators are the common part of the steps.               *)
(*                                                                         *)
(* The buffers hold stream positions; write_len is Len(wbuf).              *)
(***************************************************************************)
EXTENDS EventLoop

CONSTANT BufSize  \* BUFFER_SIZE: read_temp and write_buf (4096)

ASSUME WriteBuffersAssumption == BufSize \in Nat \ {0}

VARIABLES
  then,  \* where flush_write_buffer returns to: "read" or "dispatch"
  wbuf,  \* client->write_buf[0 .. write_len)
  wpos,  \* client->write_pos
  lost,  \* history: bytes read that did not fit into write_buf
  out    \* history: positions echoed

bufferVars == <<wbuf, wpos, lost, out>>

ToWrite(c) == Len(wbuf[c]) - wpos[c]

BuffersInit ==
  /\ LoopInit
  /\ then = "dispatch"
  /\ wbuf = [c \in Conns |-> << >>] /\ wpos = [c \in Conns |-> 0]
  /\ lost = [c \in Conns |-> 0] /\ out = [c \in Conns |-> << >>]

Clear(c) == wbuf' = [wbuf EXCEPT ![c] = << >>] /\ wpos' = [wpos EXCEPT ![c] = 0]

(* free_client: epoll_ctl DEL, close, free.                                *)
FreeState(c) == Release(c) /\ Clear(c) /\ UNCHANGED <<then, lost, out>>

(* The EPOLLOUT event: flush; then read, if there is input as well.        *)
EnterFlush(e) ==
  /\ IsOut(e) /\ Enter(e, "flush")
  /\ then' = IF e.in THEN "read" ELSE "dispatch"
  /\ UNCHANGED bufferVars

EnterRead(e) ==
  /\ IsIn(e) /\ ~e.out /\ Enter(e, "read")
  /\ UNCHANGED <<then, bufferVars>>
-----------------------------------------------------------------------------
(* handle_client_read: one read, of which the first `fits' bytes are       *)
(* copied to the write buffer; flush_write_buffer then returns to `next'.  *)
ReadCall(fits, next) ==
  LET c == cur
      n == Least(Unread(c), BufSize)
  IN /\ pc = "read" /\ n > 0
     /\ got' = [got EXCEPT ![c] = @ + n]
     /\ wbuf' = [wbuf EXCEPT ![c] = @ \o [i \in 1 .. fits |-> got[c] + i]]
     /\ lost' = [lost EXCEPT ![c] = @ + (n - fits)]
     /\ pc' = "flush" /\ then' = next
     /\ UNCHANGED <<sock, peer, sent, inflight, epollVars, batch, cur, stranded, wpos, out>>

Fitting == Least(Least(Unread(cur), BufSize), BufSize - Len(wbuf[cur]))

ReadReturns ==
  /\ pc = "read" /\ ~Readable(cur)
  /\ pc' = "dispatch"
  /\ UNCHANGED <<kernelVars, batch, cur, stranded, then, bufferVars>>

(* End of file, or any other error.                                        *)
ReadFails ==
  /\ pc = "read"
  /\ (peer[cur] = "fin" /\ Unread(cur) = 0) \/ IsReset(cur)
  /\ FreeState(cur)
  /\ UNCHANGED batch
-----------------------------------------------------------------------------
(* flush_write_buffer: one write of the bytes behind `from'.  A write that *)
(* takes less than it is given leaves SOCK_NOSPACE set, as EAGAIN does.    *)
WriteCall(from) ==
  LET c == cur
      n == Least(Room(c), ToWrite(c))
  IN /\ pc = "flush" /\ n > 0 /\ ~IsReset(c)
     /\ wpos' = [wpos EXCEPT ![c] = @ + n]
     /\ inflight' = [inflight EXCEPT ![c] = @ + n]
     /\ nospace' = [nospace EXCEPT ![c] = @ \/ n < ToWrite(c)]
     /\ out' = [out EXCEPT ![c] = @ \o SubSeq(wbuf[c], from + 1, from + n)]
     /\ UNCHANGED <<sock, peer, sent, got, interest, ready, loopVars, then, wbuf, lost>>

WouldBlock(label) ==
  /\ pc = "flush" /\ ToWrite(cur) > 0 /\ Room(cur) = 0 /\ ~IsReset(cur)
  /\ nospace' = [nospace EXCEPT ![cur] = TRUE]
  /\ pc' = label
  /\ UNCHANGED <<sockVars, interest, ready, batch, cur, stranded, then, bufferVars>>

(* EPOLL_CTL_MOD to EPOLLIN | EPOLLOUT, one call after the failed write.   *)
Subscribe ==
  /\ pc = "arm"
  /\ EpollCtl(cur, {"in", "out"})
  /\ pc' = then
  /\ UNCHANGED <<sockVars, batch, cur, stranded, then, bufferVars>>

(* Fully drained: reset the offsets and return; EPOLL_CTL_MOD back to      *)
(* EPOLLIN if `unsubscribe'.                                               *)
FlushReturns(unsubscribe) ==
  /\ pc = "flush" /\ ToWrite(cur) = 0
  /\ Clear(cur)
  /\ IF unsubscribe THEN EpollCtl(cur, {"in"}) ELSE UNCHANGED epollVars
  /\ pc' = then
  /\ UNCHANGED <<sockVars, batch, cur, stranded, then, lost, out>>

(* ECONNRESET: flush_write_buffer frees the client.  A caller that goes on *)
(* to read uses the freed memory: its read fails, the second free_client   *)
(* ends in an abort of the allocator.                                      *)
FlushFails ==
  /\ pc = "flush" /\ ToWrite(cur) > 0 /\ peer[cur] = "rst"
  /\ CloseSocket(cur) /\ Clear(cur)
  /\ pc' = IF then = "read" THEN "dead" ELSE "dispatch"
  /\ UNCHANGED <<batch, cur, stranded, then, lost, out>>

(* EPIPE comes with SIGPIPE, which is not ignored: the process ends.       *)
Killed ==
  /\ pc = "flush" /\ ToWrite(cur) > 0 /\ peer[cur] = "pipe"
  /\ pc' = "dead"
  /\ UNCHANGED <<kernelVars, batch, cur, stranded, then, bufferVars>>
-----------------------------------------------------------------------------
(* Types, and the bounds the C types do not state: write_pos never passes  *)
(* write_len, write_len never the end of write_buf, and a handler never    *)
(* works on a client that is closed.                                       *)
TypeOK ==
  /\ LoopOK
  /\ pc \in {"wait", "dispatch", "accept", "read", "flush", "arm", "dead"}
  /\ then \in {"read", "dispatch"}
  /\ pc \in {"read", "flush", "arm"} => cur \in Open
  /\ \A c \in Conns : wpos[c] \in 0 .. Len(wbuf[c]) /\ Len(wbuf[c]) <= BufSize

(* Nothing is lost or repeated but what did not fit: the bytes echoed and  *)
(* then the bytes still to write are bytes read, in the order sent, and    *)
(* with the bytes dropped they are all of them, however reads, short       *)
(* writes and the resets of the offsets alternate.                         *)
Stream(c) == out[c] \o SubSeq(wbuf[c], wpos[c] + 1, Len(wbuf[c]))
EveryByteAccounted ==
  \A c \in Open :
    /\ \A i, j \in DOMAIN Stream(c) : i < j => Stream(c)[i] < Stream(c)[j]
    /\ \A i \in DOMAIN Stream(c) : Stream(c)[i] \in 1 .. got[c]
    /\ Len(Stream(c)) + lost[c] = got[c]

(* When the server is about to block in epoll_wait, every connection it    *)
(* still owes something has an event coming: unread input and unaccepted   *)
(* connections are announced; and EPOLLOUT is subscribed exactly for the   *)
(* clients with unsent output, which are ready or sure to be woken when    *)
(* space frees up.  This is what reading and writing until EAGAIN, and     *)
(* subscribing by a second system call, must achieve under EPOLLET.        *)
NoLostWakeup ==
  /\ InputAnnounced
  /\ pc = "wait" =>
       \A c \in Open :
         /\ "out" \in interest[c] <=> ToWrite(c) > 0
         /\ ToWrite(c) > 0 => c \in ready \/ (nospace[c] /\ Room(c) = 0)

(* A byte is dropped only from a client that has been found slow: if       *)
(* EPOLLOUT is not subscribed the buffer is empty and takes a whole read.  *)
DropsOnlyUnderBackpressure ==
  [][\A c \in Conns : lost'[c] > lost[c] => "out" \in interest[c]]_<<lost, interest>>

(* In-order, at-most-once echo, and silence after the close.               *)
Service == INSTANCE EchoContract WITH
  status <- [c \in Conns |-> IF sock[c] \in {"none", "backlog"} THEN "new" ELSE sock[c]],
  received <- got, echoed <- out
ImplementsContract == Service!Contract

(* With clients that read what they are sent, what is buffered gets out.   *)
(* A flood that keeps the loop reading one client for ever (EpollServer,    *)
(* InputIsRead) is not among what the clients of this module do.           *)
BufferDrains == \A c \in Conns : ToWrite(c) > 0 ~> (ToWrite(c) = 0 \/ Gone(c))
===============================================================================
