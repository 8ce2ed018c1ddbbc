------------------------------- MODULE EpollServer -------------------------------
(***************************************************************************)
(* epoll_server.c: the edge-triggered echo server without write buffers.   *)
(* handle_client_data reads until EAGAIN and writes each chunk once; what  *)
(* a write does not take is gone.                                          *)
(*                                                                         *)
(* A client may flood: send without end, at least as fast as it is read.   *)
(* While it does, read finds data again and again and the loop over it     *)
(* does not end.  The bytes of a flood, and their echo, are sent after the *)
(* MaxSend numbered ones and are not numbered.                             *)
(***************************************************************************)
EXTENDS EventLoop

CONSTANT BufSize  \* BUFFER_SIZE of handle_client_data's buffer (1024)

ASSUME EpollServerAssumption == BufSize \in Nat \ {0}

VARIABLES
  buffer,  \* buffer[0 .. bytes_read): positions read and not yet offered to write
  out,     \* history: positions echoed
  flood    \* clients that send without end

vars == <<kernelVars, loopVars, buffer, out, flood>>

Init == LoopInit /\ buffer = << >> /\ out = [c \in Conns |-> << >>] /\ flood = {}
-----------------------------------------------------------------------------
EpollWait == WaitCall /\ UNCHANGED <<buffer, out, flood>>

(* Mutant: a hang-up is taken from the batch and left to nobody.           *)
DispatchHangupIgnored(e) ==
  /\ IsHangup(e) /\ pc' = "dispatch"
  /\ UNCHANGED <<kernelVars, cur, stranded, buffer, out, flood>>

DispatchAccept(e) == IsAccept(e) /\ Enter(e, "accept") /\ UNCHANGED <<buffer, out, flood>>
DispatchHangup(e) == IsHangup(e) /\ Release(e.who) /\ UNCHANGED <<buffer, out, flood>>
DispatchIn(e)     == IsIn(e) /\ Enter(e, "read") /\ UNCHANGED <<buffer, out, flood>>

Dispatch == \E e \in batch :
              Take(e) /\ (DispatchAccept(e) \/ DispatchHangup(e) \/ DispatchIn(e))

(* Mutant: `break' instead of `continue', the rest of the batch is dropped. *)
DispatchEndsEarly ==
  /\ pc = "dispatch" /\ pc' = "wait" /\ batch' = {}
  /\ UNCHANGED <<kernelVars, cur, stranded, buffer, out, flood>>

DispatchEnds == BatchDone /\ UNCHANGED <<buffer, out, flood>>

AcceptConn(c) == AddConn(c) /\ UNCHANGED <<buffer, out, flood>>
SetupFails(c) == DropConn(c) /\ UNCHANGED <<buffer, out, flood>>
AcceptEndsEarly == AcceptReturnsEarly /\ UNCHANGED <<buffer, out, flood>>
AcceptEnds    == AcceptReturns /\ UNCHANGED <<buffer, out, flood>>
-----------------------------------------------------------------------------
(* handle_client_data.  Of a flood there is always a chunk to read.        *)
ReadData ==
  LET c == cur
      n == Least(Unread(c), BufSize)
  IN /\ pc = "read" /\ (n > 0 \/ c \in flood)
     /\ got' = [got EXCEPT ![c] = @ + n]
     /\ buffer' = [i \in 1 .. n |-> got[c] + i]
     /\ pc' = "write"
     /\ UNCHANGED <<sock, peer, sent, inflight, epollVars, batch, cur, stranded, out, flood>>

ReadEagain ==
  /\ pc = "read" /\ ~Readable(cur) /\ cur \notin flood
  /\ pc' = "dispatch"
  /\ UNCHANGED <<kernelVars, batch, cur, stranded, buffer, out, flood>>

(* End of file, or any other error.                                        *)
ReadEnds ==
  /\ pc = "read"
  /\ (peer[cur] = "fin" /\ Unread(cur) = 0) \/ IsReset(cur)
  /\ Release(cur)
  /\ UNCHANGED <<batch, buffer, out, flood>>

(* Mutant: a short write is repeated from the start of the buffer.         *)
WriteAgain ==
  LET c == cur
      n == Least(Room(c), Len(buffer))
  IN /\ pc = "write" /\ ~IsReset(c)
     /\ inflight' = [inflight EXCEPT ![c] = @ + n]
     /\ nospace' = [nospace EXCEPT ![c] = @ \/ n < Len(buffer)]
     /\ out' = [out EXCEPT ![c] = @ \o SubSeq(buffer, 1, n)]
     /\ IF n \in {0, Len(buffer)} THEN buffer' = << >> /\ pc' = "read"
                                  ELSE UNCHANGED <<buffer, pc>>
     /\ UNCHANGED <<sock, peer, sent, got, interest, ready, batch, cur, stranded, flood>>

(* One write; a short one and EAGAIN both lead back to read.               *)
Write ==
  LET c == cur
      n == Least(Room(c), Len(buffer))
  IN /\ pc = "write" /\ ~IsReset(c)
     /\ inflight' = [inflight EXCEPT ![c] = @ + n]
     /\ nospace' = [nospace EXCEPT ![c] = @ \/ n < Len(buffer)]
     /\ out' = [out EXCEPT ![c] = @ \o SubSeq(buffer, 1, n)]
     /\ buffer' = << >>
     /\ pc' = "read"
     /\ UNCHANGED <<sock, peer, sent, got, interest, ready, batch, cur, stranded, flood>>

(* ECONNRESET: close, leave the loop.                                      *)
WriteFails ==
  /\ pc = "write" /\ peer[cur] = "rst"
  /\ Release(cur)
  /\ buffer' = << >>
  /\ UNCHANGED <<batch, out, flood>>

(* EPIPE comes with SIGPIPE, which is not ignored: the process ends.       *)
BrokenPipe ==
  /\ pc = "write" /\ peer[cur] = "pipe"
  /\ pc' = "dead"
  /\ UNCHANGED <<kernelVars, batch, cur, stranded, buffer, out, flood>>
-----------------------------------------------------------------------------
Server ==
  \/ EpollWait \/ Dispatch \/ DispatchEnds
  \/ (\E c \in Conns : AcceptConn(c) \/ SetupFails(c)) \/ AcceptEnds
  \/ ReadData \/ ReadEagain \/ ReadEnds \/ Write \/ WriteFails \/ BrokenPipe

(* A client floods when its last numbered bytes are still to be read; it   *)
(* stops at any time, and does when its end is shut down or reset.         *)
Floods(c) ==
  /\ sock[c] = "open" /\ peer[c] = "open" /\ sent[c] = MaxSend /\ Unread(c) > 0
  /\ c \notin flood /\ flood' = flood \cup {c} /\ UNCHANGED kernelVars
StopsFlooding(c) ==
  /\ c \in flood /\ flood' = flood \ {c} /\ UNCHANGED kernelVars

ClientStep(c) ==
  /\ pc # "dead"
  /\ \/ Client(c) /\ flood' = {d \in flood : peer'[d] = "open"}
     \/ Floods(c) \/ StopsFlooding(c)
  /\ UNCHANGED <<loopVars, buffer, out>>

Next == Server \/ \E c \in Conns : ClientStep(c)
Spec == Init /\ [][Next]_vars

(* The server process runs.  It needs nothing of its clients.              *)
FairSpec == Spec /\ WF_vars(Server)
-----------------------------------------------------------------------------
(* In-order, at-most-once echo, and silence after the close, whatever the  *)
(* short writes leave out.                                                 *)
Service == INSTANCE EchoContract WITH
  status <- [c \in Conns |-> IF sock[c] \in {"none", "backlog"} THEN "new" ELSE sock[c]],
  received <- got, echoed <- out
ImplementsContract == Service!Contract

(* The loop over one client's data serves nobody else while it goes on.    *)
FloodedBy(d) == cur = d /\ d \in flood

(* While the server lives and no other client's flood goes on for ever,    *)
(* what arrives is read, who hangs up is closed, and who dials is accepted *)
(* unless accept failed: the edges that announce them are raised once, and *)
(* all must be taken up in time.  (Conns are finitely many: nobody keeps   *)
(* the loop over accept busy for ever.)                                    *)
InputIsRead ==
  \A c \in Conns :
    \/ (sock[c] = "open" /\ Unread(c) > 0) ~> (Unread(c) = 0 \/ Gone(c))
    \/ \E d \in Conns \ {c} : <>[]FloodedBy(d)
HangupIsClosed ==
  \A c \in Conns :
    \/ (sock[c] = "open" /\ HungUp(c)) ~> Gone(c)
    \/ \E d \in Conns \ {c} : <>[]FloodedBy(d)
DialIsAccepted ==
  \A c \in Conns :
    \/ sock[c] = "backlog" ~> (sock[c] = "open" \/ Gone(c) \/ stranded)
    \/ \E d \in Conns \ {c} : <>[]FloodedBy(d)
===============================================================================
