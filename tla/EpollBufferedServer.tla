--------------------------- MODULE EpollBufferedServer ---------------------------
(***************************************************************************)
(* epoll_buffered_server.c: the edge-triggered echo server with write      *)
(* buffers.  It keeps no record of its EPOLLOUT subscription: every EAGAIN *)
(* and every drained buffer does an EPOLL_CTL_MOD, which also polls the    *)
(* connection anew.                                                        *)
(***************************************************************************)
EXTENDS WriteBuffers

vars == <<kernelVars, loopVars, then, bufferVars>>

Init == BuffersInit
-----------------------------------------------------------------------------
EpollWait == WaitCall /\ UNCHANGED <<then, bufferVars>>

DispatchAccept(e) == IsAccept(e) /\ Enter(e, "accept") /\ UNCHANGED <<then, bufferVars>>
DispatchHangup(e) == IsHangup(e) /\ FreeState(e.who)
DispatchOut(e)    == EnterFlush(e)
DispatchIn(e)     == EnterRead(e)

Dispatch ==
  \E e \in batch :
    /\ Take(e)
    /\ DispatchAccept(e) \/ DispatchHangup(e) \/ DispatchOut(e) \/ DispatchIn(e)

DispatchEnds == BatchDone /\ UNCHANGED <<then, bufferVars>>

AcceptConn(c) == AddConn(c) /\ UNCHANGED <<then, bufferVars>>
SetupFails(c) == DropConn(c) /\ UNCHANGED <<then, bufferVars>>
AcceptEnds    == AcceptReturns /\ UNCHANGED <<then, bufferVars>>

(* Mutants: the size of the read, not of what fits, is added to write_len; *)
(* the write starts at write_buf; EAGAIN does not lead to EPOLLOUT.        *)
ReadDataUncut      == ReadCall(Least(Unread(cur), BufSize), "read")
WriteFromStart     == WriteCall(0)
WriteEagainUnarmed == WouldBlock(then)

ReadData   == ReadCall(Fitting, "read")
ReadEagain == ReadReturns
ReadEnds   == ReadFails

Write       == WriteCall(wpos[cur])
WriteEagain == WouldBlock("arm")
Arm         == Subscribe
Drained     == FlushReturns(TRUE)
WriteFails  == FlushFails
BrokenPipe  == Killed
-----------------------------------------------------------------------------
Server ==
  \/ EpollWait \/ Dispatch \/ DispatchEnds
  \/ (\E c \in Conns : AcceptConn(c) \/ SetupFails(c)) \/ AcceptEnds
  \/ ReadData \/ ReadEagain \/ ReadEnds
  \/ Write \/ WriteEagain \/ Arm \/ Drained \/ WriteFails \/ BrokenPipe

ClientStep(c) == pc # "dead" /\ Client(c) /\ UNCHANGED <<loopVars, then, bufferVars>>

Next == Server \/ \E c \in Conns : ClientStep(c)
Spec == Init /\ [][Next]_vars

(* The server process runs; the clients read what they are sent.           *)
FairSpec ==
  /\ Spec /\ WF_vars(Server)
  /\ \A c \in Conns :
       WF_vars(pc # "dead" /\ Recv(c) /\ UNCHANGED <<loopVars, then, bufferVars>>)
===============================================================================
