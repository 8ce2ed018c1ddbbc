---------------------------- MODULE EpollVisualServer ----------------------------
(***************************************************************************)
(* epoll_visual_server.c: the edge-triggered echo server with write        *)
(* buffers, a flag epollout_armed for its EPOLLOUT subscription, and the   *)
(* telemetry index.html consumes.  epoll_wait_start, epoll_wait_done,      *)
(* epollout_triggered and buffer_cleared have no branch in index.html and  *)
(* are left out.                                                           *)
(***************************************************************************)
EXTENDS WriteBuffers, Dashboard

VARIABLES
  fd,     \* client->fd
  armed,  \* client->epollout_armed
  dash    \* index.html's clientStates after the events printed so far

visualVars == <<fd, armed, dash>>
vars == <<kernelVars, loopVars, then, bufferVars, visualVars>>

(* accept returns the lowest free descriptor; 0 .. 4 are taken by stdio,   *)
(* the listener and epoll.                                                 *)
FirstFD == 5
LowestFD == CHOOSE f \in FirstFD .. FirstFD + Cardinality(Open) :
              /\ \A c \in Open : fd[c] # f
              /\ \A g \in FirstFD .. f - 1 : \E c \in Open : fd[c] = g

Emit(ev) == dash' = HandleEvent(dash, ev)
(* The events that carry write_len and write_pos, after the step.          *)
EmitRead(c)  == Emit(ReadEvent(fd[c], Len(wbuf'[c]), wpos'[c]))
EmitWrite(c) == Emit(WriteEvent(fd[c], Len(wbuf'[c]), wpos'[c]))
EmitBackpressure(c) ==
  Emit(BackpressureEvent(fd[c], armed'[c], Len(wbuf'[c]), wpos'[c]))

Init ==
  /\ BuffersInit
  /\ fd = [c \in Conns |-> 0] /\ armed = [c \in Conns |-> FALSE]
  /\ dash = NoClients
-----------------------------------------------------------------------------
EpollWait == WaitCall /\ UNCHANGED <<then, bufferVars, visualVars>>

(* free_client also prints the close event.                                *)
FreeClient(c) ==
  /\ Emit(Closed(fd[c]))
  /\ armed' = [armed EXCEPT ![c] = FALSE]
  /\ UNCHANGED fd

(* Mutant: close without the close event.                                  *)
DispatchHangupSilent(e) ==
  /\ IsHangup(e) /\ FreeState(e.who)
  /\ armed' = [armed EXCEPT ![e.who] = FALSE]
  /\ UNCHANGED <<fd, dash>>

DispatchAccept(e) ==
  IsAccept(e) /\ Enter(e, "accept") /\ UNCHANGED <<then, bufferVars, visualVars>>
DispatchHangup(e) == IsHangup(e) /\ FreeState(e.who) /\ FreeClient(e.who)
DispatchOut(e)    == EnterFlush(e) /\ UNCHANGED visualVars
DispatchIn(e)     == EnterRead(e) /\ UNCHANGED visualVars

Dispatch ==
  \E e \in batch :
    /\ Take(e)
    /\ DispatchAccept(e) \/ DispatchHangup(e) \/ DispatchOut(e) \/ DispatchIn(e)

DispatchEnds == BatchDone /\ UNCHANGED <<then, bufferVars, visualVars>>
-----------------------------------------------------------------------------
AcceptConn(c) ==
  /\ AddConn(c)
  /\ fd' = [fd EXCEPT ![c] = LowestFD]
  /\ Emit(Accepted(LowestFD))
  /\ UNCHANGED <<then, bufferVars, armed>>

SetupFails(c) == DropConn(c) /\ UNCHANGED <<then, bufferVars, visualVars>>

AcceptEnds == AcceptReturns /\ UNCHANGED <<then, bufferVars, visualVars>>
-----------------------------------------------------------------------------
(* handle_client_read.  Mutant: what is read is not cut to the space left. *)
ReadDataUncut == /\ ReadCall(Least(Unread(cur), BufSize), "read")
                 /\ EmitRead(cur) /\ UNCHANGED <<fd, armed>>

ReadData   == ReadCall(Fitting, "read") /\ EmitRead(cur) /\ UNCHANGED <<fd, armed>>
ReadEagain == ReadReturns /\ UNCHANGED visualVars
ReadEnds   == ReadFails /\ FreeClient(cur)
-----------------------------------------------------------------------------
(* flush_write_buffer.                                                     *)
Write == WriteCall(wpos[cur]) /\ EmitWrite(cur) /\ UNCHANGED <<fd, armed>>

(* Mutant: a full send queue does not lead to EPOLLOUT.                    *)
WriteEagainUnarmed == WouldBlock(then) /\ UNCHANGED visualVars

WriteEagain == WouldBlock(IF armed[cur] THEN then ELSE "arm") /\ UNCHANGED visualVars

Arm ==
  /\ Subscribe
  /\ armed' = [armed EXCEPT ![cur] = TRUE]
  /\ EmitBackpressure(cur) /\ UNCHANGED fd

Drained ==
  /\ FlushReturns(armed[cur])
  /\ armed' = [armed EXCEPT ![cur] = FALSE]
  /\ IF armed[cur] THEN EmitBackpressure(cur) ELSE UNCHANGED dash
  /\ UNCHANGED fd

WriteFails == FlushFails /\ FreeClient(cur)
BrokenPipe == Killed /\ UNCHANGED visualVars
-----------------------------------------------------------------------------
Server ==
  \/ EpollWait \/ Dispatch \/ DispatchEnds
  \/ (\E c \in Conns : AcceptConn(c) \/ SetupFails(c)) \/ AcceptEnds
  \/ ReadData \/ ReadEagain \/ ReadEnds
  \/ Write \/ WriteEagain \/ Arm \/ Drained \/ WriteFails \/ BrokenPipe

ClientStep(c) ==
  pc # "dead" /\ Client(c) /\ UNCHANGED <<loopVars, then, bufferVars, visualVars>>

Next == Server \/ \E c \in Conns : ClientStep(c)
Spec == Init /\ [][Next]_vars

(* The server process runs; the clients read what they are sent.           *)
FairSpec ==
  /\ Spec /\ WF_vars(Server)
  /\ \A c \in Conns :
       WF_vars(/\ pc # "dead" /\ Recv(c)
               /\ UNCHANGED <<loopVars, then, bufferVars, visualVars>>)
-----------------------------------------------------------------------------
(* The dashboard lists exactly the open descriptors, and shows for each    *)
(* the bytes waiting in its buffer and whether the kernel has been asked   *)
(* for EPOLLOUT; also when a closed client's descriptor is given to a new  *)
(* one.                                                                    *)
DashboardMirrors ==
  pc # "dead" =>
    /\ DOMAIN dash = {fd[c] : c \in Open}
    /\ \A c, d \in Open : fd[c] = fd[d] => c = d
    /\ \A c \in Open : /\ Pending(dash[fd[c]]) = ToWrite(c)
                       /\ dash[fd[c]].epollout <=> "out" \in interest[c]
===============================================================================
