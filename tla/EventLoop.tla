-------------------------------- MODULE EventLoop --------------------------------
(***************************************************************************)
(* What epoll_server.c, epoll_buffered_server.c and epoll_visual_server.c  *)
(* have in common: one thread, main's loop over epoll_wait and its events, *)
(* and handle_accept.  The operators are the part of a step that concerns  *)
(* the kernel and the loop; each server adds what it does to its own       *)
(* state.                                                                  *)
(*                                                                         *)
(* Atomicity.  A step is one system call with the computation up to the    *)
(* next one: clients act between any two.  EINTR only repeats epoll_wait   *)
(* and is left out.                                                        *)
(***************************************************************************)
EXTENDS EpollKernel

CONSTANTS MaxEvents,  \* MAX_EVENTS, events one epoll_wait returns (64)
          Faults      \* may accept, fcntl or epoll_ctl ADD fail?

ASSUME EventLoopAssumption == MaxEvents \in Nat \ {0} /\ Faults \in BOOLEAN

VARIABLES
  pc,       \* where the server stands
  batch,    \* events of the last epoll_wait not yet handled
  cur,      \* the client being handled
  stranded  \* history: accept failed with connections in the backlog

loopVars == <<pc, batch, cur, stranded>>

Least(a, b) == IF a < b THEN a ELSE b

LoopInit ==
  KernelInit /\ pc = "wait" /\ batch = {} /\ cur = Listener /\ stranded = FALSE
-----------------------------------------------------------------------------
(* epoll_wait: poll up to MaxEvents items of the ready list.  Items with   *)
(* no event left are dropped; if none is left the call goes on waiting.    *)
Event(x) == [who |-> x,
             in  |-> x = Listener \/ (x \in Conns /\ Readable(x)),
             out |-> x \in Conns /\ "out" \in interest[x] /\ Writable(x),
             hup |-> x \in Conns /\ HungUp(x)]

WaitCall ==
  /\ pc = "wait" /\ ready # {}
  /\ \E S \in SUBSET ready :
       /\ Cardinality(S) = Least(Cardinality(ready), MaxEvents)
       /\ batch' = {e \in {Event(x) : x \in S} : e.in \/ e.out \/ e.hup}
       /\ ready' = ready \ S
       /\ nospace' = [c \in Conns |->
                        nospace[c] \/ (c \in S /\ "out" \in interest[c] /\ ~Writable(c))]
  /\ pc' = IF batch' = {} THEN "wait" ELSE "dispatch"
  /\ UNCHANGED <<sockVars, interest, cur, stranded>>

(* The loop over events[], in any order, as they arrived in any order.     *)
IsAccept(e) == e.who = Listener
IsHangup(e) == e.who # Listener /\ e.hup
IsOut(e)    == e.who # Listener /\ ~e.hup /\ e.out
IsIn(e)     == e.who # Listener /\ ~e.hup /\ e.in

Take(e) == pc = "dispatch" /\ e \in batch /\ batch' = batch \ {e}

(* handle_accept or a client's handler is called.                          *)
Enter(e, label) ==
  /\ pc' = label /\ cur' = e.who
  /\ UNCHANGED <<kernelVars, stranded>>

(* epoll_ctl DEL and close of the client an event or a call reported.      *)
Release(c) ==
  /\ CloseSocket(c)
  /\ pc' = "dispatch"
  /\ UNCHANGED <<cur, stranded>>

BatchDone ==
  /\ pc = "dispatch" /\ batch = {}
  /\ pc' = "wait"
  /\ UNCHANGED <<kernelVars, batch, cur, stranded>>
-----------------------------------------------------------------------------
(* handle_accept                                                           *)
AddConn(c) ==
  /\ pc = "accept" /\ sock[c] = "backlog"
  /\ sock' = [sock EXCEPT ![c] = "open"]
  /\ EpollCtl(c, {"in"})
  /\ UNCHANGED <<peer, sent, got, inflight, loopVars>>

(* set_nonblocking or epoll_ctl ADD fails: the connection is closed.       *)
DropConn(c) ==
  /\ pc = "accept" /\ Faults /\ sock[c] = "backlog"
  /\ CloseSocket(c)
  /\ UNCHANGED loopVars

(* EAGAIN, or any other error of accept: both end the loop.                *)
AcceptReturns ==
  /\ pc = "accept"
  /\ Backlog = {} \/ Faults
  /\ stranded' = (stranded \/ Backlog # {})
  /\ pc' = "dispatch"
  /\ UNCHANGED <<kernelVars, batch, cur>>

(* Mutant: one accept per event.                                           *)
AcceptReturnsEarly ==
  /\ pc = "accept"
  /\ pc' = "dispatch"
  /\ UNCHANGED <<kernelVars, batch, cur, stranded>>
-----------------------------------------------------------------------------
LoopOK ==
  /\ KernelOK
  /\ \A e \in batch : e.who \in Open \cup {Listener}
  /\ cur \in Conns \cup {Listener} /\ stranded \in BOOLEAN

(* When the server is about to block in epoll_wait, every connection with  *)
(* unread input is in the ready list, and so is the listener if there are  *)
(* connections to accept, unless accept failed on them: under EPOLLET they *)
(* raise no second event.                                                  *)
InputAnnounced ==
  pc = "wait" => /\ \A c \in Open : Readable(c) => c \in ready
                 /\ Backlog # {} => Listener \in ready \/ stranded

(* A client is gone for the server when it is closed or the process ended. *)
Gone(c) == pc = "dead" \/ sock[c] = "closed"
===============================================================================
