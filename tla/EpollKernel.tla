------------------------------- MODULE EpollKernel -------------------------------
(***************************************************************************)
(* The Linux side of an edge-triggered epoll server as the C servers in    *)
(* src/ use it: one listening socket, the connections accepted from it and *)
(* one epoll instance; and the clients at the other end.  The system calls *)
(* are operators for a server's actions, the clients are actions.          *)
(*                                                                         *)
(* Bytes are counted, not named: a connection's bytes are the positions 1, *)
(* 2, ... of the client's stream.                                          *)
(*                                                                         *)
(* Edge triggering.  An item enters the ready list when something happens  *)
(* that its interest set names (data, a FIN or RST; free send space, but   *)
(* only if a write or a poll has found none since), or when epoll_ctl ADD  *)
(* or MOD finds an event pending.  epoll_wait polls each listed item, once, *)
(* and takes it off the list.                                              *)
(***************************************************************************)
EXTENDS Integers, Sequences, FiniteSets

CONSTANTS Conns,     \* connections clients may open
          Listener,  \* the listening socket's place in the ready list
          SendCap,   \* bytes a socket's send queue takes
          MaxSend    \* bound: bytes a client sends on a connection

ASSUME EpollKernelAssumption ==
  /\ Listener \notin Conns
  /\ SendCap \in Nat \ {0} /\ MaxSend \in Nat

VARIABLES
  sock,      \* "none", "backlog", "open", "closed"
  peer,      \* the client's end: "open", "fin", "rst", or "pipe", reset after fin
  sent,      \* bytes the client has sent
  got,       \* bytes the server has read
  inflight,  \* echoed bytes the client has not read
  interest,  \* the epoll interest set, {} if the socket is not in it
  ready,     \* the epoll ready list
  nospace    \* SOCK_NOSPACE: a write or poll found no send space

sockVars  == <<sock, peer, sent, got, inflight>>
epollVars == <<interest, ready, nospace>>
kernelVars == <<sockVars, epollVars>>

KernelInit ==
  /\ sock = [c \in Conns |-> "none"] /\ peer = [c \in Conns |-> "open"]
  /\ sent = [c \in Conns |-> 0] /\ got = [c \in Conns |-> 0]
  /\ inflight = [c \in Conns |-> 0]
  /\ interest = [c \in Conns |-> {}] /\ ready = {}
  /\ nospace = [c \in Conns |-> FALSE]

Open      == {c \in Conns : sock[c] = "open"}
Backlog   == {c \in Conns : sock[c] = "backlog"}
IsReset(c) == peer[c] \in {"rst", "pipe"}
Unread(c) == sent[c] - got[c]
Room(c)   == SendCap - inflight[c]

Readable(c) == Unread(c) > 0 \/ peer[c] # "open"
HungUp(c)   == peer[c] # "open"
Writable(c) == Room(c) > 0 \/ IsReset(c)

(* What a poll of c reports of the events in mask.                         *)
Poll(c, mask) == {e \in mask : \/ e = "in" /\ Readable(c)
                               \/ e = "out" /\ Writable(c)}
-----------------------------------------------------------------------------
(* Something happened on c that an interest in event waits for.            *)
Wake(c, event) == ready' = IF event \in interest[c] THEN ready \cup {c} ELSE ready

(* epoll_ctl ADD and MOD: set the interest and poll.                       *)
EpollCtl(c, mask) ==
  /\ interest' = [interest EXCEPT ![c] = mask]
  /\ ready' = IF Poll(c, mask) # {} THEN ready \cup {c} ELSE ready
  /\ nospace' = [nospace EXCEPT ![c] = @ \/ ("out" \in mask /\ ~Writable(c))]

(* close, after epoll_ctl DEL.                                             *)
CloseSocket(c) ==
  /\ sock' = [sock EXCEPT ![c] = "closed"]
  /\ inflight' = [inflight EXCEPT ![c] = 0]
  /\ interest' = [interest EXCEPT ![c] = {}]
  /\ ready' = ready \ {c}
  /\ nospace' = [nospace EXCEPT ![c] = FALSE]
  /\ UNCHANGED <<peer, sent, got>>
-----------------------------------------------------------------------------
(* The clients.                                                            *)
Dial(c) ==
  /\ sock[c] = "none"
  /\ sock' = [sock EXCEPT ![c] = "backlog"]
  /\ ready' = ready \cup {Listener}
  /\ UNCHANGED <<peer, sent, got, inflight, interest, nospace>>

Send(c) ==
  /\ sock[c] \in {"backlog", "open"} /\ peer[c] = "open"
  /\ \E n \in 1 .. MaxSend - sent[c] : sent' = [sent EXCEPT ![c] = @ + n]
  /\ Wake(c, "in")
  /\ UNCHANGED <<sock, peer, got, inflight, interest, nospace>>

Recv(c) ==
  /\ sock[c] = "open" /\ ~IsReset(c)
  /\ \E n \in 1 .. inflight[c] : inflight' = [inflight EXCEPT ![c] = @ - n]
  /\ IF nospace[c] THEN Wake(c, "out") ELSE UNCHANGED ready
  /\ nospace' = [nospace EXCEPT ![c] = FALSE]
  /\ UNCHANGED <<sock, peer, sent, got, interest>>

(* shutdown or close at the client's end.                                  *)
Fin(c) ==
  /\ sock[c] \in {"backlog", "open"} /\ peer[c] = "open"
  /\ peer' = [peer EXCEPT ![c] = "fin"]
  /\ Wake(c, "in")
  /\ UNCHANGED <<sock, sent, got, inflight, interest, nospace>>

(* The client aborts, or its kernel answers data for a closed socket.      *)
Rst(c) ==
  /\ sock[c] \in {"backlog", "open"} /\ ~IsReset(c)
  /\ peer' = [peer EXCEPT ![c] = IF @ = "fin" THEN "pipe" ELSE "rst"]
  /\ Wake(c, "in")
  /\ UNCHANGED <<sock, sent, got, inflight, interest, nospace>>

Client(c) == Dial(c) \/ Send(c) \/ Recv(c) \/ Fin(c) \/ Rst(c)

KernelOK ==
  /\ sock \in [Conns -> {"none", "backlog", "open", "closed"}]
  /\ peer \in [Conns -> {"open", "fin", "rst", "pipe"}]
  /\ sent \in [Conns -> 0 .. MaxSend] /\ got \in [Conns -> 0 .. MaxSend]
  /\ \A c \in Conns : got[c] <= sent[c]
  /\ inflight \in [Conns -> 0 .. SendCap]
  /\ interest \in [Conns -> SUBSET {"in", "out"}]
  /\ ready \subseteq Conns \cup {Listener}
  /\ nospace \in [Conns -> BOOLEAN]
===============================================================================
