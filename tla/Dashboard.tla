------------------------------- MODULE Dashboard -------------------------------
(***************************************************************************)
(* The telemetry consumer of index.html: the object clientStates, keyed by *)
(* file descriptor, and the function handleEvent that folds one telemetry  *)
(* event into it.  The module has no variables; a server that emits        *)
(* telemetry keeps the value clientStates would have in a variable of its  *)
(* own and applies HandleEvent at each emit.                               *)
(*                                                                         *)
(* Canvas drawing, the event log and the HTML are left out.  A JSON number *)
(* that the emitter leaves out is read by JavaScript as undefined; it is   *)
(* the constant Undefined here.                                            *)
(***************************************************************************)
EXTENDS Integers

CONSTANT Undefined

ASSUME DashboardAssumption == Undefined \notin Int

(* An event carries the fields handleEvent looks at.                       *)
Accepted(fd)          == [type |-> "accept", fd |-> fd]
ReadEvent(fd, l, p)   == [type |-> "read", fd |-> fd, len |-> l, pos |-> p]
WriteEvent(fd, l, p)  == [type |-> "write", fd |-> fd, len |-> l, pos |-> p]
BackpressureEvent(fd, on, l, p) ==
  [type |-> "backpressure", fd |-> fd, active |-> on, len |-> l, pos |-> p]
Closed(fd)            == [type |-> "close", fd |-> fd]

(* The entry a client gets when it is accepted.                            *)
FreshClient == [len |-> 0, pos |-> 0, epollout |-> FALSE]

(* clientStates after one event.  An update for a descriptor that is not   *)
(* in clientStates is ignored; buffer_cleared and the epoll_* events have  *)
(* no branch in handleEvent.                                               *)
HandleEvent(states, ev) ==
  CASE ev.type = "accept" ->
         [fd \in DOMAIN states \cup {ev.fd} |->
            IF fd = ev.fd THEN FreshClient ELSE states[fd]]
    [] ev.type \in {"read", "write"} /\ ev.fd \in DOMAIN states ->
         [states EXCEPT ![ev.fd] = [len |-> ev.len, pos |-> ev.pos,
                                    epollout |-> @.epollout]]
    [] ev.type = "backpressure" /\ ev.fd \in DOMAIN states ->
         [states EXCEPT ![ev.fd] = [len |-> ev.len, pos |-> ev.pos,
                                    epollout |-> ev.active]]
    [] ev.type = "close" ->
         [fd \in DOMAIN states \ {ev.fd} |-> states[fd]]
    [] OTHER -> states

(* What updateUI shows as "Pending": write_len - write_pos, NaN as soon as *)
(* one of them is undefined.                                               *)
Pending(entry) ==
  IF Undefined \in {entry.len, entry.pos} THEN Undefined
                                          ELSE entry.len - entry.pos

(* clientStates is an object whose keys are descriptors.                   *)
ClientStates(states) ==
  DOMAIN states \subseteq Nat /\ states = [fd \in DOMAIN states |-> states[fd]]

NoClients == [fd \in {} |-> FreshClient]
===============================================================================
