-------------------------------- MODULE RWMutex --------------------------------
(***************************************************************************)
(* Go's sync.RWMutex as the visualizer uses it, a value of the record      *)
(* below.  A writer that calls Lock first announces itself (one writer at  *)
(* a time); it holds the lock once the readers that were inside have left. *)
(* A reader that calls RLock while a writer is announced waits, and every  *)
(* waiting reader is let in by that writer's Unlock.                       *)
(***************************************************************************)

CONSTANT Nobody   \* no writer

Unlocked == [readers |-> {}, waiting |-> {}, writer |-> Nobody]

RLock(mu, p) ==
  IF mu.writer = Nobody THEN [mu EXCEPT !.readers = @ \cup {p}]
                        ELSE [mu EXCEPT !.waiting = @ \cup {p}]
RUnlock(mu, p) == [mu EXCEPT !.readers = @ \ {p}]
HoldsRead(mu, p) == p \in mu.readers

CanAnnounce(mu) == mu.writer = Nobody
Announce(mu, p) == [mu EXCEPT !.writer = p]
HoldsWrite(mu, p) == mu.writer = p /\ mu.readers = {}
Unlock(mu) == [readers |-> mu.waiting, waiting |-> {}, writer |-> Nobody]
===============================================================================
