--------------------------------- MODULE Traffic ---------------------------------
(***************************************************************************)
(* The traffic generator (traffic/main.go, traffic/stress.go) driving the  *)
(* Go echo server: its three scenarios are what the clients of GoServer do. *)
(* In `normal' and `churn' main itself works on one socket after the other, *)
(* in `stress' every socket has a goroutine, counted by a WaitGroup.       *)
(*                                                                         *)
(* Data.  Every payload is Payload bytes, of which a Write passes on all   *)
(* or none; the sockets are alike, so that a loop over them takes them in  *)
(* any order.  Time is one flag: durationSec has passed.                   *)
(***************************************************************************)
EXTENDS GoServer

CONSTANTS Payload,  \* bytes of one Write (4 to 33 in the program)
          Window    \* bytes the connection takes before a Write blocks

ASSUME TrafficAssumption ==
  /\ IsFiniteSet(Conns)
  /\ Payload \in Nat \ {0, 1} /\ Window \in Nat /\ Payload <= Window

VARIABLES
  scenario,  \* os.Args[1]
  late,      \* time.Since(start) has reached durationSec
  main,      \* where runXScenario stands
  todo,      \* the sockets its loop has not come to
  user,      \* where the goroutine that works on a socket stands with it
  wg         \* the counter of the WaitGroup

driver == <<scenario, late, main, todo, user, wg>>
allVars == <<vars, driver>>

Scenarios == {"normal", "churn", "stress"}
MainGoto(label) == main' = label
UserGoto(c, label) == user' = [user EXCEPT ![c] = label]

(* normal and churn: the socket main is working on.                        *)
Busy == {c \in Conns : user[c] \in {"write", "read", "close"}}

TrafficInit ==
  /\ Init
  /\ scenario \in Scenarios /\ late = FALSE
  /\ main = "open" /\ todo = Conns
  /\ user = [c \in Conns |-> "none"] /\ wg = 0
-----------------------------------------------------------------------------
(* runNormalScenario and runChurnScenario: net.Dial.                       *)
MainDials(c) ==
  /\ scenario \in {"normal", "churn"}
  /\ main = "open" /\ c \in todo /\ Busy = {}
  /\ Dial(c)
  /\ todo' = todo \ {c}
  /\ UserGoto(c, IF scenario = "churn" THEN "write" ELSE "idle")
  /\ UNCHANGED <<scenario, late, main, wg>>

(* churn: log and `continue'; normal: log.Fatalf.                          *)
MainDialFails(c) ==
  /\ scenario \in {"normal", "churn"}
  /\ main = "open" /\ c \in todo /\ Busy = {}
  /\ todo' = todo \ {c}
  /\ MainGoto(IF scenario = "churn" THEN "open" ELSE "fatal")
  /\ UNCHANGED <<vars, scenario, late, user, wg>>

(* normal: the condition of the outer loop, looked at between two rounds.  *)
NextRound ==
  /\ scenario = "normal" /\ main \in {"open", "round"} /\ todo = {} /\ Busy = {}
  /\ MainGoto(IF late THEN "closing" ELSE "round")
  /\ todo' = IF late THEN {} ELSE Conns
  /\ UNCHANGED <<vars, scenario, late, user, wg>>

NextSocket(c) ==
  /\ scenario = "normal" /\ main = "round" /\ c \in todo /\ Busy = {}
  /\ todo' = todo \ {c} /\ UserGoto(c, "write")
  /\ UNCHANGED <<vars, scenario, late, main, wg>>

NextClose(c) ==
  /\ scenario = "normal" /\ main = "closing" /\ user[c] = "idle" /\ Busy = {}
  /\ UserGoto(c, "close")
  /\ UNCHANGED <<vars, scenario, late, main, todo, wg>>

(* The loops are over: "complete!".                                        *)
MainCompletes ==
  /\ \/ scenario = "churn" /\ main = "open" /\ todo = {} /\ Busy = {}
     \/ scenario = "normal" /\ main = "closing" /\ \A c \in Conns : user[c] = "gone"
  /\ MainGoto("complete")
  /\ UNCHANGED <<vars, scenario, late, todo, user, wg>>

(* The process has ended: the kernel closes its sockets.                   *)
ExitCloses(c) ==
  /\ main = "fatal" /\ (Hangup(c) \/ (inflight[c] > 0 /\ peer[c] = "open" /\ Reset(c)))
  /\ UNCHANGED driver
-----------------------------------------------------------------------------
(* runStressScenario.                                                      *)

(* wg.Add(1) and `go'.                                                     *)
Spawn(c) ==
  /\ scenario = "stress" /\ main = "open" /\ c \in todo
  /\ todo' = todo \ {c} /\ UserGoto(c, "dial") /\ wg' = wg + 1
  /\ UNCHANGED <<vars, scenario, late, main>>

(* Mutant: main announces the end without waiting.                         *)
WaitIgnored ==
  /\ scenario = "stress" /\ main = "open" /\ todo = {}
  /\ MainGoto("complete")
  /\ UNCHANGED <<vars, scenario, late, todo, user, wg>>

(* wg.Wait returns: "complete!".                                           *)
WaitReturns ==
  /\ scenario = "stress" /\ main = "open" /\ todo = {} /\ wg = 0
  /\ MainGoto("complete")
  /\ UNCHANGED <<vars, scenario, late, todo, user, wg>>

StressDials(c) ==
  /\ user[c] = "dial" /\ Dial(c) /\ UserGoto(c, "check")
  /\ UNCHANGED <<scenario, late, main, todo, wg>>

(* Mutant: Done is deferred after the return for a failed Dial.            *)
StressDialForgotten(c) ==
  /\ user[c] = "dial" /\ UserGoto(c, "gone")
  /\ UNCHANGED <<vars, scenario, late, main, todo, wg>>

StressDialFails(c) ==
  /\ user[c] = "dial" /\ UserGoto(c, "finish")
  /\ UNCHANGED <<vars, scenario, late, main, todo, wg>>

StressChecks(c) ==
  /\ user[c] = "check" /\ UserGoto(c, IF late THEN "close" ELSE "write")
  /\ UNCHANGED <<vars, scenario, late, main, todo, wg>>

(* The deferred wg.Done, after the deferred conn.Close.                    *)
StressFinishes(c) ==
  /\ user[c] = "finish" /\ UserGoto(c, "gone") /\ wg' = wg - 1
  /\ UNCHANGED <<vars, scenario, late, main, todo>>
-----------------------------------------------------------------------------
(* What is done with a socket in every scenario.                           *)

AfterWrite == IF scenario = "churn" THEN "close" ELSE "read"
AfterRead  == IF scenario = "stress" THEN "check" ELSE "idle"
AfterClose == IF scenario = "stress" THEN "finish" ELSE "gone"

(* conn.Write blocks while the connection has no room.                     *)
Write(c) ==
  /\ user[c] = "write" /\ Unread(c) + Payload <= Window
  /\ Send(c) /\ sent' = [sent EXCEPT ![c] = @ + Payload]
  /\ UserGoto(c, AfterWrite)
  /\ UNCHANGED <<scenario, late, main, todo, wg>>

(* conn.Read returns what there is, and nobody looks at it,                 *)
ReadReturns(c) ==
  /\ user[c] = "read" /\ Recv(c) /\ UserGoto(c, AfterRead)
  /\ UNCHANGED <<scenario, late, main, todo, wg>>

(* or, at its deadline, nothing.                                           *)
ReadTimesOut(c) ==
  /\ user[c] = "read" /\ inflight[c] = 0 /\ UserGoto(c, AfterRead)
  /\ UNCHANGED <<vars, scenario, late, main, todo, wg>>

(* conn.Close: a reset if there are bytes its owner has not read.          *)
Close(c) ==
  /\ user[c] = "close" /\ peer[c] = "open"
  /\ Hangup(c) \/ (inflight[c] > 0 /\ Reset(c))
  /\ UserGoto(c, AfterClose)
  /\ UNCHANGED <<scenario, late, main, todo, wg>>

TimeIsUp ==
  /\ ~late /\ late' = TRUE
  /\ UNCHANGED <<vars, scenario, main, todo, user, wg>>
-----------------------------------------------------------------------------
MainStep ==
  \/ NextRound \/ MainCompletes \/ WaitReturns
  \/ \E c \in Conns : MainDials(c) \/ MainDialFails(c) \/ NextSocket(c) \/ NextClose(c)
                        \/ Spawn(c)

UserStep(c) ==
  \/ StressDials(c) \/ StressDialFails(c) \/ StressChecks(c) \/ StressFinishes(c)
  \/ Write(c) \/ ReadReturns(c) \/ ReadTimesOut(c) \/ Close(c)

ServerStep(c) ==
  /\ Accept(c) \/ Goroutine(c)
  /\ UNCHANGED driver

(* The kernel of a closed socket answers data with a reset.                *)
ClosedResets(c) ==
  /\ peer[c] = "fin" /\ inflight[c] > 0 /\ Reset(c)
  /\ UNCHANGED driver

TrafficNext ==
  \/ MainStep \/ TimeIsUp
  \/ \E c \in Conns : UserStep(c) \/ ServerStep(c) \/ ClosedResets(c) \/ ExitCloses(c)

TrafficSpec == TrafficInit /\ [][TrafficNext]_allVars

(* Every goroutine of both programs that can run does.  No more is needed  *)
(* once time is up: that it will be is not assumed, nor that the kernel    *)
(* ever closes or resets.                                                  *)
TrafficFairness ==
  /\ WF_allVars(MainStep)
  /\ \A c \in Conns : WF_allVars(UserStep(c)) /\ WF_allVars(ServerStep(c))

FairTraffic == TrafficSpec /\ TrafficFairness
-----------------------------------------------------------------------------
UserStates == {"none", "idle", "dial", "check", "write", "read", "close", "finish", "gone"}
Counted == {c \in Conns : user[c] \in UserStates \ {"none", "gone"}}

(* The driver's variables keep to their types; in `stress' the WaitGroup   *)
(* counts exactly the goroutines that have not called Done.                *)
DriverOK ==
  /\ scenario \in Scenarios /\ late \in BOOLEAN
  /\ main \in {"open", "round", "closing", "complete", "fatal"}
  /\ todo \subseteq Conns /\ user \in [Conns -> UserStates]
  /\ wg = IF scenario = "stress" THEN Cardinality(Counted) ELSE 0

(* When a scenario says that it is complete, every connection it made is   *)
(* closed, in `stress' too, where wg.Wait is all that main knows of the    *)
(* goroutines.                                                             *)
CompleteMeansClosed ==
  main = "complete" => \A c \in Conns : pc[c] # "none" => peer[c] # "open"

(* A scenario ends after its time, if it is not blocked for good in the    *)
(* Write to a connection which the server, busy with echoing what it has   *)
(* buffered, never reads again.                                            *)
Stuck(c) == user[c] = "write" /\ Unread(c) + Payload > Window /\ Buffered(c) > 0
TrafficEnds ==
  late ~> (main \in {"complete", "fatal"} \/ [](\E c \in Conns : Stuck(c)))
===============================================================================
