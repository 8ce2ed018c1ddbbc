-------------------------------- MODULE Lifecycle --------------------------------
(***************************************************************************)
(* The processes of the stack: the desktop GUI (gui/main.go, Run,          *)
(* startServer, stopServer), the visualizers (visualizer/main.go, main) and *)
(* the echo servers (server/main.go, main) they start and stop.            *)
(*                                                                         *)
(* A GUI starts its visualizer by `go run', and so does a visualizer that  *)
(* finds no server.exe start its server.  `go run' is a process of its own *)
(* that compiles the files it is given, and ends if that fails.  Other     *)
(* visualizers and servers are started by hand, as built programs or by     *)
(* `go run .': start.bat's `go run main.go' ends at the compiler too.  One   *)
(* server can have the port, and one visualizer its own.                   *)
(***************************************************************************)
EXTENDS Naturals, FiniteSets

CONSTANTS Guis,         \* GUI processes
          Visualizers,  \* visualizers started by hand
          Standalone    \* a server started by hand

ASSUME LifecycleAssumption ==
  Guis \cap Visualizers = {} /\ Standalone \notin Visualizers

Servers == Visualizers \cup {Standalone}
Callers == {"main", "onClosed"}

(* The files of the two programs: main.go of each calls a function of the  *)
(* other file.  `go run' gets main.go.                                     *)
Package == [visualizer |-> {"main.go", "middleware.go"},
            server     |-> {"main.go", "telemetry_file.go"}]
GoRunFiles == {"main.go"}
Builds(program) == Package[program] \subseteq GoRunFiles

VARIABLES
  binary,    \* resolveServerBinary finds a server.exe
  gui,       \* a GUI process: "off", "on", "exited" or "crashed"
  closed,    \* its window was closed
  stopper,   \* where each caller of its stopServer stands
  dServer,   \* Dashboard.server # nil
  waited,    \* cmd.ProcessState # nil: a Wait has seen the process end
  goRun,     \* the `go run' a GUI or a visualizer has started: "none", "alive"
             \* or "ended"
  launched,  \* the program a `go run' was to run has been started
  vis,       \* where each visualizer's main stands
  web,       \* its HTTP server: "none", "up", "failed" or "closed"
  stopChan,  \* its stop channel, of capacity 1, holds a value
  stream,    \* it has an /events request open; not followed after Shutdown
  struck,    \* visualizers whose process was hit by Kill and has yet to end
  srv        \* where each server's main stands

guiVars == <<gui, closed, stopper, dServer, waited>>
runVars == <<goRun, launched>>
visVars == <<vis, web, stopChan, stream, struck>>
vars == <<binary, guiVars, runVars, visVars, srv>>

Listening == {s \in Servers : srv[s] = "listening"}
Alive(g) == gui[g] = "on"
Init ==
  /\ binary \in BOOLEAN
  /\ gui = [g \in Guis |-> "off"] /\ closed = [g \in Guis |-> FALSE]
  /\ stopper = [g \in Guis |-> [t \in Callers |-> "none"]]
  /\ dServer = [g \in Guis |-> FALSE] /\ waited = [g \in Guis |-> FALSE]
  /\ goRun = [p \in Guis \cup Visualizers |-> "none"]
  /\ launched = [p \in Guis \cup Visualizers |-> FALSE]
  /\ vis = [l \in Visualizers |-> "none"] /\ web = [l \in Visualizers |-> "none"]
  /\ stopChan = [l \in Visualizers |-> FALSE] /\ stream = [l \in Visualizers |-> FALSE]
  /\ struck = {} /\ srv = [s \in Servers |-> "none"]
-----------------------------------------------------------------------------
(* gui: Run                                                                *)

(* startServer, connectSSE, buildUI, ShowAndRun.                           *)
GuiStarts(g) ==
  /\ gui[g] = "off" /\ gui' = [gui EXCEPT ![g] = "on"]
  /\ dServer' = [dServer EXCEPT ![g] = TRUE]
  /\ goRun' = [goRun EXCEPT ![g] = "alive"]
  /\ UNCHANGED <<binary, closed, stopper, waited, launched, visVars, srv>>

(* cmd.Start fails, and the next line uses cmd.Process, which is nil.      *)
GuiStartPanics(g) ==
  /\ gui[g] = "off" /\ gui' = [gui EXCEPT ![g] = "crashed"]
  /\ UNCHANGED <<binary, closed, stopper, dServer, waited, runVars, visVars, srv>>

(* A goroutine other than main panics, or the process is killed: no        *)
(* deferred call runs.                                                     *)
GuiCrashes(g) ==
  /\ Alive(g) /\ gui' = [gui EXCEPT ![g] = "crashed"]
  /\ UNCHANGED <<binary, closed, stopper, dServer, waited, runVars, visVars, srv>>

(* The toolkit runs the SetOnClosed function on a goroutine of its own     *)
(* while it ends ShowAndRun on the main one.                               *)
WindowCloses(g) ==
  /\ Alive(g) /\ ~closed[g]
  /\ closed' = [closed EXCEPT ![g] = TRUE]
  /\ stopper' = [stopper EXCEPT ![g]["onClosed"] = "check"]
  /\ UNCHANGED <<binary, gui, dServer, waited, runVars, visVars, srv>>

ShowReturns(g) ==
  /\ Alive(g) /\ closed[g] /\ stopper[g]["main"] = "none"
  /\ stopper' = [stopper EXCEPT ![g]["main"] = "check"]
  /\ UNCHANGED <<binary, gui, closed, dServer, waited, runVars, visVars, srv>>

(* stopServer, line by line: it runs on two goroutines without a lock.     *)
StopperGoto(g, t, label) == stopper' = [stopper EXCEPT ![g][t] = label]

StopChecks(g, t) ==
  /\ Alive(g) /\ stopper[g][t] = "check"
  /\ StopperGoto(g, t, IF dServer[g] THEN "kill" ELSE "return")
  /\ UNCHANGED <<binary, gui, closed, dServer, waited, runVars, visVars, srv>>

(* Mutant: stopServer forgets the process before it waits for it.          *)
StopKillsForgetting(g, t) ==
  /\ Alive(g) /\ stopper[g][t] = "kill" /\ StopperGoto(g, t, "wait")
  /\ goRun' = [goRun EXCEPT ![g] = "ended"]
  /\ dServer' = [dServer EXCEPT ![g] = FALSE]
  /\ UNCHANGED <<binary, gui, closed, waited, launched, visVars, srv>>

StopKills(g, t) ==
  /\ Alive(g) /\ stopper[g][t] = "kill" /\ StopperGoto(g, t, "wait")
  /\ goRun' = [goRun EXCEPT ![g] = "ended"]
  /\ UNCHANGED <<binary, gui, closed, dServer, waited, launched, visVars, srv>>

(* Mutant: Wait does not wait for the copy of a pipe.                      *)
StopWaitsBriefly(g, t) ==
  /\ Alive(g) /\ stopper[g][t] = "wait" /\ StopperGoto(g, t, "forget")
  /\ waited' = [waited EXCEPT ![g] = TRUE]
  /\ UNCHANGED <<binary, gui, closed, dServer, runVars, visVars, srv>>

(* Wait goes on to wait for the goroutine that copies cmd.Stdin, which     *)
(* reads a pipe nobody writes to or closes.  A second Wait returns an      *)
(* error at once, unless it had read cmd.ProcessState before the first set *)
(* it (no lock).                                                           *)
StopWaits(g, t) ==
  /\ Alive(g) /\ stopper[g][t] = "wait"
  /\ \/ waited[g] /\ StopperGoto(g, t, "forget")
     \/ StopperGoto(g, t, "copy")
  /\ waited' = [waited EXCEPT ![g] = TRUE]
  /\ UNCHANGED <<binary, gui, closed, dServer, runVars, visVars, srv>>

StopForgets(g, t) ==
  /\ Alive(g) /\ stopper[g][t] = "forget" /\ StopperGoto(g, t, "return")
  /\ dServer' = [dServer EXCEPT ![g] = FALSE]
  /\ UNCHANGED <<binary, gui, closed, waited, runVars, visVars, srv>>

(* Run returns, and with it main: the process ends.                        *)
GuiExits(g) ==
  /\ Alive(g) /\ stopper[g]["main"] = "return"
  /\ gui' = [gui EXCEPT ![g] = "exited"]
  /\ UNCHANGED <<binary, closed, stopper, dServer, waited, runVars, visVars, srv>>
-----------------------------------------------------------------------------
(* `go run' and what it starts: a GUI's visualizer (whose own life would   *)
(* be that of one in Visualizers), a visualizer's server.                  *)
GoRunCompiles(p) ==
  /\ goRun[p] = "alive" /\ ~launched[p]
  /\ IF Builds(IF p \in Guis THEN "visualizer" ELSE "server")
     THEN launched' = [launched EXCEPT ![p] = TRUE] /\ UNCHANGED goRun
     ELSE goRun' = [goRun EXCEPT ![p] = "ended"] /\ UNCHANGED launched
  /\ UNCHANGED <<binary, guiVars, visVars, srv>>
-----------------------------------------------------------------------------
(* visualizer: main                                                        *)
VisGoto(l, label) == vis' = [vis EXCEPT ![l] = label]

VisStarts(l) ==
  /\ vis[l] = "none" /\ VisGoto(l, "start")
  /\ UNCHANGED <<binary, guiVars, runVars, web, stopChan, stream, struck, srv>>

(* cmd.Start: server.exe, or `go run'.                                     *)
VisStartsServer(l) ==
  /\ vis[l] = "start" /\ VisGoto(l, "serve")
  /\ IF binary
     THEN srv' = [srv EXCEPT ![l] = "starting"] /\ UNCHANGED goRun
     ELSE goRun' = [goRun EXCEPT ![l] = "alive"] /\ UNCHANGED srv
  /\ UNCHANGED <<binary, guiVars, launched, web, stopChan, stream, struck>>

(* log.Fatalf.                                                             *)
VisStartFails(l) ==
  /\ vis[l] = "start" /\ VisGoto(l, "gone")
  /\ UNCHANGED <<binary, guiVars, runVars, web, stopChan, stream, struck, srv>>

(* The goroutine of ListenAndServe: a failure is logged and no more.       *)
WebListens(l) ==
  /\ vis[l] = "serve" /\ web[l] = "none"
  /\ web' = [web EXCEPT ![l] = IF \E k \in Visualizers : web[k] = "up"
                               THEN "failed" ELSE "up"]
  /\ UNCHANGED <<binary, guiVars, runVars, vis, stopChan, stream, struck, srv>>

(* A browser or a GUI opens or leaves /events.                             *)
Stream(l) ==
  /\ IF stream[l] THEN vis[l] \in {"serve", "shutdown"}
                  ELSE vis[l] = "serve" /\ web[l] = "up"
  /\ stream' = [stream EXCEPT ![l] = ~@]
  /\ UNCHANGED <<binary, guiVars, runVars, vis, web, stopChan, struck, srv>>

(* A signal, which signal.Notify does not deliver if there is no room, or  *)
(* the goroutine that reads os.Stdin and finds its end: select, default.   *)
Told(l) ==
  /\ vis[l] = "serve"
  /\ stopChan' = [stopChan EXCEPT ![l] = TRUE]
  /\ UNCHANGED <<binary, guiVars, runVars, vis, web, stream, struck, srv>>

(* <-stopChan; Shutdown closes the listener first.                         *)
VisStops(l) ==
  /\ vis[l] = "serve" /\ stopChan[l]
  /\ stopChan' = [stopChan EXCEPT ![l] = FALSE]
  /\ web' = [web EXCEPT ![l] = "closed"]
  /\ VisGoto(l, "shutdown")
  /\ UNCHANGED <<binary, guiVars, runVars, stream, struck, srv>>

(* Mutant: Shutdown has no timeout.                                        *)
ShutdownPatient(l) ==
  /\ vis[l] = "shutdown" /\ ~stream[l] /\ VisGoto(l, "kill")
  /\ UNCHANGED <<binary, guiVars, runVars, web, stopChan, stream, struck, srv>>

(* Shutdown returns when no request is open, or after two seconds.         *)
ShutdownReturns(l) ==
  /\ vis[l] = "shutdown" /\ VisGoto(l, "kill") /\ stream' = [stream EXCEPT ![l] = FALSE]
  /\ UNCHANGED <<binary, guiVars, runVars, web, stopChan, struck, srv>>

ChildRuns(l) == srv[l] \in {"starting", "listening"} \/ goRun[l] = "alive"

(* The deferred function: Kill strikes the process started, be it          *)
(* server.exe or `go run', which has then yet to end.                      *)
VisKills(l) ==
  /\ vis[l] = "kill" /\ VisGoto(l, "wait")
  /\ struck' = IF ChildRuns(l) THEN struck \cup {l} ELSE struck
  /\ UNCHANGED <<binary, guiVars, runVars, web, stopChan, stream, srv>>

ChildEnds(l) ==
  /\ l \in struck /\ struck' = struck \ {l}
  /\ IF binary
     THEN srv' = [srv EXCEPT ![l] = "gone"] /\ UNCHANGED goRun
     ELSE goRun' = [goRun EXCEPT ![l] = "ended"] /\ UNCHANGED srv
  /\ UNCHANGED <<binary, guiVars, launched, vis, web, stopChan, stream>>

(* Mutant: main returns without the Wait.                                  *)
VisLeaves(l) ==
  /\ vis[l] = "wait" /\ VisGoto(l, "gone")
  /\ UNCHANGED <<binary, guiVars, runVars, web, stopChan, stream, struck, srv>>

(* Wait has seen it end; main returns.                                     *)
VisWaits(l) ==
  /\ vis[l] = "wait" /\ l \notin struck /\ VisGoto(l, "gone")
  /\ UNCHANGED <<binary, guiVars, runVars, web, stopChan, stream, struck, srv>>

(* The process is killed: nothing deferred runs.                           *)
VisDies(l) ==
  /\ vis[l] \in {"start", "serve", "shutdown", "kill", "wait"} /\ VisGoto(l, "killed")
  /\ stream' = [stream EXCEPT ![l] = FALSE]
  /\ web' = [web EXCEPT ![l] = "closed"]
  /\ stopChan' = [stopChan EXCEPT ![l] = FALSE]
  /\ UNCHANGED <<binary, guiVars, runVars, struck, srv>>
-----------------------------------------------------------------------------
(* server: main                                                            *)
StandaloneStarts ==
  /\ srv[Standalone] = "none"
  /\ srv' = [srv EXCEPT ![Standalone] = "starting"]
  /\ UNCHANGED <<binary, guiVars, runVars, visVars>>

(* net.Listen: the init event, or the error event and log.Fatalf.          *)
SrvListens(s) ==
  /\ srv[s] = "starting"
  /\ srv' = [srv EXCEPT ![s] = IF Listening = {} THEN "listening" ELSE "gone"]
  /\ UNCHANGED <<binary, guiVars, runVars, visVars>>

(* A server whose visualizer is gone prints into a broken pipe: on Unix it *)
(* ends with its next event, on Windows the error is dropped.              *)
BrokenPipe(l) ==
  /\ srv[l] = "listening" /\ vis[l] = "killed"
  /\ srv' = [srv EXCEPT ![l] = "gone"]
  /\ UNCHANGED <<binary, guiVars, runVars, visVars>>
-----------------------------------------------------------------------------
Stopping(g, t) ==
  StopChecks(g, t) \/ StopKills(g, t) \/ StopWaits(g, t) \/ StopForgets(g, t)
Gui(g) ==
  \/ ShowReturns(g) \/ GuiExits(g) \/ GoRunCompiles(g)
  \/ \E t \in Callers : Stopping(g, t)
User(g) == GuiStarts(g) \/ GuiStartPanics(g) \/ GuiCrashes(g) \/ WindowCloses(g)

Visualizer(l) ==
  \/ VisStartsServer(l) \/ VisStartFails(l) \/ VisStops(l)
  \/ ShutdownReturns(l) \/ VisKills(l) \/ VisWaits(l)
Outside(l) == VisStarts(l) \/ Stream(l) \/ Told(l) \/ VisDies(l) \/ BrokenPipe(l)

Next ==
  \/ \E g \in Guis : Gui(g) \/ User(g)
  \/ \E l \in Visualizers :
       Visualizer(l) \/ ChildEnds(l) \/ WebListens(l) \/ GoRunCompiles(l) \/ Outside(l)
  \/ \E s \in Servers : SrvListens(s)
  \/ StandaloneStarts

Spec == Init /\ [][Next]_vars

(* The main goroutine of a visualizer runs when it can, the two seconds of *)
(* its Shutdown pass, and a process that was killed ends.                  *)
VisFairSpec ==
  Spec /\ \A l \in Visualizers : WF_vars(Visualizer(l)) /\ WF_vars(ChildEnds(l))

(* All goroutines and processes that can run do run; the toolkit lets      *)
(* ShowAndRun return.                                                      *)
FairSpec ==
  /\ VisFairSpec
  /\ \A g \in Guis :
       /\ WF_vars(ShowReturns(g) \/ GuiExits(g)) /\ WF_vars(GoRunCompiles(g))
       /\ \A t \in Callers : WF_vars(Stopping(g, t))
  /\ \A l \in Visualizers : WF_vars(WebListens(l)) /\ WF_vars(GoRunCompiles(l))
  /\ \A s \in Servers : WF_vars(SrvListens(s))
-----------------------------------------------------------------------------
(* The variables keep to their types; only a visualizer that found no      *)
(* server.exe runs a `go run', only one that found it has a server of its  *)
(* own, and neither before it has called cmd.Start.                        *)
GuiTypes ==
  /\ gui \in [Guis -> {"off", "on", "exited", "crashed"}] /\ closed \in [Guis -> BOOLEAN]
  /\ stopper \in [Guis -> [Callers -> {"none", "check", "kill", "wait", "copy",
                                       "forget", "return"}]]
  /\ dServer \in [Guis -> BOOLEAN] /\ waited \in [Guis -> BOOLEAN]
VisTypes ==
  /\ vis \in [Visualizers -> {"none", "start", "serve", "shutdown", "kill", "wait", "gone",
                           "killed"}]
  /\ web \in [Visualizers -> {"none", "up", "failed", "closed"}]
  /\ stopChan \in [Visualizers -> BOOLEAN] /\ stream \in [Visualizers -> BOOLEAN]
  /\ struck \subseteq {l \in Visualizers : vis[l] \in {"wait", "gone", "killed"}}
ChildTypes ==
  /\ binary \in BOOLEAN
  /\ goRun \in [Guis \cup Visualizers -> {"none", "alive", "ended"}]
  /\ launched \in [Guis \cup Visualizers -> BOOLEAN]
  /\ srv \in [Servers -> {"none", "starting", "listening", "gone"}]
TypeOK ==
  /\ GuiTypes /\ VisTypes /\ ChildTypes
  /\ \A l \in Visualizers :
       /\ goRun[l] # "none" => ~binary /\ vis[l] \notin {"none", "start"}
       /\ srv[l] # "none" => binary /\ vis[l] \notin {"none", "start"}

(* stopServer runs on the main goroutine and on the toolkit's at once, and *)
(* both use d.server after the nil check without a lock: neither ever finds *)
(* it nil where it calls a method on it.                                   *)
NilIsNeverUsed ==
  \A g \in Guis, t \in Callers : stopper[g][t] \in {"kill", "wait"} => dServer[g]

(* A GUI whose window was closed ends by itself only if the two calls of   *)
(* stopServer overlapped and the other one took the wait that never ends:  *)
(* cmd.Wait waits for the goroutine that copies a pipe nobody closes.      *)
ExitNeedsTwoStops ==
  \A g \in Guis : gui[g] = "exited" => stopper[g]["onClosed"] = "copy"

(* A server that cannot bind the port loses it to one started by hand, to  *)
(* one whose visualizer is still running, or to the orphan of a visualizer  *)
(* that was killed: after a visualizer that left main, whoever told it to  *)
(* and when, the stack can be started again.                               *)
LosesPort(s) == srv[s] = "starting" /\ s \notin struck /\ srv'[s] = "gone"
RestartFindsPort ==
  [][\A s \in Servers : LosesPort(s) =>
       \E o \in Listening : o = Standalone \/ vis[o] # "gone"]_vars

(* A visualizer told to stop leaves, whoever keeps a stream open.          *)
StopIsHonoured ==
  \A l \in Visualizers : stopChan[l] ~> vis[l] \in {"gone", "killed"}

(* go_app_overview.md:113, "Automatically launches visualizer (and by      *)
(* extension server) on startup".                                          *)
GuiLaunchesVisualizer ==
  \A g \in Guis : gui[g] = "on" ~> (launched[g] \/ closed[g] \/ gui[g] # "on")
===============================================================================
