----------------------------- MODULE Lifecycle_proofs -----------------------------
(***************************************************************************)
(* What holds of the processes for any number of GUIs and visualizers:     *)
(* types, the two unlocked calls of stopServer, and to whom a server can   *)
(* lose the port.                                                          *)
(***************************************************************************)
EXTENDS Lifecycle, TLAPS

(* The two callers of stopServer.  d.server is forgotten only after a Wait *)
(* that came second, and the first Wait never returns: of the two callers  *)
(* one is in it for good, so that no one is left to find d.server nil.     *)
Stops(g) ==
  /\ ~closed[g] => stopper[g]["onClosed"] = "none"
  /\ gui[g] = "off" => ~waited[g] /\ \A t \in Callers : stopper[g][t] = "none"
  /\ \A t \in Callers : stopper[g][t] \in {"kill", "wait"} => dServer[g]
  /\ waited[g] => \E t \in Callers : stopper[g][t] = "copy"
  /\ \A t \in Callers : stopper[g][t] \in {"forget", "return"} => waited[g]
  /\ gui[g] = "on" /\ ~dServer[g] => waited[g]
  /\ gui[g] = "exited" => stopper[g]["onClosed"] = "copy"

StopInv == \A g \in Guis : Stops(g)

(* Once Kill has been called and nothing is left to end, and for good when *)
(* main has returned, the process a visualizer started is not running.     *)
ChildIsOver ==
  \A l \in Visualizers :
    vis[l] = "gone" \/ (vis[l] = "wait" /\ l \notin struck) => ~ChildRuns(l)

Inv == TypeOK /\ StopInv /\ ChildIsOver

LEMMA InvInit == Init => Inv
BY LifecycleAssumption
   DEF Init, Inv, TypeOK, GuiTypes, VisTypes, ChildTypes, StopInv, Stops, ChildIsOver, ChildRuns,
       Servers, Callers

(* The steps of a GUI.                                                     *)
LEMMA StopStep ==
  ASSUME Inv, NEW g \in Guis, Gui(g) \/ User(g)
  PROVE  Inv'
<1> USE LifecycleAssumption DEF Inv
<1>1. CASE GuiStarts(g)
  <2>1. GuiTypes'
    BY <1>1 DEF GuiStarts, TypeOK, GuiTypes, Alive, StopperGoto, VisGoto, visVars, runVars, guiVars
  <2>2. VisTypes'
    BY <1>1 DEF GuiStarts, TypeOK, VisTypes, Alive, StopperGoto, VisGoto, visVars, runVars, guiVars
  <2>3. ChildTypes'
    BY <1>1 DEF GuiStarts, TypeOK, ChildTypes, Servers,
           Alive, StopperGoto, VisGoto, visVars, runVars, guiVars
  <2>4. TypeOK'
    BY <1>1, <2>1, <2>2, <2>3 DEF GuiStarts, TypeOK, VisTypes, ChildTypes, Servers, 
           Alive, StopperGoto, VisGoto, visVars, runVars, guiVars
  <2>5. StopInv'
    BY <1>1 DEF GuiStarts, TypeOK, GuiTypes, StopInv, Stops, Alive, StopperGoto,
           Callers, guiVars
  <2>6. ChildIsOver'
    BY <1>1 DEF GuiStarts, TypeOK, VisTypes, ChildTypes, ChildIsOver,
           ChildRuns, Servers, VisGoto, visVars, runVars
  <2>7. QED BY <2>4, <2>5, <2>6
<1>2. CASE GuiStartPanics(g)
  <2>1. GuiTypes'
    BY <1>2 DEF GuiStartPanics, TypeOK, GuiTypes, Alive, StopperGoto, VisGoto, visVars, runVars, guiVars
  <2>2. VisTypes'
    BY <1>2 DEF GuiStartPanics, TypeOK, VisTypes, Alive, StopperGoto, VisGoto, visVars, runVars, guiVars
  <2>3. ChildTypes'
    BY <1>2 DEF GuiStartPanics, TypeOK, ChildTypes, Servers,
           Alive, StopperGoto, VisGoto, visVars, runVars, guiVars
  <2>4. TypeOK'
    BY <1>2, <2>1, <2>2, <2>3 DEF GuiStartPanics, TypeOK, VisTypes, ChildTypes, Servers, 
           Alive, StopperGoto, VisGoto, visVars, runVars, guiVars
  <2>5. StopInv'
    BY <1>2 DEF GuiStartPanics, TypeOK, GuiTypes, StopInv, Stops, Alive, StopperGoto,
           Callers, guiVars
  <2>6. ChildIsOver'
    BY <1>2 DEF GuiStartPanics, TypeOK, VisTypes, ChildTypes, ChildIsOver,
           ChildRuns, Servers, VisGoto, visVars, runVars
  <2>7. QED BY <2>4, <2>5, <2>6
<1>3. CASE GuiCrashes(g)
  <2>1. GuiTypes'
    BY <1>3 DEF GuiCrashes, TypeOK, GuiTypes, Alive, StopperGoto, VisGoto, visVars, runVars, guiVars
  <2>2. VisTypes'
    BY <1>3 DEF GuiCrashes, TypeOK, VisTypes, Alive, StopperGoto, VisGoto, visVars, runVars, guiVars
  <2>3. ChildTypes'
    BY <1>3 DEF GuiCrashes, TypeOK, ChildTypes, Servers,
           Alive, StopperGoto, VisGoto, visVars, runVars, guiVars
  <2>4. TypeOK'
    BY <1>3, <2>1, <2>2, <2>3 DEF GuiCrashes, TypeOK, VisTypes, ChildTypes, Servers, 
           Alive, StopperGoto, VisGoto, visVars, runVars, guiVars
  <2>5. StopInv'
    BY <1>3 DEF GuiCrashes, TypeOK, GuiTypes, StopInv, Stops, Alive, StopperGoto,
           Callers, guiVars
  <2>6. ChildIsOver'
    BY <1>3 DEF GuiCrashes, TypeOK, VisTypes, ChildTypes, ChildIsOver,
           ChildRuns, Servers, VisGoto, visVars, runVars
  <2>7. QED BY <2>4, <2>5, <2>6
<1>4. CASE WindowCloses(g)
  <2>1. GuiTypes'
    BY <1>4 DEF WindowCloses, TypeOK, GuiTypes, Alive, StopperGoto, VisGoto, visVars, runVars, guiVars
  <2>2. VisTypes'
    BY <1>4 DEF WindowCloses, TypeOK, VisTypes, Alive, StopperGoto, VisGoto, visVars, runVars, guiVars
  <2>3. ChildTypes'
    BY <1>4 DEF WindowCloses, TypeOK, ChildTypes, Servers,
           Alive, StopperGoto, VisGoto, visVars, runVars, guiVars
  <2>4. TypeOK'
    BY <1>4, <2>1, <2>2, <2>3 DEF WindowCloses, TypeOK, VisTypes, ChildTypes, Servers, 
           Alive, StopperGoto, VisGoto, visVars, runVars, guiVars
  <2>5. StopInv'
    BY <1>4 DEF WindowCloses, TypeOK, GuiTypes, StopInv, Stops, Alive, StopperGoto,
           Callers, guiVars
  <2>6. ChildIsOver'
    BY <1>4 DEF WindowCloses, TypeOK, VisTypes, ChildTypes, ChildIsOver,
           ChildRuns, Servers, VisGoto, visVars, runVars
  <2>7. QED BY <2>4, <2>5, <2>6
<1>5. CASE ShowReturns(g)
  <2>1. GuiTypes'
    BY <1>5 DEF ShowReturns, TypeOK, GuiTypes, Alive, StopperGoto, VisGoto, visVars, runVars, guiVars
  <2>2. VisTypes'
    BY <1>5 DEF ShowReturns, TypeOK, VisTypes, Alive, StopperGoto, VisGoto, visVars, runVars, guiVars
  <2>3. ChildTypes'
    BY <1>5 DEF ShowReturns, TypeOK, ChildTypes, Servers,
           Alive, StopperGoto, VisGoto, visVars, runVars, guiVars
  <2>4. TypeOK'
    BY <1>5, <2>1, <2>2, <2>3 DEF ShowReturns, TypeOK, VisTypes, ChildTypes, Servers, 
           Alive, StopperGoto, VisGoto, visVars, runVars, guiVars
  <2>5. StopInv'
    BY <1>5 DEF ShowReturns, TypeOK, GuiTypes, StopInv, Stops, Alive, StopperGoto,
           Callers, guiVars
  <2>6. ChildIsOver'
    BY <1>5 DEF ShowReturns, TypeOK, VisTypes, ChildTypes, ChildIsOver,
           ChildRuns, Servers, VisGoto, visVars, runVars
  <2>7. QED BY <2>4, <2>5, <2>6
<1>6. CASE GuiExits(g)
  <2>1. GuiTypes'
    BY <1>6 DEF GuiExits, TypeOK, GuiTypes, Alive, StopperGoto, VisGoto, visVars, runVars, guiVars
  <2>2. VisTypes'
    BY <1>6 DEF GuiExits, TypeOK, VisTypes, Alive, StopperGoto, VisGoto, visVars, runVars, guiVars
  <2>3. ChildTypes'
    BY <1>6 DEF GuiExits, TypeOK, ChildTypes, Servers,
           Alive, StopperGoto, VisGoto, visVars, runVars, guiVars
  <2>4. TypeOK'
    BY <1>6, <2>1, <2>2, <2>3 DEF GuiExits, TypeOK, VisTypes, ChildTypes, Servers, 
           Alive, StopperGoto, VisGoto, visVars, runVars, guiVars
  <2>5. StopInv'
    BY <1>6 DEF GuiExits, TypeOK, GuiTypes, StopInv, Stops, Alive, StopperGoto,
           Callers, guiVars
  <2>6. ChildIsOver'
    BY <1>6 DEF GuiExits, TypeOK, VisTypes, ChildTypes, ChildIsOver,
           ChildRuns, Servers, VisGoto, visVars, runVars
  <2>7. QED BY <2>4, <2>5, <2>6
<1>7. CASE GoRunCompiles(g)
  <2>1. GuiTypes'
    BY <1>7 DEF GoRunCompiles, TypeOK, GuiTypes, Alive, StopperGoto, VisGoto, visVars, runVars, guiVars
  <2>2. VisTypes'
    BY <1>7 DEF GoRunCompiles, TypeOK, VisTypes, Alive, StopperGoto, VisGoto, visVars, runVars, guiVars
  <2>3. ChildTypes'
    BY <1>7 DEF GoRunCompiles, TypeOK, ChildTypes, Servers,
           Alive, StopperGoto, VisGoto, visVars, runVars, guiVars
  <2>4. TypeOK'
    BY <1>7, <2>1, <2>2, <2>3 DEF GoRunCompiles, TypeOK, VisTypes, ChildTypes, Servers, 
           Alive, StopperGoto, VisGoto, visVars, runVars, guiVars
  <2>5. StopInv'
    BY <1>7 DEF GoRunCompiles, TypeOK, GuiTypes, StopInv, Stops, Alive, StopperGoto,
           Callers, guiVars
  <2>6. ChildIsOver'
    BY <1>7 DEF GoRunCompiles, TypeOK, VisTypes, ChildTypes, ChildIsOver,
           ChildRuns, Servers, VisGoto, visVars, runVars
  <2>7. QED BY <2>4, <2>5, <2>6
<1>8. ASSUME NEW t \in Callers, StopChecks(g, t) PROVE Inv'
  <2>1. GuiTypes'
    BY <1>8 DEF StopChecks, TypeOK, GuiTypes, Alive, StopperGoto, VisGoto, visVars, runVars, guiVars
  <2>2. VisTypes'
    BY <1>8 DEF StopChecks, TypeOK, VisTypes, Alive, StopperGoto, VisGoto, visVars, runVars, guiVars
  <2>3. ChildTypes'
    BY <1>8 DEF StopChecks, TypeOK, ChildTypes, Servers,
           Alive, StopperGoto, VisGoto, visVars, runVars, guiVars
  <2>4. TypeOK'
    BY <1>8, <2>1, <2>2, <2>3 DEF StopChecks, TypeOK, VisTypes, ChildTypes, Servers, 
           Alive, StopperGoto, VisGoto, visVars, runVars, guiVars
  <2>5. StopInv'
    BY <1>8 DEF StopChecks, TypeOK, GuiTypes, StopInv, Stops, Alive, StopperGoto,
           Callers, guiVars
  <2>6. ChildIsOver'
    BY <1>8 DEF StopChecks, TypeOK, VisTypes, ChildTypes, ChildIsOver,
           ChildRuns, Servers, VisGoto, visVars, runVars
  <2>7. QED BY <2>4, <2>5, <2>6
<1>9. ASSUME NEW t \in Callers, StopKills(g, t) PROVE Inv'
  <2>1. GuiTypes'
    BY <1>9 DEF StopKills, TypeOK, GuiTypes, Alive, StopperGoto, VisGoto, visVars, runVars, guiVars
  <2>2. VisTypes'
    BY <1>9 DEF StopKills, TypeOK, VisTypes, Alive, StopperGoto, VisGoto, visVars, runVars, guiVars
  <2>3. ChildTypes'
    BY <1>9 DEF StopKills, TypeOK, ChildTypes, Servers,
           Alive, StopperGoto, VisGoto, visVars, runVars, guiVars
  <2>4. TypeOK'
    BY <1>9, <2>1, <2>2, <2>3 DEF StopKills, TypeOK, VisTypes, ChildTypes, Servers, 
           Alive, StopperGoto, VisGoto, visVars, runVars, guiVars
  <2>5. StopInv'
    BY <1>9 DEF StopKills, TypeOK, GuiTypes, StopInv, Stops, Alive, StopperGoto,
           Callers, guiVars
  <2>6. ChildIsOver'
    BY <1>9 DEF StopKills, TypeOK, VisTypes, ChildTypes, ChildIsOver,
           ChildRuns, Servers, VisGoto, visVars, runVars
  <2>7. QED BY <2>4, <2>5, <2>6
<1>10. ASSUME NEW t \in Callers, StopWaits(g, t) PROVE Inv'
  <2>1. GuiTypes'
    <3>1. PICK label \in {"forget", "copy"} : StopperGoto(g, t, label)
      BY <1>10 DEF StopWaits
    <3>2. stopper' \in [Guis -> [Callers -> {"none", "check", "kill", "wait", "copy",
                                            "forget", "return"}]]
      BY <3>1 DEF TypeOK, GuiTypes, StopperGoto
    <3>3. QED BY <1>10, <3>2 DEF StopWaits, TypeOK, GuiTypes, visVars, runVars
  <2>2. VisTypes'
    BY <1>10 DEF StopWaits, TypeOK, VisTypes, Alive, StopperGoto, VisGoto, visVars, runVars, guiVars
  <2>3. ChildTypes'
    BY <1>10 DEF StopWaits, TypeOK, ChildTypes, Servers,
           Alive, StopperGoto, VisGoto, visVars, runVars, guiVars
  <2>4. TypeOK'
    BY <1>10, <2>1, <2>2, <2>3 DEF StopWaits, TypeOK, VisTypes, ChildTypes, Servers, 
           Alive, StopperGoto, VisGoto, visVars, runVars, guiVars
  <2>5. StopInv'
    BY <1>10 DEF StopWaits, TypeOK, GuiTypes, StopInv, Stops, Alive, StopperGoto,
           Callers, guiVars
  <2>6. ChildIsOver'
    BY <1>10 DEF StopWaits, TypeOK, VisTypes, ChildTypes, ChildIsOver,
           ChildRuns, Servers, VisGoto, visVars, runVars
  <2>7. QED BY <2>4, <2>5, <2>6
<1>11. ASSUME NEW t \in Callers, StopForgets(g, t) PROVE Inv'
  <2>1. GuiTypes'
    BY <1>11 DEF StopForgets, TypeOK, GuiTypes, Alive, StopperGoto, VisGoto, visVars, runVars, guiVars
  <2>2. VisTypes'
    BY <1>11 DEF StopForgets, TypeOK, VisTypes, Alive, StopperGoto, VisGoto, visVars, runVars, guiVars
  <2>3. ChildTypes'
    BY <1>11 DEF StopForgets, TypeOK, ChildTypes, Servers,
           Alive, StopperGoto, VisGoto, visVars, runVars, guiVars
  <2>4. TypeOK'
    BY <1>11, <2>1, <2>2, <2>3 DEF StopForgets, TypeOK, VisTypes, ChildTypes, Servers, 
           Alive, StopperGoto, VisGoto, visVars, runVars, guiVars
  <2>5. StopInv'
    BY <1>11 DEF StopForgets, TypeOK, GuiTypes, StopInv, Stops, Alive, StopperGoto,
           Callers, guiVars
  <2>6. ChildIsOver'
    BY <1>11 DEF StopForgets, TypeOK, VisTypes, ChildTypes, ChildIsOver,
           ChildRuns, Servers, VisGoto, visVars, runVars
  <2>7. QED BY <2>4, <2>5, <2>6
<1>12. QED
  BY <1>1, <1>2, <1>3, <1>4, <1>5, <1>6, <1>7, <1>8, <1>9, <1>10, <1>11 DEF Gui, User, Stopping

(* The steps of a visualizer and of the servers.                           *)
LEMMA VisualizerStep ==
  ASSUME Inv, NEW l \in Visualizers,
         Visualizer(l) \/ ChildEnds(l) \/ WebListens(l) \/ GoRunCompiles(l) \/ Outside(l)
  PROVE  Inv'
<1> USE LifecycleAssumption DEF Inv
<1>1. CASE VisStarts(l)
  <2>1. GuiTypes'
    BY <1>1 DEF VisStarts, TypeOK, GuiTypes, Alive, StopperGoto, VisGoto, visVars, runVars, guiVars
  <2>2. VisTypes'
    BY <1>1 DEF VisStarts, TypeOK, VisTypes, Alive, StopperGoto, VisGoto, visVars, runVars, guiVars
  <2>3. ChildTypes'
    BY <1>1 DEF VisStarts, TypeOK, ChildTypes, Servers,
           Alive, StopperGoto, VisGoto, visVars, runVars, guiVars
  <2>4. TypeOK'
    BY <1>1, <2>1, <2>2, <2>3 DEF VisStarts, TypeOK, VisTypes, ChildTypes, Servers, 
           Alive, StopperGoto, VisGoto, visVars, runVars, guiVars
  <2>5. StopInv'
    BY <1>1 DEF VisStarts, TypeOK, GuiTypes, StopInv, Stops, Alive, StopperGoto,
           Callers, guiVars
  <2>6. ChildIsOver'
    BY <1>1 DEF VisStarts, TypeOK, VisTypes, ChildTypes, ChildIsOver,
           ChildRuns, Servers, VisGoto, visVars, runVars
  <2>7. QED BY <2>4, <2>5, <2>6
<1>2. CASE VisStartsServer(l)
  <2>1. GuiTypes'
    BY <1>2 DEF VisStartsServer, TypeOK, GuiTypes, Alive, StopperGoto, VisGoto, visVars, runVars, guiVars
  <2>2. VisTypes'
    BY <1>2 DEF VisStartsServer, TypeOK, VisTypes, Alive, StopperGoto, VisGoto, visVars, runVars, guiVars
  <2>3. ChildTypes'
    BY <1>2 DEF VisStartsServer, TypeOK, ChildTypes, Servers,
           Alive, StopperGoto, VisGoto, visVars, runVars, guiVars
  <2>4. TypeOK'
    BY <1>2, <2>1, <2>2, <2>3 DEF VisStartsServer, TypeOK, VisTypes, ChildTypes, Servers, 
           Alive, StopperGoto, VisGoto, visVars, runVars, guiVars
  <2>5. StopInv'
    BY <1>2 DEF VisStartsServer, TypeOK, GuiTypes, StopInv, Stops, Alive, StopperGoto,
           Callers, guiVars
  <2>6. ChildIsOver'
    BY <1>2 DEF VisStartsServer, TypeOK, VisTypes, ChildTypes, ChildIsOver,
           ChildRuns, Servers, VisGoto, visVars, runVars
  <2>7. QED BY <2>4, <2>5, <2>6
<1>3. CASE VisStartFails(l)
  <2>1. GuiTypes'
    BY <1>3 DEF VisStartFails, TypeOK, GuiTypes, Alive, StopperGoto, VisGoto, visVars, runVars, guiVars
  <2>2. VisTypes'
    BY <1>3 DEF VisStartFails, TypeOK, VisTypes, Alive, StopperGoto, VisGoto, visVars, runVars, guiVars
  <2>3. ChildTypes'
    BY <1>3 DEF VisStartFails, TypeOK, ChildTypes, Servers,
           Alive, StopperGoto, VisGoto, visVars, runVars, guiVars
  <2>4. TypeOK'
    BY <1>3, <2>1, <2>2, <2>3 DEF VisStartFails, TypeOK, VisTypes, ChildTypes, Servers, 
           Alive, StopperGoto, VisGoto, visVars, runVars, guiVars
  <2>5. StopInv'
    BY <1>3 DEF VisStartFails, TypeOK, GuiTypes, StopInv, Stops, Alive, StopperGoto,
           Callers, guiVars
  <2>6. ChildIsOver'
    BY <1>3 DEF VisStartFails, TypeOK, VisTypes, ChildTypes, ChildIsOver,
           ChildRuns, Servers, VisGoto, visVars, runVars
  <2>7. QED BY <2>4, <2>5, <2>6
<1>4. CASE VisStops(l)
  <2>1. GuiTypes'
    BY <1>4 DEF VisStops, TypeOK, GuiTypes, Alive, StopperGoto, VisGoto, visVars, runVars, guiVars
  <2>2. VisTypes'
    BY <1>4 DEF VisStops, TypeOK, VisTypes, Alive, StopperGoto, VisGoto, visVars, runVars, guiVars
  <2>3. ChildTypes'
    BY <1>4 DEF VisStops, TypeOK, ChildTypes, Servers,
           Alive, StopperGoto, VisGoto, visVars, runVars, guiVars
  <2>4. TypeOK'
    BY <1>4, <2>1, <2>2, <2>3 DEF VisStops, TypeOK, VisTypes, ChildTypes, Servers, 
           Alive, StopperGoto, VisGoto, visVars, runVars, guiVars
  <2>5. StopInv'
    BY <1>4 DEF VisStops, TypeOK, GuiTypes, StopInv, Stops, Alive, StopperGoto,
           Callers, guiVars
  <2>6. ChildIsOver'
    BY <1>4 DEF VisStops, TypeOK, VisTypes, ChildTypes, ChildIsOver,
           ChildRuns, Servers, VisGoto, visVars, runVars
  <2>7. QED BY <2>4, <2>5, <2>6
<1>5. CASE ShutdownReturns(l)
  <2>1. GuiTypes'
    BY <1>5 DEF ShutdownReturns, TypeOK, GuiTypes, Alive, StopperGoto, VisGoto, visVars, runVars, guiVars
  <2>2. VisTypes'
    BY <1>5 DEF ShutdownReturns, TypeOK, VisTypes, Alive, StopperGoto, VisGoto, visVars, runVars, guiVars
  <2>3. ChildTypes'
    BY <1>5 DEF ShutdownReturns, TypeOK, ChildTypes, Servers,
           Alive, StopperGoto, VisGoto, visVars, runVars, guiVars
  <2>4. TypeOK'
    BY <1>5, <2>1, <2>2, <2>3 DEF ShutdownReturns, TypeOK, VisTypes, ChildTypes, Servers, 
           Alive, StopperGoto, VisGoto, visVars, runVars, guiVars
  <2>5. StopInv'
    BY <1>5 DEF ShutdownReturns, TypeOK, GuiTypes, StopInv, Stops, Alive, StopperGoto,
           Callers, guiVars
  <2>6. ChildIsOver'
    BY <1>5 DEF ShutdownReturns, TypeOK, VisTypes, ChildTypes, ChildIsOver,
           ChildRuns, Servers, VisGoto, visVars, runVars
  <2>7. QED BY <2>4, <2>5, <2>6
<1>6. CASE VisKills(l)
  <2>1. GuiTypes'
    BY <1>6 DEF VisKills, TypeOK, GuiTypes, Alive, StopperGoto, VisGoto, visVars, runVars, guiVars
  <2>2. VisTypes'
    BY <1>6 DEF VisKills, TypeOK, VisTypes, Alive, StopperGoto, VisGoto, visVars, runVars, guiVars
  <2>3. ChildTypes'
    BY <1>6 DEF VisKills, TypeOK, ChildTypes, Servers,
           Alive, StopperGoto, VisGoto, visVars, runVars, guiVars
  <2>4. TypeOK'
    BY <1>6, <2>1, <2>2, <2>3 DEF VisKills, TypeOK, VisTypes, ChildTypes, Servers, 
           Alive, StopperGoto, VisGoto, visVars, runVars, guiVars
  <2>5. StopInv'
    BY <1>6 DEF VisKills, TypeOK, GuiTypes, StopInv, Stops, Alive, StopperGoto,
           Callers, guiVars
  <2>6. ChildIsOver'
    BY <1>6 DEF VisKills, TypeOK, VisTypes, ChildTypes, ChildIsOver,
           ChildRuns, Servers, VisGoto, visVars, runVars
  <2>7. QED BY <2>4, <2>5, <2>6
<1>7. CASE WebListens(l)
  <2>1. GuiTypes'
    BY <1>7 DEF WebListens, TypeOK, GuiTypes, Alive, StopperGoto, VisGoto, visVars, runVars, guiVars
  <2>2. VisTypes'
    BY <1>7 DEF WebListens, TypeOK, VisTypes, Alive, StopperGoto, VisGoto, visVars, runVars, guiVars
  <2>3. ChildTypes'
    BY <1>7 DEF WebListens, TypeOK, ChildTypes, Servers,
           Alive, StopperGoto, VisGoto, visVars, runVars, guiVars
  <2>4. TypeOK'
    BY <1>7, <2>1, <2>2, <2>3 DEF WebListens, TypeOK, VisTypes, ChildTypes, Servers, 
           Alive, StopperGoto, VisGoto, visVars, runVars, guiVars
  <2>5. StopInv'
    BY <1>7 DEF WebListens, TypeOK, GuiTypes, StopInv, Stops, Alive, StopperGoto,
           Callers, guiVars
  <2>6. ChildIsOver'
    BY <1>7 DEF WebListens, TypeOK, VisTypes, ChildTypes, ChildIsOver,
           ChildRuns, Servers, VisGoto, visVars, runVars
  <2>7. QED BY <2>4, <2>5, <2>6
<1>8. CASE GoRunCompiles(l)
  <2>1. GuiTypes'
    BY <1>8 DEF GoRunCompiles, TypeOK, GuiTypes, Alive, StopperGoto, VisGoto, visVars, runVars, guiVars
  <2>2. VisTypes'
    BY <1>8 DEF GoRunCompiles, TypeOK, VisTypes, Alive, StopperGoto, VisGoto, visVars, runVars, guiVars
  <2>3. ChildTypes'
    BY <1>8 DEF GoRunCompiles, TypeOK, ChildTypes, Servers,
           Alive, StopperGoto, VisGoto, visVars, runVars, guiVars
  <2>4. TypeOK'
    BY <1>8, <2>1, <2>2, <2>3 DEF GoRunCompiles, TypeOK, VisTypes, ChildTypes, Servers, 
           Alive, StopperGoto, VisGoto, visVars, runVars, guiVars
  <2>5. StopInv'
    BY <1>8 DEF GoRunCompiles, TypeOK, GuiTypes, StopInv, Stops, Alive, StopperGoto,
           Callers, guiVars
  <2>6. ChildIsOver'
    BY <1>8 DEF GoRunCompiles, TypeOK, VisTypes, ChildTypes, ChildIsOver,
           ChildRuns, Servers, VisGoto, visVars, runVars
  <2>7. QED BY <2>4, <2>5, <2>6
<1>9. CASE Stream(l)
  <2>1. GuiTypes'
    BY <1>9 DEF Stream, TypeOK, GuiTypes, Alive, StopperGoto, VisGoto, visVars, runVars, guiVars
  <2>2. VisTypes'
    BY <1>9 DEF Stream, TypeOK, VisTypes, Alive, StopperGoto, VisGoto, visVars, runVars, guiVars
  <2>3. ChildTypes'
    BY <1>9 DEF Stream, TypeOK, ChildTypes, Servers,
           Alive, StopperGoto, VisGoto, visVars, runVars, guiVars
  <2>4. TypeOK'
    BY <1>9, <2>1, <2>2, <2>3 DEF Stream, TypeOK, VisTypes, ChildTypes, Servers, 
           Alive, StopperGoto, VisGoto, visVars, runVars, guiVars
  <2>5. StopInv'
    BY <1>9 DEF Stream, TypeOK, GuiTypes, StopInv, Stops, Alive, StopperGoto,
           Callers, guiVars
  <2>6. ChildIsOver'
    BY <1>9 DEF Stream, TypeOK, VisTypes, ChildTypes, ChildIsOver,
           ChildRuns, Servers, VisGoto, visVars, runVars
  <2>7. QED BY <2>4, <2>5, <2>6
<1>10. CASE Told(l)
  <2>1. GuiTypes'
    BY <1>10 DEF Told, TypeOK, GuiTypes, Alive, StopperGoto, VisGoto, visVars, runVars, guiVars
  <2>2. VisTypes'
    BY <1>10 DEF Told, TypeOK, VisTypes, Alive, StopperGoto, VisGoto, visVars, runVars, guiVars
  <2>3. ChildTypes'
    BY <1>10 DEF Told, TypeOK, ChildTypes, Servers,
           Alive, StopperGoto, VisGoto, visVars, runVars, guiVars
  <2>4. TypeOK'
    BY <1>10, <2>1, <2>2, <2>3 DEF Told, TypeOK, VisTypes, ChildTypes, Servers, 
           Alive, StopperGoto, VisGoto, visVars, runVars, guiVars
  <2>5. StopInv'
    BY <1>10 DEF Told, TypeOK, GuiTypes, StopInv, Stops, Alive, StopperGoto,
           Callers, guiVars
  <2>6. ChildIsOver'
    BY <1>10 DEF Told, TypeOK, VisTypes, ChildTypes, ChildIsOver,
           ChildRuns, Servers, VisGoto, visVars, runVars
  <2>7. QED BY <2>4, <2>5, <2>6
<1>11. CASE VisDies(l)
  <2>1. GuiTypes'
    BY <1>11 DEF VisDies, TypeOK, GuiTypes, Alive, StopperGoto, VisGoto, visVars, runVars, guiVars
  <2>2. VisTypes'
    BY <1>11 DEF VisDies, TypeOK, VisTypes, Alive, StopperGoto, VisGoto, visVars, runVars, guiVars
  <2>3. ChildTypes'
    BY <1>11 DEF VisDies, TypeOK, ChildTypes, Servers,
           Alive, StopperGoto, VisGoto, visVars, runVars, guiVars
  <2>4. TypeOK'
    BY <1>11, <2>1, <2>2, <2>3 DEF VisDies, TypeOK, VisTypes, ChildTypes, Servers, 
           Alive, StopperGoto, VisGoto, visVars, runVars, guiVars
  <2>5. StopInv'
    BY <1>11 DEF VisDies, TypeOK, GuiTypes, StopInv, Stops, Alive, StopperGoto,
           Callers, guiVars
  <2>6. ChildIsOver'
    BY <1>11 DEF VisDies, TypeOK, VisTypes, ChildTypes, ChildIsOver,
           ChildRuns, Servers, VisGoto, visVars, runVars
  <2>7. QED BY <2>4, <2>5, <2>6
<1>12. CASE BrokenPipe(l)
  <2>1. GuiTypes'
    BY <1>12 DEF BrokenPipe, TypeOK, GuiTypes, Alive, StopperGoto, VisGoto, visVars, runVars, guiVars
  <2>2. VisTypes'
    BY <1>12 DEF BrokenPipe, TypeOK, VisTypes, Alive, StopperGoto, VisGoto, visVars, runVars, guiVars
  <2>3. ChildTypes'
    BY <1>12 DEF BrokenPipe, TypeOK, ChildTypes, Servers,
           Alive, StopperGoto, VisGoto, visVars, runVars, guiVars
  <2>4. TypeOK'
    BY <1>12, <2>1, <2>2, <2>3 DEF BrokenPipe, TypeOK, VisTypes, ChildTypes, Servers, 
           Alive, StopperGoto, VisGoto, visVars, runVars, guiVars
  <2>5. StopInv'
    BY <1>12 DEF BrokenPipe, TypeOK, GuiTypes, StopInv, Stops, Alive, StopperGoto,
           Callers, guiVars
  <2>6. ChildIsOver'
    BY <1>12 DEF BrokenPipe, TypeOK, VisTypes, ChildTypes, ChildIsOver,
           ChildRuns, Servers, VisGoto, visVars, runVars
  <2>7. QED BY <2>4, <2>5, <2>6
<1>13. CASE VisWaits(l)
  <2>1. GuiTypes'
    BY <1>13 DEF VisWaits, TypeOK, GuiTypes, Alive, StopperGoto, VisGoto, visVars, runVars, guiVars
  <2>2. VisTypes'
    BY <1>13 DEF VisWaits, TypeOK, VisTypes, Alive, StopperGoto, VisGoto, visVars, runVars, guiVars
  <2>3. ChildTypes'
    BY <1>13 DEF VisWaits, TypeOK, ChildTypes, Servers,
           Alive, StopperGoto, VisGoto, visVars, runVars, guiVars
  <2>4. TypeOK'
    BY <1>13, <2>1, <2>2, <2>3 DEF VisWaits, TypeOK, VisTypes, ChildTypes, Servers, 
           Alive, StopperGoto, VisGoto, visVars, runVars, guiVars
  <2>5. StopInv'
    BY <1>13 DEF VisWaits, TypeOK, GuiTypes, StopInv, Stops, Alive, StopperGoto,
           Callers, guiVars
  <2>6. ChildIsOver'
    BY <1>13 DEF VisWaits, TypeOK, VisTypes, ChildTypes, ChildIsOver,
           ChildRuns, Servers, VisGoto, visVars, runVars
  <2>7. QED BY <2>4, <2>5, <2>6
<1>14. CASE ChildEnds(l)
  <2>1. GuiTypes'
    BY <1>14 DEF ChildEnds, TypeOK, GuiTypes, Alive, StopperGoto, VisGoto, visVars, runVars, guiVars
  <2>2. VisTypes'
    BY <1>14 DEF ChildEnds, TypeOK, VisTypes, Alive, StopperGoto, VisGoto, visVars, runVars, guiVars
  <2>3. ChildTypes'
    BY <1>14 DEF ChildEnds, TypeOK, ChildTypes, Servers,
           Alive, StopperGoto, VisGoto, visVars, runVars, guiVars
  <2>4. TypeOK'
    BY <1>14, <2>1, <2>2, <2>3 DEF ChildEnds, TypeOK, VisTypes, ChildTypes, Servers, 
           Alive, StopperGoto, VisGoto, visVars, runVars, guiVars
  <2>5. StopInv'
    BY <1>14 DEF ChildEnds, TypeOK, GuiTypes, StopInv, Stops, Alive, StopperGoto,
           Callers, guiVars
  <2>6. ChildIsOver'
    BY <1>14 DEF ChildEnds, TypeOK, VisTypes, ChildTypes, ChildIsOver,
           ChildRuns, Servers, VisGoto, visVars, runVars
  <2>7. QED BY <2>4, <2>5, <2>6
<1>15. QED
  BY <1>1, <1>2, <1>3, <1>4, <1>5, <1>6, <1>7, <1>8, <1>9, <1>10, <1>11, <1>12, <1>13, <1>14
     DEF Visualizer, Outside

LEMMA ServerStep ==
  ASSUME Inv, StandaloneStarts \/ \E s \in Servers : SrvListens(s)
  PROVE  Inv'
<1> USE LifecycleAssumption DEF Inv, StandaloneStarts, SrvListens
<1>1. TypeOK'
  BY DEF TypeOK, GuiTypes, VisTypes, ChildTypes, guiVars, runVars, visVars, Servers
<1>2. StopInv'
  BY DEF StopInv, Stops, guiVars
<1>3. ChildIsOver'
  BY DEF TypeOK, VisTypes, ChildTypes, ChildIsOver, ChildRuns, runVars, visVars, Servers
<1>4. QED BY <1>1, <1>2, <1>3

LEMMA InvAlways == Spec => []Inv
<1>1. ASSUME Inv, [Next]_vars PROVE Inv'
  <2>1. CASE UNCHANGED vars
    BY <1>1, <2>1 DEF vars, guiVars, runVars, visVars, Inv, TypeOK, GuiTypes,
                      VisTypes, ChildTypes, StopInv, Stops,
                      ChildIsOver, ChildRuns, Callers, Servers
  <2>2. QED
    BY <1>1, <2>1, StopStep, VisualizerStep, ServerStep DEF Next
<1>2. QED BY <1>1, InvInit, PTL DEF Spec

(* Types, for any number of processes.                                     *)
THEOREM LifecycleTypes == Spec => []TypeOK
BY InvAlways, PTL DEF Inv

(* stopServer never calls a method on a nil d.server.                      *)
THEOREM StopServerIsSafe == Spec => []NilIsNeverUsed
<1>1. Inv => NilIsNeverUsed BY DEF Inv, StopInv, Stops, NilIsNeverUsed
<1>2. QED BY <1>1, InvAlways, PTL

(* A GUI ends by itself only with its other goroutine stuck in Wait.       *)
THEOREM ExitIsByRace == Spec => []ExitNeedsTwoStops
<1>1. Inv => ExitNeedsTwoStops BY DEF Inv, StopInv, Stops, ExitNeedsTwoStops
<1>2. QED BY <1>1, InvAlways, PTL

(* For any number of visualizers and servers, ended and killed in any       *)
(* order: a server that cannot bind the port finds it held by the one      *)
(* started by hand, by one whose visualizer is still in main, or by one    *)
(* whose visualizer was killed, and never by what a visualizer that left   *)
(* main has left behind.                                                   *)
THEOREM PortIsFreed == Spec => RestartFindsPort
<1>1. ASSUME Inv, [Next]_vars, NEW s \in Servers, LosesPort(s)
      PROVE  \E o \in Listening : o = Standalone \/ vis[o] # "gone"
  <2>1. SrvListens(s)
    <3>1. \A g \in Guis : Gui(g) \/ User(g) => srv' = srv
      BY DEF Gui, User, Stopping, ShowReturns, GuiExits, GoRunCompiles, StopChecks, StopKills,
             StopWaits, StopForgets, GuiStarts, GuiStartPanics, GuiCrashes, WindowCloses
    <3>2. ASSUME NEW l \in Visualizers,
                 Visualizer(l) \/ ChildEnds(l) \/ WebListens(l) \/ GoRunCompiles(l) \/ Outside(l)
          PROVE  srv'[s] = srv[s] \/ srv'[s] = "starting" \/ s \in struck \/ srv[s] = "listening"
      <4>1. srv \in [Servers -> {"none", "starting", "listening", "gone"}]
        BY <1>1 DEF Inv, TypeOK, ChildTypes
      <4>2. CASE VisStartsServer(l) BY <4>1, <4>2 DEF VisStartsServer
      <4>3. CASE ChildEnds(l) BY <4>1, <4>3 DEF ChildEnds
      <4>4. CASE BrokenPipe(l) BY <4>1, <4>4 DEF BrokenPipe
      <4>5. CASE \/ VisStartFails(l) \/ VisStops(l) \/ ShutdownReturns(l) \/ VisKills(l)
                 \/ VisWaits(l) \/ WebListens(l) \/ GoRunCompiles(l) \/ VisStarts(l)
                 \/ Stream(l) \/ Told(l) \/ VisDies(l)
        BY <4>5 DEF VisStartFails, VisStops, ShutdownReturns, VisKills, VisWaits, WebListens,
                    GoRunCompiles, VisStarts, Stream, Told, VisDies
      <4>6. QED BY <3>2, <4>2, <4>3, <4>4, <4>5 DEF Visualizer, Outside
    <3>3. srv[s] = "starting" /\ srv'[s] = "gone" /\ s \notin struck BY <1>1 DEF LosesPort
    <3>4. StandaloneStarts => srv'[s] = srv[s] \/ srv'[s] = "starting"
      BY <1>1 DEF StandaloneStarts, Inv, TypeOK, ChildTypes
    <3>5. \A o \in Servers : SrvListens(o) => o = s
      BY <1>1, <3>3 DEF SrvListens, Inv, TypeOK, ChildTypes
    <3>6. ~ UNCHANGED vars BY <3>3 DEF vars
    <3>7. QED BY <1>1, <3>1, <3>2, <3>3, <3>4, <3>5, <3>6 DEF Next
  <2>2. Listening # {}
    BY <1>1, <2>1 DEF SrvListens, LosesPort, Inv, TypeOK, ChildTypes
  <2>3. PICK o \in Servers : srv[o] = "listening" BY <2>2 DEF Listening
  <2>4. o \in Visualizers => vis[o] # "gone"
    BY <1>1, <2>3 DEF Inv, ChildIsOver, ChildRuns
  <2>5. QED BY <2>3, <2>4 DEF Servers, Listening
<1>2. Inv /\ [Next]_vars =>
        [\A s \in Servers : LosesPort(s) =>
           \E o \in Listening : o = Standalone \/ vis[o] # "gone"]_vars
  BY <1>1
<1>3. QED BY <1>2, InvAlways, PTL DEF Spec, RestartFindsPort
===============================================================================
