----------------------------------- MODULE Gui -----------------------------------
(***************************************************************************)
(* The desktop GUI (gui/main.go) reading the server's events: the goroutine *)
(* of connectSSE, which fills clientMap and logEntries, and the toolkit's  *)
(* goroutine, which draws the two lists and runs the buttons.  They share  *)
(* the Dashboard without a lock.                                           *)
(*                                                                         *)
(* The server and the visualizer are what GoServer and SseHub show of      *)
(* them.  A connection is announced, may move data, and is closed, each     *)
(* event once and in this order, under an fd that nothing keeps from being  *)
(* another connection's too.  Whoever is connected to /events gets every    *)
(* event from then on and, written by another goroutine without a lock,     *)
(* sse_connected and init, of which a write may overlap an event's: either  *)
(* may then be torn, and the GUI skips what is no event.  The server's init *)
(* has come by the time anyone connects.                                   *)
(*                                                                         *)
(* Data.  Of logEntries only the length is kept.                           *)
(*                                                                         *)
(* Atomicity.  A step of addLog or of a list's callbacks is one access to  *)
(* logEntries; clientMap is written in one step and read in two.  The       *)
(* Refresh of clientList that ends handleAccept and handleClose (gui/       *)
(* main.go:196, 230) is left out: it only reads clientMap, on the goroutine *)
(* that alone writes it, and the widget is made before addLog's own, which  *)
(* has been used by then.                                                  *)
(***************************************************************************)
EXTENDS Naturals, Sequences

CONSTANTS FDs,       \* the fds the server gives to connections
          Nobody,    \* the fd of a frame about no connection
          MaxFeed,   \* frames a connection holds before its writers wait
          Cap,       \* the entries addLog keeps (500)
          MaxOpen,   \* bound: connections open with the same fd
          MaxClicks  \* bound: clicks on the buttons that log

ASSUME GuiAssumption ==
  /\ Nobody \notin FDs /\ Cap \in Nat \ {0}
  /\ MaxFeed \in Nat /\ MaxOpen \in Nat /\ MaxClicks \in Nat

VARIABLES
  open,       \* of each fd, the connections announced and not yet reported closed
  built,      \* buildUI has made the widgets
  crash,      \* "none", or why the process has panicked
  linked,     \* the /events request is open
  greeting,   \* what handleSSE has still to write to it
  feed,       \* frames on their way: the event and its fd, or Nobody
  lost,       \* history: fds whose last accept or close did not come through
  twins,      \* history: fds whose last event closed one of several connections
  clientMap,  \* the keys of clientMap
  entries,    \* len(logEntries)
  at,         \* where each goroutine stands
  loaded,     \* the len(logEntries) it has read
  clicks,     \* clicks on the buttons that log
  full,       \* history: logEntries was longer than Cap
  raced       \* history: both goroutines were inside addLog

serverVars == <<open, twins>>
streamVars == <<linked, greeting, feed, lost>>
logVars == <<entries, at, loaded, clicks, full, raced>>
vars == <<serverVars, built, crash, streamVars, clientMap, logVars>>

Sides == {"sse", "ui"}
Events == {"sse_connected", "init", "accept", "data", "close"}
Logging == {"store", "check", "trim"}
Alive == crash = "none"
Goto(w, label) == at' = [at EXCEPT ![w] = label]
Loads(w) == loaded' = [loaded EXCEPT ![w] = entries]
Forgets(w) == loaded' = [loaded EXCEPT ![w] = 0]
Panics(why) == crash' = why

Init ==
  /\ open = [f \in FDs |-> 0] /\ lost = {} /\ twins = {}
  /\ built = FALSE /\ crash = "none"
  /\ linked = FALSE /\ greeting = << >> /\ feed = << >>
  /\ clientMap = {} /\ entries = 0 /\ clicks = 0 /\ full = FALSE /\ raced = FALSE
  /\ at = [w \in Sides |-> "idle"] /\ loaded = [w \in Sides |-> 0]
-----------------------------------------------------------------------------
(* The frames that decide whether the list has an fd, and what they say.   *)
About(f) == {i \in DOMAIN feed : feed[i] \in {<<"accept", f>>, <<"close", f>>}}
Listing(kind, f) == IF kind \in {"accept", "close"} THEN {f} ELSE {}

(* broadcastEvent reaches no one, or a viewer; if handleSSE is still        *)
(* greeting that one, this frame or the next of the greeting may be torn.   *)
Arrives(kind, f) ==
  /\ linked /\ Len(feed) < MaxFeed
  /\ feed' = Append(feed, <<kind, f>>) /\ lost' = lost \ Listing(kind, f)
  /\ \/ UNCHANGED greeting
     \/ greeting # << >> /\ greeting' = Tail(greeting)
GoesAstray(kind, f) ==
  /\ lost' = lost \cup Listing(kind, f) /\ UNCHANGED feed
  /\ \/ ~linked /\ UNCHANGED greeting
     \/ linked /\ greeting # << >> /\ greeting' \in {greeting, Tail(greeting)}

(* The server prints, and the visualizer passes it on.                     *)
Report(kind, f) ==
  /\ Alive /\ (Arrives(kind, f) \/ GoesAstray(kind, f))
  /\ UNCHANGED <<built, crash, linked, clientMap, logVars>>

ServerAccepts(f) ==
  /\ open[f] < MaxOpen /\ open' = [open EXCEPT ![f] = @ + 1] /\ twins' = twins \ {f}
  /\ Report("accept", f)

ServerMoves(f) == open[f] > 0 /\ UNCHANGED serverVars /\ Report("data", f)

ServerCloses(f) ==
  /\ open[f] > 0 /\ open' = [open EXCEPT ![f] = @ - 1]
  /\ twins' = IF open[f] > 1 THEN twins \cup {f} ELSE twins \ {f}
  /\ Report("close", f)

(* What the visualizer greets a viewer with, and its writing it.           *)
Greeting == << <<"sse_connected", Nobody>>, <<"init", Nobody>> >>

Greets ==
  /\ Alive /\ greeting # << >> /\ Len(feed) < MaxFeed /\ greeting' = Tail(greeting)
  /\ feed' = Append(feed, Head(greeting))
  /\ UNCHANGED <<serverVars, built, crash, linked, lost, clientMap, logVars>>

(* Mutant: a new connection starts with an empty log.                      *)
ConnectClearingLog ==
  /\ Alive /\ ~linked /\ feed = << >> /\ at["sse"] = "idle"
  /\ linked' = TRUE /\ greeting' = Greeting /\ entries' = 0
  /\ UNCHANGED <<serverVars, built, crash, feed, lost, clientMap, at, loaded, clicks,
                 full, raced>>

(* http.Get succeeds.                                                      *)
Connect ==
  /\ Alive /\ ~linked /\ feed = << >> /\ at["sse"] = "idle"
  /\ linked' = TRUE /\ greeting' = Greeting
  /\ UNCHANGED <<serverVars, built, crash, feed, lost, clientMap, logVars>>

(* The visualizer ends, or the connection breaks: what it still held is    *)
(* lost.                                                                   *)
Drop ==
  /\ Alive /\ linked /\ linked' = FALSE
  /\ lost' = lost \cup {f \in FDs : About(f) # {}} /\ feed' = << >> /\ greeting' = << >>
  /\ UNCHANGED <<serverVars, built, crash, clientMap, logVars>>
-----------------------------------------------------------------------------
(* addLog, on either goroutine.                                            *)
Busy(w) == at[w] \in Logging

LogLoad(w) ==
  /\ Alive /\ at[w] = "log" /\ Goto(w, "store") /\ Loads(w)
  /\ raced' = (raced \/ \E v \in Sides \ {w} : Busy(v))
  /\ UNCHANGED <<serverVars, built, crash, streamVars, clientMap, entries, clicks, full>>

LogStore(w) ==
  /\ Alive /\ at[w] = "store" /\ Goto(w, "check") /\ Forgets(w)
  /\ entries' = loaded[w] + 1 /\ full' = (full \/ entries' > Cap)
  /\ UNCHANGED <<serverVars, built, crash, streamVars, clientMap, clicks, raced>>

(* Mutant: the log is never trimmed.                                       *)
LogKeepsAll(w) ==
  /\ Alive /\ at[w] = "check" /\ Goto(w, "length")
  /\ UNCHANGED <<serverVars, built, crash, streamVars, clientMap, entries, loaded, clicks,
                 full, raced>>

LogCheck(w) ==
  /\ Alive /\ at[w] = "check"
  /\ Goto(w, IF entries > Cap THEN "trim" ELSE "length")
  /\ UNCHANGED <<serverVars, built, crash, streamVars, clientMap, entries, loaded, clicks,
                 full, raced>>

(* logEntries[len-500:] panics if the other goroutine has made it shorter. *)
LogTrim(w) ==
  /\ Alive /\ at[w] = "trim"
  /\ IF entries >= Cap THEN entries' = Cap /\ Goto(w, "length") /\ UNCHANGED crash
                       ELSE Panics("bounds") /\ UNCHANGED <<entries, at>>
  /\ UNCHANGED <<serverVars, built, streamVars, clientMap, loaded, clicks, full, raced>>

(* eventList.Refresh: the list asks for the length, then for its rows, of  *)
(* which the last one matters.                                             *)
ListLength(w) ==
  /\ Alive /\ at[w] = "length"
  /\ IF built THEN Goto(w, "row") /\ Loads(w) /\ UNCHANGED crash
              ELSE Panics("nil") /\ UNCHANGED <<at, loaded>>
  /\ UNCHANGED <<serverVars, built, streamVars, clientMap, entries, clicks, full, raced>>

ListUpdate(w) ==
  /\ Alive /\ at[w] = "row" /\ Forgets(w)
  /\ IF loaded[w] <= entries THEN Goto(w, "idle") /\ UNCHANGED crash
                             ELSE Panics("index") /\ UNCHANGED at
  /\ UNCHANGED <<serverVars, built, streamVars, clientMap, entries, clicks, full, raced>>
-----------------------------------------------------------------------------
(* connectSSE: ReadString and handleEvent.                                 *)
Take(kind, f) ==
  /\ Alive /\ at["sse"] = "idle" /\ feed # << >> /\ Head(feed) = <<kind, f>>
  /\ feed' = Tail(feed)
  /\ UNCHANGED <<serverVars, built, linked, greeting, lost, entries, loaded, clicks, full,
                 raced>>

(* The handler goes on to addLog, or the process dies of what is wrong.    *)
LogsUnless(wrong, why) ==
  \/ Goto("sse", "log") /\ UNCHANGED crash
  \/ wrong /\ Panics(why) /\ UNCHANGED at

(* A map written while the other goroutine ranges over it is a fatal error *)
(* if the runtime sees it.                                                 *)
WritesMap(change) == clientMap' = change /\ LogsUnless(at["ui"] = "range", "map")

HandleConnected ==
  Take("sse_connected", Nobody) /\ Goto("sse", "log") /\ UNCHANGED <<crash, clientMap>>

(* Mutant: init starts the list of clients afresh, as a restart would.     *)
HandleInitForgets ==
  Take("init", Nobody) /\ LogsUnless(~built, "nil") /\ clientMap' = {}

(* The labels init writes to may still be nil.                             *)
HandleInit == Take("init", Nobody) /\ LogsUnless(~built, "nil") /\ UNCHANGED clientMap

HandleAccept(f) == Take("accept", f) /\ WritesMap(clientMap \cup {f})

(* handleRead, handleWrite, handleBackpressure and handleBufferCleared.    *)
HandleData(f) == Take("data", f) /\ Goto("sse", "log") /\ UNCHANGED <<crash, clientMap>>

(* Mutant: handleClose only logs.                                          *)
HandleCloseLogs(f) == Take("close", f) /\ Goto("sse", "log") /\ UNCHANGED <<crash, clientMap>>

HandleClose(f) == Take("close", f) /\ WritesMap(clientMap \ {f})
-----------------------------------------------------------------------------
(* The toolkit's goroutine, once buildUI is done.                          *)
BuildUI ==
  /\ Alive /\ ~built /\ built' = TRUE
  /\ UNCHANGED <<serverVars, crash, streamVars, clientMap, logVars>>

UiGoto(from, label) ==
  /\ Alive /\ built /\ at["ui"] = from /\ Goto("ui", label)
  /\ UNCHANGED <<serverVars, built, crash, streamVars, clientMap, entries, loaded, full, raced>>

(* The user scrolls one of the lists.                                      *)
DrawEvents == UiGoto("idle", "length") /\ UNCHANGED clicks
DrawClients == UiGoto("idle", "range") /\ UNCHANGED clicks
ClientsDrawn == UiGoto("range", "idle") /\ UNCHANGED clicks

(* Toggle Choke and Close All log a line.                                  *)
ClickLog == UiGoto("idle", "log") /\ clicks < MaxClicks /\ clicks' = clicks + 1
(* Spawn dials and closes; Send 1 KB and 16 KB write, and Read, without a  *)
(* deadline, before they close.  A failed Dial shows a dialog.             *)
ClickSend == UiGoto("idle", "sending") /\ UNCHANGED clicks
SendReturns == UiGoto("sending", "idle") /\ UNCHANGED clicks
-----------------------------------------------------------------------------
AddLog(w) ==
  LogLoad(w) \/ LogStore(w) \/ LogCheck(w) \/ LogTrim(w) \/ ListLength(w) \/ ListUpdate(w)

Sse ==
  \/ AddLog("sse") \/ Connect \/ HandleConnected \/ HandleInit
  \/ \E f \in FDs : HandleAccept(f) \/ HandleData(f) \/ HandleClose(f)

Ui == AddLog("ui") \/ BuildUI \/ ClientsDrawn

Next ==
  \/ Sse \/ Ui \/ Greets \/ Drop
  \/ DrawEvents \/ DrawClients \/ ClickLog \/ ClickSend \/ SendReturns
  \/ \E f \in FDs : ServerAccepts(f) \/ ServerMoves(f) \/ ServerCloses(f)

Spec == Init /\ [][Next]_vars

(* Goroutines that can run do; the visualizer comes back (Connect is part  *)
(* of Sse).  Clients and users owe nothing, nor does the server what a      *)
(* button waits for.                                                       *)
Fairness ==
  WF_vars(Sse) /\ WF_vars(Ui)

FairSpec == Spec /\ Fairness
-----------------------------------------------------------------------------
(* The variables keep to their types.  The log is one entry over its limit *)
(* at most, until both goroutines have been inside addLog: then one can     *)
(* undo what the other has trimmed.                                         *)
TypeOK ==
  /\ open \in [FDs -> 0 .. MaxOpen]
  /\ built \in BOOLEAN /\ crash \in {"none", "nil", "index", "bounds", "map"}
  /\ linked \in BOOLEAN /\ clicks \in 0 .. MaxClicks
  /\ feed \in Seq(Events \X (FDs \cup {Nobody}))
  /\ greeting \in {Greeting, Tail(Greeting), << >>}
  /\ lost \subseteq FDs /\ twins \subseteq FDs /\ clientMap \subseteq FDs
  /\ full \in BOOLEAN /\ raced \in BOOLEAN
  /\ entries \in Nat /\ loaded \in [Sides -> Nat] /\ (entries > Cap + 1 => raced)
  /\ at \in [Sides -> Logging \cup {"idle", "log", "length", "row", "range", "sending"}]

(* A list's callback finds the log shorter than the list believes only     *)
(* after it was trimmed, or after both goroutines were inside addLog: a    *)
(* single writer below the limit cannot make the drawing panic, and only   *)
(* two writers can make addLog itself panic.                               *)
PanicHasCause ==
  /\ crash = "index" => full \/ raced
  /\ crash = "bounds" => full /\ raced

(* What the list will have once the frames on their way are handled is      *)
(* right of every fd whose last accept or close came through, whatever came *)
(* before it: a listed client is open, and an open one is listed, unless     *)
(* the server has closed a connection that had the same fd.                 *)
After(f) ==
  \/ About(f) = {} /\ f \in clientMap
  \/ \E i \in About(f) : feed[i] = <<"accept", f>> /\ \A j \in About(f) : j <= i
ListIsTrue ==
  crash = "none" => \A f \in FDs \ lost :
    /\ After(f) => open[f] > 0
    /\ open[f] > 0 => After(f) \/ f \in twins

(* A client that is gone leaves the list, if its close came through, while *)
(* the user draws and clicks and the stream breaks.                        *)
ClosedIsUnlisted ==
  \A f \in FDs :
    open[f] = 0 ~> (f \notin clientMap \/ open[f] > 0 \/ f \in lost \/ crash # "none")
===============================================================================
