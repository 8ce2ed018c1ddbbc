-------------------------------- MODULE Gui_proofs --------------------------------
(***************************************************************************)
(* What is proved of Gui for every number of connections, clicks and       *)
(* breaks and every limit Cap: its types, with the bound on the log, the   *)
(* causes of its panics, and when its list of clients is right.            *)
(***************************************************************************)
EXTENDS Gui, TLAPS

(* The types alone; the bound on the log is part of Causes.                *)
Types ==
  /\ open \in [FDs -> 0 .. MaxOpen]
  /\ built \in BOOLEAN /\ crash \in {"none", "nil", "index", "bounds", "map"}
  /\ linked \in BOOLEAN /\ clicks \in 0 .. MaxClicks
  /\ feed \in Seq(Events \X (FDs \cup {Nobody}))
  /\ greeting \in {Greeting, Tail(Greeting), << >>}
  /\ lost \subseteq FDs /\ twins \subseteq FDs /\ clientMap \subseteq FDs
  /\ full \in BOOLEAN /\ raced \in BOOLEAN
  /\ entries \in Nat /\ loaded \in [Sides -> Nat]
  /\ at \in [Sides -> Logging \cup {"idle", "log", "length", "row", "range", "sending"}]

(* A goroutine inside addLog alone knows the log it changes; the log was   *)
(* too long before any trim; a row is asked for below the length.          *)
Alone ==
  /\ ~(Busy("sse") /\ Busy("ui"))
  /\ \A w \in Sides : at[w] = "store" => loaded[w] = entries
  /\ \A w \in Sides : at[w] = "trim" => entries > Cap
  /\ entries <= Cap + 1
  /\ entries > Cap => \E w \in Sides : at[w] \in {"check", "trim"}

Causes ==
  /\ entries > Cap => full
  /\ \A w \in Sides : at[w] = "trim" => full
  /\ ~raced => Alone
  /\ ~raced /\ ~full => \A w \in Sides : at[w] = "row" => loaded[w] <= entries

IInv == Types /\ Causes /\ PanicHasCause

-----------------------------------------------------------------------------
LEMMA InitHolds == Init => IInv
  <1> SUFFICES ASSUME Init PROVE IInv
    OBVIOUS
  <1>1. Types
    <2>1. feed \in Seq(Events \X (FDs \cup {Nobody})) BY DEF Init
    <2>2. open \in [FDs -> 0 .. MaxOpen] /\ clicks \in 0 .. MaxClicks
      BY GuiAssumption DEF Init
    <2> QED BY <2>1, <2>2 DEF Init, Types
  <1>2. Causes BY GuiAssumption DEF Init, Causes, Alone, Busy, Logging, Sides
  <1> QED BY <1>1, <1>2 DEF Init, IInv, PanicHasCause

(* A frame at the end of the feed, and what is left of the greeting.       *)
LEMMA FeedAppend ==
  ASSUME Types, NEW k \in Events, NEW c \in FDs \cup {Nobody}
  PROVE  Append(feed, <<k, c>>) \in Seq(Events \X (FDs \cup {Nobody}))
  BY DEF Types

LEMMA GreetingTail ==
  ASSUME Types, greeting # << >>
  PROVE  /\ Tail(greeting) \in {Tail(Greeting), << >>}
         /\ \E k \in {"sse_connected", "init"} : Head(greeting) = <<k, Nobody>>
  <1>1. /\ Head(Greeting) = <<"sse_connected", Nobody>>
        /\ Tail(Greeting) = << <<"init", Nobody>> >>
    BY DEF Greeting
  <1>2. \A x : Tail(<< x >>) = << >> /\ Head(<< x >>) = x
    OBVIOUS
  <1>3. Tail(Tail(Greeting)) = << >> /\ Head(Tail(Greeting)) = <<"init", Nobody>>
    BY <1>1, <1>2, Zenon
  <1> QED BY <1>1, <1>3, Zenon DEF Types

(* The variables of addLog and the callbacks decide Causes and             *)
(* PanicHasCause; a goroutine that is outside them may move there as long  *)
(* as it enters at "idle", "log", "range", "sending" or "length".          *)
Outside == {"idle", "log", "range", "sending", "length"}

LEMMA MovesOutside ==
  ASSUME IInv, NEW w \in Sides, at[w] \in Outside, NEW l \in Outside,
         at' = [at EXCEPT ![w] = l],
         UNCHANGED <<entries, loaded, full, raced>>,
         crash' \in {crash, "map", "nil"}
  PROVE  Causes' /\ PanicHasCause'
  <1>1. \A v \in Sides : at'[v] = at[v] \/ (at[v] \in Outside /\ at'[v] \in Outside)
    BY DEF IInv, Types
  <1>2. Alone => Alone'
    BY <1>1 DEF Alone, Busy, Logging, Sides, Outside
  <1> QED BY <1>1, <1>2 DEF IInv, Causes, PanicHasCause, Outside

LEMMA StaysPut ==
  ASSUME IInv, UNCHANGED <<entries, loaded, full, raced, at>>,
         crash' \in {crash, "map", "nil"}
  PROVE  Causes' /\ PanicHasCause'
  BY DEF IInv, Causes, PanicHasCause, Alone, Busy
-----------------------------------------------------------------------------
(* The server and the stream.                                              *)
LEMMA ReportKeeps ==
  ASSUME IInv, NEW k \in Events, NEW f \in FDs, Report(k, f),
         open' \in [FDs -> 0 .. MaxOpen], twins' \subseteq FDs
  PROVE  IInv'
  <1>1. feed' \in Seq(Events \X (FDs \cup {Nobody})) /\ lost' \subseteq FDs
    BY FeedAppend DEF IInv, Types, Report, Arrives, GoesAstray, Listing
  <1>2. greeting' \in {Greeting, Tail(Greeting), << >>}
    BY GreetingTail DEF IInv, Types, Report, Arrives, GoesAstray
  <1>3. Types' BY <1>1, <1>2 DEF IInv, Types, Report, logVars
  <1> QED BY <1>3, StaysPut DEF IInv, Report, logVars

LEMMA ServerKeeps ==
  ASSUME IInv, NEW f \in FDs, ServerAccepts(f) \/ ServerMoves(f) \/ ServerCloses(f)
  PROVE  IInv'
  <1>1. open' \in [FDs -> 0 .. MaxOpen] /\ twins' \subseteq FDs
    BY GuiAssumption DEF IInv, Types, ServerAccepts, ServerMoves, ServerCloses, serverVars
  <1> QED BY <1>1, ReportKeeps DEF ServerAccepts, ServerMoves, ServerCloses, Events

LEMMA StreamKeeps == ASSUME IInv, Connect \/ Greets \/ Drop PROVE IInv'
  <1>1. CASE Connect
    <2>1. Types' BY <1>1 DEF Connect, IInv, Types, serverVars, logVars
    <2> QED BY <1>1, <2>1, StaysPut DEF Connect, IInv, logVars
  <1>2. CASE Greets
    <2>1. PICK k \in {"sse_connected", "init"} : Head(greeting) = <<k, Nobody>>
      BY <1>2, GreetingTail DEF Greets, IInv
    <2>2. feed' \in Seq(Events \X (FDs \cup {Nobody}))
      BY <1>2, <2>1, FeedAppend DEF Greets, IInv, Events
    <2>3. Types'
      BY <1>2, <2>2, GreetingTail DEF Greets, IInv, Types, serverVars, logVars
    <2> QED BY <1>2, <2>3, StaysPut DEF Greets, IInv, logVars
  <1>3. CASE Drop
    <2>1. feed' \in Seq(Events \X (FDs \cup {Nobody})) BY <1>3 DEF Drop
    <2>2. lost' \subseteq FDs BY <1>3 DEF Drop, IInv, Types
    <2>3. Types' BY <1>3, <2>1, <2>2 DEF Drop, IInv, Types, serverVars, logVars
    <2> QED BY <1>3, <2>3, StaysPut DEF Drop, IInv, logVars
  <1> QED BY <1>1, <1>2, <1>3
-----------------------------------------------------------------------------
(* addLog.                                                                 *)
LEMMA LogLoadKeeps == ASSUME IInv, NEW w \in Sides, LogLoad(w) PROVE IInv'
  <1>1. Types'
    BY DEF LogLoad, Goto, Loads, IInv, Types, Logging, serverVars, streamVars, Alive
  <1>2. ~raced' => Alone'
    BY DEF LogLoad, Goto, Loads, IInv, Types, Causes, Alone, Busy, Logging, Sides
  <1>3. Causes' /\ PanicHasCause'
    BY <1>2 DEF LogLoad, Goto, Loads, IInv, Types, Causes, PanicHasCause, Alive
  <1> QED BY <1>1, <1>3 DEF IInv

LEMMA LogStoreKeeps == ASSUME IInv, NEW w \in Sides, LogStore(w) PROVE IInv'
  <1>1. Types'
    BY DEF LogStore, Goto, Forgets, IInv, Types, Logging, serverVars, streamVars, Alive
  <1>2. ~raced' => Alone'
    BY GuiAssumption DEF LogStore, Goto, Forgets, IInv, Types, Causes, Alone, Busy, Logging, Sides
  <1>3. (entries > Cap => full)' /\ \A v \in Sides : at'[v] = "trim" => full'
    BY GuiAssumption DEF LogStore, Goto, IInv, Types, Causes
  <1>4. ~raced' /\ ~full' => \A v \in Sides : at'[v] = "row" => loaded'[v] <= entries'
    <2> SUFFICES ASSUME ~raced', ~full', NEW v \in Sides, at'[v] = "row"
                 PROVE  loaded'[v] <= entries'
      OBVIOUS
    <2>1. v # w /\ at[v] = "row" /\ loaded'[v] = loaded[v]
      BY DEF LogStore, Goto, Forgets, IInv, Types
    <2>2. ~raced /\ ~full /\ loaded[w] = entries
      BY DEF LogStore, IInv, Types, Causes, Alone
    <2> QED BY <2>1, <2>2 DEF LogStore, IInv, Types, Causes
  <1>5. PanicHasCause'
    BY DEF LogStore, PanicHasCause, Alive
  <1> QED BY <1>1, <1>2, <1>3, <1>4, <1>5 DEF IInv, Causes

LEMMA LogCheckKeeps == ASSUME IInv, NEW w \in Sides, LogCheck(w) PROVE IInv'
  <1>1. Types'
    BY DEF LogCheck, Goto, IInv, Types, Logging, serverVars, streamVars, Alive
  <1>2. ~raced' => Alone'
    BY GuiAssumption DEF LogCheck, Goto, IInv, Types, Causes, Alone, Busy, Logging, Sides
  <1>3. Causes' /\ PanicHasCause'
    BY <1>2, GuiAssumption DEF LogCheck, Goto, IInv, Types, Causes, PanicHasCause, Alive
  <1> QED BY <1>1, <1>3 DEF IInv

LEMMA LogTrimKeeps == ASSUME IInv, NEW w \in Sides, LogTrim(w) PROVE IInv'
  <1>1. Types'
    BY GuiAssumption DEF LogTrim, Goto, Panics, IInv, Types, Logging, serverVars, streamVars, Alive
  <1>2. ~raced' => Alone'
    BY GuiAssumption
    DEF LogTrim, Goto, Panics, IInv, Types, Causes, Alone, Busy, Logging, Sides
  <1>3. Causes'
    BY <1>2, GuiAssumption DEF LogTrim, Goto, Panics, IInv, Types, Causes
  <1>4. PanicHasCause'
    BY GuiAssumption DEF LogTrim, Panics, IInv, Types, Causes, Alone, PanicHasCause, Alive
  <1> QED BY <1>1, <1>3, <1>4 DEF IInv

LEMMA ListLengthKeeps == ASSUME IInv, NEW w \in Sides, ListLength(w) PROVE IInv'
  <1>1. Types'
    BY DEF ListLength, Goto, Loads, Panics, IInv, Types, Logging, serverVars, streamVars, Alive
  <1>2. ~raced' => Alone'
    BY DEF ListLength, Goto, Loads, Panics, IInv, Types, Causes, Alone, Busy, Logging, Sides
  <1>3. Causes' /\ PanicHasCause'
    BY <1>2
    DEF ListLength, Goto, Loads, Panics, IInv, Types, Causes, PanicHasCause, Alive, Sides
  <1> QED BY <1>1, <1>3 DEF IInv

LEMMA ListUpdateKeeps == ASSUME IInv, NEW w \in Sides, ListUpdate(w) PROVE IInv'
  <1>1. Types'
    BY DEF ListUpdate, Goto, Forgets, Panics, IInv, Types, Logging, serverVars, streamVars, Alive
  <1>2. ~raced' => Alone'
    BY DEF ListUpdate, Goto, Forgets, Panics, IInv, Types, Causes, Alone, Busy, Logging, Sides
  <1>3. Causes'
    BY <1>2 DEF ListUpdate, Goto, Forgets, Panics, IInv, Types, Causes
  <1>4. PanicHasCause'
    BY DEF ListUpdate, Forgets, Panics, IInv, Types, Causes, PanicHasCause, Alive
  <1> QED BY <1>1, <1>3, <1>4 DEF IInv

LEMMA AddLogKeeps == ASSUME IInv, NEW w \in Sides, AddLog(w) PROVE IInv'
  BY LogLoadKeeps, LogStoreKeeps, LogCheckKeeps, LogTrimKeeps, ListLengthKeeps, ListUpdateKeeps
  DEF AddLog
-----------------------------------------------------------------------------
(* The handlers, which end at "log" or in a panic.                         *)
LEMMA TakeKeeps ==
  ASSUME IInv, NEW k, NEW c, Take(k, c), clientMap' \subseteq FDs,
         \/ Goto("sse", "log") /\ UNCHANGED crash
         \/ crash' \in {"nil", "map"} /\ UNCHANGED at
  PROVE  IInv'
  <1>1. Types'
    <2>1. feed' \in Seq(Events \X (FDs \cup {Nobody})) BY DEF Take, IInv, Types
    <2> QED BY <2>1 DEF Take, Goto, IInv, Types, Logging, serverVars, Alive, Sides
  <1>2. CASE Goto("sse", "log") /\ UNCHANGED crash
    BY <1>1, <1>2, MovesOutside DEF Take, Goto, IInv, Outside, Sides
  <1>3. CASE crash' \in {"nil", "map"} /\ UNCHANGED at
    BY <1>1, <1>3, StaysPut DEF Take, IInv
  <1> QED BY <1>2, <1>3

LEMMA HandlersKeep ==
  ASSUME IInv,
         \/ HandleConnected \/ HandleInit
         \/ \E f \in FDs : HandleAccept(f) \/ HandleData(f) \/ HandleClose(f)
  PROVE  IInv'
  <1>1. CASE HandleConnected
    BY <1>1, TakeKeeps DEF HandleConnected, IInv, Types
  <1>2. CASE HandleInit
    BY <1>2, TakeKeeps DEF HandleInit, LogsUnless, Panics, IInv, Types
  <1>3. ASSUME NEW f \in FDs, HandleAccept(f) PROVE IInv'
    BY <1>3, TakeKeeps DEF HandleAccept, WritesMap, LogsUnless, Panics, IInv, Types
  <1>4. ASSUME NEW f \in FDs, HandleData(f) PROVE IInv'
    BY <1>4, TakeKeeps DEF HandleData, IInv, Types
  <1>5. ASSUME NEW f \in FDs, HandleClose(f) PROVE IInv'
    BY <1>5, TakeKeeps DEF HandleClose, WritesMap, LogsUnless, Panics, IInv, Types
  <1> QED BY <1>1, <1>2, <1>3, <1>4, <1>5
-----------------------------------------------------------------------------
(* The toolkit's goroutine.                                                *)
LEMMA BuildKeeps == ASSUME IInv, BuildUI PROVE IInv'
  <1>1. Types' BY DEF BuildUI, IInv, Types, serverVars, streamVars, logVars
  <1> QED BY <1>1, StaysPut DEF BuildUI, IInv, logVars

LEMMA UiKeeps ==
  ASSUME IInv, NEW from \in Outside, NEW label \in Outside, UiGoto(from, label),
         clicks' \in 0 .. MaxClicks
  PROVE  IInv'
  <1>1. Types'
    BY DEF UiGoto, Goto, Outside, IInv, Types, Logging, serverVars, streamVars, Alive
  <1> QED BY <1>1, MovesOutside DEF UiGoto, Goto, IInv, Sides

LEMMA UserKeeps ==
  ASSUME IInv, ClientsDrawn \/ DrawEvents \/ DrawClients \/ ClickLog \/ ClickSend \/ SendReturns
  PROVE  IInv'
  <1>1. clicks' \in 0 .. MaxClicks
    BY GuiAssumption
    DEF ClientsDrawn, DrawEvents, DrawClients, ClickLog, ClickSend, SendReturns, IInv, Types
  <1> QED BY <1>1, UiKeeps
          DEF ClientsDrawn, DrawEvents, DrawClients, ClickLog, ClickSend, SendReturns, Outside
-----------------------------------------------------------------------------
LEMMA StepHolds == IInv /\ [Next]_vars => IInv'
  <1> SUFFICES ASSUME IInv, [Next]_vars PROVE IInv'
    OBVIOUS
  <1>1. CASE Sse
    BY <1>1, AddLogKeeps, StreamKeeps, HandlersKeep DEF Sse, Sides
  <1>2. CASE Ui
    BY <1>2, AddLogKeeps, BuildKeeps, UserKeeps DEF Ui, Sides
  <1>3. CASE Greets \/ Drop
    BY <1>3, StreamKeeps
  <1>4. CASE DrawEvents \/ DrawClients \/ ClickLog \/ ClickSend \/ SendReturns
    BY <1>4, UserKeeps
  <1>5. CASE \E f \in FDs : ServerAccepts(f) \/ ServerMoves(f) \/ ServerCloses(f)
    BY <1>5, ServerKeeps
  <1>6. CASE UNCHANGED vars
    <2>1. Types' BY <1>6 DEF vars, serverVars, streamVars, logVars, IInv, Types
    <2> QED BY <1>6, <2>1, StaysPut DEF vars, logVars, IInv
  <1> QED BY <1>1, <1>2, <1>3, <1>4, <1>5, <1>6 DEF Next

LEMMA InvHolds == Spec => []IInv
  <1> QED BY InitHolds, StepHolds, PTL DEF Spec
-----------------------------------------------------------------------------
(* The variables keep to their types, and the log is at most one entry     *)
(* over its limit until both goroutines have been inside addLog.           *)
THEOREM GuiTypes == Spec => []TypeOK
  <1>1. IInv => TypeOK
    BY GuiAssumption DEF IInv, Types, Causes, Alone, TypeOK
  <1> QED BY <1>1, InvHolds, PTL

(* Without a log that was too long, and without two goroutines in addLog,  *)
(* no callback and no trim panics, whatever the limit and the number of    *)
(* connections, reconnections and clicks.                                  *)
THEOREM PanicsHaveCauses == Spec => []PanicHasCause
  <1>1. IInv => PanicHasCause
    BY DEF IInv
  <1> QED BY <1>1, InvHolds, PTL
-----------------------------------------------------------------------------
(* The list of clients.  After(c) is what the list will say of c when the  *)
(* feed is handled: a frame the server adds decides it, and taking a frame *)
(* off the feed changes nothing if the handler does to the list what the   *)
(* frame says.                                                             *)
Change(k, c) == CASE k = "accept" -> clientMap \cup {c}
                  [] k = "close" -> clientMap \ {c}
                  [] OTHER -> clientMap

LEMMA AfterAppend ==
  ASSUME Types, NEW k \in Events, NEW c \in FDs \cup {Nobody},
         feed' = Append(feed, <<k, c>>), UNCHANGED clientMap
  PROVE  \A d \in FDs :
           After(d)' <=> IF d = c /\ k \in {"accept", "close"} THEN k = "accept" ELSE After(d)
  <1>1. /\ Len(feed) \in Nat /\ DOMAIN feed = 1 .. Len(feed)
        /\ DOMAIN feed' = 1 .. Len(feed) + 1 /\ feed'[Len(feed) + 1] = <<k, c>>
        /\ \A i \in 1 .. Len(feed) : feed'[i] = feed[i]
    BY FeedAppend DEF Types
  <1> SUFFICES ASSUME NEW d \in FDs
               PROVE  After(d)' <=> IF d = c /\ k \in {"accept", "close"} THEN k = "accept"
                                                                          ELSE After(d)
    OBVIOUS
  <1>2. CASE d = c /\ k \in {"accept", "close"}
    <2>1. Len(feed) + 1 \in About(d)' /\ \A j \in About(d)' : j <= Len(feed) + 1
      BY <1>1, <1>2 DEF About
    <2>2. \A i \in About(d)' : Len(feed) + 1 <= i => i = Len(feed) + 1
      BY <1>1, <2>1 DEF About
    <2>3. feed'[Len(feed) + 1] = <<"accept", d>> <=> k = "accept" BY <1>1, <1>2
    <2> QED BY <1>2, <2>1, <2>2, <2>3 DEF After
  <1>3. CASE ~ (d = c /\ k \in {"accept", "close"})
    <2>1. About(d)' = About(d) BY <1>1, <1>3 DEF About
    <2>2. \A i \in About(d) : feed'[i] = feed[i] BY <1>1 DEF About
    <2> QED BY <1>3, <2>1, <2>2 DEF After
  <1> QED BY <1>2, <1>3

LEMMA AfterTake ==
  ASSUME Types, NEW k \in Events, NEW c \in FDs \cup {Nobody}, Take(k, c),
         clientMap' = Change(k, c)
  PROVE  \A d \in FDs : After(d)' <=> After(d)
  <1>1. /\ Len(feed) \in Nat /\ Len(feed) >= 1 /\ DOMAIN feed = 1 .. Len(feed)
        /\ DOMAIN feed' = 1 .. Len(feed) - 1 /\ feed[1] = <<k, c>>
        /\ \A i \in 1 .. Len(feed) - 1 : feed'[i] = feed[i + 1]
    <2>1. /\ feed \in Seq(Events \X (FDs \cup {Nobody})) /\ feed # << >>
          /\ Head(feed) = <<k, c>> /\ feed' = Tail(feed)
      BY DEF Types, Take
    <2> QED BY <2>1
  <1> SUFFICES ASSUME NEW d \in FDs PROVE After(d)' <=> After(d)
    OBVIOUS
  <1>2. \A i \in DOMAIN feed' : i + 1 \in DOMAIN feed /\ (i \in About(d)' <=> i + 1 \in About(d))
    BY <1>1 DEF About
  <1>3. \A i \in DOMAIN feed : i = 1 \/ (i - 1 \in DOMAIN feed' /\ (i - 1) + 1 = i)
    BY <1>1
  <1>4. 1 \in About(d) <=> d = c /\ k \in {"accept", "close"}
    <2>1. 1 \in DOMAIN feed BY <1>1
    <2>2. 1 \in About(d) <=> feed[1] \in {<<"accept", d>>, <<"close", d>>} BY <2>1 DEF About
    <2>3. <<k, c>> \in {<<"accept", d>>, <<"close", d>>} <=> d = c /\ k \in {"accept", "close"}
      OBVIOUS
    <2> QED BY <1>1, <2>2, <2>3
  <1>5. CASE About(d)' = {}
    <2>1. About(d) \subseteq {1} BY <1>2, <1>3, <1>5 DEF About
    <2>2. CASE d = c /\ k \in {"accept", "close"}
      <3>1. After(d) <=> k = "accept" BY <1>1, <1>4, <2>1, <2>2 DEF After
      <3>2. After(d)' <=> d \in clientMap' BY <1>5 DEF After
      <3> QED BY <2>2, <3>1, <3>2 DEF Change
    <2>3. CASE ~ (d = c /\ k \in {"accept", "close"})
      <3>1. About(d) = {} BY <1>4, <2>1, <2>3
      <3>2. d \in clientMap' <=> d \in clientMap BY <2>3 DEF Change
      <3> QED BY <1>5, <3>1, <3>2 DEF After
    <2> QED BY <2>2, <2>3
  <1>6. CASE About(d)' # {}
    <2>1. PICK j \in About(d)' : TRUE BY <1>6
    <2>2. j \in DOMAIN feed' /\ j + 1 \in About(d) /\ j >= 1 BY <1>1, <1>2, <2>1 DEF About
    <2>3. After(d)' => After(d)
      <3> SUFFICES ASSUME NEW i \in About(d)', feed'[i] = <<"accept", d>>,
                          \A x \in About(d)' : x <= i
                   PROVE  After(d)
        BY <1>6 DEF After
      <3>1. i \in DOMAIN feed' /\ i + 1 \in About(d) /\ feed[i + 1] = <<"accept", d>>
        BY <1>1, <1>2 DEF About
      <3>2. \A x \in About(d) : x <= i + 1
        <4> SUFFICES ASSUME NEW x \in About(d), x # 1 PROVE x <= i + 1
          BY <1>1, <3>1
        <4>1. x \in DOMAIN feed /\ x - 1 \in DOMAIN feed' /\ (x - 1) + 1 = x BY <1>3 DEF About
        <4>2. x - 1 \in About(d)' BY <1>2, <4>1
        <4> QED BY <1>1, <3>1, <4>1, <4>2
      <3> QED BY <3>1, <3>2 DEF After
    <2>4. After(d) => After(d)'
      <3> SUFFICES ASSUME NEW i \in About(d), feed[i] = <<"accept", d>>,
                          \A x \in About(d) : x <= i
                   PROVE  After(d)'
        BY <2>2 DEF After
      <3>1. i \in DOMAIN feed /\ i # 1 BY <1>1, <2>2 DEF About
      <3>2. i - 1 \in DOMAIN feed' /\ (i - 1) + 1 = i BY <1>3, <3>1
      <3>3. i - 1 \in About(d)' /\ feed'[i - 1] = <<"accept", d>> BY <1>1, <1>2, <3>2
      <3>4. \A x \in About(d)' : x <= i - 1
        <4> SUFFICES ASSUME NEW x \in About(d)' PROVE x <= i - 1
          OBVIOUS
        <4>1. x \in DOMAIN feed' /\ x + 1 \in About(d) BY <1>2 DEF About
        <4>2. x + 1 <= i BY <4>1
        <4> QED BY <1>1, <3>1, <4>1, <4>2
      <3> QED BY <3>3, <3>4 DEF After
    <2> QED BY <2>3, <2>4
  <1> QED BY <1>5, <1>6

LEMMA ListStays ==
  ASSUME ListIsTrue, UNCHANGED <<open, twins, lost, feed, clientMap>>, Alive
  PROVE  ListIsTrue'
  BY DEF ListIsTrue, After, About, Alive

LEMMA ReportTracked ==
  ASSUME Types, ListIsTrue, Alive, NEW k \in Events, NEW f \in FDs, Report(k, f),
         \/ ServerAccepts(f) /\ k = "accept"
         \/ ServerMoves(f) /\ k = "data"
         \/ ServerCloses(f) /\ k = "close"
  PROVE  ListIsTrue'
  <1>1. \A g \in FDs \ {f} : open'[g] = open[g] /\ (g \in twins' <=> g \in twins)
    BY DEF Types, ServerAccepts, ServerMoves, ServerCloses, serverVars
  <1>2. /\ k = "accept" => open'[f] > 0
        /\ k = "data" => open'[f] = open[f] /\ twins' = twins
        /\ k = "close" => (open'[f] > 0 => f \in twins')
    BY DEF Types, ServerAccepts, ServerMoves, ServerCloses, serverVars
  <1>3. /\ \A g \in FDs \ lost : After(g) => open[g] > 0
        /\ \A g \in FDs \ lost : open[g] > 0 => After(g) \/ g \in twins
    BY DEF ListIsTrue, Alive
  <1>4. k \in {"accept", "data", "close"} /\ UNCHANGED clientMap BY DEF Report
  <1> SUFFICES ASSUME NEW g \in FDs \ lost'
               PROVE  (After(g) => open[g] > 0)' /\ (open[g] > 0 => After(g) \/ g \in twins)'
    BY DEF ListIsTrue
  <1>5. CASE Arrives(k, f)
    <2>1. feed' = Append(feed, <<k, f>>) /\ lost' = lost \ Listing(k, f)
      BY <1>5 DEF Arrives
    <2>2. After(g)' <=> IF g = f /\ k \in {"accept", "close"} THEN k = "accept" ELSE After(g)
      BY <1>4, <2>1, AfterAppend
    <2>3. (g = f /\ k \in {"accept", "close"}) \/ g \notin lost
      BY <1>4, <2>1 DEF Listing
    <2> QED BY <1>1, <1>2, <1>3, <1>4, <2>2, <2>3
  <1>6. CASE GoesAstray(k, f)
    <2>1. UNCHANGED feed /\ lost' = lost \cup Listing(k, f) BY <1>6 DEF GoesAstray
    <2>2. After(g)' <=> After(g) BY <1>4, <2>1 DEF After, About
    <2>3. g \notin lost /\ (g # f \/ k = "data") BY <1>4, <2>1 DEF Listing
    <2> QED BY <1>1, <1>2, <1>3, <2>2, <2>3
  <1> QED BY <1>5, <1>6 DEF Report

LEMMA TakeTracked ==
  ASSUME Types, ListIsTrue, NEW k \in Events, NEW c \in FDs \cup {Nobody}, Take(k, c),
         clientMap' = Change(k, c)
  PROVE  ListIsTrue'
  <1>1. \A d \in FDs : After(d)' <=> After(d) BY AfterTake
  <1>2. UNCHANGED <<open, twins, lost>> /\ Alive BY DEF Take, serverVars
  <1> QED BY <1>1, <1>2 DEF ListIsTrue, Alive

LEMMA StreamTracked == ASSUME Types, ListIsTrue, Connect \/ Greets \/ Drop PROVE ListIsTrue'
  <1>1. CASE Connect
    BY <1>1, ListStays DEF Connect, serverVars
  <1>2. CASE Greets
    <2>1. PICK k \in {"sse_connected", "init"} : Head(greeting) = <<k, Nobody>>
      BY <1>2, GreetingTail DEF Greets
    <2>2. UNCHANGED <<open, twins, lost, clientMap>> /\ Alive /\ feed' = Append(feed, <<k, Nobody>>)
      BY <1>2, <2>1 DEF Greets, serverVars
    <2>3. \A f \in FDs : After(f)' <=> After(f)
      BY <2>2, AfterAppend DEF Events
    <2> QED BY <2>2, <2>3 DEF ListIsTrue, Alive
  <1>3. CASE Drop
    <2>1. \A f \in FDs \ lost' : f \notin lost /\ About(f) = {} BY <1>3 DEF Drop
    <2>2. \A f \in FDs : About(f)' = {} BY <1>3 DEF Drop, About
    <2>3. UNCHANGED <<open, twins, clientMap>> /\ Alive BY <1>3 DEF Drop, serverVars
    <2> QED BY <2>1, <2>2, <2>3 DEF ListIsTrue, After, Alive
  <1> QED BY <1>1, <1>2, <1>3

(* Every step leaves the list, with the frames on their way, right of the  *)
(* fds whose last accept or close came through.                            *)
LEMMA TrackedStep == Types /\ ListIsTrue /\ [Next]_vars => ListIsTrue'
  <1> SUFFICES ASSUME Types, ListIsTrue, [Next]_vars PROVE ListIsTrue'
    OBVIOUS
  <1>1. ASSUME NEW w \in Sides, AddLog(w) PROVE ListIsTrue'
    <2>1. UNCHANGED <<open, twins, lost, feed, clientMap>> /\ Alive
      BY <1>1 DEF AddLog, LogLoad, LogStore, LogCheck, LogTrim, ListLength, ListUpdate,
                  serverVars, streamVars
    <2> QED BY <2>1, ListStays
  <1>2. CASE HandleConnected
    BY <1>2, TakeTracked DEF HandleConnected, Change, Events
  <1>3. CASE HandleInit
    BY <1>3, TakeTracked DEF HandleInit, Change, Events
  <1>4. ASSUME NEW f \in FDs, HandleAccept(f) PROVE ListIsTrue'
    BY <1>4, TakeTracked DEF HandleAccept, WritesMap, Change, Events
  <1>5. ASSUME NEW f \in FDs, HandleData(f) PROVE ListIsTrue'
    BY <1>5, TakeTracked DEF HandleData, Change, Events
  <1>6. ASSUME NEW f \in FDs, HandleClose(f) PROVE ListIsTrue'
    BY <1>6, TakeTracked DEF HandleClose, WritesMap, Change, Events
  <1>7. CASE BuildUI \/ ClientsDrawn \/ DrawEvents \/ DrawClients \/ ClickLog \/ ClickSend \/ SendReturns
    <2>1. UNCHANGED <<open, twins, lost, feed, clientMap>> /\ Alive
      BY <1>7 DEF BuildUI, ClientsDrawn, DrawEvents, DrawClients, ClickLog, ClickSend, SendReturns,
                  UiGoto, serverVars, streamVars
    <2> QED BY <2>1, ListStays
  <1>8. ASSUME NEW f \in FDs, ServerAccepts(f) PROVE ListIsTrue'
    BY <1>8, ReportTracked DEF ServerAccepts, Report, Events
  <1>9. ASSUME NEW f \in FDs, ServerMoves(f) PROVE ListIsTrue'
    BY <1>9, ReportTracked DEF ServerMoves, Report, Events
  <1>10. ASSUME NEW f \in FDs, ServerCloses(f) PROVE ListIsTrue'
    BY <1>10, ReportTracked DEF ServerCloses, Report, Events
  <1>11. CASE UNCHANGED vars
    BY <1>11 DEF vars, serverVars, streamVars, ListIsTrue, After, About
  <1> QED
    BY <1>1, <1>2, <1>3, <1>4, <1>5, <1>6, <1>7, <1>8, <1>9, <1>10, <1>11, StreamTracked
    DEF Next, Sse, Ui, Sides

(* However many connections share an fd, however often the stream breaks    *)
(* and however greetings tear events: of an fd whose last accept or close   *)
(* came through, the list, with the frames on their way, never shows a      *)
(* client that is gone, and misses one that is there only after the close   *)
(* of a connection with the same fd.                                       *)
THEOREM ListFollowsServer == Spec => []ListIsTrue
  <1>1. Init => ListIsTrue
    <2> SUFFICES ASSUME Init, NEW f \in FDs PROVE ~ After(f) /\ ~ (open[f] > 0)
      BY DEF ListIsTrue
    <2>1. feed = << >> /\ clientMap = {} /\ open = [g \in FDs |-> 0] BY DEF Init
    <2>2. DOMAIN feed = {} BY <2>1
    <2>3. About(f) = {} BY <2>2 DEF About
    <2> QED BY <2>1, <2>3 DEF After
  <1>2. IInv => Types BY DEF IInv
  <1> QED BY <1>1, <1>2, InvHolds, TrackedStep, PTL DEF Spec
===============================================================================
