-------------------------- MODULE PyVisualizer_proofs --------------------------
(***************************************************************************)
(* Theorems about PyVisualizer, for any viewers, clients, queue size,      *)
(* window, backlog and number of lines.  All follow from one inductive     *)
(* invariant, PyInv.                                                       *)
(***************************************************************************)
EXTENDS PyVisualizer, TLAPS, SequenceTheorems

(* The variables keep to their types (TypeOK without what the parts below  *)
(* say of sequences and program counters).                                 *)
HttpInv ==
  /\ backlog \in Seq(Requests) /\ Len(backlog) <= Backlog
  /\ serving \in Requests \cup {Nobody} /\ asked \subseteq Viewers
  /\ hpc \in {"idle", "headers", "hello", "get", "write", "finally", "next", "call"}
  /\ (hpc = "idle") <=> (serving = Nobody)
  /\ (hpc = "call") <=> (serving \in Calls)
  /\ msg # 0 => hpc \in {"write", "finally"}
  /\ hpc = "write" => msg # 0

(* A viewer asks once: it is in the backlog at most once, and not while it *)
(* is served.                                                              *)
AskInv ==
  /\ \A i, j \in DOMAIN backlog : backlog[i] \in Viewers /\ backlog[i] = backlog[j] => i = j
  /\ \A i \in DOMAIN backlog : backlog[i] \in Viewers => backlog[i] \in asked /\ backlog[i] # serving
  /\ serving \in Viewers => serving \in asked

ReaderInv ==
  /\ managed \subseteq Clients /\ choked \in [Clients -> BOOLEAN]
  /\ reader \in [Clients -> {"none", "check", "asleep", "recv", "ended"}]
  /\ lock \in Clients \cup {Nobody} /\ \A c \in Clients : (lock = c) <=> (reader[c] = "asleep")

LinkInv ==
  /\ line \in 0 .. MaxLines /\ up \in BOOLEAN
  /\ conn \in [Viewers -> {"up", "gone"}] /\ unread \in [Viewers -> 0 .. Window]

(* A viewer whose handler has not registered has no stream yet.            *)
Waits(v) == (\E i \in DOMAIN backlog : backlog[i] = v) \/ (serving = v /\ hpc = "headers")
Fresh(v) == v \notin asked \/ Waits(v)

(* The lines a stream is made of, part by part: what was written, the line *)
(* the handler holds, what is queued.                                      *)
Run(s, from) == \A i \in DOMAIN s : s[i] = from + i
Held(v) == IF serving = v /\ msg # 0 THEN 1 ELSE 0
Taken(v) == joined[v] + Len(written[v]) + Held(v)
StreamInv ==
  /\ sseClients \subseteq asked /\ msg \in 0 .. line
  /\ queue \in [Viewers -> Seq(1 .. line)]
  /\ joined \in [Viewers -> 0 .. line] /\ written \in [Viewers -> Seq(1 .. line)]
  /\ \A v \in Viewers :
       /\ Len(queue[v]) <= QueueSize
       /\ Run(written[v], joined[v])
       /\ Held(v) = 1 => msg = Taken(v)
       /\ Run(queue[v], Taken(v))
       /\ v \in sseClients => Taken(v) + Len(queue[v]) = line
       /\ Fresh(v) => v \notin sseClients /\ queue[v] = << >> /\ written[v] = << >>
       /\ v \in sseClients /\ (serving = v => hpc = "next") => written[v] = << >>
       /\ serving = v /\ hpc \in {"headers", "hello"} => written[v] = << >>

PyInv == HttpInv /\ AskInv /\ ReaderInv /\ LinkInv /\ StreamInv
-----------------------------------------------------------------------------
(* The steps of handle_sse, of the API calls and of the reader threads.    *)
Sse(v) ==
  \/ Register(v) \/ HeaderFails(v) \/ Hello(v) \/ HelloFails(v) \/ GetLine(v)
  \/ GetTimesOut(v) \/ WriteLine(v) \/ WriteFails(v) \/ Finally(v) \/ ConnectionEnds(v)
ApiCall == (\E c \in Clients : Spawn(c)) \/ SpawnFails \/ SendData \/ ChokeClient \/ CloseClients

LEMMA NextCases ==
  ASSUME [Next]_vars
  PROVE  \/ \E r \in Requests : Request(r)
         \/ AcceptRequest
         \/ \E v \in Viewers : Sse(v)
         \/ ApiCall
         \/ \E v \in Viewers : Read(v) \/ Leave(v)
         \/ Broadcast \/ ServerExits
         \/ \E c \in Clients : ReaderStep(c)
         \/ UNCHANGED vars
BY DEF Next, HandlerStep, Sse, ApiCall

LEMMA Constants ==
  /\ QueueSize \in Nat \ {0} /\ Window \in Nat \ {0} /\ Backlog \in Nat \ {0} /\ MaxLines \in Nat
  /\ Viewers \cap Calls = {} /\ Nobody \notin Requests /\ Nobody \notin Clients
  /\ Viewers \subseteq Requests /\ Calls \subseteq Requests
BY PyVisualizerAssumption DEF Requests

LEMMA ApiFacts ==
  ASSUME ApiCall
  PROVE  /\ hpc = "call" /\ serving' = Nobody /\ hpc' = "idle"
         /\ UNCHANGED <<backlog, asked, streamVars, line, up>>
BY DEF ApiCall, Spawn, SpawnFails, SendData, ChokeClient, CloseClients, Call, Return

LEMMA SseFacts ==
  ASSUME NEW v \in Viewers, Sse(v)
  PROVE  /\ serving = v /\ hpc \in {"headers", "hello", "get", "write", "finally", "next"}
         /\ \/ serving' = Nobody /\ hpc' = "idle"
            \/ serving' = v /\ hpc' \in {"hello", "get", "write", "finally", "next"}
         /\ UNCHANGED <<backlog, asked, clientVars, line, up, conn>>
BY DEF Sse, Register, HeaderFails, Hello, HelloFails, GetLine, GetTimesOut, WriteLine,
       WriteFails, Finally, ConnectionEnds, Goto, Return, streamVars

LEMMA ReaderFacts ==
  ASSUME NEW c \in Clients, ReaderStep(c)
  PROVE  UNCHANGED <<httpVars, streamVars, managed, choked, line, up>>
BY DEF ReaderStep, ReaderChecks, ReaderWakes, ReaderReceives, ReaderEnds
-----------------------------------------------------------------------------
LEMMA HeadIsLine ==
  ASSUME NEW n \in Nat, NEW s \in Seq(1 .. n), s # << >>
  PROVE  Head(s) \in 1 .. n /\ Head(s) # 0
<1>1. s[1] \in 1 .. n /\ Head(s) = s[1] OBVIOUS
<1> QED BY <1>1

LEMMA HttpStep == HttpInv /\ LinkInv /\ StreamInv /\ [Next]_vars => HttpInv'
<1> SUFFICES ASSUME HttpInv, LinkInv, StreamInv, [Next]_vars PROVE HttpInv'
  OBVIOUS
<1>c. "idle" # "call" /\ Nobody \notin Calls /\ Viewers \cap Calls = {} /\ Nobody \notin Viewers
  BY Constants
<1>1. ASSUME NEW r \in Requests, Request(r) PROVE HttpInv'
  <2>1. Append(backlog, r) \in Seq(Requests) /\ Len(Append(backlog, r)) = Len(backlog) + 1
    BY <1>1 DEF HttpInv
  <2>2. Len(backlog) \in Nat /\ Backlog \in Nat BY Constants DEF HttpInv
  <2>3. asked' \subseteq Viewers BY <1>1 DEF Request, HttpInv
  <2> QED BY <1>1, <2>1, <2>2, <2>3 DEF Request, HttpInv, streamVars
<1>2. CASE AcceptRequest
  <2>1. Head(backlog) \in Requests /\ Tail(backlog) \in Seq(Requests)
        /\ Len(Tail(backlog)) = Len(backlog) - 1
    BY <1>2 DEF AcceptRequest, HttpInv
  <2>2. Len(backlog) \in Nat /\ Backlog \in Nat BY Constants DEF HttpInv
  <2>3. serving' \in Requests /\ serving' # Nobody /\ (serving' \in Calls <=> serving' \notin Viewers)
    BY <1>2, <2>1, Constants DEF AcceptRequest, Requests
  <2>4. msg = 0 /\ msg' = msg BY <1>2 DEF AcceptRequest, HttpInv, streamVars
  <2> QED BY <1>2, <2>1, <2>2, <2>3, <2>4 DEF AcceptRequest, HttpInv
<1>3. ASSUME NEW v \in Viewers, Sse(v) PROVE HttpInv'
  <2>1. /\ backlog' \in Seq(Requests) /\ Len(backlog') <= Backlog
        /\ serving' \in Requests \cup {Nobody} /\ asked' \subseteq Viewers
        /\ hpc' \in {"idle", "headers", "hello", "get", "write", "finally", "next", "call"}
        /\ ((hpc' = "idle") <=> (serving' = Nobody))
        /\ ((hpc' = "call") <=> (serving' \in Calls))
    BY <1>3, <1>c, SseFacts, Constants DEF HttpInv
  <2>2. (msg' # 0 => hpc' \in {"write", "finally"}) /\ (hpc' = "write" => msg' # 0)
    <3>1. CASE GetLine(v)
      <4>1. queue[v] \in Seq(1 .. line) /\ queue[v] # << >> /\ msg' = Head(queue[v]) /\ hpc' = "write"
        BY <3>1 DEF GetLine, Goto, StreamInv
      <4>2. line \in Nat BY Constants DEF LinkInv
      <4>3. Head(queue[v]) # 0 BY <4>1, <4>2, HeadIsLine
      <4> QED BY <4>1, <4>3
    <3>2. CASE ~GetLine(v)
      BY <1>3, <3>2 DEF Sse, Register, HeaderFails, Hello, HelloFails, GetTimesOut, WriteLine,
         WriteFails, Finally, ConnectionEnds, Goto, Return, streamVars, HttpInv
    <3> QED BY <3>1, <3>2
  <2> QED BY <2>1, <2>2 DEF HttpInv
<1>4. CASE ApiCall
  BY <1>4, <1>c, ApiFacts DEF HttpInv, streamVars
<1>5. ASSUME NEW v \in Viewers, Read(v) \/ Leave(v) PROVE HttpInv'
  BY <1>5 DEF Read, Leave, httpVars, HttpInv
<1>6. CASE Broadcast \/ ServerExits \/ UNCHANGED vars
  BY <1>6 DEF Broadcast, ServerExits, vars, httpVars, streamVars, HttpInv
<1>7. ASSUME NEW c \in Clients, ReaderStep(c) PROVE HttpInv'
  BY <1>7, ReaderFacts DEF httpVars, streamVars, HttpInv
<1> QED BY NextCases, <1>1, <1>2, <1>3, <1>4, <1>5, <1>6, <1>7

LEMMA AskStep == HttpInv /\ AskInv /\ [Next]_vars => AskInv'
<1> SUFFICES ASSUME HttpInv, AskInv, [Next]_vars PROVE AskInv'
  OBVIOUS
<1>1. ASSUME NEW r \in Requests, Request(r) PROVE AskInv'
  <2>1. backlog \in Seq(Requests) /\ backlog' = Append(backlog, r) BY <1>1 DEF Request, HttpInv
  <2>2. /\ DOMAIN backlog' = DOMAIN backlog \cup {Len(backlog) + 1}
        /\ Len(backlog) + 1 \notin DOMAIN backlog
        /\ \A i \in DOMAIN backlog : backlog'[i] = backlog[i]
        /\ backlog'[Len(backlog) + 1] = r
    BY <2>1
  <2>3. /\ \A i \in DOMAIN backlog : backlog[i] # r
        /\ r # serving /\ (r \in Viewers => r \notin asked)
        /\ asked' = asked \cup ({r} \cap Viewers) /\ serving' = serving
    BY <1>1 DEF Request
  <2> QED BY <2>2, <2>3 DEF AskInv
<1>2. CASE AcceptRequest
  <2>1. backlog \in Seq(Requests) /\ backlog # << >> BY <1>2 DEF AcceptRequest, HttpInv
  <2>2. serving' = backlog[1] /\ backlog' = Tail(backlog) /\ asked' = asked
    BY <1>2, <2>1 DEF AcceptRequest
  <2>3. \A i \in DOMAIN backlog' : i + 1 \in DOMAIN backlog /\ i \in Nat \ {0} /\ backlog'[i] = backlog[i + 1]
    BY <2>1, <2>2
  <2>4. 1 \in DOMAIN backlog BY <2>1
  <2>5. \A i, j \in DOMAIN backlog' : i + 1 = j + 1 => i = j BY <2>3
  <2>6. \A i \in DOMAIN backlog' : i + 1 # 1 BY <2>3
  <2> QED BY <2>2, <2>3, <2>4, <2>5, <2>6 DEF AskInv
<1>3. ASSUME NEW v \in Viewers, Sse(v) PROVE AskInv'
  BY <1>3, SseFacts, Constants DEF AskInv
<1>4. CASE ApiCall
  BY <1>4, ApiFacts, Constants DEF AskInv
<1>5. ASSUME NEW v \in Viewers, Read(v) \/ Leave(v) PROVE AskInv'
  BY <1>5 DEF Read, Leave, httpVars, AskInv
<1>6. CASE Broadcast \/ ServerExits \/ UNCHANGED vars
  BY <1>6 DEF Broadcast, ServerExits, vars, httpVars, AskInv
<1>7. ASSUME NEW c \in Clients, ReaderStep(c) PROVE AskInv'
  BY <1>7, ReaderFacts DEF httpVars, AskInv
<1> QED BY NextCases, <1>1, <1>2, <1>3, <1>4, <1>5, <1>6, <1>7

LEMMA ReadersStep == ReaderInv /\ [Next]_vars => ReaderInv'
<1> SUFFICES ASSUME ReaderInv, [Next]_vars PROVE ReaderInv'
  OBVIOUS
<1>1. UNCHANGED clientVars => ReaderInv'
  BY DEF clientVars, ReaderInv
<1>2. (\E r \in Requests : Request(r)) \/ AcceptRequest \/ Broadcast \/ ServerExits \/ UNCHANGED vars => ReaderInv'
  BY <1>1 DEF Request, AcceptRequest, Broadcast, ServerExits, vars
<1>3. (\E v \in Viewers : Sse(v)) \/ (\E v \in Viewers : Read(v) \/ Leave(v)) => ReaderInv'
  BY <1>1, SseFacts DEF Read, Leave
<1>4. CASE ApiCall
  <2>1. ASSUME NEW c \in Clients, Spawn(c) PROVE ReaderInv'
    BY <2>1, Constants DEF Spawn, Call, ReaderInv
  <2>2. CASE SpawnFails \/ SendData
    BY <2>2, <1>1 DEF SpawnFails, SendData
  <2>3. CASE ChokeClient
    BY <2>3 DEF ChokeClient, ReaderInv
  <2>4. CASE CloseClients
    BY <2>4 DEF CloseClients, ReaderInv
  <2> QED BY <1>4, <2>1, <2>2, <2>3, <2>4 DEF ApiCall
<1>5. ASSUME NEW c \in Clients, ReaderStep(c) PROVE ReaderInv'
  <2>1. managed' = managed /\ choked' = choked BY <1>5, ReaderFacts
  <2>2. CASE ReaderChecks(c)
    BY <2>1, <2>2, Constants DEF ReaderChecks, ReaderGoto, ReaderInv
  <2>3. CASE ReaderWakes(c)
    BY <2>1, <2>3, Constants DEF ReaderWakes, ReaderGoto, ReaderInv
  <2>4. CASE ReaderReceives(c) \/ ReaderEnds(c)
    BY <2>1, <2>4, Constants DEF ReaderReceives, ReaderEnds, ReaderGoto, ReaderInv
  <2> QED BY <1>5, <2>2, <2>3, <2>4 DEF ReaderStep
<1> QED BY NextCases, <1>2, <1>3, <1>4, <1>5

LEMMA LinkStep == LinkInv /\ [Next]_vars => LinkInv'
<1> SUFFICES ASSUME LinkInv, [Next]_vars PROVE LinkInv'
  OBVIOUS
<1>1. UNCHANGED <<conn, unread, line, up>> => LinkInv'
  BY DEF LinkInv
<1>2. (\E r \in Requests : Request(r)) \/ AcceptRequest \/ UNCHANGED vars => LinkInv'
  BY <1>1 DEF Request, AcceptRequest, vars, streamVars
<1>3. ASSUME NEW v \in Viewers, Sse(v) PROVE LinkInv'
  <2>1. UNCHANGED <<conn, line, up>> BY <1>3, SseFacts
  <2>2. unread' = unread \/ (CanWrite(v) /\ Write(v))
    BY <1>3 DEF Sse, Register, HeaderFails, Hello, HelloFails, GetLine, GetTimesOut, WriteLine,
       WriteFails, Finally, ConnectionEnds, streamVars
  <2>3. CASE CanWrite(v) /\ Write(v)
    <3>1. Window \in Nat /\ unread[v] \in 0 .. Window BY Constants DEF LinkInv
    <3>2. conn[v] = "up" => unread[v] + 1 \in 0 .. Window
      BY <2>3, <3>1 DEF CanWrite
    <3> QED BY <2>1, <2>3, <3>1, <3>2 DEF Write, LinkInv
  <2> QED BY <1>1, <2>1, <2>2, <2>3
<1>4. ASSUME ApiCall \/ (\E c \in Clients : ReaderStep(c)) PROVE LinkInv'
  BY <1>1, <1>4, ApiFacts, ReaderFacts DEF streamVars
<1>5. ASSUME NEW v \in Viewers, Read(v) \/ Leave(v) PROVE LinkInv'
  <2>1. CASE Read(v)
    <3>1. Window \in Nat /\ unread[v] \in 0 .. Window BY Constants DEF LinkInv
    <3>2. unread[v] - 1 \in 0 .. Window BY <2>1, <3>1 DEF Read
    <3> QED BY <2>1, <3>2 DEF Read, LinkInv
  <2>2. CASE Leave(v)
    BY <2>2, Constants DEF Leave, LinkInv
  <2> QED BY <1>5, <2>1, <2>2
<1>6. CASE Broadcast
  BY <1>6, Constants DEF Broadcast, LinkInv
<1>7. CASE ServerExits
  BY <1>7 DEF ServerExits, streamVars, LinkInv
<1> QED BY NextCases, <1>2, <1>3, <1>4, <1>5, <1>6, <1>7
-----------------------------------------------------------------------------
(* A run is extended at its end by the next number; what follows its first *)
(* element is a run from one further.                                      *)
Extended(y, s, from, m) == y \in Seq(1 .. m) /\ Run(y, from) /\ Len(y) = Len(s) + 1
Shortened(h, y, s, from, n) ==
  /\ h = from + 1 /\ h \in 1 .. n
  /\ y \in Seq(1 .. n) /\ Run(y, from + 1) /\ Len(y) = Len(s) - 1

LEMMA RunAppend ==
  ASSUME NEW n \in Nat, NEW s \in Seq(1 .. n), NEW from \in Nat, Run(s, from),
         NEW m \in Nat, m >= n, NEW x \in 1 .. m, x = from + Len(s) + 1
  PROVE  Extended(Append(s, x), s, from, m)
<1>1. \A i \in DOMAIN s : s[i] \in 1 .. n OBVIOUS
<1>2. s \in Seq(1 .. m) BY <1>1
<1>3. /\ Append(s, x) \in Seq(1 .. m) /\ Len(Append(s, x)) = Len(s) + 1
      /\ \A i \in DOMAIN Append(s, x) : i \in DOMAIN s \/ i = Len(s) + 1
      /\ Append(s, x)[Len(s) + 1] = x
      /\ \A i \in DOMAIN s : Append(s, x)[i] = s[i]
  BY <1>2
<1>4. from + (Len(s) + 1) = x BY <1>2
<1> QED BY <1>3, <1>4 DEF Run, Extended

LEMMA RunTail ==
  ASSUME NEW n \in Nat, NEW s \in Seq(1 .. n), NEW from \in Nat, Run(s, from), s # << >>
  PROVE  Shortened(Head(s), Tail(s), s, from, n)
<1>1. \A i \in DOMAIN Tail(s) : Tail(s)[i] = s[i + 1] /\ i + 1 \in DOMAIN s /\ i \in Nat
  OBVIOUS
<1> QED BY <1>1 DEF Run, Shortened

LEMMA SeqWidens ==
  ASSUME NEW n \in Nat, NEW m \in Nat, n <= m, NEW s \in Seq(1 .. n)
  PROVE  s \in Seq(1 .. m)
<1>1. \A i \in DOMAIN s : s[i] \in 1 .. n OBVIOUS
<1> QED BY <1>1

(* StreamInv speaks of one viewer at a time.                               *)
StreamTypes ==
  /\ sseClients \subseteq asked /\ msg \in 0 .. line
  /\ queue \in [Viewers -> Seq(1 .. line)]
  /\ joined \in [Viewers -> 0 .. line] /\ written \in [Viewers -> Seq(1 .. line)]
OneStream(v) ==
  /\ Len(queue[v]) <= QueueSize
  /\ Run(written[v], joined[v])
  /\ Held(v) = 1 => msg = Taken(v)
  /\ Run(queue[v], Taken(v))
  /\ v \in sseClients => Taken(v) + Len(queue[v]) = line
  /\ Fresh(v) => v \notin sseClients /\ queue[v] = << >> /\ written[v] = << >>
  /\ v \in sseClients /\ (serving = v => hpc = "next") => written[v] = << >>
  /\ serving = v /\ hpc \in {"headers", "hello"} => written[v] = << >>

LEMMA StreamParts == StreamInv <=> StreamTypes /\ \A v \in Viewers : OneStream(v)
BY DEF StreamInv, StreamTypes, OneStream

(* Nothing about a stream changes in a step that leaves its parts alone.   *)
LEMMA StreamKept ==
  ASSUME NEW v \in Viewers, OneStream(v),
         line' = line, queue'[v] = queue[v], written'[v] = written[v], joined'[v] = joined[v],
         Held(v)' = Held(v), Held(v) = 1 => msg' = msg,
         v \in sseClients' => v \in sseClients, Fresh(v)' => Fresh(v) /\ v \notin sseClients',
         (v \in sseClients' /\ (serving' = v => hpc' = "next")) \/ (serving' = v /\ hpc' \in {"headers", "hello"})
            => written[v] = << >>
  PROVE  OneStream(v)'
BY DEF OneStream, Taken
-----------------------------------------------------------------------------
(* A step of handle_sse is about one stream, and that stream has begun.    *)
LEMMA OthersKept ==
  ASSUME StreamTypes, NEW v \in Viewers, Sse(v), NEW w \in Viewers, w # v, OneStream(w)
  PROVE  OneStream(w)'
<1>1. /\ serving = v /\ serving' \in {Nobody, v} /\ Nobody # w
      /\ UNCHANGED <<backlog, asked, line>>
  BY SseFacts, Constants DEF Requests
<1>2. /\ queue'[w] = queue[w] /\ written'[w] = written[w] /\ joined'[w] = joined[w]
      /\ w \in sseClients' <=> w \in sseClients
  BY DEF Sse, Register, HeaderFails, Hello, HelloFails, GetLine, GetTimesOut, WriteLine,
     WriteFails, Finally, ConnectionEnds, streamVars, StreamTypes
<1>3. Held(w) = 0 /\ Held(w)' = 0 BY <1>1 DEF Held
<1>4. Fresh(w)' <=> Fresh(w) BY <1>1 DEF Fresh, Waits
<1>5. Fresh(w) => w \notin sseClients BY DEF OneStream
<1>6. w \in sseClients => written[w] = << >> BY <1>1 DEF OneStream
<1> QED BY <1>1, <1>2, <1>3, <1>4, <1>5, <1>6, StreamKept

LEMMA ServedIsBegun ==
  ASSUME AskInv, NEW v \in Viewers, Sse(v)
  PROVE  ~Fresh(v)' /\ (hpc # "headers" => ~Fresh(v))
BY SseFacts, Constants DEF AskInv, Fresh, Waits, Requests

LEMMA SseStream ==
  ASSUME PyInv, NEW v \in Viewers, Sse(v)
  PROVE  StreamTypes' /\ OneStream(v)'
<1> USE DEF PyInv
<1>t. StreamTypes /\ OneStream(v) BY StreamParts
<1>n. /\ line \in Nat /\ line' = line /\ msg \in Nat /\ joined[v] \in 0 .. line /\ joined[v] \in Nat
      /\ written[v] \in Seq(1 .. line) /\ Len(written[v]) \in Nat
      /\ queue[v] \in Seq(1 .. line) /\ Len(queue[v]) \in Nat /\ QueueSize \in Nat
  BY <1>t, SseFacts, Constants DEF LinkInv, StreamTypes
<1>s. serving = v /\ v \in asked /\ asked' = asked BY SseFacts DEF AskInv
<1>f. ~Fresh(v)' /\ (hpc # "headers" => ~Fresh(v)) BY ServedIsBegun
<1>1. CASE Register(v)
  <2>1. Fresh(v) /\ msg = 0 BY <1>1 DEF Register, Fresh, Waits, HttpInv
  <2>2. v \notin sseClients /\ queue[v] = << >> /\ written[v] = << >>
    BY <1>t, <2>1 DEF OneStream
  <2>3. /\ sseClients' = sseClients \cup {v} /\ joined' = [joined EXCEPT ![v] = line]
        /\ UNCHANGED <<queue, msg, written, serving>>
    BY <1>1 DEF Register, Goto
  <2>4. StreamTypes' BY <1>t, <1>n, <1>s, <2>3 DEF StreamTypes
  <2>5. joined'[v] = line /\ queue'[v] = << >> /\ written'[v] = << >>
    BY <1>t, <2>2, <2>3 DEF StreamTypes
  <2>6. Held(v)' = 0 /\ Taken(v)' = line BY <1>n, <2>1, <2>3, <2>5 DEF Held, Taken
  <2> QED BY <1>n, <1>s, <1>f, <2>3, <2>4, <2>5, <2>6 DEF OneStream, Run
<1>2. CASE HeaderFails(v)
  <2>1. Fresh(v) /\ msg = 0 BY <1>2 DEF HeaderFails, Fresh, Waits, HttpInv
  <2>2. v \notin sseClients BY <1>t, <2>1 DEF OneStream
  <2>3. UNCHANGED <<sseClients, queue, msg, written, joined>> /\ serving' = Nobody
    BY <1>2 DEF HeaderFails, Return, streamVars
  <2>4. Held(v) = 0 /\ Held(v)' = 0 BY <2>1, <2>3 DEF Held
  <2>5. StreamTypes' BY <1>t, <1>n, <1>s, <2>3 DEF StreamTypes
  <2>6. Nobody # v BY Constants
  <2> QED BY <1>t, <1>n, <1>f, <2>2, <2>3, <2>4, <2>5, <2>6, StreamKept
<1>3. CASE Hello(v) \/ GetTimesOut(v) \/ WriteFails(v)
  <2>1. UNCHANGED <<sseClients, queue, msg, written, joined, serving>> /\ hpc' \in {"get", "finally"}
    BY <1>3 DEF Hello, GetTimesOut, WriteFails, Goto, streamVars
  <2>2. StreamTypes' BY <1>t, <1>n, <1>s, <2>1 DEF StreamTypes
  <2>3. Held(v)' = Held(v) BY <2>1 DEF Held
  <2> QED BY <1>t, <1>n, <1>f, <1>s, <2>1, <2>2, <2>3, StreamKept
<1>4. CASE HelloFails(v)
  <2>1. msg = 0 /\ hpc = "hello" BY <1>4 DEF HelloFails, HttpInv
  <2>2. written[v] = << >> BY <1>t, <1>s, <2>1 DEF OneStream
  <2>3. UNCHANGED <<sseClients, queue, msg, written, joined, serving>>
    BY <1>4 DEF HelloFails, Goto, streamVars
  <2>4. Held(v) = 0 /\ Held(v)' = 0 BY <2>1, <2>3 DEF Held
  <2>5. StreamTypes' BY <1>t, <1>n, <1>s, <2>3 DEF StreamTypes
  <2> QED BY <1>t, <1>n, <1>s, <1>f, <2>1, <2>2, <2>3, <2>4, <2>5, StreamKept
<1>5. CASE GetLine(v)
  <2>1. msg = 0 /\ Held(v) = 0 BY <1>5 DEF GetLine, HttpInv, Held
  <2>2. Taken(v) \in Nat /\ Run(queue[v], Taken(v)) BY <1>t, <1>n, <2>1 DEF OneStream, Taken
  <2>3. /\ queue[v] # << >> /\ msg' = Head(queue[v]) /\ queue' = [queue EXCEPT ![v] = Tail(@)]
        /\ UNCHANGED <<sseClients, joined, written, serving>> /\ hpc' = "write"
    BY <1>5 DEF GetLine, Goto
  <2>4. /\ msg' = Taken(v) + 1 /\ msg' \in 1 .. line
        /\ Tail(queue[v]) \in Seq(1 .. line) /\ Run(Tail(queue[v]), Taken(v) + 1)
        /\ Len(Tail(queue[v])) = Len(queue[v]) - 1
    <3>1. Shortened(msg', Tail(queue[v]), queue[v], Taken(v), line)
      BY <1>n, <2>2, <2>3, RunTail
    <3> QED BY <3>1 DEF Shortened
  <2>5. StreamTypes' BY <1>t, <1>n, <1>s, <2>3, <2>4 DEF StreamTypes
  <2>6. queue'[v] = Tail(queue[v]) BY <1>t, <2>3 DEF StreamTypes
  <2>7. Held(v)' = 1 /\ Taken(v)' = Taken(v) + 1
    BY <1>n, <1>s, <2>1, <2>3, <2>4 DEF Held, Taken
  <2>8. /\ Len(queue'[v]) <= QueueSize /\ Run(queue'[v], Taken(v)')
        /\ v \in sseClients' => Taken(v)' + Len(queue'[v]) = line'
    <3>1. Len(queue'[v]) = Len(queue[v]) - 1 BY <2>4, <2>6
    <3>2. Len(queue[v]) <= QueueSize /\ (v \in sseClients => Taken(v) + Len(queue[v]) = line)
      BY <1>t DEF OneStream
    <3>3. Run(queue'[v], Taken(v)') BY <2>4, <2>6, <2>7
    <3>4. Len(queue'[v]) <= QueueSize BY <1>n, <3>1, <3>2
    <3>5. v \in sseClients' => Taken(v)' + Len(queue'[v]) = line'
      BY <1>n, <2>2, <2>3, <2>7, <3>1, <3>2
    <3> QED BY <3>3, <3>4, <3>5
  <2>9. Run(written'[v], joined'[v]) BY <1>t, <2>3 DEF OneStream
  <2> QED BY <1>f, <1>s, <2>3, <2>4, <2>5, <2>7, <2>8, <2>9 DEF OneStream
<1>6. CASE WriteLine(v)
  <2>1. msg # 0 /\ Held(v) = 1 BY <1>6 DEF WriteLine, HttpInv, Held
  <2>2. msg = Taken(v) /\ msg = joined[v] + Len(written[v]) + 1 /\ msg \in 1 .. line
    BY <1>t, <1>n, <2>1 DEF OneStream, Taken, StreamTypes
  <2>3. /\ written' = [written EXCEPT ![v] = Append(@, msg)] /\ msg' = 0 /\ hpc' = "get"
        /\ UNCHANGED <<sseClients, queue, joined, serving>>
    BY <1>6 DEF WriteLine, Goto
  <2>4. Run(written[v], joined[v]) BY <1>t DEF OneStream
  <2>5. /\ Append(written[v], msg) \in Seq(1 .. line) /\ Run(Append(written[v], msg), joined[v])
        /\ Len(Append(written[v], msg)) = Len(written[v]) + 1
    <3>1. line >= line BY <1>n
    <3>2. msg = joined[v] + Len(written[v]) + 1 BY <2>2
    <3>3. Extended(Append(written[v], msg), written[v], joined[v], line)
      BY <1>n, <2>2, <2>4, <3>1, <3>2, RunAppend
    <3> QED BY <3>3 DEF Extended
  <2>6. StreamTypes' BY <1>t, <1>n, <1>s, <2>3, <2>5 DEF StreamTypes
  <2>7. written'[v] = Append(written[v], msg) BY <1>t, <2>3 DEF StreamTypes
  <2>8. Held(v)' = 0 /\ Taken(v)' = Taken(v)
    BY <1>n, <2>1, <2>2, <2>3, <2>5, <2>7 DEF Held, Taken
  <2> QED BY <1>t, <1>n, <1>f, <1>s, <2>3, <2>5, <2>6, <2>7, <2>8 DEF OneStream
<1>7. CASE Finally(v)
  <2>1. /\ sseClients' = sseClients \ {v} /\ queue' = [queue EXCEPT ![v] = << >>] /\ msg' = 0
        /\ UNCHANGED <<joined, written, serving>> /\ hpc' = "next"
    BY <1>7 DEF Finally, Goto
  <2>2. << >> \in Seq(1 .. line) OBVIOUS
  <2>3. StreamTypes' BY <1>t, <1>n, <1>s, <2>1, <2>2 DEF StreamTypes
  <2>4. queue'[v] = << >> BY <1>t, <2>1 DEF StreamTypes
  <2>5. Held(v)' = 0 BY <2>1 DEF Held
  <2>6. Run(written[v], joined[v]) BY <1>t DEF OneStream
  <2> QED BY <1>n, <1>f, <2>1, <2>3, <2>4, <2>5, <2>6 DEF OneStream, Run
<1>8. CASE ConnectionEnds(v)
  <2>1. hpc = "next" /\ msg = 0 BY <1>8 DEF ConnectionEnds, HttpInv
  <2>2. UNCHANGED <<sseClients, queue, msg, written, joined>> /\ serving' = Nobody /\ Nobody # v
    BY <1>8, Constants DEF ConnectionEnds, Return, streamVars
  <2>3. Held(v) = 0 /\ Held(v)' = 0 BY <2>1, <2>2 DEF Held
  <2>4. StreamTypes' BY <1>t, <1>n, <1>s, <2>2 DEF StreamTypes
  <2>5. v \in sseClients => written[v] = << >> BY <1>t, <2>1 DEF OneStream
  <2> QED BY <1>t, <1>n, <1>f, <1>s, <2>1, <2>2, <2>3, <2>4, <2>5, StreamKept
<1> QED BY <1>1, <1>2, <1>3, <1>4, <1>5, <1>6, <1>7, <1>8 DEF Sse

LEMMA BroadcastStream ==
  ASSUME PyInv, Broadcast, NEW v \in Viewers
  PROVE  OneStream(v)'
<1> USE DEF PyInv
<1>t. StreamTypes /\ OneStream(v) BY StreamParts
<1>n. /\ line \in Nat /\ line' = line + 1 /\ line' \in Nat /\ joined[v] \in Nat
      /\ written[v] \in Seq(1 .. line) /\ Len(written[v]) \in Nat
      /\ queue[v] \in Seq(1 .. line) /\ Len(queue[v]) \in Nat /\ QueueSize \in Nat
      /\ Held(v) \in Nat /\ Taken(v) \in Nat
  BY <1>t, Constants DEF Broadcast, LinkInv, StreamTypes, Held, Taken
<1>1. /\ sseClients' = {w \in sseClients : HasRoom(w)} /\ Put(sseClients')
      /\ UNCHANGED <<httpVars, msg, joined, written>>
  BY DEF Broadcast
<1>2. Held(v)' = Held(v) /\ Taken(v)' = Taken(v) /\ (Fresh(v)' <=> Fresh(v))
  BY <1>1 DEF Held, Taken, Fresh, Waits, httpVars
<1>3. CASE v \in sseClients'
  <2>1. v \in sseClients /\ Len(queue[v]) < QueueSize /\ queue'[v] = Append(queue[v], line')
    BY <1>1, <1>3 DEF HasRoom, Put
  <2>2. line' = Taken(v) + Len(queue[v]) + 1 /\ Run(queue[v], Taken(v)) BY <1>t, <1>n, <2>1 DEF OneStream
  <2>3. Run(Append(queue[v], line'), Taken(v)) /\ Len(Append(queue[v], line')) = Len(queue[v]) + 1
    <3>1. line' >= line /\ line' \in 1 .. line' BY <1>n
    <3>2. Extended(Append(queue[v], line'), queue[v], Taken(v), line')
      BY <1>n, <2>2, <3>1, RunAppend
    <3> QED BY <3>2 DEF Extended
  <2>4. /\ Len(queue'[v]) <= QueueSize /\ Run(queue'[v], Taken(v)')
        /\ Taken(v)' + Len(queue'[v]) = line'
    BY <1>n, <1>2, <2>1, <2>2, <2>3
  <2>5. ~Fresh(v)' BY <1>t, <1>2, <2>1 DEF OneStream
  <2>6. /\ Run(written'[v], joined'[v]) /\ (Held(v)' = 1 => msg' = Taken(v)')
        /\ v \in sseClients' /\ (serving' = v => hpc' = "next") => written'[v] = << >>
        /\ serving' = v /\ hpc' \in {"headers", "hello"} => written'[v] = << >>
    BY <1>t, <1>1, <1>2, <2>1 DEF OneStream, httpVars
  <2> QED BY <2>4, <2>5, <2>6 DEF OneStream
<1>4. CASE v \notin sseClients'
  <2>1. queue'[v] = queue[v] BY <1>1, <1>4 DEF Put
  <2> QED BY <1>t, <1>n, <1>1, <1>2, <1>4, <2>1 DEF OneStream, httpVars
<1> QED BY <1>3, <1>4

LEMMA BroadcastTypes == PyInv /\ Broadcast => StreamTypes'
<1> SUFFICES ASSUME PyInv, Broadcast PROVE StreamTypes'
  OBVIOUS
<1> USE DEF PyInv
<1>t. StreamTypes BY StreamParts
<1>n. line \in Nat /\ line' = line + 1 /\ line' \in Nat BY Constants DEF Broadcast, LinkInv
<1>1. /\ sseClients' = {w \in sseClients : HasRoom(w)} /\ Put(sseClients')
      /\ UNCHANGED <<httpVars, msg, joined, written>>
  BY DEF Broadcast
<1>2. ASSUME NEW v \in Viewers
      PROVE  queue[v] \in Seq(1 .. line') /\ written[v] \in Seq(1 .. line')
  BY <1>t, <1>n, SeqWidens DEF StreamTypes
<1>3. line' \in 1 .. line' BY <1>n
<1>4. queue' \in [Viewers -> Seq(1 .. line')]
  <2>1. \A v \in Viewers : Append(queue[v], line') \in Seq(1 .. line')
    BY <1>2, <1>3
  <2> QED BY <1>1, <1>2, <2>1 DEF Put
<1>5. written' \in [Viewers -> Seq(1 .. line')]
  BY <1>t, <1>1, <1>2 DEF StreamTypes
<1> QED BY <1>t, <1>n, <1>1, <1>4, <1>5 DEF StreamTypes, httpVars

LEMMA StreamStep == PyInv /\ [Next]_vars => StreamInv'
<1> SUFFICES ASSUME PyInv, [Next]_vars PROVE StreamTypes' /\ \A v \in Viewers : OneStream(v)'
  BY StreamParts DEF StreamInv, StreamTypes, OneStream
<1>t. StreamTypes /\ \A v \in Viewers : OneStream(v) BY StreamParts DEF PyInv
<1>n. Nobody \notin Viewers /\ Viewers \cap Calls = {} BY Constants
<1>1. ASSUME NEW r \in Requests, Request(r) PROVE StreamTypes' /\ \A v \in Viewers : OneStream(v)'
  <2>1. backlog \in Seq(Requests) /\ backlog' = Append(backlog, r) BY <1>1 DEF Request, PyInv, HttpInv
  <2>2. \A i \in DOMAIN backlog' : \/ i \in DOMAIN backlog /\ backlog'[i] = backlog[i]
                                  \/ backlog'[i] = r
    BY <2>1
  <2>3. /\ r \in Viewers => r \notin asked
        /\ asked' = asked \cup ({r} \cap Viewers) /\ UNCHANGED <<serving, hpc, streamVars, line>>
    BY <1>1 DEF Request
  <2>4. StreamTypes' BY <1>t, <2>3 DEF StreamTypes, streamVars
  <2>5. ASSUME NEW v \in Viewers PROVE OneStream(v)'
    <3>1. Fresh(v)' => Fresh(v) BY <2>2, <2>3 DEF Fresh, Waits
    <3>2. Held(v)' = Held(v) BY <2>3 DEF Held, streamVars
    <3>3. /\ Fresh(v) => v \notin sseClients
          /\ v \in sseClients /\ (serving = v => hpc = "next") => written[v] = << >>
          /\ serving = v /\ hpc \in {"headers", "hello"} => written[v] = << >>
      BY <1>t DEF OneStream
    <3>4. UNCHANGED <<queue, written, joined, msg, sseClients>> BY <2>3 DEF streamVars
    <3> QED BY <1>t, <2>3, <3>1, <3>2, <3>3, <3>4, StreamKept
  <2> QED BY <2>4, <2>5
<1>2. CASE AcceptRequest
  <2>1. /\ backlog \in Seq(Requests) /\ backlog # << >> /\ msg = 0
        /\ serving = Nobody /\ serving' = backlog[1] /\ backlog' = Tail(backlog)
        /\ UNCHANGED <<asked, streamVars, line>>
    BY <1>2 DEF AcceptRequest, PyInv, HttpInv
  <2>2. \A i \in DOMAIN backlog' : i + 1 \in DOMAIN backlog /\ backlog'[i] = backlog[i + 1]
    BY <2>1
  <2>3. 1 \in DOMAIN backlog BY <2>1
  <2>4. StreamTypes' BY <1>t, <2>1 DEF StreamTypes, streamVars
  <2>5. ASSUME NEW v \in Viewers PROVE OneStream(v)'
    <3>1. Fresh(v)' => Fresh(v) BY <2>1, <2>2, <2>3 DEF Fresh, Waits
    <3>2. Held(v) = 0 /\ Held(v)' = 0 BY <2>1 DEF Held, streamVars
    <3>3. serving' = v => Fresh(v) BY <2>1, <2>3 DEF Fresh, Waits
    <3>4. /\ Fresh(v) => v \notin sseClients /\ written[v] = << >>
          /\ v \in sseClients => written[v] = << >>
      BY <1>t, <1>n, <2>1 DEF OneStream
    <3>5. UNCHANGED <<queue, written, joined, msg, sseClients>> BY <2>1 DEF streamVars
    <3> QED BY <1>t, <2>1, <3>1, <3>2, <3>3, <3>4, <3>5, StreamKept
  <2> QED BY <2>4, <2>5
<1>3. ASSUME NEW v \in Viewers, Sse(v) PROVE StreamTypes' /\ \A w \in Viewers : OneStream(w)'
  BY <1>t, <1>3, SseStream, OthersKept
<1>4. CASE ApiCall
  <2>1. serving \in Calls /\ serving' = Nobody /\ msg = 0 /\ hpc' = "idle" /\ UNCHANGED <<backlog, asked, streamVars, line>>
    BY <1>4, ApiFacts DEF PyInv, HttpInv
  <2>2. StreamTypes' BY <1>t, <2>1 DEF StreamTypes, streamVars
  <2>3. ASSUME NEW v \in Viewers PROVE OneStream(v)'
    <3>1. Fresh(v)' => Fresh(v) BY <2>1 DEF Fresh, Waits
    <3>2. Held(v) = 0 /\ Held(v)' = 0 BY <2>1 DEF Held, streamVars
    <3>3. serving # v /\ serving' # v BY <1>n, <2>1
    <3>4. (Fresh(v) => v \notin sseClients) /\ (v \in sseClients => written[v] = << >>)
      BY <1>t, <3>3 DEF OneStream
    <3>5. UNCHANGED <<queue, written, joined, msg, sseClients>> BY <2>1 DEF streamVars
    <3> QED BY <1>t, <2>1, <3>1, <3>2, <3>3, <3>4, <3>5, StreamKept
  <2> QED BY <2>2, <2>3
<1>5. CASE Broadcast
  BY <1>5, BroadcastTypes, BroadcastStream
<1>6. UNCHANGED <<httpVars, sseClients, queue, msg, joined, written, line>>
        => StreamTypes' /\ \A v \in Viewers : OneStream(v)'
  BY <1>t DEF StreamTypes, OneStream, Taken, Held, Fresh, Waits, httpVars
<1>7. ASSUME \/ \E v \in Viewers : Read(v) \/ Leave(v)
             \/ ServerExits \/ \E c \in Clients : ReaderStep(c)
             \/ UNCHANGED vars
      PROVE  StreamTypes' /\ \A v \in Viewers : OneStream(v)'
  BY <1>6, <1>7, ReaderFacts DEF Read, Leave, ServerExits, vars, streamVars
<1> QED BY NextCases, <1>1, <1>2, <1>3, <1>4, <1>5, <1>7
-----------------------------------------------------------------------------
LEMMA PyStart == Init => PyInv
<1> SUFFICES ASSUME Init PROVE PyInv
  OBVIOUS
<1> USE Constants DEF Init
<1>1. HttpInv BY DEF HttpInv
<1>2. AskInv /\ ReaderInv BY DEF AskInv, ReaderInv
<1>3. LinkInv BY DEF LinkInv
<1>4. StreamTypes BY DEF StreamTypes
<1>5. ASSUME NEW v \in Viewers PROVE OneStream(v)
  BY DEF OneStream, Held, Run
<1> QED BY <1>1, <1>2, <1>3, <1>4, <1>5, StreamParts DEF PyInv

LEMMA PyStep == PyInv /\ [Next]_vars => PyInv'
BY HttpStep, AskStep, ReadersStep, LinkStep, StreamStep DEF PyInv

LEMMA PyAlways == Spec => []PyInv
BY PyStart, PyStep, PTL DEF Spec

(* visualizer.py's threads keep their variables well typed: no queue holds *)
(* more than QueueSize lines, no backlog more than Backlog requests, the   *)
(* HTTP thread is idle exactly while it serves nobody, and the lock is     *)
(* held by the reader that sleeps in it.                                   *)
THEOREM PyTypeCorrect == Spec => []TypeOK
<1>1. PyInv => TypeOK
  BY DEF PyInv, HttpInv, ReaderInv, LinkInv, StreamInv, TypeOK
<1> QED BY <1>1, PyAlways, PTL

LEMMA NatLines ==
  ASSUME NEW n \in Nat, NEW s \in Seq(1 .. n)
  PROVE  s \in Seq(Nat)
<1>1. \A i \in DOMAIN s : s[i] \in Nat OBVIOUS
<1> QED BY <1>1

(* A run followed by a run that goes on where it ends is a run.            *)
LEMMA RunConcat ==
  ASSUME NEW s \in Seq(Nat), NEW t \in Seq(Nat), NEW from \in Nat,
         Run(s, from), Run(t, from + Len(s))
  PROVE  /\ s \o t \in Seq(Nat) /\ Run(s \o t, from) /\ Len(s \o t) = Len(s) + Len(t)
<1>1. /\ s \o t \in Seq(Nat) /\ Len(s \o t) = Len(s) + Len(t)
      /\ \A i \in 1 .. Len(s) + Len(t) : (s \o t)[i] = IF i <= Len(s) THEN s[i] ELSE t[i - Len(s)]
      /\ DOMAIN (s \o t) = 1 .. Len(s) + Len(t)
  OBVIOUS
<1>2. ASSUME NEW i \in 1 .. Len(s) + Len(t) PROVE (s \o t)[i] = from + i
  <2>1. CASE i <= Len(s)
    BY <1>1, <2>1 DEF Run
  <2>2. CASE i > Len(s)
    <3>1. i - Len(s) \in 1 .. Len(t) BY <2>2
    <3>2. t[i - Len(s)] = from + Len(s) + (i - Len(s)) BY <3>1 DEF Run
    <3> QED BY <1>1, <2>2, <3>2
  <2> QED BY <2>1, <2>2
<1> QED BY <1>1, <1>2 DEF Run

(* What a viewer is written is the run of the server's lines from its      *)
(* registration on, without a gap, whatever queues fill up, requests fail  *)
(* and streams end; while the queue is in the list, nothing is missing.    *)
THEOREM PyStreamsAreContiguous == Spec => []StreamHasNoGaps
<1>1. ASSUME PyInv, NEW v \in Viewers
      PROVE  /\ \A i \in DOMAIN Stream(v) : Stream(v)[i] = joined[v] + i
             /\ v \in sseClients => joined[v] + Len(Stream(v)) = line
  <2>t. StreamTypes /\ OneStream(v) /\ LinkInv BY <1>1, StreamParts DEF PyInv
  <2>n. /\ line \in Nat /\ msg \in Nat /\ joined[v] \in Nat
        /\ written[v] \in Seq(Nat) /\ queue[v] \in Seq(Nat)
    <3>1. line \in Nat BY <2>t, Constants DEF LinkInv
    <3>2. written[v] \in Seq(1 .. line) /\ queue[v] \in Seq(1 .. line)
      BY <2>t DEF StreamTypes
    <3>3. 1 .. line \subseteq Nat BY <3>1
    <3>4. written[v] \in Seq(Nat) /\ queue[v] \in Seq(Nat)
      BY <3>1, <3>2, NatLines
    <3> QED BY <2>t, <3>1, <3>4 DEF StreamTypes
  <2> DEFINE held == IF serving = v /\ msg # 0 THEN <<msg>> ELSE << >>
  <2>1. held \in Seq(Nat) /\ Len(held) = Held(v) /\ Run(held, joined[v] + Len(written[v]))
    <3>1. CASE serving = v /\ msg # 0
      <4>1. msg = joined[v] + Len(written[v]) + 1
        BY <2>t, <2>n, <3>1 DEF OneStream, Held, Taken
      <4>2. held = <<msg>> BY <3>1
      <4> QED BY <2>n, <3>1, <4>1, <4>2 DEF Held, Run
    <3>2. CASE ~(serving = v /\ msg # 0)
      BY <3>2 DEF Held, Run
    <3> QED BY <3>1, <3>2
  <2>2. Stream(v) = written[v] \o (held \o queue[v]) BY DEF Stream, Pending
  <2> HIDE DEF held
  <2>3. joined[v] + Len(written[v]) \in Nat BY <2>n
  <2>4. Run(queue[v], joined[v] + Len(written[v]) + Len(held))
    BY <2>t, <2>1 DEF OneStream, Taken
  <2>5. /\ held \o queue[v] \in Seq(Nat) /\ Run(held \o queue[v], joined[v] + Len(written[v]))
        /\ Len(held \o queue[v]) = Held(v) + Len(queue[v])
    BY <2>n, <2>1, <2>3, <2>4, RunConcat
  <2>6. Run(written[v], joined[v]) BY <2>t DEF OneStream
  <2>7. /\ Run(Stream(v), joined[v])
        /\ Len(Stream(v)) = Len(written[v]) + (Held(v) + Len(queue[v]))
    <3> DEFINE rest == held \o queue[v]
    <3>1. rest \in Seq(Nat) /\ Run(rest, joined[v] + Len(written[v])) BY <2>5
    <3>2. Len(rest) = Held(v) + Len(queue[v]) /\ Stream(v) = written[v] \o rest BY <2>2, <2>5
    <3> HIDE DEF rest
    <3>3. /\ Run(written[v] \o rest, joined[v])
          /\ Len(written[v] \o rest) = Len(written[v]) + Len(rest)
      BY <2>n, <2>6, <3>1, RunConcat
    <3> QED BY <3>2, <3>3
  <2>8. v \in sseClients => joined[v] + Len(written[v]) + Held(v) + Len(queue[v]) = line
    BY <2>t DEF OneStream, Taken
  <2>9. Len(written[v]) \in Nat /\ Len(queue[v]) \in Nat /\ Held(v) \in Nat
    BY <2>n DEF Held
  <2>10. v \in sseClients => joined[v] + Len(Stream(v)) = line
    <3>1. joined[v] \in Nat BY <2>n
    <3>2. joined[v] + (Len(written[v]) + (Held(v) + Len(queue[v])))
            = joined[v] + Len(written[v]) + Held(v) + Len(queue[v])
      BY <2>9, <3>1
    <3> QED BY <2>7, <2>8, <3>2, Zenon
  <2>11. \A i \in DOMAIN Stream(v) : Stream(v)[i] = joined[v] + i BY <2>7, Zenon DEF Run
  <2> QED BY <2>10, <2>11, Zenon
<1>2. PyInv => StreamHasNoGaps BY <1>1 DEF StreamHasNoGaps
<1> QED BY <1>2, PyAlways, PTL

(* A queue that no handler drains any more leaves sse_clients after at     *)
(* most QueueSize lines.                                                   *)
THEOREM PyLeaksAreShed == Spec => []LeakIsShed
<1>1. ASSUME PyInv, NEW v \in sseClients, serving = v => hpc = "next" PROVE line - joined[v] <= QueueSize
  <2>1. v \in Viewers /\ StreamTypes /\ line \in Nat /\ QueueSize \in Nat
    BY <1>1, StreamParts, Constants DEF PyInv, StreamTypes, HttpInv, LinkInv
  <2>2. OneStream(v) BY <1>1, <2>1, StreamParts DEF PyInv
  <2>3. Held(v) = 0 /\ written[v] = << >> BY <1>1, <2>2 DEF Held, OneStream, PyInv, HttpInv
  <2>4. Taken(v) = joined[v] /\ joined[v] \in Nat /\ Len(queue[v]) \in Nat
    BY <2>1, <2>3 DEF Taken, StreamTypes
  <2> QED BY <1>1, <2>1, <2>2, <2>4 DEF OneStream
<1>2. PyInv => LeakIsShed BY <1>1 DEF LeakIsShed
<1> QED BY <1>2, PyAlways, PTL
===============================================================================
