------------------------------ MODULE SseHub_proofs ------------------------------
(***************************************************************************)
(* Theorems about SseHub, for any set of subscribers, any number of lines  *)
(* and any window: types, no write to a returned handler, streams without  *)
(* gaps, no missed init event, and what alone can lose it on its way.      *)
(***************************************************************************)
EXTENDS SseHub, TLAPS

Processes == {"scanner", "status"}
MuType == [readers : SUBSET Processes, waiting : SUBSET Processes,
           writer : Subs \cup {Nobody}]

(* What sseClientsMu protects: a broadcast under way holds the read lock,  *)
(* the map holds exactly the handlers between Register and Deregister, and *)
(* the range visits members of the map only.                               *)
LockInv ==
  /\ hpc \in [Subs -> Registered \cup {"idle", "lock", "register", "returned"}]
  /\ spc \in {"scan", "cache", "rlock", "locked", "range", "write"}
  /\ mu \in MuType
  /\ spc \in {"range", "write"} => "scanner" \in mu.readers
  /\ sseClients = {s \in Subs : hpc[s] \in Registered}
  /\ todo \subseteq sseClients
  /\ spc \notin {"range", "write"} => todo = {}
  /\ cur \in Subs \cup {Nobody}
  /\ IF spc = "write" THEN cur \in todo ELSE cur = Nobody

(* The lines: at most one is under way, and the init line is in the cache  *)
(* before it is broadcast.                                                 *)
LineInv ==
  /\ line \in 0 .. MaxLines /\ done \in Nat /\ lastInit \in BOOLEAN
  /\ line = IF spc = "scan" THEN done ELSE done + 1
  /\ spc = "cache" => line = 1
  /\ spc # "cache" /\ line >= 1 => lastInit

(* The connections and what was written to them.                           *)
ConnInv ==
  /\ conn \in [Subs -> {"up", "gone"}] /\ unread \in [Subs -> 0 .. Window]
  /\ inWrite \in [Subs -> SUBSET {"handler", "scanner"}]
  /\ torn \subseteq Subs /\ mixed \subseteq Subs /\ gotInit \subseteq Subs
  /\ apc \in {"idle", "locked"}

(* The broadcasts a subscriber got continue its registration, and it has   *)
(* got those of the line under way if the range has passed it.             *)
Reached(s) == IF spc \in {"range", "write"} /\ s \notin todo THEN line ELSE done
StreamInv ==
  /\ bcast \in [Subs -> Seq(1 .. MaxLines)] /\ joined \in [Subs -> Nat]
  /\ \A s \in Subs :
       /\ joined[s] <= done
       /\ \A i \in 1 .. Len(bcast[s]) : bcast[s][i] = joined[s] + i
       /\ s \in sseClients => joined[s] + Len(bcast[s]) = Reached(s)
       /\ hpc[s] \in {"idle", "lock", "register"} => bcast[s] = << >>

(* The init event came from the cache, or the subscriber was registered    *)
(* before anything was broadcast.                                          *)
InitInv ==
  /\ initEv \in [Subs -> BOOLEAN]
  /\ \A s \in Subs :
       /\ hpc[s] \in {"replay", "replaying"} => initEv[s]
       /\ hpc[s] = "serve" => initEv[s] \/ joined[s] = 0

(* A write of the init event that is over has reached a connected          *)
(* subscriber, unless another write overlapped with it: the replay of a    *)
(* handler that found it cached, or the first broadcast to a subscriber    *)
(* registered before any was over.                                         *)
Reaches(s) == s \in gotInit \cup mixed
GotInv ==
  /\ torn \subseteq mixed
  /\ \A s \in Subs : conn[s] = "up" =>
       /\ initEv[s] /\ hpc[s] = "serve" => Reaches(s)
       /\ joined[s] = 0 /\ Len(bcast[s]) >= 1 => Reaches(s)

HubInv == LockInv /\ LineInv /\ ConnInv /\ StreamInv /\ InitInv /\ GotInv
-----------------------------------------------------------------------------
(* The operators of RWMutex keep a value of MuType one.                    *)
LEMMA MutexTypes ==
  ASSUME NEW m \in MuType
  PROVE  /\ \A p \in Processes : RLock(m, p) \in MuType /\ RUnlock(m, p) \in MuType
         /\ \A s \in Subs : Announce(m, s) \in MuType
         /\ Unlock(m) \in MuType
<1>1. m = [readers |-> m.readers, waiting |-> m.waiting, writer |-> m.writer]
  BY DEF MuType
<1>2. /\ m.readers \subseteq Processes /\ m.waiting \subseteq Processes
      /\ m.writer \in Subs \cup {Nobody}
  BY DEF MuType
<1> QED BY <1>1, <1>2 DEF MuType, RLock, RUnlock, Announce, Unlock

(* A process keeps its read lock when others lock and unlock, unless it is *)
(* a writer that unlocks.                                                  *)
LEMMA MutexReaders ==
  ASSUME NEW m \in MuType, NEW p \in Processes
  PROVE  /\ m.readers \subseteq RLock(m, p).readers
         /\ RUnlock(m, p).readers = m.readers \ {p}
         /\ \A s \in Subs : Announce(m, s).readers = m.readers
BY DEF MuType, RLock, RUnlock, Announce

LEMMA HubInit == Init => HubInv
<1> SUFFICES ASSUME Init PROVE HubInv
  OBVIOUS
<1>1. LockInv BY DEF Init, LockInv, Registered, MuType, Unlocked
<1>2. LineInv
  <2>1. MaxLines \in Nat BY SseHubAssumption
  <2>2. line = 0 /\ done = 0 /\ spc = "scan" /\ lastInit = FALSE BY DEF Init
  <2>3. line \in 0 .. MaxLines /\ done \in Nat BY <2>1, <2>2
  <2>4. ~ (line >= 1) BY <2>2
  <2> QED BY <2>2, <2>3, <2>4 DEF LineInv
<1>3. ConnInv BY SseHubAssumption DEF Init, ConnInv
<1>4. StreamInv BY <1>1 DEF Init, StreamInv, Registered
<1>5. InitInv BY DEF Init, InitInv
<1>6. GotInv BY DEF Init, GotInv
<1> QED BY <1>1, <1>2, <1>3, <1>4, <1>5, <1>6 DEF HubInv
-----------------------------------------------------------------------------
(* The lock.  Register and Deregister change the map only when no reader   *)
(* is inside, so a broadcast is never under way when they do.              *)
LEMMA LockStep == LockInv /\ [Next]_vars => LockInv'
<1> SUFFICES ASSUME LockInv, [Next]_vars PROVE LockInv'
  OBVIOUS
<1> USE DEF LockInv
<1>1. ASSUME NEW s \in Subs, Connect(s) PROVE LockInv'
  BY <1>1 DEF Connect, HandlerGoto, Registered, scannerVars, streamVars
<1>2. ASSUME NEW s \in Subs, CallLock(s) PROVE LockInv'
  <2>1. mu' \in MuType /\ mu'.readers = mu.readers
    BY <1>2, MutexTypes, MutexReaders DEF CallLock, Processes
  <2> QED BY <1>2, <2>1 DEF CallLock, HandlerGoto, Registered, scannerVars, streamVars
<1>3. ASSUME NEW s \in Subs, Register(s) PROVE LockInv'
  <2>1. mu' \in MuType BY <1>3, MutexTypes DEF Register
  <2>2. spc \notin {"range", "write"} BY <1>3 DEF Register, HoldsWrite
  <2> QED BY <1>3, <2>1, <2>2 DEF Register, HandlerGoto, Registered, scannerVars, streamVars
<1>4. ASSUME NEW s \in Subs, BeginHandshake(s) PROVE LockInv'
  BY <1>4 DEF BeginHandshake, HandlerGoto, Registered, scannerVars
<1>5. ASSUME NEW s \in Subs, EndHandshake(s) PROVE LockInv'
  BY <1>5 DEF EndHandshake, HandlerGoto, Registered, scannerVars
<1>6. ASSUME NEW s \in Subs, FetchInit(s) PROVE LockInv'
  BY <1>6 DEF FetchInit, HandlerGoto, Registered, scannerVars
<1>7. ASSUME NEW s \in Subs, ContextDone(s) PROVE LockInv'
  BY <1>7 DEF ContextDone, HandlerGoto, Registered, scannerVars
<1>8. ASSUME NEW s \in Subs, Deregister(s) PROVE LockInv'
  <2>1. mu' \in MuType BY <1>8, MutexTypes DEF Deregister
  <2>2. spc \notin {"range", "write"} BY <1>8 DEF Deregister, HoldsWrite
  <2> QED BY <1>8, <2>1, <2>2 DEF Deregister, HandlerGoto, Registered, scannerVars, streamVars
<1>9. ASSUME NEW s \in Subs, Read(s) \/ Disconnect(s) PROVE LockInv'
  BY <1>9 DEF Read, Disconnect, handlerVars, scannerVars
<1>10. CASE Scan \/ CacheInit
  BY <1>10 DEF Scan, CacheInit, handlerVars
<1>11. CASE CallRLock
  <2>1. mu' \in MuType BY <1>11, MutexTypes DEF CallRLock, Processes
  <2> QED BY <1>11, <2>1 DEF CallRLock, handlerVars
<1>12. CASE BeginBroadcast
  BY <1>12 DEF BeginBroadcast, HoldsRead, handlerVars
<1>13. ASSUME NEW s \in Subs, BroadcastTo(s) PROVE LockInv'
  BY <1>13 DEF BroadcastTo, handlerVars
<1>14. CASE BroadcastWritten
  BY <1>14 DEF BroadcastWritten, handlerVars
<1>15. CASE EndBroadcast
  <2>1. mu' \in MuType BY <1>15, MutexTypes DEF EndBroadcast, Processes
  <2> QED BY <1>15, <2>1 DEF EndBroadcast, handlerVars
<1>16. CASE StatusCall
  <2>1. mu' \in MuType /\ mu.readers \subseteq mu'.readers
    BY <1>16, MutexTypes, MutexReaders DEF StatusCall, Processes
  <2> QED BY <1>16, <2>1 DEF StatusCall, handlerVars, scannerVars
<1>17. CASE StatusAnswer
  <2>1. mu' \in MuType /\ mu'.readers = mu.readers \ {"status"}
    BY <1>17, MutexTypes, MutexReaders DEF StatusAnswer, Processes
  <2> QED BY <1>17, <2>1 DEF StatusAnswer, handlerVars, scannerVars
<1>18. CASE UNCHANGED vars
  BY <1>18 DEF vars, handlerVars, scannerVars
<1> QED
  BY <1>1, <1>2, <1>3, <1>4, <1>5, <1>6, <1>7, <1>8, <1>9, <1>10, <1>11, <1>12, <1>13,
     <1>14, <1>15, <1>16, <1>17, <1>18 DEF Next, HandlerStep, ScannerStep
-----------------------------------------------------------------------------
(* The lines.                                                              *)
LEMMA LineStep == LockInv /\ LineInv /\ [Next]_vars => LineInv'
<1> SUFFICES ASSUME LockInv, LineInv, [Next]_vars PROVE LineInv'
  OBVIOUS
<1>a. MaxLines \in Nat BY SseHubAssumption
<1>1. CASE Scan
  <2>1. line + 1 \in 0 .. MaxLines /\ line = done BY <1>1, <1>a DEF Scan, LineInv
  <2> QED BY <1>1, <1>a, <2>1 DEF Scan, LineInv, IsInit
<1>2. CASE CacheInit
  BY <1>2, <1>a DEF CacheInit, LineInv
<1>3. CASE CallRLock
  BY <1>3, <1>a DEF CallRLock, LineInv
<1>4. CASE BeginBroadcast \/ BroadcastWritten \/ \E s \in Subs : BroadcastTo(s)
  BY <1>4, <1>a DEF BeginBroadcast, BroadcastWritten, BroadcastTo, LineInv
<1>5. CASE EndBroadcast
  BY <1>5, <1>a DEF EndBroadcast, LineInv
<1>6. CASE UNCHANGED scannerVars
  BY <1>6 DEF scannerVars, LineInv
<1>7. ASSUME \E s \in Subs : \/ Connect(s) \/ CallLock(s) \/ HandlerStep(s)
                             \/ Read(s) \/ Disconnect(s)
      PROVE UNCHANGED scannerVars
  BY <1>7 DEF Connect, CallLock, HandlerStep, Register, BeginHandshake, EndHandshake,
              FetchInit, ContextDone, Deregister, Read, Disconnect
<1>8. StatusCall \/ StatusAnswer \/ UNCHANGED vars => UNCHANGED scannerVars
  BY DEF StatusCall, StatusAnswer, vars
<1> QED
  BY <1>1, <1>2, <1>3, <1>4, <1>5, <1>6, <1>7, <1>8 DEF Next, ScannerStep
-----------------------------------------------------------------------------
(* The connections.                                                        *)
LEMMA WriteTypes ==
  ASSUME ConnInv, NEW s \in Subs, NEW who \in {"handler", "scanner"}, NEW frame \in Nat,
         BeginWrite(s, who) \/ EndWrite(s, who, frame),
         UNCHANGED <<conn, apc>>
  PROVE  ConnInv'
<1>1. CASE BeginWrite(s, who)
  BY <1>1 DEF BeginWrite, ConnInv
<1>2. CASE EndWrite(s, who, frame)
  <2>1. unread' \in [Subs -> 0 .. Window]
    <3>1. unread[s] \in 0 .. Window /\ Window \in Nat
      BY SseHubAssumption DEF ConnInv
    <3>2. (IF conn[s] = "up" THEN unread[s] + 1 ELSE unread[s]) \in 0 .. Window
      BY <1>2, <3>1 DEF EndWrite
    <3> QED BY <1>2, <3>2 DEF EndWrite, ConnInv
  <2>2. /\ inWrite' \in [Subs -> SUBSET {"handler", "scanner"}]
        /\ torn' \subseteq Subs /\ mixed' \subseteq Subs /\ gotInit' \subseteq Subs
    BY <1>2 DEF EndWrite, ConnInv
  <2> QED BY <2>1, <2>2 DEF ConnInv
<1> QED BY <1>1, <1>2

LEMMA ConnStep == LockInv /\ LineInv /\ ConnInv /\ [Next]_vars => ConnInv'
<1> SUFFICES ASSUME LockInv, LineInv, ConnInv, [Next]_vars PROVE ConnInv'
  OBVIOUS
<1>1. UNCHANGED <<streamVars, conn, apc>> => ConnInv'
  BY DEF streamVars, ConnInv
<1>2. ASSUME NEW s \in Subs,
             \/ Connect(s) \/ CallLock(s) \/ Register(s) \/ FetchInit(s)
             \/ ContextDone(s) \/ Deregister(s)
      PROVE ConnInv'
  BY <1>1, <1>2 DEF Connect, CallLock, Register, FetchInit, ContextDone, Deregister
<1>3. Scan \/ CacheInit \/ CallRLock \/ BeginBroadcast \/ EndBroadcast => ConnInv'
  BY <1>1 DEF Scan, CacheInit, CallRLock, BeginBroadcast, EndBroadcast
<1>4. ASSUME NEW s \in Subs, BeginHandshake(s) \/ EndHandshake(s) PROVE ConnInv'
  BY <1>4, WriteTypes DEF BeginHandshake, EndHandshake
<1>5. ASSUME NEW s \in Subs, Read(s) PROVE ConnInv'
  <2>1. unread[s] \in 0 .. Window /\ Window \in Nat
    BY SseHubAssumption DEF ConnInv
  <2>2. unread[s] - 1 \in 0 .. Window
    BY <1>5, <2>1 DEF Read
  <2> QED BY <1>5, <2>2 DEF Read, ConnInv
<1>6. ASSUME NEW s \in Subs, Disconnect(s) PROVE ConnInv'
  <2>1. 0 \in 0 .. Window BY SseHubAssumption
  <2> QED BY <1>6, <2>1 DEF Disconnect, ConnInv
<1>7. ASSUME NEW s \in Subs, BroadcastTo(s) PROVE ConnInv'
  BY <1>7, WriteTypes DEF BroadcastTo
<1>8. CASE BroadcastWritten
  <2>1. cur \in Subs BY <1>8 DEF BroadcastWritten, LockInv
  <2>2. line \in Nat BY SseHubAssumption DEF LineInv
  <2> QED BY <1>8, <2>1, <2>2, WriteTypes DEF BroadcastWritten
<1>9. StatusCall \/ StatusAnswer => ConnInv'
  BY DEF StatusCall, StatusAnswer, streamVars, ConnInv
<1>10. UNCHANGED vars => ConnInv'
  BY <1>1 DEF vars
<1> QED
  BY <1>2, <1>3, <1>4, <1>5, <1>6, <1>7, <1>8, <1>9, <1>10 DEF Next, HandlerStep, ScannerStep
-----------------------------------------------------------------------------
(* The streams.  For one subscriber, what it was sent is a run of lines    *)
(* from its registration on.                                               *)
LEMMA StreamStep == LockInv /\ LineInv /\ StreamInv /\ [Next]_vars => StreamInv'
<1> SUFFICES ASSUME LockInv, LineInv, StreamInv, [Next]_vars PROVE StreamInv'
  OBVIOUS
<1>a. line \in Nat /\ done \in Nat /\ (spc # "scan" => line = done + 1)
  BY SseHubAssumption DEF LineInv
<1>b. \A s \in Subs : bcast[s] \in Seq(1 .. MaxLines) /\ joined[s] \in Nat
  BY DEF StreamInv
<1>1. ASSUME NEW s \in Subs, Connect(s) PROVE StreamInv'
  BY <1>1 DEF Connect, HandlerGoto, scannerVars, StreamInv, Reached
<1>2. ASSUME NEW s \in Subs, CallLock(s) PROVE StreamInv'
  BY <1>2 DEF CallLock, HandlerGoto, scannerVars, StreamInv, Reached
<1>3. ASSUME NEW s \in Subs, Register(s) PROVE StreamInv'
  <2>1. spc \notin {"range", "write"} BY <1>3 DEF Register, HoldsWrite, LockInv
  <2>2. hpc[s] = "register" /\ bcast[s] = << >> BY <1>3 DEF Register, StreamInv
  <2>3. /\ sseClients' = sseClients \cup {s} /\ joined' = [joined EXCEPT ![s] = done]
        /\ hpc' = [hpc EXCEPT ![s] = "hello"] /\ UNCHANGED scannerVars
    BY <1>3 DEF Register, HandlerGoto
  <2>4. joined'[s] = done /\ (s \in sseClients' => joined'[s] + Len(bcast[s]) = Reached(s)')
    BY <1>a, <2>1, <2>2, <2>3 DEF scannerVars, StreamInv, Reached
  <2>5. /\ hpc'[s] = "hello" /\ joined' \in [Subs -> Nat]
        /\ \A x \in Subs \ {s} :
             hpc'[x] = hpc[x] /\ joined'[x] = joined[x] /\ (x \in sseClients' <=> x \in sseClients)
    BY <1>a, <2>3 DEF LockInv, StreamInv
  <2>6. /\ UNCHANGED <<bcast, done>>
        /\ \A x \in Subs : Reached(x)' = Reached(x)
    BY <2>3 DEF scannerVars, Reached
  <2>7. \A i \in 1 .. Len(bcast[s]) : bcast[s][i] = joined'[s] + i
    BY <2>2
  <2>8. ASSUME NEW x \in Subs
        PROVE /\ joined'[x] <= done'
              /\ \A i \in 1 .. Len(bcast'[x]) : bcast'[x][i] = joined'[x] + i
              /\ x \in sseClients' => joined'[x] + Len(bcast'[x]) = Reached(x)'
              /\ hpc'[x] \in {"idle", "lock", "register"} => bcast'[x] = << >>
    <3>1. CASE x = s
      BY <1>a, <2>2, <2>4, <2>5, <2>6, <2>7, <3>1
    <3>2. CASE x # s
      BY <1>a, <2>5, <2>6, <3>2 DEF StreamInv
    <3> QED BY <3>1, <3>2
  <2> QED BY <1>a, <2>5, <2>6, <2>8 DEF StreamInv
<1>4. ASSUME NEW s \in Subs,
             BeginHandshake(s) \/ EndHandshake(s) \/ FetchInit(s) \/ ContextDone(s)
      PROVE StreamInv'
  <2>1. UNCHANGED <<joined, scannerVars, sseClients>>
    BY <1>4 DEF BeginHandshake, EndHandshake, FetchInit, ContextDone
  <2>2. PICK label \in {"helloing", "replaying", "fetch", "serve", "replay", "relock"} :
          hpc' = [hpc EXCEPT ![s] = label]
    BY <1>4 DEF BeginHandshake, EndHandshake, FetchInit, ContextDone, HandlerGoto
  <2>3. \A x \in Subs : hpc'[x] \in {"idle", "lock", "register"} => hpc'[x] = hpc[x]
    BY <2>2 DEF LockInv
  <2> QED BY <2>1, <2>3 DEF scannerVars, StreamInv, Reached
<1>5. ASSUME NEW s \in Subs, Deregister(s) PROVE StreamInv'
  BY <1>5 DEF Deregister, HandlerGoto, scannerVars, StreamInv, Reached
<1>6. ASSUME NEW s \in Subs, Read(s) \/ Disconnect(s) PROVE StreamInv'
  BY <1>6 DEF Read, Disconnect, handlerVars, scannerVars, StreamInv, Reached
<1>7. CASE Scan \/ CacheInit \/ CallRLock
  BY <1>7 DEF Scan, CacheInit, CallRLock, handlerVars, StreamInv, Reached
<1>8. CASE BeginBroadcast
  BY <1>8 DEF BeginBroadcast, handlerVars, StreamInv, Reached
<1>9. ASSUME NEW s \in Subs, BroadcastTo(s) PROVE StreamInv'
  BY <1>9 DEF BroadcastTo, handlerVars, StreamInv, Reached
<1>10. CASE BroadcastWritten
  <2>1. cur \in Subs /\ cur \in todo /\ cur \in sseClients /\ spc = "write"
    BY <1>10 DEF BroadcastWritten, LockInv
  <2>2. /\ bcast' = [bcast EXCEPT ![cur] = Append(@, line)] /\ todo' = todo \ {cur}
        /\ spc' = "range" /\ UNCHANGED <<line, done, joined, hpc, sseClients>>
    BY <1>10 DEF BroadcastWritten, handlerVars
  <2>3. joined[cur] + Len(bcast[cur]) = done /\ line = done + 1
    BY <2>1, <1>a DEF StreamInv, Reached
  <2>4. hpc[cur] \notin {"idle", "lock", "register"}
    BY <2>1 DEF LockInv, Registered
  <2>5. line \in 1 .. MaxLines BY <1>a, <2>3, SseHubAssumption DEF LineInv
  <2>6. /\ bcast'[cur] \in Seq(1 .. MaxLines)
        /\ Len(bcast'[cur]) = Len(bcast[cur]) + 1
        /\ \A i \in 1 .. Len(bcast'[cur]) : bcast'[cur][i] = joined[cur] + i
    <3>1. bcast'[cur] = Append(bcast[cur], line) BY <2>1, <2>2 DEF StreamInv
    <3> DEFINE q == bcast[cur]
    <3>2. q \in Seq(1 .. MaxLines) /\ Len(q) \in Nat BY <1>b, <2>1
    <3>3. \A i \in 1 .. Len(q) : q[i] = joined[cur] + i BY <2>1 DEF StreamInv
    <3>4. line = joined[cur] + (Len(q) + 1) BY <1>a, <1>b, <2>1, <2>3, <3>2
    <3> HIDE DEF q
    <3>5. /\ Append(q, line) \in Seq(1 .. MaxLines) /\ Len(Append(q, line)) = Len(q) + 1
          /\ \A i \in 1 .. Len(q) : Append(q, line)[i] = q[i]
          /\ Append(q, line)[Len(q) + 1] = line
      BY <2>5, <3>2
    <3>6. \A i \in 1 .. Len(Append(q, line)) : Append(q, line)[i] = joined[cur] + i
      BY <3>2, <3>3, <3>4, <3>5
    <3> QED BY <3>1, <3>5, <3>6 DEF q
  <2>7. \A s \in Subs \ {cur} : bcast'[s] = bcast[s] BY <2>2 DEF StreamInv
  <2>8. bcast' \in [Subs -> Seq(1 .. MaxLines)]
    BY <2>1, <2>2, <2>6, <2>7 DEF StreamInv
  <2>9. joined[cur] + Len(bcast'[cur]) = line
    <3>1. joined[cur] \in Nat /\ Len(bcast[cur]) \in Nat BY <1>b, <2>1
    <3> QED BY <1>a, <2>3, <2>6, <3>1
  <2>10. ASSUME NEW s \in Subs
         PROVE /\ joined[s]' <= done'
               /\ \A i \in 1 .. Len(bcast'[s]) : bcast'[s][i] = joined'[s] + i
               /\ s \in sseClients' => joined'[s] + Len(bcast'[s]) = Reached(s)'
               /\ hpc'[s] \in {"idle", "lock", "register"} => bcast'[s] = << >>
    <3>1. CASE s = cur
      BY <3>1, <2>1, <2>2, <2>4, <2>6, <2>9 DEF StreamInv, Reached
    <3>2. CASE s # cur
      BY <3>2, <2>1, <2>2, <2>7 DEF StreamInv, Reached
    <3> QED BY <3>1, <3>2
  <2> QED BY <2>2, <2>8, <2>10 DEF StreamInv
<1>11. CASE EndBroadcast
  <2>1. spc = "range" /\ todo = {} /\ done' = line /\ spc' = "scan"
    BY <1>11 DEF EndBroadcast
  <2>2. UNCHANGED <<line, bcast, todo, joined, hpc, sseClients>>
    BY <1>11 DEF EndBroadcast, handlerVars
  <2> QED BY <1>a, <1>b, <2>1, <2>2 DEF StreamInv, Reached
<1>12. CASE StatusCall \/ StatusAnswer \/ UNCHANGED vars
  BY <1>12 DEF StatusCall, StatusAnswer, vars, handlerVars, scannerVars, StreamInv, Reached
<1> QED
  BY <1>1, <1>2, <1>3, <1>4, <1>5, <1>6, <1>7, <1>8, <1>9, <1>10, <1>11, <1>12
  DEF Next, HandlerStep, ScannerStep
-----------------------------------------------------------------------------
(* The init event.  A handler that finds the cache empty registered before *)
(* any broadcast was over.                                                 *)
LEMMA InitStep == HubInv /\ [Next]_vars => InitInv'
<1> SUFFICES ASSUME HubInv, [Next]_vars PROVE InitInv'
  OBVIOUS
<1>a. LockInv /\ LineInv /\ StreamInv /\ InitInv BY DEF HubInv
<1>1. UNCHANGED handlerVars => InitInv'
  BY <1>a DEF handlerVars, InitInv
<1>2. ASSUME NEW s \in Subs, Connect(s) \/ CallLock(s) \/ ContextDone(s) \/ Deregister(s)
      PROVE InitInv'
  <2>1. UNCHANGED <<initEv, joined>>
    BY <1>2 DEF Connect, CallLock, ContextDone, Deregister
  <2>2. PICK label \in {"lock", "register", "deregister", "relock", "returned"} :
          hpc' = [hpc EXCEPT ![s] = label]
    BY <1>2 DEF Connect, CallLock, ContextDone, Deregister, HandlerGoto
  <2> QED BY <1>a, <2>1, <2>2 DEF InitInv, LockInv
<1>3. ASSUME NEW s \in Subs, Register(s) PROVE InitInv'
  BY <1>a, <1>3 DEF Register, HandlerGoto, InitInv, LockInv, StreamInv
<1>4. ASSUME NEW s \in Subs, BeginHandshake(s) \/ EndHandshake(s) PROVE InitInv'
  <2>1. UNCHANGED <<initEv, joined>>
    BY <1>4 DEF BeginHandshake, EndHandshake
  <2>2. CASE hpc[s] = "hello" /\ hpc' = [hpc EXCEPT ![s] = "helloing"]
    BY <1>a, <2>1, <2>2 DEF InitInv, LockInv
  <2>3. CASE hpc[s] = "replay" /\ hpc' = [hpc EXCEPT ![s] = "replaying"]
    BY <1>a, <2>1, <2>3 DEF InitInv, LockInv
  <2>4. CASE hpc[s] = "helloing" /\ hpc' = [hpc EXCEPT ![s] = "fetch"]
    BY <1>a, <2>1, <2>4 DEF InitInv, LockInv
  <2>5. CASE hpc[s] = "replaying" /\ hpc' = [hpc EXCEPT ![s] = "serve"]
    BY <1>a, <2>1, <2>5 DEF InitInv, LockInv
  <2> QED BY <1>4, <2>2, <2>3, <2>4, <2>5 DEF BeginHandshake, EndHandshake, HandlerGoto
<1>5. ASSUME NEW s \in Subs, FetchInit(s) PROVE InitInv'
  <2>1. ~ lastInit => joined[s] = 0
    <3>1. joined[s] \in Nat /\ joined[s] <= done /\ done \in Nat /\ line \in Nat
      BY <1>a, SseHubAssumption DEF StreamInv, LineInv
    <3>2. ~ lastInit => done = 0 BY <1>a, <3>1 DEF LineInv
    <3> QED BY <3>1, <3>2
  <2>2. /\ initEv' = [initEv EXCEPT ![s] = lastInit] /\ UNCHANGED joined
        /\ hpc' = [hpc EXCEPT ![s] = IF lastInit THEN "replay" ELSE "serve"]
        /\ lastInit \in BOOLEAN
    BY <1>a, <1>5 DEF FetchInit, HandlerGoto, LineInv
  <2>3. CASE lastInit = TRUE
    BY <1>a, <2>2, <2>3 DEF InitInv, LockInv
  <2>4. CASE lastInit = FALSE
    BY <1>a, <2>1, <2>2, <2>4 DEF InitInv, LockInv
  <2> QED BY <2>2, <2>3, <2>4
<1>6. ASSUME NEW s \in Subs, Read(s) \/ Disconnect(s) PROVE InitInv'
  BY <1>1, <1>6 DEF Read, Disconnect
<1>7. ScannerStep \/ Scan => InitInv'
  BY <1>1 DEF ScannerStep, Scan, CacheInit, CallRLock, BeginBroadcast, BroadcastTo,
              BroadcastWritten, EndBroadcast
<1>8. StatusCall \/ StatusAnswer \/ UNCHANGED vars => InitInv'
  BY <1>1 DEF StatusCall, StatusAnswer, vars
<1> QED
  BY <1>2, <1>3, <1>4, <1>5, <1>6, <1>7, <1>8 DEF Next, HandlerStep
-----------------------------------------------------------------------------
(* What a write does to the histories: a subscriber the init event has     *)
(* reached stays one, and a write of the init event to a connected one     *)
(* reaches it or was overlapped.                                           *)
LEMMA WriteReaches ==
  ASSUME GotInv, NEW s \in Subs, NEW who, NEW frame
  PROVE  /\ BeginWrite(s, who) =>
              torn' \subseteq mixed' /\ \A x \in Subs : Reaches(x) => Reaches(x)'
         /\ EndWrite(s, who, frame) =>
              /\ torn' \subseteq mixed' /\ \A x \in Subs : Reaches(x) => Reaches(x)'
              /\ IsInit(frame) /\ conn[s] = "up" => Reaches(s)'
BY DEF GotInv, BeginWrite, EndWrite, Reaches

LEMMA GotStep == HubInv /\ [Next]_vars => GotInv'
<1> SUFFICES ASSUME HubInv, [Next]_vars PROVE GotInv'
  OBVIOUS
<1>a. LockInv /\ LineInv /\ ConnInv /\ StreamInv /\ InitInv /\ GotInv BY DEF HubInv
<1>1. ASSUME UNCHANGED <<torn, mixed, gotInit, bcast, initEv, joined, conn>>,
             \A x \in Subs : hpc'[x] = "serve" => hpc[x] = "serve"
      PROVE  GotInv'
  BY <1>a, <1>1 DEF GotInv, Reaches
<1>2. ASSUME NEW s \in Subs, Connect(s) \/ CallLock(s) \/ ContextDone(s) \/ Deregister(s)
      PROVE GotInv'
  <2>1. UNCHANGED <<torn, mixed, gotInit, bcast, initEv, joined, conn>>
    BY <1>2 DEF Connect, CallLock, ContextDone, Deregister, scannerVars, streamVars
  <2>2. PICK label \in {"lock", "register", "deregister", "relock", "returned"} :
          hpc' = [hpc EXCEPT ![s] = label]
    BY <1>2 DEF Connect, CallLock, ContextDone, Deregister, HandlerGoto
  <2>3. \A x \in Subs : hpc'[x] = "serve" => hpc[x] = "serve" BY <1>a, <2>2 DEF LockInv
  <2> QED BY <1>1, <2>1, <2>3
<1>3. ASSUME NEW s \in Subs, Register(s) PROVE GotInv'
  <2>1. UNCHANGED <<torn, mixed, gotInit, bcast, initEv, conn>> /\ bcast[s] = << >>
    BY <1>a, <1>3 DEF Register, scannerVars, streamVars, StreamInv
  <2>2. /\ joined' = [joined EXCEPT ![s] = done] /\ hpc' = [hpc EXCEPT ![s] = "hello"]
        /\ joined \in [Subs -> Nat] /\ hpc \in [Subs -> Registered \cup {"idle", "lock", "register", "returned"}]
    BY <1>a, <1>3 DEF Register, HandlerGoto, LockInv, StreamInv
  <2>3. ~ (Len(bcast[s]) >= 1) BY <2>1
  <2> QED BY <1>a, <2>1, <2>2, <2>3 DEF GotInv, Reaches
<1>4. ASSUME NEW s \in Subs, BeginHandshake(s) PROVE GotInv'
  <2>1. BeginWrite(s, "handler") /\ UNCHANGED <<bcast, initEv, joined, conn>>
    BY <1>4 DEF BeginHandshake, scannerVars
  <2>2. \A x \in Subs : hpc'[x] = "serve" => hpc[x] = "serve"
    BY <1>a, <1>4 DEF BeginHandshake, HandlerGoto, LockInv
  <2> QED BY <1>a, <2>1, <2>2, WriteReaches DEF GotInv
<1>5. ASSUME NEW s \in Subs, EndHandshake(s) PROVE GotInv'
  <2>1. UNCHANGED <<bcast, initEv, joined, conn>>
    BY <1>5 DEF EndHandshake, scannerVars
  <2>2. CASE EndWrite(s, "handler", 0) /\ HandlerGoto(s, "fetch")
    <3>1. \A x \in Subs : hpc'[x] = "serve" => hpc[x] = "serve"
      BY <1>a, <2>2 DEF HandlerGoto, LockInv
    <3> QED BY <1>a, <2>1, <2>2, <3>1, WriteReaches DEF GotInv
  <2>3. CASE EndWrite(s, "handler", 1) /\ HandlerGoto(s, "serve")
    <3>1. \A x \in Subs \ {s} : hpc'[x] = hpc[x]
      BY <1>a, <2>3 DEF HandlerGoto, LockInv
    <3>2. conn[s] = "up" => Reaches(s)' BY <1>a, <2>3, WriteReaches DEF IsInit
    <3> QED BY <1>a, <2>1, <2>3, <3>1, <3>2, WriteReaches DEF GotInv
  <2> QED BY <1>5, <2>2, <2>3 DEF EndHandshake
<1>6. ASSUME NEW s \in Subs, FetchInit(s) PROVE GotInv'
  <2>1. UNCHANGED <<torn, mixed, gotInit, bcast, joined, conn>>
    BY <1>6 DEF FetchInit, scannerVars, streamVars
  <2>2. /\ initEv' = [initEv EXCEPT ![s] = lastInit]
        /\ hpc' = [hpc EXCEPT ![s] = IF lastInit THEN "replay" ELSE "serve"]
        /\ initEv \in [Subs -> BOOLEAN] /\ lastInit \in BOOLEAN
    BY <1>a, <1>6 DEF FetchInit, HandlerGoto, InitInv, LineInv
  <2>3. ~ (initEv'[s] /\ hpc'[s] = "serve") BY <1>a, <2>2 DEF LockInv
  <2>4. \A x \in Subs \ {s} : initEv'[x] = initEv[x] /\ hpc'[x] = hpc[x]
    BY <1>a, <2>2 DEF LockInv
  <2> QED BY <1>a, <2>1, <2>3, <2>4 DEF GotInv, Reaches
<1>7. ASSUME NEW s \in Subs, Read(s) PROVE GotInv'
  BY <1>1, <1>7 DEF Read, handlerVars, scannerVars
<1>8. ASSUME NEW s \in Subs, Disconnect(s) PROVE GotInv'
  <2>1. UNCHANGED <<bcast, initEv, joined, hpc>>
    BY <1>8 DEF Disconnect, handlerVars, scannerVars
  <2>2. /\ torn' = torn \ {s} /\ mixed' = mixed \ {s} /\ gotInit' = gotInit \ {s}
        /\ conn'[s] = "gone" /\ \A x \in Subs \ {s} : conn'[x] = conn[x]
    BY <1>a, <1>8 DEF Disconnect, ConnInv
  <2> QED BY <1>a, <2>1, <2>2 DEF GotInv, Reaches
<1>9. CASE Scan \/ CacheInit \/ CallRLock \/ BeginBroadcast \/ EndBroadcast
  BY <1>1, <1>9 DEF Scan, CacheInit, CallRLock, BeginBroadcast, EndBroadcast, handlerVars, streamVars
<1>10. ASSUME NEW s \in Subs, BroadcastTo(s) PROVE GotInv'
  <2>1. BeginWrite(s, "scanner") /\ UNCHANGED <<bcast, hpc, initEv, joined, conn>>
    BY <1>10 DEF BroadcastTo, handlerVars
  <2> QED BY <1>a, <2>1, WriteReaches DEF GotInv
<1>11. CASE BroadcastWritten
  <2>1. cur \in Subs /\ cur \in sseClients /\ spc = "write" /\ cur \in todo
    BY <1>a, <1>11 DEF BroadcastWritten, LockInv
  <2>s. PICK s \in Subs : s = cur BY <2>1
  <2>2. /\ EndWrite(s, "scanner", line) /\ UNCHANGED <<hpc, initEv, joined, conn>>
        /\ bcast' = [bcast EXCEPT ![s] = Append(@, line)]
    BY <1>11, <2>s DEF BroadcastWritten, handlerVars
  <2>3. \A x \in Subs \ {s} : bcast'[x] = bcast[x] BY <1>a, <2>2 DEF StreamInv
  <2>4. /\ torn' \subseteq mixed' /\ \A x \in Subs : Reaches(x) => Reaches(x)'
        /\ IsInit(line) /\ conn[s] = "up" => Reaches(s)'
    BY <1>a, <2>2, WriteReaches
  <2>5. ASSUME joined[s] = 0, conn[s] = "up" PROVE Reaches(s)'
    <3>1. bcast[s] \in Seq(1 .. MaxLines) /\ Len(bcast[s]) \in Nat
      BY <1>a DEF StreamInv
    <3>2. joined[s] + Len(bcast[s]) = done /\ line = done + 1 /\ done \in Nat
      BY <1>a, <2>1, <2>s DEF StreamInv, LineInv, Reached
    <3>3. CASE Len(bcast[s]) >= 1
      BY <1>a, <2>4, <2>5, <3>3 DEF GotInv
    <3>4. CASE ~ (Len(bcast[s]) >= 1)
      <4>1. IsInit(line) BY <2>5, <3>1, <3>2, <3>4 DEF IsInit
      <4> QED BY <2>4, <2>5, <4>1
    <3> QED BY <3>3, <3>4
  <2> QED BY <1>a, <2>2, <2>3, <2>4, <2>5 DEF GotInv
<1>12. CASE StatusCall \/ StatusAnswer \/ UNCHANGED vars
  BY <1>1, <1>12 DEF StatusCall, StatusAnswer, vars, handlerVars, scannerVars, streamVars
<1> QED
  BY <1>2, <1>3, <1>4, <1>5, <1>6, <1>7, <1>8, <1>9, <1>10, <1>11, <1>12
  DEF Next, HandlerStep, ScannerStep
-----------------------------------------------------------------------------
(* The inductive invariant.                                                *)
THEOREM HubInvariant == Spec => []HubInv
<1>1. HubInv /\ [Next]_vars => HubInv'
  BY LockStep, LineStep, ConnStep, StreamStep, InitStep, GotStep DEF HubInv
<1> QED BY HubInit, <1>1, PTL DEF Spec

(* A record of MuType has the readers and the writer that TypeOK asks for. *)
LEMMA HubTypes == HubInv => TypeOK
<1> SUFFICES ASSUME HubInv PROVE TypeOK
  OBVIOUS
<1>a. LockInv /\ LineInv /\ ConnInv /\ StreamInv /\ InitInv BY DEF HubInv
<1>1. mu.readers \cup mu.waiting \subseteq {"scanner", "status"} /\ mu.writer \in Subs \cup {Nobody}
  BY <1>a DEF LockInv, MuType, Processes
<1>2. cur # Nobody => spc = "write" BY <1>a DEF LockInv
<1>3. spc = "write" => cur # Nobody
  <2>1. spc = "write" => cur \in Subs BY <1>a DEF LockInv
  <2> QED BY <2>1, SseHubAssumption
<1>4. line \in 0 .. MaxLines /\ done \in 0 .. line
  BY <1>a, SseHubAssumption DEF LineInv
<1>5. joined \in [Subs -> 0 .. MaxLines]
  <2>1. \A s \in Subs : joined[s] \in 0 .. MaxLines
    BY <1>a, <1>4, SseHubAssumption DEF StreamInv
  <2> QED BY <1>a, <2>1 DEF StreamInv
<1>6. /\ hpc \in [Subs -> Registered \cup {"idle", "lock", "register", "returned"}]
      /\ spc \in {"scan", "cache", "rlock", "locked", "range", "write"}
      /\ sseClients \subseteq Subs /\ todo \subseteq sseClients /\ cur \in Subs \cup {Nobody}
  BY <1>a DEF LockInv
<1> QED
  BY <1>a, <1>1, <1>2, <1>3, <1>4, <1>5, <1>6 DEF TypeOK, LineInv, ConnInv, StreamInv, InitInv

(* Every variable of the streamer keeps its type.                          *)
THEOREM HubTypeCorrect == Spec => []TypeOK
<1>1. HubInv => TypeOK BY HubTypes
<1> QED BY HubInvariant, <1>1, PTL

(* broadcastEvent never writes to the ResponseWriter of a handler that has *)
(* returned: the scanner holds the read lock while it writes, and the      *)
(* handler cannot pass its deferred delete meanwhile.                      *)
THEOREM WriterIsValid == Spec => []NoWriteAfterReturn
<1>1. HubInv => NoWriteAfterReturn
  BY DEF HubInv, LockInv, NoWriteAfterReturn
<1> QED BY HubInvariant, <1>1, PTL

(* What a subscriber is sent is a contiguous run of the server's lines     *)
(* that starts at its registration and misses nothing at the end.          *)
THEOREM StreamsAreContiguous == Spec => []StreamHasNoGaps
<1>1. HubInv => StreamHasNoGaps
  <2> SUFFICES ASSUME HubInv, NEW s \in Subs
               PROVE  /\ \A i \in DOMAIN bcast[s] : bcast[s][i] = joined[s] + i
                      /\ s \in sseClients => joined[s] + Len(bcast[s]) = Reached(s)
    BY DEF StreamHasNoGaps, Reached
  <2>1. StreamInv BY DEF HubInv
  <2>2. DOMAIN bcast[s] = 1 .. Len(bcast[s]) BY <2>1 DEF StreamInv
  <2> QED BY <2>1, <2>2 DEF StreamInv
<1> QED BY HubInvariant, <1>1, PTL

(* A subscriber past its handshake has been sent the init event once the   *)
(* server's first broadcast is over: it found it cached, or it registered  *)
(* before any broadcast was over and was sent the first line.              *)
LEMMA InitSent ==
  ASSUME HubInv, NEW s \in Subs, hpc[s] = "serve", done >= 1, ~ initEv[s]
  PROVE  /\ joined[s] = 0 /\ Len(bcast[s]) >= 1
         /\ 1 \in DOMAIN bcast[s] /\ bcast[s][1] = 1
<1>1. LockInv /\ LineInv /\ StreamInv /\ InitInv BY DEF HubInv
<1>2. joined[s] = 0 BY <1>1 DEF InitInv
<1>3. s \in sseClients BY <1>1 DEF LockInv, Registered
<1>4. bcast[s] \in Seq(1 .. MaxLines) /\ Len(bcast[s]) \in Nat BY <1>1 DEF StreamInv
<1>5. line >= done /\ line \in Nat /\ done \in Nat
  BY <1>1, SseHubAssumption DEF LineInv
<1>6. Len(bcast[s]) >= 1
  <2>1. joined[s] + Len(bcast[s]) = Reached(s) BY <1>1, <1>3 DEF StreamInv
  <2>2. Reached(s) \in Nat /\ Reached(s) >= 1 BY <1>5 DEF Reached
  <2> QED BY <1>2, <1>4, <2>1, <2>2
<1>7. 1 \in DOMAIN bcast[s] /\ 1 \in 1 .. Len(bcast[s]) BY <1>4, <1>6
<1>8. bcast[s][1] = 1 BY <1>1, <1>2, <1>7 DEF StreamInv
<1> QED BY <1>2, <1>6, <1>7, <1>8

(* Every subscriber past its handshake has been written the init event     *)
(* once the server's first broadcast is over.                              *)
THEOREM InitIsWritten == Spec => []InitNeverMissed
<1>1. HubInv => InitNeverMissed
  BY InitSent DEF InitNeverMissed, IsInit
<1> QED BY HubInvariant, <1>1, PTL

(* A connected subscriber past its handshake has received the init event   *)
(* whole, unless the handler's writes and the broadcast's overlapped on    *)
(* its ResponseWriter: nothing else in handleSSE and broadcastEvent can    *)
(* lose it.                                                                *)
THEOREM OverlapAloneLosesInit == Spec => []InitLostOnlyByOverlap
<1>1. HubInv => InitLostOnlyByOverlap
  <2> SUFFICES ASSUME HubInv, NEW s \in Subs, hpc[s] = "serve", conn[s] = "up", done >= 1
               PROVE  Reaches(s)
    BY DEF InitLostOnlyByOverlap, Reaches
  <2>1. CASE initEv[s] BY <2>1 DEF HubInv, GotInv
  <2>2. CASE ~ initEv[s] BY <2>2, InitSent DEF HubInv, GotInv
  <2> QED BY <2>1, <2>2
<1> QED BY HubInvariant, <1>1, PTL
===============================================================================
