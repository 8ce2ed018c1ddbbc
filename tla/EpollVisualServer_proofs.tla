------------------------- MODULE EpollVisualServer_proofs -------------------------
(***************************************************************************)
(* Theorems about epoll_visual_server.c: what EpollServers_proofs proves   *)
(* of the shared steps, once its flag epollout_armed is shown to agree     *)
(* with the epoll set; and that the telemetry keeps the dashboard right,   *)
(* whatever the descriptors that accept reuses.                            *)
(***************************************************************************)
EXTENDS EpollVisualServer, EpollServers_proofs, FiniteSetTheorems, WellFoundedInduction

(* The flag spares an EPOLL_CTL_MOD only when it would change nothing.     *)
ArmedInv ==
  /\ armed \in [Conns -> BOOLEAN]
  /\ \A c \in Conns : armed[c] <=> "out" \in interest[c]

LEMMA VisualShares == ArmedInv /\ BufInv /\ [Next]_vars => SharedStep
<1> SUFFICES ASSUME ArmedInv, BufInv, [Next]_vars PROVE SharedStep OBVIOUS
<1> USE DEF restVars
<1>h. pc \in Handling => cur \in Conns BY DEF BufInv, LoopInv, Open
<1>1. CASE EpollWait \/ DispatchEnds
  BY <1>1 DEF EpollWait, WaitCall, DispatchEnds, SharedStep, Waits, WaitSome, BatchEnds
<1>2. CASE Dispatch
  BY <1>2 DEF Dispatch, DispatchAccept, DispatchHangup, DispatchOut, DispatchIn, SharedStep,
     TakesOne, AcceptEvent, HangupEvent
<1>3. CASE (\E c \in Conns : AcceptConn(c) \/ SetupFails(c)) \/ AcceptEnds
  BY <1>3 DEF AcceptConn, SetupFails, AcceptEnds, SharedStep, Accepts, Rejects, AcceptStops
<1>4. CASE ReadData \/ ReadEagain \/ ReadEnds
  BY <1>4 DEF ReadData, ReadEagain, ReadEnds, SharedStep, Reads
<1>5. CASE Write \/ Arm \/ WriteFails \/ BrokenPipe
  BY <1>5 DEF Write, Arm, WriteFails, BrokenPipe, SharedStep, Writes
<1>6. CASE WriteEagain
  <2>1. WouldBlock(IF armed[cur] THEN then ELSE "arm") BY <1>6 DEF WriteEagain
  <2>2. cur \in Conns BY <1>h, <2>1 DEF WouldBlock, Handling
  <2>3. CASE armed[cur]
    BY <2>1, <2>2, <2>3 DEF ArmedInv, Blocks, SharedStep
  <2>4. CASE ~armed[cur]
    BY <2>1, <2>4 DEF Blocks, SharedStep
  <2> QED BY <2>3, <2>4
<1>7. CASE Drained
  <2>1. FlushReturns(armed[cur]) BY <1>7 DEF Drained
  <2>2. cur \in Conns BY <1>h, <2>1 DEF FlushReturns, Handling
  <2>3. CASE armed[cur] = TRUE
    BY <2>1, <2>3 DEF Returns, SharedStep
  <2>4. CASE armed[cur] = FALSE
    BY <2>1, <2>2, <2>4 DEF ArmedInv, Returns, SharedStep
  <2> QED BY <2>2, <2>3, <2>4 DEF ArmedInv
<1>8. CASE \E c \in Conns : ClientStep(c)
  BY <1>8 DEF ClientStep, ClientActs, SharedStep
<1>9. CASE UNCHANGED vars
  BY <1>9 DEF vars, bufVars, SharedStep
<1> QED BY <1>1, <1>2, <1>3, <1>4, <1>5, <1>6, <1>7, <1>8, <1>9 DEF Next, Server

LEMMA ArmedClosed ==
  ASSUME ArmedInv, KernelInv, NEW c \in Conns, CloseSocket(c),
         armed' = [armed EXCEPT ![c] = FALSE] \/ (armed' = armed /\ c \notin Open)
  PROVE  ArmedInv'
<1>1. interest' = [interest EXCEPT ![c] = {}] /\ interest \in [Conns -> SUBSET {"in", "out"}]
  BY DEF CloseSocket, KernelInv, KernelOK
<1>2. c \notin Open => interest[c] = {} BY DEF KernelInv
<1> QED BY <1>1, <1>2 DEF ArmedInv

LEMMA ArmedStep == ArmedInv /\ BufInv /\ [Next]_vars => ArmedInv'
<1> SUFFICES ASSUME ArmedInv, BufInv, [Next]_vars PROVE ArmedInv' OBVIOUS
<1> USE Typed
<1>h. pc \in Handling => cur \in Conns BY DEF BufInv, LoopInv, Open
<1>u. UNCHANGED <<interest, armed>> => ArmedInv' BY DEF ArmedInv
<1>1. CASE EpollWait \/ DispatchEnds
  BY <1>1, <1>u DEF EpollWait, WaitCall, DispatchEnds, BatchDone, visualVars, kernelVars, epollVars
<1>2. ASSUME NEW e \in batch, DispatchAccept(e) \/ DispatchOut(e) \/ DispatchIn(e)
      PROVE  ArmedInv'
  BY <1>2, <1>u DEF DispatchAccept, DispatchOut, DispatchIn, EnterFlush, EnterRead, Enter,
     visualVars, kernelVars, epollVars
<1>3. ASSUME NEW e \in batch, DispatchHangup(e) PROVE ArmedInv'
  <2>1. e.who \in Conns BY <1>3 DEF DispatchHangup, IsHangup, BufInv, LoopInv, Open
  <2> QED BY <1>3, <2>1, ArmedClosed DEF DispatchHangup, FreeState, Release, FreeClient, BufInv
<1>4. ASSUME NEW c \in Conns, AcceptConn(c) PROVE ArmedInv'
  <2>1. /\ interest' = [interest EXCEPT ![c] = {"in"}] /\ armed' = armed
        /\ sock[c] = "backlog"
    BY <1>4 DEF AcceptConn, AddConn, EpollCtl
  <2>2. interest[c] = {} BY <2>1 DEF BufInv, KernelInv, Open
  <2> QED BY <2>1, <2>2 DEF ArmedInv
<1>5. ASSUME NEW c \in Conns, SetupFails(c) PROVE ArmedInv'
  <2>1. CloseSocket(c) /\ armed' = armed /\ sock[c] = "backlog"
    BY <1>5 DEF SetupFails, DropConn, visualVars
  <2> QED BY <2>1, ArmedClosed DEF BufInv, Open
<1>6. CASE AcceptEnds \/ ReadData \/ ReadEagain \/ Write \/ WriteEagain \/ BrokenPipe
  BY <1>6, <1>u DEF AcceptEnds, AcceptReturns, ReadData, ReadCall, ReadEagain, ReadReturns, Write,
     WriteCall, WriteEagain, WouldBlock, BrokenPipe, Killed, visualVars, kernelVars, epollVars
<1>7. CASE ReadEnds \/ WriteFails
  BY <1>7, <1>h, ArmedClosed
  DEF ReadEnds, ReadFails, WriteFails, FlushFails, FreeState, Release, FreeClient, Handling, BufInv
<1>8. CASE Arm
  <2>1. /\ interest' = [interest EXCEPT ![cur] = {"in", "out"}]
        /\ armed' = [armed EXCEPT ![cur] = TRUE] /\ cur \in Conns
    BY <1>8, <1>h DEF Arm, Subscribe, EpollCtl, Handling
  <2> QED BY <2>1 DEF ArmedInv
<1>9. CASE Drained
  <2>1. /\ armed' = [armed EXCEPT ![cur] = FALSE] /\ cur \in Conns
        /\ IF armed[cur] THEN interest' = [interest EXCEPT ![cur] = {"in"}] ELSE interest' = interest
    BY <1>9, <1>h DEF Drained, FlushReturns, EpollCtl, epollVars, Handling
  <2> QED BY <2>1 DEF ArmedInv
<1>10. ASSUME NEW c \in Conns, ClientStep(c) PROVE ArmedInv'
  BY <1>10, <1>u DEF ClientStep, Client, Dial, Send, Recv, Fin, Rst, visualVars
<1>11. CASE UNCHANGED vars
  BY <1>11, <1>u DEF vars, kernelVars, epollVars, visualVars
<1> QED
  BY <1>1, <1>2, <1>3, <1>4, <1>5, <1>6, <1>7, <1>8, <1>9, <1>10, <1>11
  DEF Next, Server, Dispatch

LEMMA VisualAlways == Spec => [](ArmedInv /\ BufInv /\ WakeInv)
<1>1. Init => ArmedInv /\ BufInv /\ WakeInv
  <2>1. Init => ArmedInv BY DEF Init, BuffersInit, LoopInit, KernelInit, ArmedInv
  <2> QED BY <2>1, BufStart, WakeStart DEF Init
<1>2. ArmedInv /\ BufInv /\ WakeInv /\ [Next]_vars => (ArmedInv /\ BufInv /\ WakeInv)'
  BY ArmedStep, VisualShares, BufStep, WakeStep
<1> QED BY <1>1, <1>2, PTL DEF Spec

(* epoll_visual_server.c: a handler works on an open client only,          *)
(* write_pos never passes write_len, and write_len never the end of        *)
(* write_buf.                                                              *)
THEOREM VisualTypeCorrect == Spec => []TypeOK
BY VisualAlways, TypeFollows, PTL

(* epoll_visual_server.c: the bytes echoed and the bytes still to write    *)
(* are bytes read, in the order sent, and with those that did not fit they *)
(* are all of them.                                                        *)
THEOREM VisualBytesAccounted == Spec => []EveryByteAccounted
BY VisualAlways, AccountFollows, PTL

(* epoll_visual_server.c: when it is about to block, whatever it owes a    *)
(* client is announced by an event that is pending or sure to come.        *)
(* epollout_armed never keeps it from asking for an EPOLLOUT it needs.     *)
THEOREM VisualLosesNoWakeup == Spec => []NoLostWakeup
BY VisualAlways, WakeFollows, PTL

(* epoll_visual_server.c drops a byte only of a client it has found slow,  *)
(* with EPOLLOUT subscribed.                                               *)
THEOREM VisualDropsLate == Spec => DropsOnlyUnderBackpressure
<1>1. (ArmedInv /\ BufInv /\ WakeInv) /\ [Next]_vars
        => [\A c \in Conns : lost'[c] > lost[c] => "out" \in interest[c]]_<<lost, interest>>
  BY DropStep, VisualShares DEF DropsNothing
<1> QED BY <1>1, VisualAlways, PTL DEF Spec, DropsOnlyUnderBackpressure

(* epoll_visual_server.c implements the contract: every step of it is a    *)
(* step the contract allows, or one the client cannot see.                 *)
THEOREM VisualImplementsContract == Spec => ImplementsContract
<1>1. Init => Service!ContractInit
  BY DEF Init, BuffersInit, LoopInit, KernelInit, Service!ContractInit
<1>2. (ArmedInv /\ BufInv /\ WakeInv) /\ BufInv' /\ [Next]_vars
        => [Service!ContractNext]_(Service!contractVars)
  BY StepImplements, VisualShares
<1> QED
  BY <1>1, <1>2, VisualAlways, PTL DEF Spec, ImplementsContract, Service!Contract
-----------------------------------------------------------------------------
(* The dashboard.  An entry may hold offsets older than those of the       *)
(* client, as buffer_cleared is not handled, but their difference is kept. *)
Shows(entry, c) ==
  /\ entry \in [len : Nat, pos : Nat, epollout : BOOLEAN]
  /\ entry.len - entry.pos = ToWrite(c)
  /\ entry.epollout = armed[c]
DashInv ==
  /\ IsFiniteSet(Open) /\ fd \in [Conns -> Nat]
  /\ \A c, d \in Open : fd[c] = fd[d] => c = d
  /\ DOMAIN dash = {fd[c] : c \in Open}
  /\ \A c \in Open : Shows(dash[fd[c]], c)
-----------------------------------------------------------------------------
LEMMA LeastNatural ==
  ASSUME NEW S \in SUBSET Nat, S # {}
  PROVE  \E m \in S : \A n \in S : m <= n
<1>1. \E m \in S : \A n \in S : <<n, m>> \notin OpToRel(<, Nat)
  BY NatLessThanWellFounded, WFMin
<1>2. PICK m \in S : \A n \in S : <<n, m>> \notin OpToRel(<, Nat)
  BY <1>1
<1>3. \A n \in S : ~ (n < m)
  BY <1>2 DEF OpToRel
<1> QED BY <1>3

(* One of the descriptors FirstFD .. FirstFD + n is free if there are n    *)
(* clients, so accept finds a lowest one.                                  *)
LEMMA LowestFree ==
  ASSUME DashInv
  PROVE  /\ LowestFD \in Nat
         /\ \A c \in Open : fd[c] # LowestFD
<1> DEFINE n == Cardinality(Open)
           Used == {fd[c] : c \in Open}
           Free == (FirstFD .. FirstFD + n) \ Used
<1>1. IsFiniteSet(Open) /\ n \in Nat BY FS_CardinalityType DEF DashInv
<1>2. FirstFD \in Nat BY DEF FirstFD
<1> HIDE DEF n
<1>3. IsFiniteSet(Used) /\ Cardinality(Used) <= Cardinality(Open)
  <2> DEFINE f == [c \in Open |-> fd[c]]
  <2>1. f \in Surjection(Open, Used) BY DEF Surjection
  <2> HIDE DEF f, Used
  <2> QED BY <1>1, <2>1, FS_Surjection
<1>4. Free # {}
  <2>1. SUFFICES ASSUME Free = {} PROVE FALSE OBVIOUS
  <2>2. (FirstFD .. FirstFD + n) \in SUBSET Used BY <2>1
  <2>3. Cardinality(FirstFD .. FirstFD + n) <= Cardinality(Used) BY <1>3, <2>2, FS_Subset
  <2>4. Cardinality(FirstFD .. FirstFD + n) = n + 1
    <3>1. FirstFD \in Int /\ FirstFD + n \in Int /\ ~(FirstFD > FirstFD + n) BY <1>1, <1>2
    <3>2. Cardinality(FirstFD .. FirstFD + n) = (FirstFD + n) - FirstFD + 1 BY <3>1, FS_Interval
    <3> QED BY <1>1, <1>2, <3>2
  <2>5. Cardinality(Used) \in Nat BY <1>3, FS_CardinalityType
  <2> QED BY <1>1, <1>3, <2>3, <2>4, <2>5 DEF n
<1>5. PICK f \in Free : \A g \in Free : f <= g
  <2>1. Free \in SUBSET Nat BY <1>1, <1>2
  <2> QED BY <1>4, <2>1, LeastNatural
<1>6. /\ f \in FirstFD .. FirstFD + Cardinality(Open)
      /\ \A c \in Open : fd[c] # f
      /\ \A g \in FirstFD .. f - 1 : \E c \in Open : fd[c] = g
  <2>1. ASSUME NEW g \in FirstFD .. f - 1 PROVE g \in Used
    <3>1. f \in Int /\ f <= FirstFD + n BY <1>1, <1>2, <1>5
    <3>2. g \in FirstFD .. FirstFD + n /\ ~(f <= g) BY <1>1, <1>2, <3>1
    <3> QED BY <1>5, <3>2
  <2> QED BY <1>5, <2>1 DEF n
<1>7. /\ LowestFD \in FirstFD .. FirstFD + Cardinality(Open)
      /\ \A c \in Open : fd[c] # LowestFD
  BY <1>6 DEF LowestFD
<1> QED BY <1>1, <1>2, <1>7 DEF n
-----------------------------------------------------------------------------
(* What one event does to clientStates.                                    *)
LEMMA EventFacts ==
  ASSUME NEW f
  PROVE  /\ HandleEvent(dash, Accepted(f)) =
              [g \in DOMAIN dash \cup {f} |-> IF g = f THEN FreshClient ELSE dash[g]]
         /\ HandleEvent(dash, Closed(f)) = [g \in DOMAIN dash \ {f} |-> dash[g]]
BY DEF HandleEvent, Accepted, Closed

LEMMA OffsetsEvent ==
  ASSUME NEW f \in DOMAIN dash, NEW l, NEW p,
         NEW ev \in {ReadEvent(f, l, p), WriteEvent(f, l, p)}
  PROVE  HandleEvent(dash, ev) =
           [dash EXCEPT ![f] = [len |-> l, pos |-> p, epollout |-> dash[f].epollout]]
<1>1. ev.type \in {"read", "write"} /\ ev.fd = f /\ ev.len = l /\ ev.pos = p
  BY DEF ReadEvent, WriteEvent
<1> QED BY <1>1 DEF HandleEvent

LEMMA SubscriptionEvent ==
  ASSUME NEW f \in DOMAIN dash, NEW on, NEW l, NEW p
  PROVE  HandleEvent(dash, BackpressureEvent(f, on, l, p)) =
           [dash EXCEPT ![f] = [len |-> l, pos |-> p, epollout |-> on]]
BY DEF HandleEvent, BackpressureEvent

LEMMA DashKept ==
  ASSUME DashInv, Open' = Open, UNCHANGED <<fd, dash, armed>>,
         \A d \in Open : ToWrite(d)' = ToWrite(d)
  PROVE  DashInv'
BY DEF DashInv, Shows

LEMMA DashUpdated ==
  ASSUME DashInv, NEW c \in Open, Open' = Open, fd' = fd,
         \A d \in Open \ {c} : ToWrite(d)' = ToWrite(d) /\ armed'[d] = armed[d],
         NEW l \in Nat, NEW p \in Nat, NEW on \in BOOLEAN,
         dash' = [dash EXCEPT ![fd[c]] = [len |-> l, pos |-> p, epollout |-> on]],
         l - p = ToWrite(c)', on = armed'[c]
  PROVE  DashInv'
<1>1. fd[c] \in DOMAIN dash /\ DOMAIN dash' = DOMAIN dash /\ dash'[fd[c]] = [len |-> l, pos |-> p, epollout |-> on]
  BY DEF DashInv
<1>2. \A d \in Open \ {c} : fd[d] # fd[c] /\ fd[d] \in DOMAIN dash /\ dash'[fd[d]] = dash[fd[d]]
  BY DEF DashInv
<1>3. ASSUME NEW d \in Open PROVE Shows(dash[fd[d]], d)'
  <2>1. CASE d = c BY <1>1, <2>1 DEF Shows
  <2>2. CASE d # c BY <1>2, <2>2 DEF DashInv, Shows
  <2> QED BY <2>1, <2>2
<1> QED BY <1>1, <1>3 DEF DashInv

LEMMA DashClosed ==
  ASSUME DashInv, NEW c \in Open, Open' = Open \ {c}, FreeClient(c),
         \A d \in Open \ {c} : ToWrite(d)' = ToWrite(d), armed \in [Conns -> BOOLEAN]
  PROVE  DashInv'
<1>1. dash' = [g \in DOMAIN dash \ {fd[c]} |-> dash[g]] /\ fd' = fd
      /\ armed' = [armed EXCEPT ![c] = FALSE]
  BY EventFacts DEF FreeClient, Emit
<1>2. IsFiniteSet(Open') BY FS_RemoveElement DEF DashInv
<1>3. DOMAIN dash' = {fd[d] : d \in Open'} BY <1>1 DEF DashInv
<1>4. ASSUME NEW d \in Open' PROVE Shows(dash[fd[d]], d)'
  <2>1. d \in Open /\ d # c /\ d \in Conns BY DEF Open
  <2>2. fd[d] # fd[c] /\ fd[d] \in DOMAIN dash /\ dash'[fd[d]] = dash[fd[d]]
    BY <1>1, <2>1 DEF DashInv
  <2>3. armed'[d] = armed[d] BY <1>1, <2>1
  <2> QED BY <1>1, <2>1, <2>2, <2>3 DEF DashInv, Shows
<1> QED BY <1>1, <1>2, <1>3, <1>4 DEF DashInv

LEMMA DashAccepted ==
  ASSUME DashInv, ArmedInv, BufInv, WakeInv, NEW c \in Conns, AcceptConn(c)
  PROVE  DashInv'
<1>1. /\ fd' = [fd EXCEPT ![c] = LowestFD] /\ UNCHANGED <<wbuf, wpos, armed>>
      /\ dash' = [g \in DOMAIN dash \cup {LowestFD} |-> IF g = LowestFD THEN FreshClient ELSE dash[g]]
      /\ sock[c] = "backlog" /\ sock' = [sock EXCEPT ![c] = "open"] /\ pc = "accept"
  BY EventFacts DEF AcceptConn, Emit, AddConn, bufferVars
<1>2. Open' = Open \cup {c} /\ c \notin Open BY <1>1, Typed DEF Open
<1>3. LowestFD \in Nat /\ \A d \in Open : fd[d] # LowestFD BY LowestFree
<1>4. IsFiniteSet(Open') BY <1>2, FS_AddElement DEF DashInv
<1>5. fd' \in [Conns -> Nat] /\ fd'[c] = LowestFD /\ \A d \in Open : fd'[d] = fd[d]
  BY <1>1, <1>2, <1>3 DEF DashInv, Open
<1>6. \A d, e \in Open' : fd'[d] = fd'[e] => d = e BY <1>2, <1>3, <1>5 DEF DashInv
<1>7. DOMAIN dash' = {fd'[d] : d \in Open'} BY <1>1, <1>2, <1>5 DEF DashInv
<1>8. Shows(dash[fd[c]], c)'
  <2>1. wbuf[c] = << >> BY <1>1, <1>2 DEF WakeInv, OutputInv
  <2>2. wpos[c] \in Nat /\ wpos[c] <= Len(wbuf[c]) BY Typed DEF BufInv, ByteInv, Bytes
  <2>3. Len(wbuf[c]) = 0 BY <2>1
  <2>4. ToWrite(c)' = 0 BY <1>1, <2>1, <2>2, <2>3 DEF ToWrite
  <2>5. armed'[c] = FALSE
    <3>1. interest[c] = {} BY <1>2 DEF BufInv, KernelInv
    <3> QED BY <1>1, <3>1 DEF ArmedInv
  <2>6. dash'[fd'[c]] = FreshClient BY <1>1, <1>5
  <2>7. /\ FreshClient \in [len : Nat, pos : Nat, epollout : BOOLEAN]
        /\ FreshClient.len - FreshClient.pos = 0 /\ FreshClient.epollout = FALSE
    BY DEF FreshClient
  <2> QED BY <2>4, <2>5, <2>6, <2>7 DEF Shows
<1>9. ASSUME NEW d \in Open PROVE Shows(dash[fd[d]], d)'
  <2>1. dash'[fd'[d]] = dash[fd[d]] BY <1>1, <1>3, <1>5 DEF DashInv
  <2> QED BY <1>1, <2>1 DEF DashInv, Shows, ToWrite
<1> QED BY <1>2, <1>4, <1>5, <1>6, <1>7, <1>8, <1>9 DEF DashInv

(* The events that carry offsets show them.                                *)
LEMMA OffsetsShown ==
  ASSUME DashInv, BufInv', NEW c \in Open, Open' = Open, UNCHANGED <<fd, armed>>,
         \A d \in Conns \ {c} : wbuf'[d] = wbuf[d] /\ wpos'[d] = wpos[d],
         EmitRead(c) \/ EmitWrite(c)
  PROVE  DashInv'
<1>1. c \in Conns /\ fd[c] \in DOMAIN dash BY DEF DashInv, Open
<1>2. wbuf'[c] \in Seq(Nat) /\ wpos'[c] \in Nat BY <1>1 DEF BufInv, ByteInv, ByteTypes
<1>e. dash[fd[c]].epollout \in BOOLEAN /\ dash[fd[c]].epollout = armed[c]
  BY DEF DashInv, Shows
<1>3. PICK l \in Nat, p \in Nat, on \in BOOLEAN :
        l = Len(wbuf'[c]) /\ p = wpos'[c] /\ on = dash[fd[c]].epollout
  <2>1. Len(wbuf'[c]) \in Nat BY <1>2
  <2> QED BY <1>2, <1>e, <2>1
<1>4. on = armed'[c] /\ fd' = fd BY <1>3, <1>e
<1>5. dash' = [dash EXCEPT ![fd[c]] = [len |-> l, pos |-> p, epollout |-> on]]
  <2>1. PICK f \in DOMAIN dash : f = fd[c] BY <1>1
  <2>2. \/ dash' = HandleEvent(dash, ReadEvent(f, l, p))
        \/ dash' = HandleEvent(dash, WriteEvent(f, l, p))
    BY <1>3, <2>1 DEF EmitRead, EmitWrite, Emit
  <2>3. dash' = [dash EXCEPT ![f] = [len |-> l, pos |-> p, epollout |-> dash[f].epollout]]
    BY <2>2, OffsetsEvent
  <2> QED BY <1>3, <2>1, <2>3
<1>6. l - p = ToWrite(c)' BY <1>3 DEF ToWrite
<1>7. \A d \in Open \ {c} : ToWrite(d)' = ToWrite(d) /\ armed'[d] = armed[d] BY DEF ToWrite, Open
<1> QED BY <1>4, <1>5, <1>6, <1>7, DashUpdated

LEMMA SubscriptionShown ==
  ASSUME DashInv, BufInv', NEW c \in Open, Open' = Open, fd' = fd, armed' \in [Conns -> BOOLEAN],
         \A d \in Conns \ {c} : wbuf'[d] = wbuf[d] /\ wpos'[d] = wpos[d] /\ armed'[d] = armed[d],
         EmitBackpressure(c)
  PROVE  DashInv'
<1>1. c \in Conns /\ fd[c] \in DOMAIN dash BY DEF DashInv, Open
<1>2. wbuf'[c] \in Seq(Nat) /\ wpos'[c] \in Nat BY <1>1 DEF BufInv, ByteInv, ByteTypes
<1>3. PICK l \in Nat, p \in Nat, on \in BOOLEAN :
        l = Len(wbuf'[c]) /\ p = wpos'[c] /\ on = armed'[c]
  <2>1. Len(wbuf'[c]) \in Nat BY <1>2
  <2> QED BY <1>1, <1>2, <2>1
<1>4. dash' = [dash EXCEPT ![fd[c]] = [len |-> l, pos |-> p, epollout |-> on]]
  <2>1. PICK f \in DOMAIN dash : f = fd[c] BY <1>1
  <2>2. dash' = HandleEvent(dash, BackpressureEvent(f, on, l, p))
    BY <1>3, <2>1 DEF EmitBackpressure, Emit
  <2>3. dash' = [dash EXCEPT ![f] = [len |-> l, pos |-> p, epollout |-> on]]
    BY <2>2, SubscriptionEvent
  <2> QED BY <2>1, <2>3
<1>5. l - p = ToWrite(c)' BY <1>3 DEF ToWrite
<1>6. \A d \in Open \ {c} : ToWrite(d)' = ToWrite(d) /\ armed'[d] = armed[d] BY DEF ToWrite, Open
<1> QED BY <1>3, <1>4, <1>5, <1>6, DashUpdated

LEMMA DashStep ==
  DashInv /\ ArmedInv /\ BufInv /\ WakeInv /\ BufInv' /\ ArmedInv' /\ [Next]_vars => DashInv'
<1> SUFFICES ASSUME DashInv, ArmedInv, BufInv, WakeInv, BufInv', ArmedInv', [Next]_vars
             PROVE  DashInv'
  OBVIOUS
<1>h. pc \in Handling => cur \in Conns /\ cur \in Open BY DEF BufInv, LoopInv, Open
<1>k. UNCHANGED <<sock, wbuf, wpos, visualVars>> => DashInv'
  BY OpenKept, DashKept DEF ToWrite, visualVars
<1>1. CASE EpollWait \/ DispatchEnds
  BY <1>1, <1>k DEF EpollWait, WaitCall, DispatchEnds, BatchDone, kernelVars, sockVars, bufferVars
<1>2. ASSUME NEW e \in batch, DispatchAccept(e) \/ DispatchOut(e) \/ DispatchIn(e)
      PROVE  DashInv'
  BY <1>2, <1>k DEF DispatchAccept, DispatchOut, DispatchIn, EnterFlush, EnterRead, Enter,
     kernelVars, sockVars, bufferVars
<1>c. ASSUME NEW c \in Open, CloseSocket(c), Clear(c), FreeClient(c) PROVE DashInv'
  <2>1. c \in Conns /\ Open' = Open \ {c} BY <1>c, OpenClosed DEF BufInv, Open
  <2>2. \A d \in Conns \ {c} : wbuf'[d] = wbuf[d] /\ wpos'[d] = wpos[d]
    BY <1>c, Typed DEF Clear
  <2>3. \A d \in Open \ {c} : ToWrite(d)' = ToWrite(d) BY <2>2 DEF ToWrite, Open
  <2> QED BY <1>c, <2>1, <2>3, DashClosed DEF ArmedInv
<1>3. ASSUME NEW e \in batch, DispatchHangup(e) PROVE DashInv'
  <2>1. e.who \in Open BY <1>3 DEF DispatchHangup, IsHangup, BufInv, LoopInv
  <2> QED BY <1>3, <1>c, <2>1 DEF DispatchHangup, FreeState, Release
<1>4. ASSUME NEW c \in Conns, SetupFails(c) PROVE DashInv'
  <2>1. CloseSocket(c) /\ sock[c] = "backlog" /\ UNCHANGED <<wbuf, wpos, visualVars>>
    BY <1>4 DEF SetupFails, DropConn, bufferVars
  <2>2. Open' = Open BY <2>1, OpenClosed DEF BufInv, Open
  <2> QED BY <2>1, <2>2, DashKept DEF ToWrite, visualVars
<1>5. CASE AcceptEnds \/ ReadEagain \/ WriteEagain \/ BrokenPipe
  BY <1>5, <1>k DEF AcceptEnds, AcceptReturns, ReadEagain, ReadReturns, WriteEagain, WouldBlock,
     BrokenPipe, Killed, kernelVars, sockVars, bufferVars
<1>6. CASE ReadEnds \/ WriteFails
  BY <1>6, <1>h, <1>c
  DEF ReadEnds, ReadFails, WriteFails, FlushFails, FreeState, Release, Handling
<1>7. CASE ReadData
  <2>1. PICK c \in Open : c = cur BY <1>7, <1>h DEF ReadData, ReadCall, Handling
  <2>2. /\ UNCHANGED <<sock, wpos, fd, armed>> /\ EmitRead(c)
        /\ \A d \in Conns \ {c} : wbuf'[d] = wbuf[d]
    BY <1>7, <2>1, Typed DEF ReadData, ReadCall
  <2> QED BY <2>2, OpenKept, OffsetsShown
<1>8. CASE Write
  <2>1. PICK c \in Open : c = cur BY <1>8, <1>h DEF Write, WriteCall, Handling
  <2>2. /\ UNCHANGED <<sock, wbuf, fd, armed>> /\ EmitWrite(c)
        /\ \A d \in Conns \ {c} : wpos'[d] = wpos[d]
    BY <1>8, <2>1, Typed DEF Write, WriteCall
  <2> QED BY <2>2, OpenKept, OffsetsShown
<1>9. CASE Arm
  <2>1. PICK c \in Open : c = cur BY <1>9, <1>h DEF Arm, Subscribe, Handling
  <2>2. /\ UNCHANGED <<sock, wbuf, wpos, fd>> /\ EmitBackpressure(c)
        /\ \A d \in Conns \ {c} : armed'[d] = armed[d]
    BY <1>9, <2>1 DEF Arm, Subscribe, sockVars, bufferVars, ArmedInv
  <2> QED BY <2>2, OpenKept, SubscriptionShown DEF ArmedInv
<1>10. CASE Drained
  <2>1. PICK c \in Open : c = cur /\ c \in Conns BY <1>10, <1>h DEF Drained, FlushReturns, Handling
  <2>2. /\ UNCHANGED <<sock, fd>> /\ Clear(c) /\ ToWrite(c) = 0
        /\ armed' = [armed EXCEPT ![c] = FALSE]
        /\ IF armed[c] THEN EmitBackpressure(c) ELSE UNCHANGED dash
    BY <1>10, <2>1 DEF Drained, FlushReturns, sockVars
  <2>3. /\ \A d \in Conns \ {c} : wbuf'[d] = wbuf[d] /\ wpos'[d] = wpos[d] /\ armed'[d] = armed[d]
        /\ wbuf'[c] = << >> /\ wpos'[c] = 0
    BY <2>1, <2>2, Typed DEF Clear, ArmedInv
  <2>4. CASE armed[c]
    BY <2>1, <2>2, <2>3, <2>4, OpenKept, SubscriptionShown DEF ArmedInv
  <2>5. CASE ~armed[c]
    <3>1. armed' = armed BY <2>1, <2>2, <2>5 DEF ArmedInv
    <3>2. ToWrite(c)' = 0 BY <2>3 DEF ToWrite
    <3>3. \A d \in Open : ToWrite(d)' = ToWrite(d) BY <2>2, <2>3, <3>2 DEF ToWrite, Open
    <3> QED BY <2>2, <2>5, <3>1, <3>3, OpenKept, DashKept
  <2> QED BY <2>4, <2>5
<1>11. ASSUME NEW c \in Conns, ClientStep(c) PROVE DashInv'
  <2>1. Open' = Open /\ UNCHANGED <<wbuf, wpos, visualVars>>
    BY <1>11, VisualShares, KernelClient DEF ClientStep, bufferVars, BufInv
  <2> QED BY <2>1, DashKept DEF ToWrite, visualVars
<1>12. CASE UNCHANGED vars
  BY <1>12, <1>k DEF vars, kernelVars, sockVars, bufferVars
<1> QED
  BY <1>1, <1>2, <1>3, <1>4, <1>5, <1>6, <1>7, <1>8, <1>9, <1>10, <1>11, <1>12, DashAccepted
  DEF Next, Server, Dispatch

LEMMA DashFollows == DashInv /\ ArmedInv => DashboardMirrors
<1> SUFFICES ASSUME DashInv, ArmedInv PROVE DashboardMirrors OBVIOUS
<1>1. ASSUME NEW c \in Open
      PROVE  /\ Pending(dash[fd[c]]) = ToWrite(c)
             /\ dash[fd[c]].epollout <=> "out" \in interest[c]
  <2>1. Shows(dash[fd[c]], c) /\ c \in Conns BY DEF DashInv, Open
  <2>2. Undefined \notin {dash[fd[c]].len, dash[fd[c]].pos}
    BY <2>1, DashboardAssumption DEF Shows
  <2> QED BY <2>1, <2>2 DEF Shows, Pending, ArmedInv
<1> QED BY <1>1 DEF DashboardMirrors, DashInv

(* epoll_visual_server.c and index.html: the dashboard lists exactly the   *)
(* open descriptors and shows for each the bytes that wait and whether     *)
(* EPOLLOUT is asked for, also when accept has given a closed client's     *)
(* descriptor to another.                                                  *)
THEOREM DashboardIsRight == Spec => []DashboardMirrors
<1>1. Init => DashInv
  <2> SUFFICES ASSUME Init PROVE DashInv OBVIOUS
  <2>1. Open = {} BY DEF Init, BuffersInit, LoopInit, KernelInit, Open
  <2>2. IsFiniteSet({}) BY FS_EmptySet
  <2> QED BY <2>1, <2>2 DEF Init, DashInv, NoClients
<1>2. DashInv /\ (ArmedInv /\ BufInv /\ WakeInv) /\ (ArmedInv /\ BufInv /\ WakeInv)' /\ [Next]_vars
        => DashInv'
  BY DashStep
<1> QED BY <1>1, <1>2, VisualAlways, DashFollows, PTL DEF Spec
===============================================================================
