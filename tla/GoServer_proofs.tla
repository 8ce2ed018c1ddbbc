----------------------------- MODULE GoServer_proofs -----------------------------
(***************************************************************************)
(* What holds of the Go echo server for any number of connections, any     *)
(* buffer sizes and any bounds; and of the server under the load of the    *)
(* traffic generator, for every number of sockets and every size: whatever *)
(* is proved of the server's clients holds with the generator as its       *)
(* clients, and a scenario that says it is complete has left no connection *)
(* open.                                                                   *)
(***************************************************************************)
EXTENDS Traffic, SequenceTheorems, FiniteSetTheorems, TLAPS

(* handleEvent keeps clientStates an object keyed by descriptors; accept   *)
(* adds one key, close deletes one, the others leave the keys alone.       *)
LEMMA AcceptedAdds ==
  ASSUME NEW d, ClientStates(d), NEW f \in Nat
  PROVE  /\ ClientStates(HandleEvent(d, Accepted(f)))
         /\ DOMAIN HandleEvent(d, Accepted(f)) = DOMAIN d \cup {f}
BY DEF ClientStates, HandleEvent, Accepted

LEMMA ClosedDeletes ==
  ASSUME NEW d, ClientStates(d), NEW f \in Nat
  PROVE  /\ ClientStates(HandleEvent(d, Closed(f)))
         /\ DOMAIN HandleEvent(d, Closed(f)) = DOMAIN d \ {f}
BY DEF ClientStates, HandleEvent, Closed

LEMMA ReadKeepsKeys ==
  ASSUME NEW d, ClientStates(d), NEW f \in Nat, NEW l, NEW p
  PROVE  /\ ClientStates(HandleEvent(d, ReadEvent(f, l, p)))
         /\ DOMAIN HandleEvent(d, ReadEvent(f, l, p)) = DOMAIN d
<1> DEFINE h == HandleEvent(d, ReadEvent(f, l, p))
<1>1. CASE f \in DOMAIN d
  <2>1. h = [d EXCEPT ![f] = [len |-> l, pos |-> p, epollout |-> d[f].epollout]]
    BY <1>1 DEF HandleEvent, ReadEvent
  <2> QED BY <2>1 DEF ClientStates
<1>2. CASE f \notin DOMAIN d
  <2>1. h = d
    BY <1>2 DEF HandleEvent, ReadEvent
  <2> QED BY <2>1
<1> QED BY <1>1, <1>2

LEMMA WriteKeepsKeys ==
  ASSUME NEW d, ClientStates(d), NEW f \in Nat, NEW l, NEW p
  PROVE  /\ ClientStates(HandleEvent(d, WriteEvent(f, l, p)))
         /\ DOMAIN HandleEvent(d, WriteEvent(f, l, p)) = DOMAIN d
<1> DEFINE h == HandleEvent(d, WriteEvent(f, l, p))
<1>1. CASE f \in DOMAIN d
  <2>1. h = [d EXCEPT ![f] = [len |-> l, pos |-> p, epollout |-> d[f].epollout]]
    BY <1>1 DEF HandleEvent, WriteEvent
  <2> QED BY <2>1 DEF ClientStates
<1>2. CASE f \notin DOMAIN d
  <2>1. h = d
    BY <1>2 DEF HandleEvent, WriteEvent
  <2> QED BY <2>1
<1> QED BY <1>1, <1>2

LEMMA BackpressureKeepsKeys ==
  ASSUME NEW d, ClientStates(d), NEW f \in Nat, NEW on, NEW l, NEW p
  PROVE  /\ ClientStates(HandleEvent(d, BackpressureEvent(f, on, l, p)))
         /\ DOMAIN HandleEvent(d, BackpressureEvent(f, on, l, p)) = DOMAIN d
<1> DEFINE h == HandleEvent(d, BackpressureEvent(f, on, l, p))
<1>1. CASE f \in DOMAIN d
  <2>1. h = [d EXCEPT ![f] = [len |-> l, pos |-> p, epollout |-> on]]
    BY <1>1 DEF HandleEvent, BackpressureEvent
  <2> QED BY <2>1 DEF ClientStates
<1>2. CASE f \notin DOMAIN d
  <2>1. h = d
    BY <1>2 DEF HandleEvent, BackpressureEvent
  <2> QED BY <2>1
<1> QED BY <1>1, <1>2
-----------------------------------------------------------------------------
(* Type correctness needs one more fact: the read of the socket starts     *)
(* with an empty bufio.Reader.                                             *)
ReadFromEmpty == \A c \in Conns : pc[c] = "read" => rd[c] = got[c]
TypeInv == TypeOK /\ ReadFromEmpty

(* What a step does not touch stays well typed.                            *)
LEMMA Untouched ==
  ASSUME TypeInv
  PROVE  /\ UNCHANGED registry => RegistryOK'
         /\ UNCHANGED <<sent, reader>> => ReaderOK'
         /\ UNCHANGED writer => WriterOK'
         /\ UNCHANGED dash => ClientStates(dash)'
<1>1. UNCHANGED registry => RegistryOK' BY DEF TypeInv, TypeOK, RegistryOK, registry
<1>2. UNCHANGED <<sent, reader>> => ReaderOK'
  BY DEF TypeInv, TypeOK, ReaderOK, reader, Buffered
<1>3. UNCHANGED writer => WriterOK' BY DEF TypeInv, TypeOK, WriterOK, writer
<1>4. UNCHANGED dash => ClientStates(dash)' BY DEF TypeInv, TypeOK
<1> QED BY <1>1, <1>2, <1>3, <1>4

LEMMA TypeInit == Init => TypeInv
<1> SUFFICES ASSUME Init PROVE TypeInv
  OBVIOUS
<1>1. RegistryOK BY DEF Init, RegistryOK, IsRegistry
<1>2. ReaderOK BY GoServerAssumption DEF Init, ReaderOK, Buffered
<1>3. WriterOK BY GoServerAssumption DEF Init, WriterOK
<1>4. ClientStates(dash) BY DEF Init, ClientStates, NoClients
<1> QED BY <1>1, <1>2, <1>3, <1>4 DEF Init, TypeInv, TypeOK, ReadFromEmpty, Running

LEMMA TypeNetwork ==
  ASSUME TypeInv, NEW c \in Conns, Environment(c) \/ Accept(c)
  PROVE  TypeInv'
<1> USE Untouched DEF TypeInv, TypeOK, ReadFromEmpty, Running, Goto, network, reader
<1>1. CASE Dial(c)     BY <1>1 DEF Dial
<1>2. CASE Send(c)
  <2>1. PICK n \in 1 .. MaxSend[c] - sent[c] : sent' = [sent EXCEPT ![c] = @ + n]
    BY <1>2 DEF Send
  <2>2. MaxSend[c] \in Nat /\ sent[c] \in Nat
    BY GoServerAssumption DEF ReaderOK
  <2>3. /\ sent[c] + n \in Nat /\ sent[c] <= sent[c] + n /\ sent[c] + n <= MaxSend[c]
    BY <2>1, <2>2
  <2>4. UNCHANGED <<got, rd>> BY <1>2 DEF Send
  <2>5. ReaderOK'
    BY <2>1, <2>3, <2>4 DEF ReaderOK, Buffered
  <2> QED BY <1>2, <2>5 DEF Send
<1>3. CASE Recv(c)
  <2>1. WriterOK'
    BY <1>3, GoServerAssumption DEF Recv, WriterOK
  <2> QED BY <1>3, <2>1 DEF Recv
<1>4. CASE Hangup(c)   BY <1>4 DEF Hangup
<1>5. CASE Reset(c)    BY <1>5 DEF Reset
<1>6. CASE Accept(c)   BY <1>6 DEF Accept
<1> QED BY <1>1, <1>2, <1>3, <1>4, <1>5, <1>6 DEF Environment

LEMMA TypeRegister ==
  ASSUME TypeInv, NEW c \in Conns,
         \/ LoadNextFD(c) \/ StoreNextFD(c) \/ ReturnNextFD(c)
         \/ AddClient(c) \/ EmitAccept(c)
  PROVE  TypeInv'
<1> USE Untouched
    DEF TypeInv, TypeOK, ReadFromEmpty, Running, Goto, network, reader, registry
<1>1. CASE LoadNextFD(c)
  <2>1. RegistryOK' BY <1>1 DEF LoadNextFD, RegistryOK
  <2> QED BY <1>1, <2>1 DEF LoadNextFD
<1>2. CASE StoreNextFD(c)
  <2>1. RegistryOK' BY <1>2 DEF StoreNextFD, RegistryOK
  <2> QED BY <1>2, <2>1 DEF StoreNextFD
<1>3. CASE ReturnNextFD(c)
  <2>1. RegistryOK' BY <1>3 DEF ReturnNextFD, RegistryOK
  <2> QED BY <1>3, <2>1 DEF ReturnNextFD
<1>4. CASE AddClient(c)
  <2>1. IsRegistry(clients') BY <1>4 DEF AddClient, RegistryOK, IsRegistry
  <2>2. RegistryOK' BY <1>4, <2>1 DEF AddClient, RegistryOK
  <2> QED BY <1>4, <2>2 DEF AddClient
<1>5. CASE EmitAccept(c)
  <2>1. ClientStates(dash)'
    BY <1>5, AcceptedAdds DEF EmitAccept, Emit, RegistryOK
  <2> QED BY <1>5, <2>1 DEF EmitAccept
<1> QED BY <1>1, <1>2, <1>3, <1>4, <1>5

LEMMA TypeRead ==
  ASSUME TypeInv, NEW c \in Conns,
         LoopTop(c) \/ ReadData(c) \/ ReadTimeout(c) \/ ReadError(c)
  PROVE  TypeInv'
<1> USE Untouched
    DEF TypeInv, TypeOK, ReadFromEmpty, Running, Goto, network, reader
<1>1. CASE LoopTop(c)
  <2>1. ReadFromEmpty' BY <1>1 DEF LoopTop, ReaderOK, Buffered
  <2> QED BY <1>1, <2>1 DEF LoopTop
<1>2. CASE ReadData(c)
  <2> DEFINE n == Least(Unread(c), BufSize)
  <2>1. n \in 1 .. BufSize /\ n <= Unread(c)
    BY <1>2, GoServerAssumption DEF ReadData, Least, Unread, ReaderOK
  <2>2. ReaderOK'
    BY <1>2, <2>1, GoServerAssumption DEF ReadData, Unread, ReaderOK, Buffered
  <2>3. pc' \in [Conns -> Running \cup {"none", "backlog", "done"}] /\ pc'[c] # "read"
    BY <1>2 DEF ReadData
  <2>4. ReadFromEmpty' BY <1>2, <2>3 DEF ReadData, ReaderOK
  <2> QED BY <1>2, <2>2, <2>3, <2>4 DEF ReadData
<1>3. CASE ReadTimeout(c) BY <1>3 DEF ReadTimeout
<1>4. CASE ReadError(c)   BY <1>4 DEF ReadError
<1> QED BY <1>1, <1>2, <1>3, <1>4

(* The bytes handleRead appends, and the length of the buffer after it.    *)
LEMMA BufferedBytes ==
  ASSUME TypeInv, NEW c \in Conns
  PROVE  /\ Buffered(c) \in Nat
         /\ [i \in 1 .. Buffered(c) |-> rd[c] + i] \in Seq(Nat)
         /\ Len([i \in 1 .. Buffered(c) |-> rd[c] + i]) = Buffered(c)
<1>1. Buffered(c) \in Nat /\ rd[c] \in Nat
  BY DEF TypeInv, TypeOK, ReaderOK, Buffered
<1>2. [i \in 1 .. Buffered(c) |-> rd[c] + i] \in [1 .. Buffered(c) -> Nat]
  BY <1>1
<1>3. [i \in 1 .. Buffered(c) |-> rd[c] + i] \in Seq(Nat)
  BY <1>1, <1>2, SeqDef
<1> QED BY <1>1, <1>3, LenProperties

(* The types of one connection's write side.                               *)
LEMMA WriterTypes ==
  ASSUME TypeInv, NEW c \in Conns
  PROVE  /\ wbuf[c] \in Seq(Nat) /\ wn[c] \in Nat /\ Len(wbuf[c]) \in Nat
         /\ wn[c] <= Len(wbuf[c]) /\ out[c] \in Seq(Nat)
         /\ inflight[c] \in 0 .. SendCap /\ fd[c] \in Nat
BY LenProperties DEF TypeInv, TypeOK, WriterOK, RegistryOK

(* What one Conn.Write passes on is counted and recorded soundly.          *)
LEMMA WriteSomeTypes ==
  ASSUME TypeInv, NEW c \in Conns, WriteSome(c)
  PROVE  WriterOK'
<1> DEFINE n == Least(Room(c), Len(wbuf[c]) - wn[c])
           t == SubSeq(wbuf[c], wn[c] + 1, wn[c] + n)
           s == out[c] \o t
           k == Least(Len(s), MaxEcho)
<1>1. /\ wn' = [wn EXCEPT ![c] = @ + n]
      /\ inflight' = [inflight EXCEPT ![c] = @ + n]
      /\ out' = [out EXCEPT ![c] = SubSeq(s, 1, k)]
      /\ n > 0 /\ UNCHANGED <<wbuf, bp>>
  BY DEF WriteSome
<1>2. /\ n \in Nat /\ n <= Len(wbuf[c]) - wn[c]
      /\ inflight[c] + n \in 0 .. SendCap
  <2>1. n = SendCap - inflight[c] \/ n = Len(wbuf[c]) - wn[c]
    BY DEF Least, Room
  <2>2. n <= SendCap - inflight[c] /\ n <= Len(wbuf[c]) - wn[c]
    BY WriterTypes, GoServerAssumption DEF Least, Room
  <2>3. n > 0 BY <1>1
  <2> HIDE DEF n
  <2>4. n \in Int BY <2>1, WriterTypes, GoServerAssumption
  <2> QED BY <2>2, <2>3, <2>4, WriterTypes, GoServerAssumption
<1> HIDE DEF n
<1>3. ASSUME NEW i \in wn[c] + 1 .. wn[c] + n PROVE wbuf[c][i] \in Nat
  <2>1. i \in 1 .. Len(wbuf[c]) BY <1>2, WriterTypes
  <2> QED BY <2>1, WriterTypes, ElementOfSeq
<1>4. t \in Seq(Nat)
  <2>1. wn[c] + 1 \in Int /\ wn[c] + n \in Int BY <1>2, WriterTypes
  <2> QED BY <1>3, <2>1, SubSeqProperties
<1> HIDE DEF t
<1>5. s \in Seq(Nat) BY <1>4, WriterTypes, ConcatProperties
<1> HIDE DEF s
<1>6. Len(s) \in Nat BY <1>5, LenProperties
<1>7. k \in Nat /\ k <= Len(s) BY <1>6, GoServerAssumption DEF Least
<1> HIDE DEF k
<1>8. ASSUME NEW i \in 1 .. k PROVE s[i] \in Nat
  <2>1. i \in 1 .. Len(s) BY <1>6, <1>7
  <2> QED BY <1>5, <2>1, ElementOfSeq
<1>9. SubSeq(s, 1, k) \in Seq(Nat)
  <2>1. 1 \in Int /\ k \in Int BY <1>7
  <2> QED BY <1>8, <2>1, SubSeqProperties
<1>10. WriterOK BY DEF TypeInv, TypeOK
<1>11. wn' \in [Conns -> Nat] /\ \A d \in Conns : wn'[d] <= Len(wbuf'[d])
  BY <1>1, <1>2, <1>10, WriterTypes DEF WriterOK
<1>12. inflight' \in [Conns -> 0 .. SendCap] BY <1>1, <1>2, <1>10 DEF WriterOK
<1>13. out' \in [Conns -> Seq(Nat)] BY <1>1, <1>9, <1>10 DEF WriterOK
<1> QED BY <1>1, <1>10, <1>11, <1>12, <1>13 DEF WriterOK

LEMMA TypeEcho ==
  ASSUME TypeInv, NEW c \in Conns,
         HandleRead(c) \/ WriteSome(c) \/ WriteDone(c) \/ WriteFails(c)
  PROVE  TypeInv'
<1> USE DEF TypeInv, TypeOK, ReadFromEmpty, Running, Goto, network, reader
<1>1. CASE HandleRead(c)
  <2> DEFINE new == wbuf[c] \o [i \in 1 .. Buffered(c) |-> rd[c] + i]
  <2>1. new \in Seq(Nat) /\ Len(new) \in Nat
    BY BufferedBytes, WriterTypes, ConcatProperties, LenProperties
  <2>2. /\ wbuf' = [wbuf EXCEPT ![c] = new] /\ wn' = [wn EXCEPT ![c] = 0]
        /\ UNCHANGED <<bp, inflight, out>>
    BY <1>1 DEF HandleRead
  <2> HIDE DEF new
  <2>3. WriterOK' BY <2>1, <2>2 DEF WriterOK
  <2>4. ClientStates(dash)'
    BY <1>1, ReadKeepsKeys, WriterTypes DEF HandleRead, Emit
  <2> QED BY <1>1, <2>3, <2>4, Untouched DEF HandleRead
<1>2. CASE WriteSome(c)
  BY <1>2, WriteSomeTypes, Untouched DEF WriteSome
<1>3. CASE WriteDone(c)
  <2> DEFINE left == SubSeq(wbuf[c], wn[c] + 1, Len(wbuf[c]))
             wrote == HandleEvent(dash, WriteEvent(fd[c], OmitEmpty(Len(wbuf[c])),
                                                   OmitEmpty(wn[c])))
  <2>1. left = << >>
    BY <1>3, SubSeqEmpty, WriterTypes DEF WriteDone
  <2>2. WriterOK'
    BY <1>3, <2>1, EmptySeq DEF WriteDone, WriterOK
  <2>3. ClientStates(wrote) BY WriteKeepsKeys, WriterTypes
  <2>4. ClientStates(dash)'
    BY <1>3, <2>1, <2>3 DEF WriteDone
  <2> QED BY <1>3, <2>2, <2>4, Untouched DEF WriteDone
<1>4. CASE WriteFails(c)
  <2>1. WriterOK' BY <1>4, EmptySeq DEF WriteFails, WriterOK
  <2> QED BY <1>4, <2>1, Untouched DEF WriteFails
<1> QED BY <1>1, <1>2, <1>3, <1>4

LEMMA TypeClose ==
  ASSUME TypeInv, NEW c \in Conns,
         CloseConn(c) \/ RemoveClient(c) \/ EmitClose(c)
  PROVE  TypeInv'
<1> USE Untouched
    DEF TypeInv, TypeOK, ReadFromEmpty, Running, Goto, network, reader, registry
<1>1. CASE CloseConn(c)
  <2>1. WriterOK' BY <1>1, GoServerAssumption DEF CloseConn, WriterOK
  <2> QED BY <1>1, <2>1 DEF CloseConn
<1>2. CASE RemoveClient(c)
  <2>1. RegistryOK' BY <1>2 DEF RemoveClient, RegistryOK, IsRegistry
  <2> QED BY <1>2, <2>1 DEF RemoveClient
<1>3. CASE EmitClose(c)
  <2>1. ClientStates(dash)'
    BY <1>3, ClosedDeletes DEF EmitClose, Emit, RegistryOK
  <2> QED BY <1>3, <2>1 DEF EmitClose
<1> QED BY <1>1, <1>2, <1>3

LEMMA TypeStep ==
  ASSUME TypeInv, [Next]_vars
  PROVE  TypeInv'
<1>1. CASE UNCHANGED vars
  <2>1. RegistryOK' /\ ReaderOK' /\ WriterOK' /\ ClientStates(dash)'
    BY <1>1, Untouched DEF vars, network
  <2> QED BY <1>1, <2>1 DEF vars, network, reader, TypeInv, TypeOK, ReadFromEmpty
<1>2. ASSUME NEW c \in Conns, Accept(c) \/ Goroutine(c) \/ Environment(c)
      PROVE  TypeInv'
  BY <1>2, TypeNetwork, TypeRegister, TypeRead, TypeEcho, TypeClose DEF Goroutine
<1> QED BY <1>1, <1>2 DEF Next

LEMMA TypeAlways == Spec => []TypeInv
BY TypeInit, TypeStep, PTL DEF Spec

(* TypeOK is true in every reachable state: the bytes consumed never       *)
(* overtake the bytes read nor these the bytes sent, the bufio.Reader      *)
(* keeps within its size, a Conn.Write within the buffer it was given.     *)
THEOREM TypeCorrect == Spec => []TypeOK
BY TypeAlways, PTL DEF TypeInv
-----------------------------------------------------------------------------
(* Where a connection is in Server.clients.                                *)
Added == {"announce"} \cup (Announced \ {"bye"})

LEMMA LiveStep ==
  ASSUME TypeInv, RegisteredIsLive, [Next]_vars
  PROVE  RegisteredIsLive'
<1> SUFFICES ASSUME NEW f \in DOMAIN clients'
             PROVE  fd'[clients'[f]] = f /\ pc'[clients'[f]] \in Added
  BY DEF RegisteredIsLive, Added
<1> USE DEF RegisteredIsLive, Added, Announced, TypeInv, TypeOK, RegistryOK,
            IsRegistry, Goto
<1>1. CASE UNCHANGED vars BY <1>1 DEF vars, registry
<1>2. ASSUME NEW c \in Conns, Accept(c) \/ Goroutine(c) \/ Environment(c)
      PROVE  fd'[clients'[f]] = f /\ pc'[clients'[f]] \in Added
  <2>1. CASE Accept(c) BY <2>1 DEF Accept, registry
  <2>2. CASE Environment(c)
    BY <2>2 DEF Environment, Dial, Send, Recv, Hangup, Reset, registry
  <2>3. CASE LoadNextFD(c) BY <2>3 DEF LoadNextFD
  <2>4. CASE StoreNextFD(c) BY <2>4 DEF StoreNextFD
  <2>5. CASE ReturnNextFD(c) BY <2>5 DEF ReturnNextFD
  <2>6. CASE AddClient(c) BY <2>6 DEF AddClient
  <2>7. CASE EmitAccept(c) BY <2>7 DEF EmitAccept, registry
  <2>8. CASE LoopTop(c) BY <2>8 DEF LoopTop, registry
  <2>9. CASE ReadData(c) BY <2>9 DEF ReadData, registry
  <2>10. CASE ReadTimeout(c) BY <2>10 DEF ReadTimeout, registry
  <2>11. CASE ReadError(c) BY <2>11 DEF ReadError, registry
  <2>12. CASE HandleRead(c) BY <2>12 DEF HandleRead, registry
  <2>13. CASE WriteSome(c) BY <2>13 DEF WriteSome, registry
  <2>14. CASE WriteDone(c) BY <2>14 DEF WriteDone, registry
  <2>15. CASE WriteFails(c) BY <2>15 DEF WriteFails, registry
  <2>16. CASE CloseConn(c) BY <2>16 DEF CloseConn, registry
  <2>17. CASE RemoveClient(c) BY <2>17 DEF RemoveClient
  <2>18. CASE EmitClose(c) BY <2>18 DEF EmitClose, registry
  <2> QED
    BY <1>2, <2>1, <2>2, <2>3, <2>4, <2>5, <2>6, <2>7, <2>8, <2>9, <2>10,
       <2>11, <2>12, <2>13, <2>14, <2>15, <2>16, <2>17, <2>18 DEF Goroutine
<1> QED BY <1>1, <1>2 DEF Next

(* An entry of Server.clients belongs to a connection that is added and    *)
(* not removed, for any number of connections and whatever fds the         *)
(* unsynchronised nextFD hands out.                                        *)
THEOREM RegistryIsLive == Spec => []RegisteredIsLive
<1>1. Init => RegisteredIsLive BY DEF Init, RegisteredIsLive
<1> QED BY <1>1, TypeAlways, LiveStep, PTL DEF Spec
-----------------------------------------------------------------------------
(* The write buffer holds something only while Conn.Write runs, and then   *)
(* exactly what the bufio.Reader holds; Backpressure is never raised.      *)
EchoInv ==
  \A c \in Conns :
    /\ wbuf[c] = IF pc[c] = "write"
                 THEN [i \in 1 .. Buffered(c) |-> rd[c] + i] ELSE << >>
    /\ bp[c] = FALSE

LEMMA EchoStep ==
  ASSUME TypeInv, EchoInv, [Next]_vars
  PROVE  EchoInv'
<1>1. CASE UNCHANGED vars BY <1>1 DEF vars, reader, writer, EchoInv, Buffered
<1>2. ASSUME NEW c \in Conns, Accept(c) \/ Goroutine(c) \/ Environment(c)
      PROVE  EchoInv'
  <2> USE DEF EchoInv, TypeInv, TypeOK, Goto, Buffered
  <2>1. CASE Accept(c) BY <2>1 DEF Accept, reader, writer
  <2>2. CASE Environment(c)
    BY <2>2 DEF Environment, Dial, Send, Recv, Hangup, Reset, reader, writer
  <2>3. CASE LoadNextFD(c) BY <2>3 DEF LoadNextFD, reader, writer
  <2>4. CASE StoreNextFD(c) BY <2>4 DEF StoreNextFD, reader, writer
  <2>5. CASE ReturnNextFD(c) BY <2>5 DEF ReturnNextFD, reader, writer
  <2>6. CASE AddClient(c) BY <2>6 DEF AddClient, reader, writer
  <2>7. CASE EmitAccept(c) BY <2>7 DEF EmitAccept, reader, writer
  <2>8. CASE LoopTop(c) BY <2>8 DEF LoopTop, reader, writer
  <2>9. CASE ReadData(c)
    <3>1. pc[c] = "read" /\ pc'[c] # "write" /\ UNCHANGED <<wbuf, bp>>
      BY <2>9 DEF ReadData, writer
    <3>2. \A d \in Conns \ {c} :
            pc'[d] = pc[d] /\ got'[d] = got[d] /\ rd'[d] = rd[d]
      BY <2>9 DEF ReadData, ReaderOK
    <3> SUFFICES ASSUME NEW d \in Conns
                 PROVE  /\ wbuf'[d] = IF pc'[d] = "write"
                                      THEN [i \in 1 .. got'[d] - rd'[d] |-> rd'[d] + i]
                                      ELSE << >>
                        /\ bp'[d] = FALSE
      OBVIOUS
    <3>3. CASE d = c BY <3>1, <3>3
    <3>4. CASE d # c BY <3>1, <3>2, <3>4
    <3> QED BY <3>3, <3>4
  <2>10. CASE ReadTimeout(c) BY <2>10 DEF ReadTimeout, reader, writer
  <2>11. CASE ReadError(c) BY <2>11 DEF ReadError, reader, writer
  <2>12. CASE HandleRead(c)
    <3> DEFINE data == [i \in 1 .. Buffered(c) |-> rd[c] + i]
    <3>1. wbuf[c] = << >> BY <2>12 DEF HandleRead
    <3>2. << >> \o data = data BY BufferedBytes, ConcatEmptySeq
    <3>3. wbuf' = [wbuf EXCEPT ![c] = data]
      BY <2>12, <3>1, <3>2 DEF HandleRead
    <3> HIDE DEF data
    <3>4. /\ pc' = [pc EXCEPT ![c] = "write"] /\ UNCHANGED <<got, rd, bp>>
      BY <2>12 DEF HandleRead, reader
    <3> SUFFICES ASSUME NEW d \in Conns
                 PROVE  /\ wbuf'[d] = IF pc'[d] = "write"
                                      THEN [i \in 1 .. got'[d] - rd'[d] |-> rd'[d] + i]
                                      ELSE << >>
                        /\ bp'[d] = FALSE
      OBVIOUS
    <3>5. CASE d = c
      <4>1. wbuf'[c] = data /\ pc'[c] = "write" BY <3>3, <3>4 DEF WriterOK
      <4> QED BY <3>4, <3>5, <4>1 DEF data
    <3>6. CASE d # c BY <3>3, <3>4, <3>6 DEF WriterOK
    <3> QED BY <3>5, <3>6
  <2>13. CASE WriteSome(c) BY <2>13 DEF WriteSome, reader
  <2>14. CASE WriteDone(c)
    <3>1. SubSeq(wbuf[c], wn[c] + 1, Len(wbuf[c])) = << >>
      BY <2>14, WriterTypes, SubSeqEmpty DEF WriteDone
    <3>2. wbuf' = [wbuf EXCEPT ![c] = << >>] /\ bp' = [bp EXCEPT ![c] = FALSE]
      BY <2>14, <3>1 DEF WriteDone
    <3> QED BY <2>14, <3>2 DEF WriteDone, reader, WriterOK
  <2>15. CASE WriteFails(c) BY <2>15 DEF WriteFails, reader, WriterOK
  <2>16. CASE CloseConn(c) BY <2>16 DEF CloseConn, reader
  <2>17. CASE RemoveClient(c) BY <2>17 DEF RemoveClient, reader, writer
  <2>18. CASE EmitClose(c) BY <2>18 DEF EmitClose, reader, writer
  <2> QED
    BY <1>2, <2>1, <2>2, <2>3, <2>4, <2>5, <2>6, <2>7, <2>8, <2>9, <2>10,
       <2>11, <2>12, <2>13, <2>14, <2>15, <2>16, <2>17, <2>18 DEF Goroutine
<1> QED BY <1>1, <1>2 DEF Next

LEMMA EchoAlways == Spec => []EchoInv
<1>1. Init => EchoInv BY DEF Init, EchoInv
<1> QED BY <1>1, TypeAlways, EchoStep, PTL DEF Spec

(* No byte of an earlier write is left to go out with a later one.         *)
THEOREM NothingStale == Spec => []NoStaleBytes
<1>1. TypeInv /\ EchoInv => NoStaleBytes
  BY DEF EchoInv, NoStaleBytes
<1> QED BY <1>1, TypeAlways, EchoAlways, PTL

(* The flag Backpressure, and with it the backpressure event, is never     *)
(* raised: Conn.Write returns with everything written or with an error, so *)
(* flushWrite never finds bytes left.                                      *)
THEOREM NeverSignalled == Spec => [](\A c \in Conns : bp[c] = FALSE)
<1>1. EchoInv => \A c \in Conns : bp[c] = FALSE BY DEF EchoInv
<1> QED BY <1>1, EchoAlways, PTL
-----------------------------------------------------------------------------
(* A step that moves no connection into or out of the two sets, changes no *)
(* assigned fd and no key keeps the dashboard and the registry in line.    *)
Steady ==
  /\ \A d \in Conns :
       /\ pc'[d] \in Announced <=> pc[d] \in Announced
       /\ pc'[d] \in Added <=> pc[d] \in Added
       /\ d \in Numbered => d \in Numbered' /\ fd'[d] = fd[d]
  /\ DOMAIN clients' = DOMAIN clients /\ DOMAIN dash' = DOMAIN dash

Listed(keys, places) ==
  \A x : x \in keys <=> \E d \in Conns : pc[d] \in places /\ fd[d] = x

LEMMA ListedMeaning ==
  ListedIfDistinct <=>
    (DistinctFDs => Listed(DOMAIN dash, Announced) /\ Listed(DOMAIN clients, Added))
BY DEF ListedIfDistinct, Listed, Added

LEMMA SteadyKeepsListed ==
  ASSUME ListedIfDistinct, Steady
  PROVE  ListedIfDistinct'
<1>1. ListedIfDistinct' <=>
        (DistinctFDs' =>
           Listed(DOMAIN dash, Announced)' /\ Listed(DOMAIN clients, Added)')
  BY DEF ListedIfDistinct, Listed, Added
<1>2. DistinctFDs' => DistinctFDs
  <2>1. Numbered \subseteq Conns BY DEF Numbered
  <2> QED BY <2>1 DEF Steady, DistinctFDs
<1>3. ASSUME NEW d \in Conns, pc[d] \in Announced \cup Added
      PROVE  fd'[d] = fd[d]
  <2>1. d \in Numbered BY <1>3 DEF Numbered, Running, Announced, Added
  <2> QED BY <2>1 DEF Steady
<1>4. ASSUME Listed(DOMAIN dash, Announced) PROVE Listed(DOMAIN dash, Announced)'
  <2>1. \A d \in Conns : pc'[d] \in Announced <=> pc[d] \in Announced
    BY DEF Steady
  <2>2. DOMAIN dash' = DOMAIN dash BY DEF Steady
  <2> QED BY <1>3, <1>4, <2>1, <2>2 DEF Listed
<1>5. ASSUME Listed(DOMAIN clients, Added) PROVE Listed(DOMAIN clients, Added)'
  <2>1. \A d \in Conns : pc'[d] \in Added <=> pc[d] \in Added
    BY DEF Steady
  <2>2. DOMAIN clients' = DOMAIN clients BY DEF Steady
  <2> QED BY <1>3, <1>5, <2>1, <2>2 DEF Listed
<1> QED BY <1>1, <1>2, <1>4, <1>5, ListedMeaning

LEMMA SteadySteps ==
  ASSUME TypeInv, NEW c \in Conns,
         \/ Accept(c) \/ Environment(c)
         \/ LoadNextFD(c) \/ StoreNextFD(c) \/ ReturnNextFD(c)
         \/ LoopTop(c) \/ ReadData(c) \/ ReadTimeout(c) \/ ReadError(c)
         \/ HandleRead(c) \/ WriteSome(c) \/ WriteDone(c) \/ WriteFails(c)
         \/ CloseConn(c)
  PROVE  Steady
<1> USE DEF Steady, Numbered, Announced, Added, Running, Goto, registry,
            TypeInv, TypeOK, RegistryOK
<1>1. CASE Accept(c) BY <1>1 DEF Accept
<1>2. CASE Environment(c)
  BY <1>2 DEF Environment, Dial, Send, Recv, Hangup, Reset
<1>3. CASE LoadNextFD(c) BY <1>3 DEF LoadNextFD
<1>4. CASE StoreNextFD(c) BY <1>4 DEF StoreNextFD
<1>5. CASE ReturnNextFD(c) BY <1>5 DEF ReturnNextFD
<1>6. CASE LoopTop(c) BY <1>6 DEF LoopTop
<1>7. CASE ReadData(c) BY <1>7 DEF ReadData
<1>8. CASE ReadTimeout(c) BY <1>8 DEF ReadTimeout
<1>9. CASE ReadError(c) BY <1>9 DEF ReadError
<1>10. CASE HandleRead(c)
  <2>1. DOMAIN dash' = DOMAIN dash
    BY <1>10, ReadKeepsKeys DEF HandleRead, Emit
  <2> QED BY <1>10, <2>1 DEF HandleRead
<1>11. CASE WriteSome(c) BY <1>11 DEF WriteSome
<1>12. CASE WriteDone(c)
  <2> DEFINE wrote == HandleEvent(dash, WriteEvent(fd[c], OmitEmpty(Len(wbuf[c])),
                                                   OmitEmpty(wn[c])))
  <2>1. ClientStates(wrote) /\ DOMAIN wrote = DOMAIN dash BY WriteKeepsKeys
  <2>2. SubSeq(wbuf[c], wn[c] + 1, Len(wbuf[c])) = << >>
    BY <1>12, WriterTypes, SubSeqEmpty DEF WriteDone
  <2>3. dash' = wrote BY <1>12, <2>2 DEF WriteDone
  <2>4. DOMAIN dash' = DOMAIN dash BY <2>1, <2>3
  <2> QED BY <1>12, <2>4 DEF WriteDone
<1>13. CASE WriteFails(c) BY <1>13 DEF WriteFails
<1>14. CASE CloseConn(c) BY <1>14 DEF CloseConn
<1> QED
  BY <1>1, <1>2, <1>3, <1>4, <1>5, <1>6, <1>7, <1>8, <1>9, <1>10, <1>11,
     <1>12, <1>13, <1>14

(* AddClient and EmitAccept bring one connection, RemoveClient and         *)
(* EmitClose take one away, and its key with it.                           *)
LEMMA KeyAdded ==
  ASSUME NEW S, NEW c
  PROVE  {fd[d] : d \in S \cup {c}} = {fd[d] : d \in S} \cup {fd[c]}
OBVIOUS

LEMMA KeyDeleted ==
  ASSUME NEW S, NEW c \in S, \A d, e \in S : fd[d] = fd[e] => d = e
  PROVE  {fd[d] : d \in S \ {c}} = {fd[d] : d \in S} \ {fd[c]}
OBVIOUS

(* The connections at one of some places.                                  *)
At(places) == {d \in Conns : pc[d] \in places}

LEMMA ListedAt ==
  ListedIfDistinct <=>
    (DistinctFDs => /\ DOMAIN dash = {fd[d] : d \in At(Announced)}
                    /\ DOMAIN clients = {fd[d] : d \in At(Added)})
BY DEF ListedIfDistinct, At, Added

LEMMA ListedStep ==
  ASSUME TypeInv, ListedIfDistinct, [Next]_vars
  PROVE  ListedIfDistinct'
<1>1. CASE UNCHANGED vars
  <2>1. Steady BY <1>1 DEF vars, registry, Steady, Numbered
  <2> QED BY <2>1, SteadyKeepsListed
<1>2. ASSUME NEW c \in Conns, Accept(c) \/ Goroutine(c) \/ Environment(c)
      PROVE  ListedIfDistinct'
  <2>5. ListedIfDistinct' <=>
          (DistinctFDs' => /\ DOMAIN dash' = {fd'[d] : d \in At(Announced)'}
                           /\ DOMAIN clients' = {fd'[d] : d \in At(Added)'})
    BY DEF ListedIfDistinct, At, Added
  <2> USE DEF Goto, registry, TypeInv, TypeOK, RegistryOK
  <2>1. CASE AddClient(c)
    <3>1. /\ pc[c] = "add" /\ pc' = [pc EXCEPT ![c] = "announce"]
          /\ fd' = fd /\ dash' = dash /\ DOMAIN clients' = DOMAIN clients \cup {fd[c]}
      BY <2>1 DEF AddClient
    <3>2. Numbered' = Numbered BY <3>1 DEF Numbered, Running
    <3>3. At(Announced)' = At(Announced) /\ At(Added)' = At(Added) \cup {c}
      BY <3>1 DEF At, Announced, Added
    <3> QED
      BY <2>5, <3>1, <3>2, <3>3, KeyAdded, ListedAt DEF DistinctFDs
  <2>2. CASE EmitAccept(c)
    <3>1. /\ pc[c] = "announce" /\ pc' = [pc EXCEPT ![c] = "loop"]
          /\ fd' = fd /\ clients' = clients /\ DOMAIN dash' = DOMAIN dash \cup {fd[c]}
      BY <2>2, AcceptedAdds DEF EmitAccept, Emit
    <3>2. Numbered' = Numbered BY <3>1 DEF Numbered, Running
    <3>3. At(Announced)' = At(Announced) \cup {c} /\ At(Added)' = At(Added)
      BY <3>1 DEF At, Announced, Added
    <3> QED
      BY <2>5, <3>1, <3>2, <3>3, KeyAdded, ListedAt DEF DistinctFDs
  <2>3. CASE RemoveClient(c)
    <3>1. /\ pc[c] = "remove" /\ pc' = [pc EXCEPT ![c] = "bye"]
          /\ fd' = fd /\ dash' = dash /\ DOMAIN clients' = DOMAIN clients \ {fd[c]}
      BY <2>3 DEF RemoveClient
    <3>2. Numbered' = Numbered BY <3>1 DEF Numbered, Running
    <3>3. At(Announced)' = At(Announced) /\ At(Added)' = At(Added) \ {c} /\ c \in At(Added)
      BY <3>1 DEF At, Announced, Added
    <3>4. At(Added) \subseteq Numbered BY DEF At, Numbered, Added, Announced, Running
    <3> QED
      BY <2>5, <3>1, <3>2, <3>3, <3>4, KeyDeleted, ListedAt DEF DistinctFDs
  <2>4. CASE EmitClose(c)
    <3>1. /\ pc[c] = "bye" /\ pc' = [pc EXCEPT ![c] = "done"]
          /\ fd' = fd /\ clients' = clients /\ DOMAIN dash' = DOMAIN dash \ {fd[c]}
      BY <2>4, ClosedDeletes DEF EmitClose, Emit
    <3>2. Numbered' = Numbered BY <3>1 DEF Numbered, Running
    <3>3. At(Announced)' = At(Announced) \ {c} /\ At(Added)' = At(Added) /\ c \in At(Announced)
      BY <3>1 DEF At, Announced, Added
    <3>4. At(Announced) \subseteq Numbered BY DEF At, Numbered, Announced, Running
    <3> QED
      BY <2>5, <3>1, <3>2, <3>3, <3>4, KeyDeleted, ListedAt DEF DistinctFDs
  <2> QED
    BY <1>2, <2>1, <2>2, <2>3, <2>4, SteadySteps, SteadyKeepsListed DEF Goroutine
<1> QED BY <1>1, <1>2 DEF Next

(* As long as no two connections share an fd, the dashboard lists exactly  *)
(* the announced connections and Server.clients exactly the added ones.    *)
THEOREM ListedWhenDistinct == Spec => []ListedIfDistinct
<1>1. Init => ListedIfDistinct
  BY DEF Init, ListedIfDistinct, NoClients, Announced
<1> QED BY <1>1, TypeAlways, ListedStep, PTL DEF Spec
-----------------------------------------------------------------------------
(* Every step of the generator is a step the server's clients may take, or *)
(* changes nothing of the server and the network.                          *)
LEMMA DriverStep ==
  ASSUME TrafficNext
  PROVE  [Next]_vars
<1>1. ASSUME MainStep PROVE [Next]_vars
  BY <1>1 DEF MainStep, NextRound, MainCompletes, WaitReturns, MainDials,
              MainDialFails, NextSocket, NextClose, Spawn, Next, Environment
<1>2. ASSUME NEW c \in Conns, UserStep(c) PROVE [Next]_vars
  BY <1>2 DEF UserStep, StressDials, StressDialFails, StressChecks, StressFinishes,
              Write, ReadReturns, ReadTimesOut, Close, Next, Environment
<1>3. ASSUME NEW c \in Conns, ServerStep(c) \/ ClosedResets(c) \/ ExitCloses(c)
      PROVE  [Next]_vars
  BY <1>3 DEF ServerStep, ClosedResets, ExitCloses, Next, Environment
<1>4. ASSUME TimeIsUp PROVE [Next]_vars
  BY <1>4 DEF TimeIsUp
<1>5. QED BY <1>1, <1>2, <1>3, <1>4 DEF TrafficNext

(* The composition refines the server's specification.                     *)
THEOREM TrafficIsAClient == TrafficSpec => Spec
<1>1. TrafficInit => Init BY DEF TrafficInit
<1>2. ASSUME [TrafficNext]_allVars PROVE [Next]_vars
  BY <1>2, DriverStep DEF allVars
<1>3. QED BY <1>1, <1>2, PTL DEF TrafficSpec, Spec

(* Under the generator's load no entry of the registry belongs to a        *)
(* connection that is gone, and no byte is echoed twice from the write     *)
(* buffer of a failed write.                                               *)
THEOREM ServerHoldsUnderTraffic == TrafficSpec => [](RegisteredIsLive /\ NoStaleBytes)
BY TrafficIsAClient, RegistryIsLive, NothingStale, PTL
-----------------------------------------------------------------------------
(* The inductive invariant: where the users of the sockets can be in each  *)
(* scenario, and what that says of the connections.                        *)
Users ==
  /\ scenario = "stress" => \A c \in Conns : c \in todo <=> user[c] = "none"
  /\ scenario # "stress" => \A c \in Conns : user[c] \notin {"dial", "check", "finish"}
  /\ scenario = "churn" => \A c \in Conns : user[c] \in {"none", "write", "close", "gone"}
  /\ main = "complete" => \A c \in Conns : user[c] \in {"none", "gone"}

Sockets ==
  \A c \in Conns :
    /\ user[c] \in {"none", "dial"} => pc[c] = "none"
    /\ user[c] \in {"finish", "gone"} => pc[c] = "none" \/ peer[c] # "open"

DriverInv == DriverOK /\ Users /\ Sockets

(* The server neither dials nor closes a client's end.                     *)
LEMMA ServerStepFrame ==
  ASSUME TypeOK, NEW c \in Conns, Accept(c) \/ Goroutine(c)
  PROVE  /\ peer' = peer
         /\ \A d \in Conns : pc'[d] = "none" <=> pc[d] = "none"
<1> USE DEF TypeOK, Goto, network
<1>1. CASE Accept(c) BY <1>1 DEF Accept
<1>2. CASE LoadNextFD(c) \/ StoreNextFD(c) \/ ReturnNextFD(c)
  BY <1>2 DEF LoadNextFD, StoreNextFD, ReturnNextFD
<1>3. CASE AddClient(c) \/ EmitAccept(c) \/ LoopTop(c)
  BY <1>3 DEF AddClient, EmitAccept, LoopTop
<1>4. CASE ReadData(c) \/ ReadTimeout(c) \/ ReadError(c)
  BY <1>4 DEF ReadData, ReadTimeout, ReadError
<1>5. CASE HandleRead(c) \/ WriteSome(c) \/ WriteDone(c) \/ WriteFails(c)
  BY <1>5 DEF HandleRead, WriteSome, WriteDone, WriteFails
<1>6. CASE CloseConn(c) \/ RemoveClient(c) \/ EmitClose(c)
  BY <1>6 DEF CloseConn, RemoveClient, EmitClose
<1>7. QED BY <1>1, <1>2, <1>3, <1>4, <1>5, <1>6 DEF Goroutine

(* Where the user of one socket goes, the others stay; the WaitGroup       *)
(* follows.                                                                *)
LEMMA CountFrame ==
  ASSUME DriverOK, NEW c \in Conns, NEW label \in UserStates, UserGoto(c, label),
         UNCHANGED scenario
  PROVE  /\ user' \in [Conns -> UserStates] /\ user'[c] = label
         /\ \A d \in Conns : d # c => user'[d] = user[d]
         /\ IsFiniteSet(Counted) /\ Cardinality(Counted) \in Nat
         /\ user[c] \notin {"none", "gone"} /\ label \notin {"none", "gone"}
              => Cardinality(Counted') = Cardinality(Counted)
         /\ user[c] = "none" /\ label \notin {"none", "gone"}
              => Cardinality(Counted') = Cardinality(Counted) + 1
         /\ user[c] \notin {"none", "gone"} /\ label = "gone"
              => Cardinality(Counted') = Cardinality(Counted) - 1
<1>1. /\ user' \in [Conns -> UserStates] /\ user'[c] = label
      /\ \A d \in Conns : d # c => user'[d] = user[d]
  BY DEF DriverOK, UserGoto
<1>2. IsFiniteSet(Counted) /\ Cardinality(Counted) \in Nat
  BY TrafficAssumption, FS_Subset, FS_CardinalityType DEF Counted
<1>3. ASSUME user[c] \notin {"none", "gone"}, label \notin {"none", "gone"}
      PROVE  Counted' = Counted
  BY <1>1, <1>3 DEF Counted, DriverOK
<1>4. ASSUME user[c] = "none", label \notin {"none", "gone"}
      PROVE  Counted' = Counted \cup {c} /\ c \notin Counted
  BY <1>1, <1>4 DEF Counted, DriverOK
<1>5. ASSUME user[c] \notin {"none", "gone"}, label = "gone"
      PROVE  Counted' = Counted \ {c} /\ c \in Counted
  BY <1>1, <1>5 DEF Counted, DriverOK
<1>6. QED
  BY <1>1, <1>2, <1>3, <1>4, <1>5, FS_AddElement, FS_RemoveElement

LEMMA MainKeeps ==
  ASSUME TypeOK, DriverInv, MainStep
  PROVE  DriverInv'
<1> USE DEF DriverInv, DriverOK, Users, Sockets, MainGoto, Busy, UserStates, Scenarios
<1>1. CASE NextRound \/ MainCompletes
  <2>1. UNCHANGED <<vars, scenario, user, wg>>
    BY <1>1 DEF NextRound, MainCompletes
  <2>2. Counted' = Counted /\ UNCHANGED <<pc, peer>>
    BY <2>1 DEF Counted, vars, network
  <2>3. QED BY <1>1, <2>1, <2>2 DEF NextRound, MainCompletes
<1>2. CASE WaitReturns
  <2>1. Counted = {}
    <3>1. IsFiniteSet(Counted)
      BY TrafficAssumption, FS_Subset DEF Counted
    <3>2. QED BY <1>2, <3>1, FS_EmptySet DEF WaitReturns
  <2>2. \A c \in Conns : user[c] \in {"none", "gone"}
    BY <2>1 DEF Counted
  <2>3. Counted' = Counted /\ UNCHANGED <<pc, peer, user>>
    BY <1>2 DEF Counted, vars, network, WaitReturns
  <2>4. QED BY <1>2, <2>2, <2>3 DEF WaitReturns
<1>3. ASSUME NEW c \in Conns, MainDials(c) PROVE DriverInv'
  <2>1. /\ scenario \in {"normal", "churn"} /\ main = "open"
        /\ UNCHANGED <<scenario, late, main, wg, peer>>
        /\ todo' = todo \ {c} /\ pc' = [pc EXCEPT ![c] = "backlog"]
        /\ user' = [user EXCEPT ![c] = IF scenario = "churn" THEN "write" ELSE "idle"]
    BY <1>3 DEF MainDials, Dial, UserGoto, Goto, network
  <2>2. DriverOK' /\ Users'
    BY <2>1
  <2>3. Sockets'
    BY <2>1 DEF TypeOK
  <2>4. QED BY <2>2, <2>3
<1>4. ASSUME NEW c \in Conns, MainDialFails(c) PROVE DriverInv'
  BY <1>4 DEF MainDialFails, vars, network, Counted
<1>5. ASSUME NEW c \in Conns, NextSocket(c) \/ NextClose(c) PROVE DriverInv'
  BY <1>5, CountFrame DEF NextSocket, NextClose, UserGoto, vars, network
<1>6. ASSUME NEW c \in Conns, Spawn(c) PROVE DriverInv'
  <2>1. user[c] = "none" BY <1>6 DEF Spawn
  <2>2. Cardinality(Counted') = Cardinality(Counted) + 1
    BY <1>6, <2>1, CountFrame DEF Spawn
  <2>3. QED BY <1>6, <2>1, <2>2 DEF Spawn, UserGoto, vars, network
<1>7. QED
  BY <1>1, <1>2, <1>3, <1>4, <1>5, <1>6 DEF MainStep

LEMMA UserKeeps ==
  ASSUME TypeOK, DriverInv, NEW c \in Conns, UserStep(c)
  PROVE  DriverInv'
<1> USE DEF DriverInv, DriverOK, Users, Sockets, UserStates, Scenarios
<1>1. CASE StressDials(c)
  <2>1. Cardinality(Counted') = Cardinality(Counted)
    BY <1>1, CountFrame DEF StressDials
  <2>2. QED BY <1>1, <2>1 DEF StressDials, Dial, Goto, UserGoto, network, TypeOK
<1>2. CASE StressDialFails(c) \/ StressChecks(c)
  <2>1. Cardinality(Counted') = Cardinality(Counted)
    BY <1>2, CountFrame DEF StressDialFails, StressChecks
  <2>2. QED
    BY <1>2, <2>1 DEF StressDialFails, StressChecks, UserGoto, vars, network
<1>3. CASE StressFinishes(c)
  <2>1. Cardinality(Counted') = Cardinality(Counted) - 1
    BY <1>3, CountFrame DEF StressFinishes
  <2>2. QED BY <1>3, <2>1 DEF StressFinishes, UserGoto, vars, network
<1>4. CASE Write(c)
  <2>1. Cardinality(Counted') = Cardinality(Counted)
    BY <1>4, CountFrame DEF Write, AfterWrite
  <2>2. QED BY <1>4, <2>1 DEF Write, AfterWrite, Send, UserGoto
<1>5. CASE ReadReturns(c) \/ ReadTimesOut(c)
  <2>1. Cardinality(Counted') = Cardinality(Counted)
    BY <1>5, CountFrame DEF ReadReturns, ReadTimesOut, AfterRead
  <2>2. UNCHANGED <<pc, peer>>
    BY <1>5 DEF ReadReturns, ReadTimesOut, Recv, vars, network
  <2>3. QED BY <1>5, <2>1, <2>2 DEF ReadReturns, ReadTimesOut, AfterRead, UserGoto
<1>6. CASE Close(c)
  <2>1. scenario = "stress" => Cardinality(Counted') = Cardinality(Counted)
    BY <1>6, CountFrame DEF Close, AfterClose
  <2>2. /\ UNCHANGED pc /\ peer'[c] # "open"
        /\ \A d \in Conns : d # c => peer'[d] = peer[d]
    BY <1>6 DEF Close, Hangup, Reset, TypeOK
  <2>3. QED BY <1>6, <2>1, <2>2 DEF Close, AfterClose, UserGoto
<1>7. QED
  BY <1>1, <1>2, <1>3, <1>4, <1>5, <1>6 DEF UserStep

(* Everything else leaves the driver alone and only closes clients' ends.  *)
LEMMA OthersKeep ==
  ASSUME TypeOK, DriverInv, NEW c \in Conns,
         ServerStep(c) \/ ClosedResets(c) \/ ExitCloses(c)
  PROVE  DriverInv'
<1>1. UNCHANGED driver /\ Counted' = Counted
  BY DEF ServerStep, ClosedResets, ExitCloses, driver, Counted
<1>2. CASE ServerStep(c)
  BY <1>1, <1>2, ServerStepFrame
     DEF ServerStep, DriverInv, DriverOK, Users, Sockets, driver, UserStates
<1>3. CASE ClosedResets(c) \/ ExitCloses(c)
  <2>1. UNCHANGED pc /\ \A d \in Conns : peer[d] # "open" => peer'[d] # "open"
    BY <1>3 DEF ClosedResets, ExitCloses, Hangup, Reset, TypeOK
  <2>2. QED
    BY <1>1, <2>1 DEF DriverInv, DriverOK, Users, Sockets, driver, UserStates
<1>4. QED BY <1>2, <1>3

LEMMA DriverStarts == TrafficInit => DriverInv
<1> SUFFICES ASSUME TrafficInit PROVE DriverInv
  OBVIOUS
<1>1. Counted = {} BY DEF TrafficInit, Counted
<1>2. QED
  BY <1>1, FS_EmptySet DEF TrafficInit, Init, DriverInv, DriverOK, Users, Sockets,
                           UserStates, Scenarios

LEMMA DriverAlways == TrafficSpec => []DriverInv
<1>1. ASSUME TypeOK, DriverInv, [TrafficNext]_allVars PROVE DriverInv'
  <2>1. CASE UNCHANGED allVars
    <3>1. Counted' = Counted BY <2>1 DEF allVars, driver, Counted
    <3>2. QED
      BY <1>1, <2>1, <3>1 DEF allVars, vars, driver, network, DriverInv, DriverOK, Users,
                        Sockets, UserStates
  <2>2. CASE TimeIsUp
    <3>1. Counted' = Counted BY <2>2 DEF TimeIsUp, Counted
    <3>2. QED
      BY <1>1, <2>2, <3>1 DEF TimeIsUp, vars, network, DriverInv, DriverOK, Users, Sockets,
                        UserStates
  <2>3. QED
    BY <1>1, <2>1, <2>2, MainKeeps, UserKeeps, OthersKeep DEF TrafficNext
<1>2. TrafficSpec => []TypeOK BY TrafficIsAClient, TypeCorrect, PTL
<1>3. QED BY <1>1, <1>2, DriverStarts, PTL DEF TrafficSpec

(* The WaitGroup counts exactly the goroutines that have not called Done.  *)
THEOREM WaitGroupCounts == TrafficSpec => []DriverOK
BY DriverAlways, PTL DEF DriverInv

(* A scenario that says it is complete has closed every connection it made. *)
THEOREM CompleteLeavesNoneOpen == TrafficSpec => []CompleteMeansClosed
<1>1. DriverInv => CompleteMeansClosed
  BY DEF DriverInv, Users, Sockets, CompleteMeansClosed
<1>2. QED BY <1>1, DriverAlways, PTL
===============================================================================
