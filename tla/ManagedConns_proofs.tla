--------------------------- MODULE ManagedConns_proofs ---------------------------
(* Proofs about ManagedConns, for any set of requests and any payloads.     *)
EXTENDS ManagedConns, TLAPS

(* How the local state of a handler relates to the connections: what was   *)
(* dialled by whom, and which handlers have a connection in hand.          *)
Shape ==
  /\ \A c \in Calls : conn[c] = c <=> end[c] # "none"
  /\ \A r \in Calls : pc[r] \in {"idle", "dial"} => conn[r] = NoConn
  /\ \A r \in Calls : pc[r] = "insert" => conn[r] = r /\ end[r] = "open"
  /\ \A r \in Calls : pc[r] \in {"write", "read", "panicked"} => conn[r] \in Calls

(* The ids given out so far are those up to connCounter.                   *)
Counted ==
  /\ \A r \in Calls : id[r] <= connCounter /\ (id[r] # 0 => pc[r] = "done")
  /\ \A i \in DOMAIN managedConns : i <= connCounter /\ i # 0

Owned == TypeOK /\ Shape /\ OwnedOnce
Numbered == Owned /\ Counted /\ IdsAreForever

-----------------------------------------------------------------------------
LEMMA InitTyped == Init => TypeOK
  BY ManagedConnsAssumption DEF Init, TypeOK

LEMMA StepTyped == TypeOK /\ Shape /\ [Next]_vars => TypeOK'
<1> SUFFICES ASSUME TypeOK, Shape, [Next]_vars PROVE TypeOK'
  OBVIOUS
<1> USE ManagedConnsAssumption DEF TypeOK, Goto, registry, link
<1>1. ASSUME NEW r \in Calls, SpawnDial(r) PROVE TypeOK'
  BY <1>1 DEF SpawnDial, Dial
<1>2. ASSUME NEW r \in Calls, SpawnFails(r) PROVE TypeOK'
  BY <1>2 DEF SpawnFails
<1>3. ASSUME NEW r \in Calls, SpawnInsert(r) PROVE TypeOK'
  BY <1>3 DEF SpawnInsert
<1>4. ASSUME NEW r \in Calls, SendPick(r) PROVE TypeOK'
  <2>1. PICK s \in Sizes : size' = [size EXCEPT ![r] = s] /\ left' = [left EXCEPT ![r] = s]
    BY <1>4 DEF SendPick
  <2>2. conn' \in [Calls -> Calls \cup {NoConn}]
    BY <1>4 DEF SendPick, Managed
  <2>3. pc' \in [Calls -> {"idle", "insert", "dial", "write", "read", "done", "panicked"}]
    BY <1>4 DEF SendPick
  <2> QED
    BY <1>4, <2>1, <2>2, <2>3 DEF SendPick
<1>5. ASSUME NEW r \in Calls, SendDial(r) PROVE TypeOK'
  BY <1>5 DEF SendDial, Dial
<1>6. ASSUME NEW r \in Calls, SendDialFails(r) \/ SendPanics(r) PROVE TypeOK'
  BY <1>6 DEF SendDialFails, SendPanics
<1>7. ASSUME NEW r \in Calls, Collect(r) PROVE TypeOK'
  BY <1>7 DEF Collect
<1>8. ASSUME NEW r \in Calls, WriteSome(r) PROVE TypeOK'
  <2>1. conn[r] \in Calls /\ toServer[conn[r]] \in 0 .. Cap /\ left[r] \in Int
    BY <1>8 DEF WriteSome, Shape
  <2> DEFINE n == Least(left[r], Cap - toServer[conn[r]])
  <2>2. /\ n \in Nat /\ n <= left[r] /\ n <= Cap - toServer[conn[r]]
        /\ left' = [left EXCEPT ![r] = @ - n]
        /\ toServer' = [toServer EXCEPT ![conn[r]] = @ + n]
    <3>1. n \in Int /\ n <= left[r] /\ n <= Cap - toServer[conn[r]]
      BY <2>1 DEF Least
    <3> QED
      BY <1>8, <3>1 DEF WriteSome
  <2> HIDE DEF n
  <2>3. toServer' \in [Calls -> 0 .. Cap]
    BY <2>1, <2>2
  <2>4. left' \in [Calls -> Int] /\ \A q \in Calls : size[q] >= 0 => left'[q] \in 0 .. size[q]
    BY <2>1, <2>2
  <2> QED
    BY <1>8, <2>3, <2>4 DEF WriteSome
<1>9. ASSUME NEW r \in Calls, WriteDone(r) PROVE TypeOK'
  BY <1>9 DEF WriteDone
<1>10. ASSUME NEW r \in Calls, WriteFails(r) \/ ReadNothing(r) PROVE TypeOK'
  BY <1>10 DEF WriteFails, ReadNothing, Finish
<1>11. ASSUME NEW r \in Calls, ReadSome(r) PROVE TypeOK'
  <2>1. conn[r] \in Calls /\ size[r] \in Int
    BY <1>11 DEF ReadSome, Shape
  <2>2. toClient' \in [Calls -> 0 .. Cap]
    BY <1>11, <2>1 DEF ReadSome, Least
  <2> QED
    BY <1>11, <2>2 DEF ReadSome, Finish
<1>12. ASSUME NEW r \in Calls, ChokeClient(r) PROVE TypeOK'
  BY <1>12 DEF ChokeClient
<1>13. ASSUME NEW r \in Calls, CloseClients(r) PROVE TypeOK'
  BY <1>13 DEF CloseClients
<1>14. ASSUME NEW c \in Calls, ServerReads(c) PROVE TypeOK'
  <2>1. toServer' \in [Calls -> 0 .. Cap]
    BY <1>14 DEF ServerReads, Least
  <2> QED
    BY <1>14, <2>1 DEF ServerReads
<1>15. ASSUME NEW c \in Calls, ServerEchoes(c) PROVE TypeOK'
  BY <1>15 DEF ServerEchoes
<1>16. ASSUME NEW c \in Calls, Expire(c) PROVE TypeOK'
  BY <1>16 DEF Expire
<1>17. ASSUME ServerDies PROVE TypeOK'
  BY <1>17 DEF ServerDies
<1>18. CASE UNCHANGED vars
  BY <1>18 DEF vars
<1> QED
  BY <1>1, <1>2, <1>3, <1>4, <1>5, <1>6, <1>7, <1>8, <1>9, <1>10, <1>11, <1>12,
     <1>13, <1>14, <1>15, <1>16, <1>17, <1>18 DEF Next, Arrive, Handler
-----------------------------------------------------------------------------
LEMMA StepShaped == TypeOK /\ Shape /\ OwnedOnce /\ [Next]_vars => Shape'
<1> SUFFICES ASSUME TypeOK, Shape, OwnedOnce, [Next]_vars PROVE Shape'
  OBVIOUS
<1> USE ManagedConnsAssumption DEF TypeOK, Shape, OwnedOnce, HeldByDialer, Managed,
                                   Goto, registry, link
<1>1. ASSUME NEW r \in Calls, SpawnDial(r) PROVE Shape'
  BY <1>1 DEF SpawnDial, Dial
<1>2. ASSUME NEW r \in Calls, SpawnFails(r) \/ SendDialFails(r) \/ ChokeClient(r)
      PROVE  Shape'
  BY <1>2 DEF SpawnFails, SendDialFails, ChokeClient
<1>3. ASSUME NEW r \in Calls, SpawnInsert(r) PROVE Shape'
  BY <1>3 DEF SpawnInsert
<1>4. ASSUME NEW r \in Calls, SendPick(r) PROVE Shape'
  BY <1>4 DEF SendPick
<1>5. ASSUME NEW r \in Calls, SendDial(r) PROVE Shape'
  BY <1>5 DEF SendDial, Dial
<1>6. ASSUME NEW r \in Calls, SendPanics(r) \/ WriteDone(r) PROVE Shape'
  BY <1>6 DEF SendPanics, WriteDone
<1>7. ASSUME NEW r \in Calls, Collect(r) PROVE Shape'
  BY <1>7 DEF Collect, closeAfter
<1>8. ASSUME NEW r \in Calls, WriteSome(r) PROVE Shape'
  BY <1>8 DEF WriteSome
<1>9. ASSUME NEW r \in Calls, WriteFails(r) \/ ReadSome(r) \/ ReadNothing(r)
      PROVE  Shape'
  BY <1>9 DEF WriteFails, ReadSome, ReadNothing, Finish, closeAfter
<1>10. ASSUME NEW r \in Calls, CloseClients(r) PROVE Shape'
  BY <1>10 DEF CloseClients
<1>11. ASSUME NEW c \in Calls, ServerReads(c) \/ ServerEchoes(c) \/ Expire(c)
       PROVE  Shape'
  BY <1>11 DEF ServerReads, ServerEchoes, Expire
<1>12. CASE ServerDies
  BY <1>12 DEF ServerDies
<1>13. CASE UNCHANGED vars
  BY <1>13 DEF vars
<1> QED
  BY <1>1, <1>2, <1>3, <1>4, <1>5, <1>6, <1>7, <1>8, <1>9, <1>10, <1>11, <1>12,
     <1>13 DEF Next, Arrive, Handler

LEMMA StepOwned == TypeOK /\ Shape /\ OwnedOnce /\ Counted /\ [Next]_vars => OwnedOnce'
<1> SUFFICES ASSUME TypeOK, Shape, OwnedOnce, Counted, [Next]_vars PROVE OwnedOnce'
  OBVIOUS
<1> USE ManagedConnsAssumption DEF TypeOK, Shape, OwnedOnce, HeldByDialer, Managed,
                                   Goto, registry, link
<1>1. ASSUME NEW r \in Calls, SpawnDial(r) PROVE OwnedOnce'
  BY <1>1 DEF SpawnDial, Dial
<1>2. ASSUME NEW r \in Calls, SpawnFails(r) \/ SendDialFails(r) \/ ChokeClient(r)
      PROVE  OwnedOnce'
  BY <1>2 DEF SpawnFails, SendDialFails, ChokeClient
<1>3. ASSUME NEW r \in Calls, SpawnInsert(r) PROVE OwnedOnce'
  <2>1. connCounter + 1 \notin DOMAIN managedConns
    BY DEF Counted
  <2>2. /\ DOMAIN managedConns' = DOMAIN managedConns \cup {connCounter + 1}
        /\ managedConns'[connCounter + 1] = r
        /\ \A i \in DOMAIN managedConns : managedConns'[i] = managedConns[i]
    BY <1>3, <2>1 DEF SpawnInsert
  <2>3. conn[r] = r /\ end[r] = "open" /\ r \notin Managed
    BY <1>3 DEF SpawnInsert
  <2>4. Managed' = Managed \cup {r}
    BY <2>1, <2>2
  <2>5. end' = end /\ conn' = conn /\ pc' = [pc EXCEPT ![r] = "done"]
    BY <1>3 DEF SpawnInsert
  <2> QED
    BY <2>1, <2>2, <2>3, <2>4, <2>5
<1>4. ASSUME NEW r \in Calls, SendPick(r) PROVE OwnedOnce'
  BY <1>4 DEF SendPick
<1>5. ASSUME NEW r \in Calls, SendDial(r) PROVE OwnedOnce'
  BY <1>5 DEF SendDial, Dial
<1>6. ASSUME NEW r \in Calls, SendPanics(r) \/ WriteDone(r) PROVE OwnedOnce'
  BY <1>6 DEF SendPanics, WriteDone
<1>7. ASSUME NEW r \in Calls, Collect(r) PROVE OwnedOnce'
  BY <1>7 DEF Collect, closeAfter
<1>8. ASSUME NEW r \in Calls, WriteSome(r) PROVE OwnedOnce'
  BY <1>8 DEF WriteSome
<1>9. ASSUME NEW r \in Calls, WriteFails(r) \/ ReadSome(r) \/ ReadNothing(r)
      PROVE  OwnedOnce'
  BY <1>9 DEF WriteFails, ReadSome, ReadNothing, Finish, closeAfter
<1>10. ASSUME NEW r \in Calls, CloseClients(r) PROVE OwnedOnce'
  BY <1>10 DEF CloseClients
<1>11. ASSUME NEW c \in Calls, ServerReads(c) \/ ServerEchoes(c) \/ Expire(c)
       PROVE  OwnedOnce'
  BY <1>11 DEF ServerReads, ServerEchoes, Expire
<1>12. CASE ServerDies
  BY <1>12 DEF ServerDies
<1>13. CASE UNCHANGED vars
  BY <1>13 DEF vars
<1> QED
  BY <1>1, <1>2, <1>3, <1>4, <1>5, <1>6, <1>7, <1>8, <1>9, <1>10, <1>11, <1>12,
     <1>13 DEF Next, Arrive, Handler

LEMMA StepCounted ==
  TypeOK /\ Shape /\ OwnedOnce /\ Counted /\ IdsAreForever /\ [Next]_vars
    => (Counted /\ IdsAreForever)'
<1> SUFFICES ASSUME TypeOK, Shape, OwnedOnce, Counted, IdsAreForever, [Next]_vars
             PROVE  (Counted /\ IdsAreForever)'
  OBVIOUS
<1> USE DEF TypeOK, Shape, Counted, IdsAreForever, Goto, registry, link
<1>1. ASSUME NEW r \in Calls, SpawnDial(r) PROVE (Counted /\ IdsAreForever)'
  BY <1>1 DEF SpawnDial, Dial
<1>2. ASSUME NEW r \in Calls, SpawnFails(r) \/ SendDialFails(r) \/ ChokeClient(r)
      PROVE  (Counted /\ IdsAreForever)'
  BY <1>2 DEF SpawnFails, SendDialFails, ChokeClient
<1>3. ASSUME NEW r \in Calls, SpawnInsert(r) PROVE (Counted /\ IdsAreForever)'
  BY <1>3 DEF SpawnInsert
<1>4. ASSUME NEW r \in Calls, SendPick(r) PROVE (Counted /\ IdsAreForever)'
  BY <1>4 DEF SendPick
<1>5. ASSUME NEW r \in Calls, SendDial(r) PROVE (Counted /\ IdsAreForever)'
  BY <1>5 DEF SendDial, Dial
<1>6. ASSUME NEW r \in Calls, SendPanics(r) \/ WriteDone(r) PROVE (Counted /\ IdsAreForever)'
  BY <1>6 DEF SendPanics, WriteDone
<1>7. ASSUME NEW r \in Calls, Collect(r) PROVE (Counted /\ IdsAreForever)'
  BY <1>7 DEF Collect, closeAfter
<1>8. ASSUME NEW r \in Calls, WriteSome(r) PROVE (Counted /\ IdsAreForever)'
  BY <1>8 DEF WriteSome
<1>9. ASSUME NEW r \in Calls, WriteFails(r) \/ ReadSome(r) \/ ReadNothing(r)
      PROVE  (Counted /\ IdsAreForever)'
  BY <1>9 DEF WriteFails, ReadSome, ReadNothing, Finish, closeAfter
<1>10. ASSUME NEW r \in Calls, CloseClients(r) PROVE (Counted /\ IdsAreForever)'
  BY <1>10 DEF CloseClients
<1>11. ASSUME NEW c \in Calls, ServerReads(c) \/ ServerEchoes(c) \/ Expire(c)
       PROVE  (Counted /\ IdsAreForever)'
  BY <1>11 DEF ServerReads, ServerEchoes, Expire
<1>12. CASE ServerDies
  BY <1>12 DEF ServerDies
<1>13. CASE UNCHANGED vars
  BY <1>13 DEF vars
<1> QED
  BY <1>1, <1>2, <1>3, <1>4, <1>5, <1>6, <1>7, <1>8, <1>9, <1>10, <1>11, <1>12,
     <1>13 DEF Next, Arrive, Handler-----------------------------------------------------------------------------
LEMMA InitNumbered == Init => Numbered
<1> SUFFICES ASSUME Init PROVE Numbered
  OBVIOUS
<1>1. TypeOK
  BY InitTyped
<1>2. Shape
  BY ManagedConnsAssumption DEF Init, Shape
<1>3. OwnedOnce
  BY DEF Init, OwnedOnce, Managed, HeldByDialer
<1>4. Counted /\ IdsAreForever
  BY DEF Init, Counted, IdsAreForever
<1> QED
  BY <1>1, <1>2, <1>3, <1>4 DEF Numbered, Owned

LEMMA StepNumbered == Numbered /\ [Next]_vars => Numbered'
  BY StepTyped, StepShaped, StepOwned, StepCounted DEF Numbered, Owned

LEMMA AlwaysNumbered == Spec => []Numbered
  BY InitNumbered, StepNumbered, PTL DEF Spec

(* handleSpawnClient .. handleCloseClients: the state is well typed, no    *)
(* connection holds more than it can, and Write counts its payload down.   *)
THEOREM ManagedTypeCorrect == Spec => []TypeOK
  BY AlwaysNumbered, PTL DEF Numbered, Owned

(* Every connection the visualizer has open is in managedConns once or in  *)
(* the hands of the handler that dialled it, however many requests overlap. *)
THEOREM ConnectionsAreOwned == Spec => []OwnedOnce
  BY AlwaysNumbered, PTL DEF Numbered, Owned

(* spawn_client never answers the same client_id twice.                    *)
THEOREM IdsStayUnique == Spec => []IdsAreForever
  BY AlwaysNumbered, PTL DEF Numbered
===============================================================================
