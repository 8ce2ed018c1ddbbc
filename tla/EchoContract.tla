------------------------------ MODULE EchoContract ------------------------------
(***************************************************************************)
(* What the C echo servers of src/ promise a client, whatever they do      *)
(* inside: a connection is opened once and closed once; what comes back is *)
(* made of the client's own bytes in the order sent, each at most once and *)
(* none before the server has received it; after the close nothing comes   *)
(* back.  The servers may lose bytes: the contract does not say that every *)
(* byte is echoed.                                                         *)
(***************************************************************************)
EXTENDS Integers, Sequences

CONSTANT Conns

VARIABLES status,    \* "new", "open" or "closed"
          received,  \* bytes received, i.e. the positions 1 .. received
          echoed     \* positions echoed, in the order sent back

contractVars == <<status, received, echoed>>

Increasing(s) == \A i, j \in DOMAIN s : i < j => s[i] < s[j]

ContractInit ==
  /\ status = [c \in Conns |-> "new"]
  /\ received = [c \in Conns |-> 0]
  /\ echoed = [c \in Conns |-> << >>]

OpenConn(c) ==
  /\ status[c] = "new"
  /\ status' = [status EXCEPT ![c] = "open"]
  /\ UNCHANGED <<received, echoed>>

Receive(c) ==
  /\ status[c] = "open"
  /\ received'[c] > received[c]
  /\ received' = [received EXCEPT ![c] = received'[c]]
  /\ UNCHANGED <<status, echoed>>

Echo(c) ==
  /\ status[c] = "open"
  /\ Len(echoed'[c]) > Len(echoed[c])
  /\ SubSeq(echoed'[c], 1, Len(echoed[c])) = echoed[c]
  /\ Increasing(echoed'[c])
  /\ \A i \in DOMAIN echoed'[c] : echoed'[c][i] \in 1 .. received[c]
  /\ echoed' = [echoed EXCEPT ![c] = echoed'[c]]
  /\ UNCHANGED <<status, received>>

CloseConn(c) ==
  /\ status[c] # "closed"
  /\ status' = [status EXCEPT ![c] = "closed"]
  /\ UNCHANGED <<received, echoed>>

ContractNext ==
  \E c \in Conns : OpenConn(c) \/ Receive(c) \/ Echo(c) \/ CloseConn(c)

Contract == ContractInit /\ [][ContractNext]_contractVars
===============================================================================
