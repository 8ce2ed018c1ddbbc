------------------------------- MODULE MCTraffic --------------------------------
(* Traffic on small instances; the constants' values are in the .cfg files. *)
EXTENDS Traffic

CONSTANTS c1, c2

(* Room for every Write that Window allows.                                *)
Ample == [c \in Conns |-> BufSize + Window + Payload]
===============================================================================
