------------------------------ MODULE MCGoServer ------------------------------
(* GoServer on small instances; the constants' values are in the .cfg files. *)
EXTENDS GoServer, TLC

CONSTANTS c1, c2

(* One client bursts, the other sends a byte.                              *)
Uneven == [c \in Conns |-> IF c = c1 THEN 4 ELSE 1]
===============================================================================
