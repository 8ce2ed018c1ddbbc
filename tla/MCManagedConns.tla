----------------------------- MODULE MCManagedConns -----------------------------
(* ManagedConns on a small instance: three requests, each of any kind; a     *)
(* payload no Go slice has, one byte, and one the connection cannot hold.  *)
EXTENDS ManagedConns

CONSTANTS r1, r2, r3

PayloadSizes == {-1, 0, 1, 5}
===============================================================================
