------------------------------ MODULE MCLifecycle -------------------------------
(* Lifecycle on small instances; the constants' values are in the .cfg files. *)
EXTENDS Lifecycle

CONSTANTS g1, v1, v2, byHand
===============================================================================
