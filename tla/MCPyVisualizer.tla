----------------------------- MODULE MCPyVisualizer -----------------------------
(* PyVisualizer on small instances; the constants' values are in the .cfg   *)
(* files.                                                                   *)
EXTENDS PyVisualizer

CONSTANTS v1, v2, c1, c2
===============================================================================
