-------------------------------- MODULE MCSseHub --------------------------------
(* SseHub on small instances; the constants' values are in the .cfg files.  *)
EXTENDS SseHub

CONSTANTS s1, s2
===============================================================================
