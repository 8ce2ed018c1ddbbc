--------------------------- MODULE MCEpollVisualServer ---------------------------
(* EpollVisualServer on small instances; the values are in the .cfg files.    *)
EXTENDS EpollVisualServer, TLC

Symmetry == Permutations(Conns)
===============================================================================
