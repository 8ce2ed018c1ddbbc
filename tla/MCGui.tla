---------------------------------- MODULE MCGui ----------------------------------
(* Gui on small instances; the constants' values are in the .cfg files.    *)
EXTENDS Gui

CONSTANTS f1, f2
===============================================================================
