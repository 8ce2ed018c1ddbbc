---------------------------- MODULE MCEpollServer ----------------------------
(* EpollServer on small instances; the values are in the .cfg files. *)
EXTENDS EpollServer
===============================================================================
