---------------------------- MODULE MCEpollBufferedServer ----------------------------
(* EpollBufferedServer on small instances; the values are in the .cfg files. *)
EXTENDS EpollBufferedServer
===============================================================================
