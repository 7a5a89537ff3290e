---------------------------- MODULE MCEpollServer ----------------------------
(* Values for the constants of EpollServer that TLC needs.                 *)
EXTENDS EpollServer

CONSTANTS c1, c2, c3, c4
=============================================================================
