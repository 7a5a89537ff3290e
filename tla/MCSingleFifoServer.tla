------------------------- MODULE MCSingleFifoServer -------------------------
(* Values for the constants of SingleFifoServer that TLC needs.            *)
EXTENDS SingleFifoServer

CONSTANTS c1, c2, c3

ResultFifo == {"s2c"}
AllFaults == {"read", "close", "unlink"}
=============================================================================
