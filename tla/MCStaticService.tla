-------------------------- MODULE MCStaticService --------------------------
(* Values for the constants of StaticService that TLC needs.               *)
EXTENDS MCMatrixService, StaticService

AllocationFaults == {"make_list", "create_node", "malloc"}

(* Two clients run: c1, and one with a negative or one with a smaller size.*)
OneOfTheOthers == cpc[c2] = "mkfifo" \/ cpc[c3] = "mkfifo"
=============================================================================
