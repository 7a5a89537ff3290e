-------------------------- MODULE MCCgroupService --------------------------
(* Values for the constants of CgroupService that TLC needs.               *)
EXTENDS MCMatrixService, CgroupService

GroupFaults == {"malloc", "sched_setaffinity", "calloc", "fopen", "fclose"}
=============================================================================
