-------------------------- MODULE MCMatrixService --------------------------
(* Values for the constants of MatrixService that TLC needs.               *)
EXTENDS MatrixService, TLC

CONSTANTS c1, c2, c3

(* Dimension 3 and 4 fit in one page, 17 needs two: test_script.sh starts  *)
(* clients of sizes from 3 to 300 together.                                *)
SizesDiffer == c1 :> 3 @@ c2 :> 17 @@ c3 :> 4
SizesOfTwo == c1 :> 3 @@ c2 :> 17
SizesOfOnePage == c1 :> 3 @@ c2 :> 4

(* The clients of fifo_threaded and static_alloc both take negative sizes. *)
SizesOneNegative == c1 :> 17 @@ c2 :> -2 @@ c3 :> 3
OneOfTwoNegative == c1 :> 17 @@ c2 :> -2

NoFaults == {}
AllFaults == {"shm_open", "ftruncate", "mmap", "open", "write", "read",
              "close", "unlink", "sched_setaffinity", "malloc", "calloc",
              "sched_setscheduler", "pthread_create"}

Unlimited == 1000
=============================================================================
