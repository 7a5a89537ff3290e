--------------------------- MODULE MatrixPrograms ---------------------------
(***************************************************************************)
(* The matrix products of the repository, as programs over integers that   *)
(* wrap: the stand-alone programs of cache_performance_test and            *)
(* other/single_thread/test_programs, the function dense_mm of             *)
(* other/fifo_single_thread and other/single_thread, and the service of    *)
(* fifo_threaded, where the client makes the segment and the worker        *)
(* multiplies in it.                                                       *)
(*                                                                         *)
(* Coefficients are symbols.  A cell of C is the sequence of the terms     *)
(* added to it, each a pair of an index into A and one into B: two equal   *)
(* sequences are equal in floating point as well.                          *)
(***************************************************************************)
EXTENDS Integers, Sequences

CONSTANTS SQRT_UINT32_MAX,  \* 65536 in the code: its square is 2^32
          Bytes,    \* bytes of one cell of A and one of B; the code has 16
          Team      \* how many threads OpenMP starts

ASSUME LimitIsEven == /\ SQRT_UINT32_MAX \in Nat /\ SQRT_UINT32_MAX > 2
                      /\ SQRT_UINT32_MAX % 2 = 0
ASSUME CellsHaveBytes == Bytes \in Nat \ {0}
ASSUME TeamIsNotEmpty == Team \in Nat \ {0}

Stand_alone == {"dense_mm", "cache_optimal", "parallel", "function"}
Service == {"service", "service_optimal"}
Threads == 0 .. Team - 1

VARIABLES program,  \* which of them runs
          matrix_size,
          pc,
          cells,    \* squared_size
          room,     \* bytes of the segment that holds A and B
          step,     \* [Threads -> Nat]: iterations of the loops done
          term,     \* [Threads -> ...]: the new value of a cell, not stored yet
          temp,     \* [Threads -> Nat]: the cell of A loaded before the inner loop
          C

matrixVars == <<program, matrix_size, pc, cells, room, step, term, temp, C>>

(* The result of an operation on unsigned and on int, with the wrap around *)
(* that the compiler generates for int too.                                *)
Wrap == SQRT_UINT32_MAX * SQRT_UINT32_MAX
Half == Wrap \div 2
Unsigned(x) == x % Wrap
Int_(x) == LET u == Unsigned(x) IN IF u < Half THEN u ELSE u - Wrap

NoTerm == <<>>
Exits == {"done", "refused", "noMemory", "overrun", "BAD_TRUNCATE", "BAD_MMAP",
          "clientKilled"}

MatrixInit ==
    /\ program \in Stand_alone \cup Service
    /\ matrix_size \in -Half .. Half - 1
    /\ pc = "main"
    /\ cells = 0 /\ room = 0 /\ C = NoTerm
    /\ step = [t \in Threads |-> 0]
    /\ term = [t \in Threads |-> NoTerm]
    /\ temp = [t \in Threads |-> 0]

(* The arrays of one product.                                              *)
Allocate == /\ cells' = Unsigned(matrix_size * matrix_size)
            /\ C' = [i \in 0 .. cells' - 1 |-> <<>>]
            /\ pc' = "multiply"
            /\ UNCHANGED <<program, matrix_size, step, term, temp>>

Return(exit) == /\ pc' = exit
                /\ UNCHANGED <<program, matrix_size, cells, room, step, term,
                               temp, C>>

(* Mutant of TooLarge: nothing is refused.                                 *)
NothingTooLarge(n) == FALSE

(* The stand-alone programs compare unsigned numbers, so that a negative   *)
(* size is too large.                                                      *)
TooLarge(n) == Unsigned(n) > SQRT_UINT32_MAX

(* A stand-alone program checks its argument and allocates; malloc is not  *)
(* checked.                                                                *)
Generate ==
    /\ program \in Stand_alone
    /\ pc = "main"
    /\ \/ TooLarge(matrix_size) /\ Return("refused")
       \/ ~TooLarge(matrix_size) /\ Allocate /\ room' = Bytes * cells'
       \/ ~TooLarge(matrix_size) /\ Return("noMemory")

SegmentBytes(n) == Int_(Bytes * n * n)

(* Mutant of MakeSegment: the client leaves it to the server to fill A, B. *)
MakeSegmentOnly ==
    LET bytes == SegmentBytes(matrix_size) IN
    /\ program \in Service
    /\ pc = "main"
    /\ \/ bytes < 0 /\ Return("BAD_TRUNCATE")
       \/ bytes = 0 /\ Return("BAD_MMAP")
       \/ /\ bytes > 0
          /\ room' = bytes
          /\ pc' = "dense_mm"
          /\ UNCHANGED <<program, matrix_size, cells, step, term, temp, C>>

(* The client of the service makes the segment and fills it.  ftruncate    *)
(* refuses a negative length and mmap an empty one.  A length that wrapped *)
(* around to a positive number is too short for the coefficients; for a    *)
(* negative size there are none.                                           *)
MakeSegment ==
    LET bytes == SegmentBytes(matrix_size)
        filled == IF matrix_size < 0 THEN 0 ELSE Bytes * matrix_size * matrix_size
    IN
    /\ program \in Service
    /\ pc = "main"
    /\ \/ bytes < 0 /\ Return("BAD_TRUNCATE")
       \/ bytes = 0 /\ Return("BAD_MMAP")
       \/ bytes > 0 /\ filled > bytes /\ Return("clientKilled")
       \/ /\ bytes > 0 /\ filled <= bytes
          /\ room' = bytes
          /\ pc' = "dense_mm"
          /\ UNCHANGED <<program, matrix_size, cells, step, term, temp, C>>

(* The worker compares int with int: no negative size is too large.  What  *)
(* is, would be answered with zero.                                        *)
StartWorker == /\ pc = "dense_mm"
               /\ IF matrix_size > SQRT_UINT32_MAX
                    THEN Return("refused")
                    ELSE Allocate /\ UNCHANGED room

-----------------------------------------------------------------------------
(* The three nests of loops: what the outer, middle and inner counter are. *)
Naive(outer, middle, inner) ==
    [row |-> outer, col |-> middle, index |-> inner]
CacheOptimal(outer, middle, inner) ==
    [index |-> outer, row |-> middle, col |-> inner]

(* Mutant of Parallel: the loop that OpenMP splits is the one over index.  *)
ParallelIndex(outer, middle, inner) ==
    [index |-> outer, row |-> middle, col |-> inner]

Parallel(outer, middle, inner) ==
    [col |-> outer, row |-> middle, index |-> inner]

(* The counters are unsigned, and so is the bound they are compared with.  *)
N == Unsigned(matrix_size)

(* "omp parallel for" gives each thread a block of the outer loop; the     *)
(* other programs have one thread.                                         *)
Block == (N + Team - 1) \div Team
First(t) == IF program = "parallel" THEN t * Block ELSE IF t = 0 THEN 0 ELSE N
Last(t) == IF program # "parallel" THEN N
           ELSE IF (t + 1) * Block < N THEN (t + 1) * Block ELSE N
Iterations(t) == IF First(t) < Last(t) THEN (Last(t) - First(t)) * N * N ELSE 0

Counters(t) ==
    LET outer == First(t) + step[t] \div (N * N)
        middle == (step[t] \div N) % N
        inner == step[t] % N
    IN  IF program \in {"cache_optimal", "service_optimal"}
          THEN CacheOptimal(outer, middle, inner)
          ELSE IF program = "parallel" THEN Parallel(outer, middle, inner)
          ELSE Naive(outer, middle, inner)

IndexA(k) == Unsigned(k.row * matrix_size + k.index)
IndexB(k) == Unsigned(k.index * matrix_size + k.col)
IndexC(k) == Unsigned(k.row * matrix_size + k.col)
InBounds(k) == /\ IndexC(k) < cells
               /\ Bytes * IndexA(k) < room
               /\ Bytes * (IndexB(k) + 1) <= room

(* The right-hand side of C[...] += ...; the cache-optimal order keeps the *)
(* coefficient of A in temp during the inner loop.                         *)
Load(t) ==
    LET k == Counters(t)
        a == IF program \in {"cache_optimal", "service_optimal"} /\ k.col > 0
               THEN temp[t] ELSE IndexA(k)
    IN
    /\ pc = "multiply"
    /\ step[t] < Iterations(t)
    /\ term[t] = NoTerm
    /\ \/ ~InBounds(k) /\ Return("overrun")
       \/ /\ InBounds(k)
          /\ term' = [term EXCEPT ![t] = Append(C[IndexC(k)], <<a, IndexB(k)>>)]
          /\ temp' = [temp EXCEPT ![t] = a]
          /\ UNCHANGED <<program, matrix_size, pc, cells, room, step, C>>

Store(t) ==
    /\ pc = "multiply"
    /\ term[t] # NoTerm
    /\ C' = [C EXCEPT ![IndexC(Counters(t))] = term[t]]
    /\ term' = [term EXCEPT ![t] = NoTerm]
    /\ step' = [step EXCEPT ![t] = @ + 1]
    /\ UNCHANGED <<program, matrix_size, pc, cells, room, temp>>

Finish == /\ pc = "multiply"
          /\ \A t \in Threads : step[t] = Iterations(t)
          /\ Return("done")

MatrixNext == \/ Generate \/ MakeSegment \/ StartWorker
              \/ \E t \in Threads : Load(t) \/ Store(t)
              \/ Finish

-----------------------------------------------------------------------------
(* Every program that ends in the normal way computed the product, and     *)
(* every cell from the same terms added in the same order: the loop orders *)
(* and the parallel program agree to the last bit (the assertion under     *)
(* VERIFY_PARALLEL; cache_optimal_dense_mm.c in place of dense_mm.c).      *)
Term(row, col, index) == <<row * N + index, index * N + col>>
SameTermsInSameOrder ==
    pc = "done" =>
        \A row, col \in 0 .. N - 1 :
            C[row * N + col] = [i \in 1 .. N |-> Term(row, col, i - 1)]

(* The server is safe from the size of an unraced request unless it is     *)
(* negative: before a size could make the worker leave its arrays, the     *)
(* client fails itself, in ftruncate, in mmap or while it fills A and B    *)
(* (client_fifo.c, memory_matrix_size; dense_mm.c, the test against 65536).*)
OnlyNegativeSizeKillsServer ==
    program \in Service /\ pc = "overrun" => matrix_size < 0

(* A stand-alone program leaves its arrays for the one size its test lets  *)
(* through although the square of it is zero in an unsigned.               *)
OnlyTheLimitOverruns ==
    program \in Stand_alone /\ pc = "overrun" => matrix_size = SQRT_UINT32_MAX
=============================================================================
