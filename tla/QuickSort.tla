----------------------------- MODULE QuickSort -----------------------------
(***************************************************************************)
(* The workload sort.c: a quicksort in place with a random pivot, whose    *)
(* bounds are inclusive although main passes the length as the upper one.  *)
(* The cell behind the array, whatever the allocator keeps there, is       *)
(* sorted with it.                                                         *)
(*                                                                         *)
(* swap goes through an unsigned.  Values are counted in halves, so that   *)
(* an odd one loses its fraction; rand() only gives whole ones.            *)
(***************************************************************************)
EXTENDS Integers, Sequences

CONSTANTS MaxLength,  \* bound on the length of the array
          Whole,      \* values rand() may return, in halves
          Behind      \* what may lie behind the array, in halves

(* Negative values, whose conversion to an unsigned is not defined, are    *)
(* left out.                                                               *)
ASSUME LengthIsBounded == MaxLength \in Nat
ASSUME RandIsWhole == \A x \in Whole : x \in Nat /\ x % 2 = 0
ASSUME BehindConverts == Behind \subseteq Nat

VARIABLES array_size, A, generated, calls
sortVars == <<array_size, A, generated, calls>>

Cells == 0 .. array_size

SortInit == /\ array_size \in 0 .. MaxLength
            /\ \E array \in [0 .. array_size - 1 -> Whole], cell \in Behind :
                  A = [i \in Cells |-> IF i < array_size THEN array[i] ELSE cell]
            /\ generated = A
            /\ calls = << [start |-> 0, end |-> array_size] >>

Whole_(x) == 2 * (x \div 2)
swap(a, i, j) == [a EXCEPT ![i] = a[j], ![j] = Whole_(a[i])]

(* Mutant of Walk: the loop starts behind the first cell.                  *)
WalkFromSecond(a, start, end, pivot_val) ==
    LET walked[i \in start + 1 .. end] ==
            IF i = start + 1 THEN [a |-> a, target |-> start]
            ELSE LET w == walked[i - 1] IN
                 IF w.a[i - 1] > pivot_val THEN w
                 ELSE [a |-> swap(w.a, w.target, i - 1), target |-> w.target + 1]
    IN  walked[end]

(* The loop over index: what is not above the pivot goes to the front.     *)
Walk(a, start, end, pivot_val) ==
    LET walked[i \in start .. end] ==
            IF i = start THEN [a |-> a, target |-> start]
            ELSE LET w == walked[i - 1] IN
                 IF w.a[i - 1] > pivot_val THEN w
                 ELSE [a |-> swap(w.a, w.target, i - 1), target |-> w.target + 1]
    IN  walked[end]

(* partition: the array it leaves, and where the pivot is.                 *)
partition(start, end, pivot) ==
    LET chosen == swap(A, pivot, end)
        w == Walk(chosen, start, end, Whole_(chosen[end]))
    IN  [a |-> swap(w.a, w.target, end), pivot |-> w.target]

(* One call of quicksort, up to its two recursive calls.                   *)
quicksort ==
    /\ calls # <<>>
    /\ LET call == Head(calls) IN
       \/ /\ call.start >= call.end
          /\ calls' = Tail(calls)
          /\ UNCHANGED A
       \/ \E p \in call.start .. call.end - 1 :
             LET result == partition(call.start, call.end, p)
                 left == IF result.pivot > call.start
                           THEN << [call EXCEPT !.end = result.pivot - 1] >>
                           ELSE <<>>
                 right == IF result.pivot < call.end
                            THEN << [call EXCEPT !.start = result.pivot + 1] >>
                            ELSE <<>>
             IN  /\ A' = result.a
                 /\ calls' = left \o right \o Tail(calls)
    /\ UNCHANGED <<array_size, generated>>

-----------------------------------------------------------------------------
(* When the sort is done the array is sorted, as VERIFY_CORRECT tests, and *)
(* so is the cell behind it; what the two hold is what was there before,   *)
(* but for a fraction: the array itself may have lost its largest value.   *)
SortsOneCellTooMany ==
    calls = <<>> =>
        /\ \A i \in 1 .. array_size : A[i - 1] <= A[i]
        /\ \E m \in [Cells -> Cells] :
              /\ \A i, j \in Cells : m[i] = m[j] => i = j
              /\ \A i \in Cells : Whole_(A[i]) = Whole_(generated[m[i]])
=============================================================================
