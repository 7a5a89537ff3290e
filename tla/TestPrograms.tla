---------------------------- MODULE TestPrograms ----------------------------
(***************************************************************************)
(* The workloads of the repository, each a run of one program: a matrix    *)
(* product or a sort.  They have nothing to do with each other.            *)
(***************************************************************************)
EXTENDS MatrixPrograms, QuickSort

vars == <<matrixVars, sortVars>>

NoSort == /\ array_size = 0 /\ calls = <<>>
          /\ A = [i \in Cells |-> 0] /\ generated = A
NoMatrix == /\ program = "sort" /\ matrix_size = 0 /\ pc = "main"
            /\ cells = 0 /\ room = 0 /\ C = NoTerm
            /\ step = <<>> /\ term = <<>> /\ temp = <<>>

Init == (MatrixInit /\ NoSort) \/ (SortInit /\ NoMatrix)

Next == \/ program # "sort" /\ MatrixNext /\ UNCHANGED sortVars
        \/ program = "sort" /\ quicksort /\ UNCHANGED matrixVars

Spec == Init /\ [][Next]_vars
=============================================================================
