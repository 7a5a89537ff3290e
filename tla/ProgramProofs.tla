--------------------------- MODULE ProgramProofs ---------------------------
(***************************************************************************)
(* The workloads, whatever their arguments.  For every width of an int,    *)
(* every size of a cell and every number of OpenMP threads: which sizes    *)
(* leave the arrays of the matrix programs (OnlyNegativeSizeKillsServer,   *)
(* OnlyTheLimitOverruns), and that all of them that end in the normal way  *)
(* compute every cell of the product from the same terms in the same order *)
(* (SameTermsInSameOrder).  For every length and every number rand() can   *)
(* return: what the quicksort leaves (SortsOneCellTooMany).                *)
(***************************************************************************)
EXTENDS TestPrograms, SequenceTheorems, WellFoundedInduction, TLAPS

(* What holds of the arrays when the loops start.                          *)
Optimal == program \in {"cache_optimal", "service_optimal"}
ProgramTypeOK ==
    /\ program \in Stand_alone \cup Service \cup {"sort"}
    /\ matrix_size \in -Half .. Half - 1
    /\ program = "sort" => pc = "main"
    /\ program # "sort" => step \in [Threads -> Nat] /\ DOMAIN term = Threads
                           /\ temp \in [Threads -> Int]
    /\ pc \in {"main", "dense_mm"} /\ program # "sort" =>
          \A t \in Threads : step[t] = 0 /\ term[t] = NoTerm
SegmentInv ==
    pc \in {"dense_mm", "multiply"} /\ program \in Service =>
        /\ room = SegmentBytes(matrix_size) /\ room > 0
        /\ matrix_size >= 0 => Bytes * matrix_size * matrix_size <= room
ArraysInv ==
    /\ pc = "dense_mm" => program \in Service
    /\ pc = "multiply" =>
          /\ cells = Unsigned(matrix_size * matrix_size)
          /\ program \in Service => matrix_size <= SQRT_UINT32_MAX
          /\ program \in Stand_alone => /\ ~TooLarge(matrix_size)
                                        /\ room = Bytes * cells
OverrunInv == OnlyNegativeSizeKillsServer /\ OnlyTheLimitOverruns
SizeInv == ProgramTypeOK /\ SegmentInv /\ ArraysInv /\ OverrunInv

(* The sizes for which every index is that of a cell, but zero.            *)
Regular == /\ matrix_size > 0 /\ cells = matrix_size * matrix_size
           /\ Bytes * matrix_size * matrix_size <= room
           /\ N = matrix_size

(* Where an iteration stands in the order of its thread.                   *)
Serial(t, k) ==
    IF Optimal THEN (k.index * N + k.row) * N + k.col
    ELSE IF program = "parallel"
      THEN ((k.col - First(t)) * N + k.row) * N + k.index
      ELSE (k.row * N + k.col) * N + k.index
Iteration(row, col, index) == [row |-> row, col |-> col, index |-> index]
Owns(t, col) == First(t) <= col /\ col < Last(t)

(* No iteration was done that is not in bounds; without Regular the loops  *)
(* do not get far.                                                         *)
StepsInBounds ==
    pc = "multiply" =>
        \A t \in Threads : /\ step[t] <= Iterations(t)
                           /\ term[t] # NoTerm => /\ step[t] < Iterations(t)
                                                  /\ InBounds(Counters(t))
StuckInv ==
    pc = "multiply" => /\ matrix_size < 0 => step[0] < Half
                       /\ cells = 0 => \A t \in Threads : step[t] = 0

(* A cell has the terms of the iterations done, in the order of index.     *)
Cell(row, col) == C[row * N + col]
CellsGrowInOrder ==
    \A row, col \in 0 .. N - 1 :
        /\ Len(Cell(row, col)) <= N
        /\ \A i \in 1 .. Len(Cell(row, col)) : Cell(row, col)[i] = Term(row, col, i - 1)
CellsHaveDone ==
    \A row, col, index \in 0 .. N - 1 : \A t \in Threads :
        Owns(t, col) => (index < Len(Cell(row, col))
                            <=> Serial(t, Iteration(row, col, index)) < step[t])
TermsAreNext ==
    \A t \in Threads : term[t] # NoTerm =>
        LET k == Counters(t) IN
        term[t] = Append(Cell(k.row, k.col), Term(k.row, k.col, k.index))
TempIsLoaded ==
    \A t \in Threads : Optimal /\ (Counters(t).col > 0 \/ term[t] # NoTerm)
                          => temp[t] = IndexA(Counters(t))
ProductInv ==
    pc = "multiply" /\ Regular =>
        /\ C \in [0 .. cells - 1 -> Seq(Int \X Int)]
        /\ CellsGrowInOrder /\ CellsHaveDone
        /\ TermsAreNext /\ TempIsLoaded

ProgramInv == /\ SizeInv /\ StepsInBounds /\ StuckInv /\ ProductInv
              /\ SameTermsInSameOrder

-----------------------------------------------------------------------------
(* Arithmetic: what % and \div give, and numbers written in a base.        *)
LEMMA ModFacts ==
    ASSUME NEW x \in Int, NEW m \in Nat \ {0}
    PROVE  /\ x % m \in 0 .. m - 1
           /\ 0 <= x /\ x < m => x % m = x
           /\ x % m = x - m * (x \div m)
<1>1. x % m \in 0 .. m - 1
  OBVIOUS
<1>2. x % m = x - m * (x \div m)
  OBVIOUS
<1>3. 0 <= x /\ x < m => x % m = x
  OBVIOUS
<1> QED BY <1>1, <1>2, <1>3

LEMMA DivFacts ==
    ASSUME NEW q \in Nat, NEW m \in Nat \ {0}, NEW r \in 0 .. m - 1
    PROVE  /\ (q * m + r) % m = r
           /\ (q * m + r) \div m = q
  OBVIOUS

LEMMA TwoDigits ==
    ASSUME NEW n \in Nat \ {0}, NEW a \in Nat, NEW b \in Nat,
           NEW x \in 0 .. n - 1, NEW y \in 0 .. n - 1
    PROVE  /\ a * n + x \in Nat
           /\ a * n + x < b * n + y <=> a < b \/ (a = b /\ x < y)
           /\ a < b => a * n + x < b * n
           /\ a * n + x = b * n + y => a = b /\ x = y
<1>0. a * n \in Nat /\ b * n \in Nat
  OBVIOUS
<1>1. ASSUME NEW c \in Nat, NEW d \in Nat, c < d
      PROVE  c * n + n <= d * n
  <2>1. PICK e \in Nat : d = c + 1 + e
    <3>1. d - c - 1 \in Nat /\ d = c + 1 + (d - c - 1)
      BY <1>1
    <3> QED BY <3>1
  <2>2. d * n = c * n + n + e * n /\ e * n \in Nat /\ c * n \in Nat
    BY <2>1
  <2> QED BY <2>2
<1>2. a < b => a * n + n <= b * n
  BY <1>1
<1>3. b < a => b * n + n <= a * n
  BY <1>1
<1> DEFINE an == a * n
           bn == b * n
<1>4. an \in Nat /\ bn \in Nat /\ (a = b => an = bn)
      /\ (a < b => an + n <= bn) /\ (b < a => bn + n <= an)
  BY <1>0, <1>2, <1>3
<1> HIDE DEF an, bn
<1>5. /\ an + x \in Nat
      /\ an + x < bn + y <=> a < b \/ (a = b /\ x < y)
      /\ a < b => an + x < bn
      /\ an + x = bn + y => a = b /\ x = y
  BY <1>4
<1> QED BY <1>5 DEF an, bn

(* The three counters of a nest of loops, as the digits of the step.       *)
LEMMA ThreeDigits ==
    ASSUME NEW n \in Nat \ {0},
           NEW p \in Nat, NEW q \in Nat,
           NEW m \in 0 .. n - 1, NEW l \in 0 .. n - 1,
           NEW i \in 0 .. n - 1, NEW j \in 0 .. n - 1
    PROVE  /\ (p * n + m) * n + i \in Nat
           /\ (p * n + m) * n + i < (q * n + l) * n + j
                 <=> p < q \/ (p = q /\ (m < l \/ (m = l /\ i < j)))
           /\ (p * n + m) * n + i = (q * n + l) * n + j
                 => p = q /\ m = l /\ i = j
           /\ p < q => (p * n + m) * n + i < q * n * n
<1> DEFINE a == p * n + m
           b == q * n + l
<1>1. /\ a \in Nat /\ b \in Nat
      /\ a < b <=> p < q \/ (p = q /\ m < l)
      /\ a = b => p = q /\ m = l
      /\ p = q /\ m = l => a = b
      /\ p < q => a < q * n
  BY TwoDigits
<1>2. q * n \in Nat
  OBVIOUS
<1> HIDE DEF a, b
<1>3. /\ a * n + i \in Nat
      /\ a * n + i < b * n + j <=> a < b \/ (a = b /\ i < j)
      /\ a * n + i = b * n + j => a = b /\ i = j
  BY <1>1, TwoDigits
<1>4. a < q * n => a * n + i < (q * n) * n
  BY <1>1, <1>2, TwoDigits
<1> QED BY <1>1, <1>3, <1>4 DEF a, b

LEMMA DigitsOfStep ==
    ASSUME NEW n \in Nat \ {0}, NEW s \in Nat
    PROVE  /\ s \div (n * n) \in Nat
           /\ (s \div n) % n \in 0 .. n - 1
           /\ s % n \in 0 .. n - 1
           /\ s = ((s \div (n * n)) * n + ((s \div n) % n)) * n + (s % n)
<1> DEFINE q == s \div n
           i == s % n
           p == q \div n
           m == q % n
<1>1. q \in Nat /\ i \in 0 .. n - 1 /\ s = q * n + i
  OBVIOUS
<1>2. p \in Nat /\ m \in 0 .. n - 1 /\ q = p * n + m
  BY <1>1
<1> HIDE DEF p, m, q, i
<1>3. m * n + i \in 0 .. n * n - 1 /\ n * n \in Nat \ {0}
  <2>1. m * n + i < n * n /\ m * n + i \in Nat
    BY <1>1, <1>2, TwoDigits
  <2> QED BY <2>1
<1>4. s = p * (n * n) + (m * n + i)
  BY <1>1, <1>2
<1>5. s \div (n * n) = p
  <2>1. \A u \in Nat, v \in Nat \ {0} : \A r \in 0 .. v - 1 : (u * v + r) \div v = u
    BY DivFacts
  <2> QED BY <1>2, <1>3, <1>4, <2>1
<1>6. s = (p * n + m) * n + i
  BY <1>1, <1>2
<1>7. s = ((s \div (n * n)) * n + m) * n + i
  BY <1>5, <1>6, Zenon
<1>8. s \div (n * n) \in Nat
  BY <1>2, <1>5, Zenon
<1> QED BY <1>1, <1>2, <1>7, <1>8, Zenon DEF q, i, m

(* The inner counter goes up before the others do.                         *)
LEMMA NextDigit ==
    ASSUME NEW n \in Nat \ {0}, NEW s \in Nat, (s + 1) % n > 0
    PROVE  (s + 1) \div n = s \div n /\ (s + 1) \div (n * n) = s \div (n * n)
<1> DEFINE q == s \div n
           i == s % n
           p == q \div n
           m == q % n
<1>1. q \in Nat /\ i \in 0 .. n - 1 /\ s = q * n + i
  OBVIOUS
<1>2. p \in Nat /\ m \in 0 .. n - 1 /\ q = p * n + m
  BY <1>1
<1> HIDE DEF p, m, q, i
<1>3. i + 1 \in 0 .. n - 1
  <2>1. SUFFICES ASSUME i + 1 = n PROVE FALSE
    BY <1>1
  <2>2. s + 1 = (q + 1) * n + 0
    BY <1>1, <2>1
  <2>3. 0 \in 0 .. n - 1 /\ q + 1 \in Nat
    BY <1>1
  <2>4. ((q + 1) * n + 0) % n = 0
    BY <2>3, DivFacts
  <2> QED BY <2>2, <2>4
<1>4. s + 1 = q * n + (i + 1)
  BY <1>1
<1>5. (s + 1) \div n = q
  BY <1>1, <1>3, <1>4, DivFacts
<1>6. ASSUME NEW j \in 0 .. n - 1
      PROVE  (q * n + j) \div (n * n) = p
  <2>1. m * n + j \in 0 .. n * n - 1 /\ n * n \in Nat \ {0}
    <3>1. m * n + j < n * n /\ m * n + j \in Nat
      BY <1>2, TwoDigits
    <3> QED BY <3>1
  <2>2. q * n + j = p * (n * n) + (m * n + j)
    BY <1>1, <1>2
  <2>3. \A u \in Nat, v \in Nat \ {0} : \A r \in 0 .. v - 1 : (u * v + r) \div v = u
    BY DivFacts
  <2> QED BY <1>2, <2>1, <2>2, <2>3
<1>7. s \div (n * n) = p /\ (s + 1) \div (n * n) = p
  BY <1>1, <1>3, <1>4, <1>6
<1> QED BY <1>5, <1>7 DEF q

LEMMA WrapFacts ==
    /\ Wrap \in Nat \ {0} /\ Half \in Nat /\ Wrap = 2 * Half
    /\ Half > SQRT_UINT32_MAX
<1> DEFINE k == SQRT_UINT32_MAX \div 2
<1>1. k \in Nat /\ SQRT_UINT32_MAX = 2 * k /\ k >= 2
  BY LimitIsEven
<1> HIDE DEF k
<1>2. k * k \in Nat /\ k * k >= 2 * k
  BY <1>1
<1>3. Wrap = 4 * (k * k)
  BY <1>1 DEF Wrap
<1>4. Half = 2 * (k * k)
  BY <1>2, <1>3 DEF Half
<1> QED BY <1>1, <1>2, <1>3, <1>4

LEMMA UnsignedFacts ==
    ASSUME NEW x \in Int
    PROVE  /\ Unsigned(x) \in 0 .. Wrap - 1
           /\ 0 <= x /\ x < Wrap => Unsigned(x) = x
           /\ -Half <= x /\ x < 0 => Unsigned(x) = x + Wrap
           /\ 0 <= x => Int_(x) <= x
           /\ Int_(x) < Half
<1>1. Unsigned(x) \in 0 .. Wrap - 1 /\ (0 <= x /\ x < Wrap => Unsigned(x) = x)
  BY WrapFacts, ModFacts DEF Unsigned
<1>2. 0 <= x => Unsigned(x) <= x
  BY <1>1, WrapFacts
<1>3. ASSUME -Half <= x, x < 0
      PROVE  Unsigned(x) = x + Wrap
  <2>1. x + Wrap \in 0 .. Wrap - 1 /\ x = (-1) * Wrap + (x + Wrap)
    BY <1>3, WrapFacts
  <2>2. \A w \in Nat \ {0} : \A r \in 0 .. w - 1 : (r - w) % w = r
    OBVIOUS
  <2>3. Unsigned(x) = ((x + Wrap) - Wrap) % Wrap
    BY WrapFacts DEF Unsigned
  <2> QED BY <2>1, <2>2, <2>3, WrapFacts
<1> QED BY <1>1, <1>2, <1>3, WrapFacts DEF Int_


-----------------------------------------------------------------------------
(* The argument of a product that has its arrays: a regular one, zero, a   *)
(* negative one of the service or the limit of a stand-alone program.      *)
LEMMA SizesAtWork ==
    ASSUME ProgramTypeOK, SegmentInv, ArraysInv, pc = "multiply"
    PROVE  \/ Regular
           \/ matrix_size = 0 /\ N = 0 /\ cells = 0
           \/ /\ program \in Service /\ matrix_size < 0
              /\ room > 0 /\ room < Half /\ room \in Int
              /\ N = matrix_size + Wrap
           \/ /\ program \in Stand_alone /\ matrix_size = SQRT_UINT32_MAX
              /\ cells = 0 /\ N = SQRT_UINT32_MAX
<1> DEFINE n == matrix_size
<1>0. n \in Int /\ -Half <= n /\ n < Half /\ n * n \in Nat /\ Bytes * n * n \in Nat
  <2>1. n \in Int /\ Bytes \in Nat
    BY WrapFacts, CellsHaveBytes DEF ProgramTypeOK
  <2>2. n * n \in Nat
    BY <2>1
  <2>3. Bytes * (n * n) \in Nat /\ Bytes * (n * n) = Bytes * n * n
    BY <2>1, <2>2
  <2> QED BY <2>1, <2>2, <2>3, WrapFacts DEF ProgramTypeOK
<1>1. n >= 0 => N = n
  BY <1>0, WrapFacts, UnsignedFacts DEF N
<1>2. n < 0 => N = n + Wrap
  BY <1>0, UnsignedFacts DEF N
<1>3. program \in Stand_alone \/ program \in Service
  BY DEF ProgramTypeOK
<1>4. n * n < Wrap => cells = n * n
  BY <1>0, UnsignedFacts DEF ArraysInv
<1>5. n = 0 => cells = 0 /\ N = 0
  BY <1>0, <1>1, <1>4, WrapFacts
<1>6. ASSUME program \in Service, n > 0
      PROVE  Regular
  <2>1. room = Int_(Bytes * n * n) /\ Bytes * n * n <= room
    BY <1>0, <1>6 DEF SegmentInv, SegmentBytes
  <2>2. Bytes * n * n < Half
    <3>1. Int_(Bytes * n * n) < Half
      BY <1>0, UnsignedFacts
    <3>2. Int_(Bytes * n * n) \in Int
      BY <1>0, UnsignedFacts, WrapFacts DEF Int_
    <3> QED BY <1>0, <2>1, <3>1, <3>2, WrapFacts
  <2>3. n * n <= Bytes * n * n
    <3>1. PICK b \in Nat : Bytes = b + 1
      <4>1. Bytes - 1 \in Nat /\ Bytes = (Bytes - 1) + 1
        BY CellsHaveBytes
      <4> QED BY <4>1
    <3>2. Bytes * n * n = b * (n * n) + n * n /\ b * (n * n) \in Nat
      BY <1>0, <3>1
    <3> QED BY <1>0, <3>2
  <2>4. cells = n * n
    BY <1>0, <1>4, <2>2, <2>3, WrapFacts
  <2> QED BY <1>0, <1>1, <1>6, <2>1, <2>4 DEF Regular
<1>7. ASSUME program \in Service, n < 0
      PROVE  room > 0 /\ room < Half /\ room \in Int
  <2>1. room = Int_(Bytes * n * n) /\ room > 0
    BY <1>7 DEF SegmentInv, SegmentBytes
  <2> QED BY <1>0, <2>1, UnsignedFacts, WrapFacts DEF Int_
<1>8. ASSUME program \in Stand_alone
      PROVE  0 <= n /\ n <= SQRT_UINT32_MAX
  <2>1. Unsigned(n) <= SQRT_UINT32_MAX
    BY <1>0, <1>8, LimitIsEven, UnsignedFacts, WrapFacts DEF ArraysInv, TooLarge
  <2> QED BY <1>0, <2>1, LimitIsEven, WrapFacts, UnsignedFacts
<1>9. ASSUME program \in Stand_alone, n > 0, n # SQRT_UINT32_MAX
      PROVE  Regular
  <2>1. n < SQRT_UINT32_MAX
    BY <1>0, <1>8, <1>9, LimitIsEven
  <2>2. n * n < Wrap
    <3>1. 0 * SQRT_UINT32_MAX + 0 \in Nat /\ (n * SQRT_UINT32_MAX + 0 < SQRT_UINT32_MAX * SQRT_UINT32_MAX)
      BY <1>0, <1>9, <2>1, LimitIsEven, TwoDigits
    <3>2. n * n <= n * SQRT_UINT32_MAX
      <4>1. PICK e \in Nat : SQRT_UINT32_MAX = n + e
        <5>1. SQRT_UINT32_MAX - n \in Nat /\ SQRT_UINT32_MAX = n + (SQRT_UINT32_MAX - n)
          BY <1>0, <2>1, LimitIsEven
        <5> QED BY <5>1
      <4>2. n * SQRT_UINT32_MAX = n * n + n * e /\ n * e \in Nat
        BY <1>0, <1>9, <4>1
      <4> QED BY <1>0, <4>2
    <3> QED BY <1>0, <3>1, <3>2, LimitIsEven DEF Wrap
  <2>3. cells = n * n /\ room = Bytes * cells
    BY <1>4, <1>9, <2>2 DEF ArraysInv
  <2>4. Bytes * n * n <= room
    BY <1>0, <2>3, CellsHaveBytes
  <2> QED BY <1>0, <1>1, <1>9, <2>3, <2>4 DEF Regular
<1>10. ASSUME n = SQRT_UINT32_MAX, program \in Stand_alone
       PROVE  cells = 0
  <2>1. n * n = 1 * Wrap + 0
    BY <1>10, LimitIsEven DEF Wrap
  <2>2. (1 * Wrap + 0) % Wrap = 0
    BY WrapFacts, DivFacts
  <2> QED BY <2>1, <2>2 DEF ArraysInv, Unsigned
<1> QED
  BY <1>0, <1>1, <1>2, <1>3, <1>5, <1>6, <1>7, <1>8, <1>9, <1>10, LimitIsEven

(* An iteration of a thread is inside the nest of loops, in the part of it *)
(* the thread has.                                                         *)
LEMMA CountersInRange ==
    ASSUME program \in Stand_alone \cup Service, N \in Nat \ {0},
           NEW t \in Threads, step[t] \in Nat, step[t] < Iterations(t)
    PROVE  LET k == Counters(t) IN
           /\ k.row \in 0 .. N - 1 /\ k.col \in 0 .. N - 1 /\ k.index \in 0 .. N - 1
           /\ Owns(t, k.col)
           /\ Serial(t, k) = step[t]
           /\ k = Iteration(k.row, k.col, k.index)
<1> DEFINE n == N
           s == step[t]
           p == s \div (n * n)
           m == (s \div n) % n
           i == s % n
<1>1. /\ p \in Nat /\ m \in 0 .. n - 1 /\ i \in 0 .. n - 1
      /\ s = (p * n + m) * n + i
  BY DigitsOfStep
<1>2. First(t) \in Nat /\ Last(t) \in Int /\ Last(t) <= n
  <2>1. Block \in Nat
    BY TeamIsNotEmpty DEF Block
  <2>2. t \in Nat /\ t * Block \in Nat /\ (t + 1) * Block \in Nat
    BY <2>1, TeamIsNotEmpty DEF Threads
  <2> QED BY <2>2 DEF First, Last
<1> DEFINE w == Last(t) - First(t)
<1>3. w \in Nat /\ w > 0 /\ s < w * n * n
  BY <1>2 DEF Iterations
<1>4. p < w
  <2> HIDE DEF w, p, m, i
  <2>1. SUFFICES ASSUME ~(p < w) PROVE FALSE
    OBVIOUS
  <2>2. PICK e \in Nat : p = w + e
    <3>1. p - w \in Nat /\ p = w + (p - w)
      BY <1>1, <1>3, <2>1
    <3> QED BY <3>1
  <2>3. (p * n + m) * n + i = w * n * n + e * (n * n) + m * n + i
    BY <1>1, <1>3, <2>2
  <2>4. e * (n * n) \in Nat /\ m * n \in Nat /\ w * n * n \in Nat
    BY <1>1, <1>3, <2>2
  <2> QED BY <1>1, <1>3, <2>3, <2>4
<1> HIDE DEF w, p, m, i
<1>5. First(t) + p \in Nat /\ First(t) + p < Last(t) /\ First(t) + p < n
  BY <1>1, <1>2, <1>3, <1>4 DEF w
<1>6. program # "parallel" => t = 0 /\ First(t) = 0 /\ Last(t) = n
  BY <1>2, <1>3 DEF w, First, Last
<1>7. (Optimal => program # "parallel")
      /\ (Optimal <=> program \in {"cache_optimal", "service_optimal"})
  BY DEF Optimal
<1> DEFINE o == First(t) + p
<1>8. Counters(t) = IF Optimal THEN CacheOptimal(o, m, i)
                    ELSE IF program = "parallel" THEN Parallel(o, m, i)
                    ELSE Naive(o, m, i)
  BY <1>7 DEF Counters, p, m, i
<1>9. o \in Nat /\ o < n /\ First(t) <= o /\ o < Last(t) /\ o - First(t) = p
      /\ s = ((o - First(t)) * n + m) * n + i
  <2>1. o - First(t) = p
    BY <1>1, <1>2
  <2> QED BY <1>1, <1>2, <1>5, <2>1
<1> HIDE DEF o, s
<1>10. CASE Optimal
  <2>1. Counters(t) = [index |-> o, row |-> m, col |-> i]
    BY <1>8, <1>10 DEF CacheOptimal
  <2>2. o - First(t) = o
    BY <1>6, <1>7, <1>9, <1>10
  <2> QED BY <1>1, <1>6, <1>7, <1>9, <1>10, <2>1, <2>2 DEF Owns, Serial, Iteration, s
<1>11. CASE ~Optimal /\ program = "parallel"
  <2>1. Counters(t) = [col |-> o, row |-> m, index |-> i]
    BY <1>8, <1>11 DEF Parallel
  <2> QED BY <1>1, <1>9, <1>11, <2>1 DEF Owns, Serial, Iteration, s
<1>12. CASE ~Optimal /\ program # "parallel"
  <2>1. Counters(t) = [row |-> o, col |-> m, index |-> i]
    BY <1>8, <1>12 DEF Naive
  <2>2. o - First(t) = o
    BY <1>6, <1>9, <1>12
  <2> QED BY <1>1, <1>6, <1>9, <1>12, <2>1, <2>2 DEF Owns, Serial, Iteration, s
<1> QED BY <1>10, <1>11, <1>12

(* With a regular size no index wraps or is behind the arrays.             *)
LEMMA RegularInBounds ==
    ASSUME ProgramTypeOK, SegmentInv, ArraysInv, pc = "multiply", Regular,
           NEW row \in 0 .. N - 1, NEW col \in 0 .. N - 1, NEW index \in 0 .. N - 1
    PROVE  LET k == Iteration(row, col, index) IN
           /\ InBounds(k)
           /\ IndexA(k) = row * N + index /\ IndexB(k) = index * N + col
           /\ IndexC(k) = row * N + col
           /\ row * N + index \in 0 .. cells - 1 /\ index * N + col \in 0 .. cells - 1
           /\ row * N + col \in 0 .. cells - 1
<1> DEFINE n == N
<1>1. /\ n \in Nat \ {0} /\ matrix_size = n /\ cells = n * n
      /\ n * n \in Nat /\ n * n < Wrap /\ Bytes * n * n <= room /\ Bytes \in Nat \ {0}
  <2>1. matrix_size \in Nat \ {0}
    BY WrapFacts DEF Regular, ProgramTypeOK
  <2>2. matrix_size * matrix_size \in Nat
    BY <2>1
  <2>3. matrix_size * matrix_size < Wrap
    BY <2>2, UnsignedFacts, WrapFacts DEF Regular, ArraysInv
  <2> QED BY <2>1, <2>2, <2>3, CellsHaveBytes DEF Regular
<1>2. ASSUME NEW x \in 0 .. n - 1, NEW y \in 0 .. n - 1
      PROVE  /\ x * n + y \in 0 .. n * n - 1
             /\ Unsigned(x * n + y) = x * n + y
  <2>1. x * n + y \in Nat /\ x * n + y < n * n
    BY <1>1, TwoDigits
  <2> QED BY <1>1, <2>1, UnsignedFacts, WrapFacts
<1>3. ASSUME NEW x \in 0 .. n * n - 1
      PROVE  Bytes * x < Bytes * n * n /\ Bytes * (x + 1) <= Bytes * n * n
  <2>1. PICK e \in Nat : n * n = x + 1 + e
    <3>1. n * n - x - 1 \in Nat /\ n * n = x + 1 + (n * n - x - 1)
      BY <1>1
    <3> QED BY <3>1
  <2>2. Bytes * n * n = Bytes * (n * n)
    BY <1>1
  <2>3. Bytes * (n * n) = Bytes * (x + 1 + e)
    BY <2>1
  <2>4. Bytes * (x + 1 + e) = Bytes * x + Bytes + Bytes * e /\ Bytes * e \in Nat
        /\ Bytes * (x + 1) = Bytes * x + Bytes /\ Bytes * x \in Nat
    BY <1>1, <2>1
  <2> QED BY <1>1, <2>2, <2>3, <2>4
<1>4. /\ IndexA(Iteration(row, col, index)) = row * n + index
      /\ IndexB(Iteration(row, col, index)) = index * n + col
      /\ IndexC(Iteration(row, col, index)) = row * n + col
  BY <1>1, <1>2 DEF IndexA, IndexB, IndexC, Iteration
<1>5. /\ row * n + col \in 0 .. n * n - 1 /\ row * n + index \in 0 .. n * n - 1
      /\ index * n + col \in 0 .. n * n - 1
  BY <1>2
<1> DEFINE a == row * n + index
           b == index * n + col
           c == row * n + col
           s == Bytes * n * n
<1>6. Bytes * a < s /\ Bytes * (b + 1) <= s /\ Bytes * a \in Nat /\ Bytes * (b + 1) \in Nat
  BY <1>1, <1>3, <1>5
<1>7. s \in Nat /\ s <= room
  BY <1>1
<1>8. room \in Int
  <2>1. program \in Stand_alone => room = Bytes * cells
    BY DEF ArraysInv
  <2>2. program \in Service => room = Int_(Bytes * matrix_size * matrix_size)
    BY DEF SegmentInv, SegmentBytes
  <2>3. Int_(Bytes * n * n) \in Int
    BY <1>7, UnsignedFacts, WrapFacts DEF Int_
  <2>4. program \in Stand_alone \/ program \in Service
    BY DEF ProgramTypeOK
  <2> QED BY <1>1, <2>1, <2>2, <2>3, <2>4
<1>9. a \in Int /\ b \in Int /\ c < cells
  BY <1>1, <1>5
<1> HIDE DEF a, b, c, s
<1>10. Bytes * a < room /\ Bytes * (b + 1) <= room
  BY <1>6, <1>7, <1>8
<1>11. InBounds(Iteration(row, col, index))
  BY <1>4, <1>9, <1>10 DEF InBounds, a, b, c
<1> QED BY <1>1, <1>4, <1>5, <1>11 DEF a, b, c

(* A column belongs to one thread.                                         *)
LEMMA BlockFacts ==
    ASSUME N \in Nat \ {0}
    PROVE  Block \in Nat \ {0} /\ N <= Team * Block
<1> DEFINE x == N + Team - 1
           r == x % Team
<1>1. x \in Nat /\ x >= Team /\ r \in 0 .. Team - 1 /\ r = x - Team * (x \div Team)
      /\ x \div Team \in Nat
  BY TeamIsNotEmpty
<1>2. Block = x \div Team
  BY DEF Block
<1>3. Team * Block = x - r
  <2>1. Team * Block \in Nat
    BY <1>1, <1>2, TeamIsNotEmpty
  <2> QED BY <1>1, <1>2, <2>1
<1>4. N <= Team * Block
  BY <1>1, <1>3, TeamIsNotEmpty
<1>5. Block # 0
  <2>1. SUFFICES ASSUME Block = 0 PROVE FALSE
    OBVIOUS
  <2>2. Team * Block = 0
    BY <2>1, TeamIsNotEmpty
  <2> QED BY <1>4, <2>2
<1> QED BY <1>1, <1>2, <1>4, <1>5

LEMMA ColumnHasOwner ==
    ASSUME N \in Nat \ {0}, NEW col \in 0 .. N - 1
    PROVE  \E t \in Threads : Owns(t, col)
<1>1. CASE program # "parallel"
  <2>1. 0 \in Threads /\ First(0) = 0 /\ Last(0) = N
    BY <1>1, TeamIsNotEmpty DEF Threads, First, Last
  <2> QED BY <2>1 DEF Owns
<1>2. CASE program = "parallel"
  <2> DEFINE t == col \div Block
             r == col % Block
  <2>1. /\ Block \in Nat \ {0} /\ N <= Team * Block
        /\ t \in Nat /\ r \in 0 .. Block - 1 /\ col = t * Block + r
    <3>1. \A b \in Nat \ {0} : /\ col \div b \in Nat /\ col % b \in 0 .. b - 1
                               /\ col = (col \div b) * b + (col % b)
      OBVIOUS
    <3> QED BY <3>1, BlockFacts
  <2> HIDE DEF t, r
  <2>2. t < Team
    <3>1. SUFFICES ASSUME ~(t < Team) PROVE FALSE
      OBVIOUS
    <3>2. PICK e \in Nat : t = Team + e
      <4>1. t - Team \in Nat /\ t = Team + (t - Team)
        BY <2>1, <3>1, TeamIsNotEmpty
      <4> QED BY <4>1
    <3>3. t * Block = Team * Block + e * Block /\ e * Block \in Nat
          /\ Team * Block \in Nat
      BY <2>1, <3>2, TeamIsNotEmpty
    <3> QED BY <2>1, <3>3
  <2>3. (t + 1) * Block = t * Block + Block /\ t * Block \in Nat
    BY <2>1
  <2>4. t \in Threads
    BY <2>1, <2>2, TeamIsNotEmpty DEF Threads
  <2>5. First(t) <= col /\ col < Last(t)
    BY <1>2, <2>1, <2>3 DEF First, Last
  <2> QED BY <2>4, <2>5 DEF Owns
<1> QED BY <1>1, <1>2

LEMMA ColumnHasOneOwner ==
    ASSUME N \in Nat \ {0}, NEW col \in 0 .. N - 1,
           NEW t \in Threads, NEW u \in Threads, Owns(t, col), Owns(u, col)
    PROVE  t = u
<1>0. t \in Nat /\ u \in Nat
  BY TeamIsNotEmpty DEF Threads
<1>1. CASE program # "parallel"
  BY <1>1 DEF Owns, First, Last
<1>2. CASE program = "parallel"
  <2>1. Block \in Nat
    BY BlockFacts
  <2>2. ASSUME NEW v \in Threads, Owns(v, col)
        PROVE  v * Block <= col /\ col < v * Block + Block /\ v \in Nat
    <3>1. v \in Nat /\ (v + 1) * Block = v * Block + Block /\ v * Block \in Nat
      BY <2>1, TeamIsNotEmpty DEF Threads
    <3>2. v * Block <= col /\ col < Last(v)
      BY <1>2, <2>2 DEF Owns, First
    <3> DEFINE x == v * Block
               y == (v + 1) * Block
    <3>3. Last(v) = IF y < N THEN y ELSE N
      BY <1>2 DEF Last
    <3>4. y = x + Block /\ x \in Nat /\ x <= col /\ v \in Nat
      BY <3>1, <3>2
    <3> HIDE DEF x, y
    <3>5. col < x + Block
      BY <2>1, <3>2, <3>3, <3>4
    <3> QED BY <3>4, <3>5 DEF x
  <2>3. ASSUME NEW v \in Nat, NEW w \in Nat, v < w
        PROVE  v * Block + Block <= w * Block
    <3>1. PICK e \in Nat : w = v + 1 + e
      <4>1. w - v - 1 \in Nat /\ w = v + 1 + (w - v - 1)
        BY <2>3
      <4> QED BY <4>1
    <3>2. w * Block = v * Block + Block + e * Block /\ e * Block \in Nat
          /\ v * Block \in Nat
      BY <2>1, <3>1
    <3> QED BY <2>1, <3>2
  <2>4. t * Block \in Nat /\ u * Block \in Nat
    BY <1>0, <2>1
  <2>5. ~(t < u) /\ ~(u < t)
    BY <1>0, <2>1, <2>2, <2>3, <2>4
  <2> QED BY <1>0, <2>5
<1> QED BY <1>1, <1>2

(* The order of the iterations of a thread.                                *)
LEMMA SerialFacts ==
    ASSUME program \in Stand_alone \cup Service, N \in Nat \ {0}, NEW t \in Threads,
           NEW r1 \in 0 .. N - 1, NEW c1 \in 0 .. N - 1, NEW i1 \in 0 .. N - 1,
           NEW r2 \in 0 .. N - 1, NEW c2 \in 0 .. N - 1, NEW i2 \in 0 .. N - 1,
           Owns(t, c1), Owns(t, c2)
    PROVE  /\ Serial(t, Iteration(r1, c1, i1)) \in Nat
           /\ Serial(t, Iteration(r1, c1, i1)) = Serial(t, Iteration(r2, c2, i2))
                 => r1 = r2 /\ c1 = c2 /\ i1 = i2
           /\ r1 = r2 /\ c1 = c2 =>
                 (Serial(t, Iteration(r1, c1, i1)) < Serial(t, Iteration(r2, c2, i2))
                     <=> i1 < i2)
           /\ Serial(t, Iteration(r1, c1, i1)) < Iterations(t)
<1> DEFINE n == N
<1>1. First(t) \in Nat /\ Last(t) \in Int /\ First(t) < Last(t)
      /\ c1 - First(t) \in Nat /\ c2 - First(t) \in Nat
      /\ c1 - First(t) < Last(t) - First(t)
  <2>1. Block \in Nat /\ t \in Nat /\ t * Block \in Nat /\ (t + 1) * Block \in Nat
    BY BlockFacts, TeamIsNotEmpty DEF Threads
  <2>2. First(t) \in Nat /\ Last(t) \in Int
    BY <2>1 DEF First, Last
  <2> QED BY <2>2 DEF Owns
<1>2. program # "parallel" => First(t) = 0 /\ Last(t) = n
  BY <1>1 DEF First, Last
<1>3. Iterations(t) = (Last(t) - First(t)) * n * n
  BY <1>1 DEF Iterations
<1>4. Optimal => program # "parallel"
  BY DEF Optimal
<1> DEFINE k1 == Iteration(r1, c1, i1)
           k2 == Iteration(r2, c2, i2)
<1>5. /\ k1.row = r1 /\ k1.col = c1 /\ k1.index = i1
      /\ k2.row = r2 /\ k2.col = c2 /\ k2.index = i2
  BY DEF Iteration
<1> HIDE DEF k1, k2
<1>6. CASE Optimal
  <2>1. Serial(t, k1) = (i1 * n + r1) * n + c1 /\ Serial(t, k2) = (i2 * n + r2) * n + c2
    BY <1>5, <1>6 DEF Serial
  <2>2. n \in Nat /\ i1 < n
    OBVIOUS
  <2>3. (i1 * n + r1) * n + c1 < n * n * n
    BY <2>2, ThreeDigits
  <2>4. Iterations(t) = n * n * n
    BY <1>2, <1>3, <1>4, <1>6
  <2> QED BY <2>1, <2>3, <2>4, ThreeDigits DEF k1, k2
<1>7. CASE ~Optimal /\ program = "parallel"
  <2> DEFINE d1 == c1 - First(t)
             d2 == c2 - First(t)
             w == Last(t) - First(t)
  <2>1. /\ Serial(t, k1) = (d1 * n + r1) * n + i1
        /\ Serial(t, k2) = (d2 * n + r2) * n + i2
    BY <1>5, <1>7 DEF Serial
  <2>2. d1 \in Nat /\ d2 \in Nat /\ w \in Nat /\ d1 < w /\ (d1 = d2 <=> c1 = c2)
    BY <1>1
  <2>3. Iterations(t) = w * n * n
    BY <1>3
  <2> HIDE DEF d1, d2, w
  <2>4. (d1 * n + r1) * n + i1 < w * n * n
    BY <2>2, ThreeDigits
  <2> QED BY <2>1, <2>2, <2>3, <2>4, ThreeDigits DEF k1, k2
<1>8. CASE ~Optimal /\ program # "parallel"
  <2>1. Serial(t, k1) = (r1 * n + c1) * n + i1 /\ Serial(t, k2) = (r2 * n + c2) * n + i2
    BY <1>5, <1>8 DEF Serial
  <2>2. n \in Nat /\ r1 < n
    OBVIOUS
  <2>3. (r1 * n + c1) * n + i1 < n * n * n
    BY <2>2, ThreeDigits
  <2>4. Iterations(t) = n * n * n
    BY <1>2, <1>3, <1>8
  <2> QED BY <2>1, <2>3, <2>4, ThreeDigits DEF k1, k2
<1> QED BY <1>6, <1>7, <1>8

-----------------------------------------------------------------------------
(* A step that leaves the program and its argument.                        *)
LEMMA SameProgram ==
    ASSUME UNCHANGED <<program, matrix_size>>
    PROVE  /\ N' = N /\ Optimal' = Optimal
           /\ \A t : /\ First(t)' = First(t) /\ Last(t)' = Last(t)
                     /\ Iterations(t)' = Iterations(t)
                     /\ step'[t] = step[t] => Counters(t)' = Counters(t)
                     /\ \A col : Owns(t, col)' = Owns(t, col)
                     /\ \A k : Serial(t, k)' = Serial(t, k)
           /\ \A k : /\ IndexA(k)' = IndexA(k) /\ IndexB(k)' = IndexB(k)
                     /\ IndexC(k)' = IndexC(k)
                     /\ UNCHANGED <<cells, room>> => InBounds(k)' = InBounds(k)
           /\ \A row, col, index : Term(row, col, index)' = Term(row, col, index)
<1>1. N' = N /\ Optimal' = Optimal
  BY DEF N, Optimal
<1>2. Block' = Block
  BY <1>1 DEF Block
<1>3. \A t : First(t)' = First(t) /\ Last(t)' = Last(t)
  BY <1>1, <1>2 DEF First, Last
<1>4. \A t : /\ Iterations(t)' = Iterations(t)
             /\ \A col : Owns(t, col)' = Owns(t, col)
  BY <1>1, <1>3 DEF Iterations, Owns
<1>5. ASSUME NEW t, step'[t] = step[t]
      PROVE  Counters(t)' = Counters(t)
  BY <1>1, <1>3, <1>5 DEF Counters
<1>6. \A t, k : Serial(t, k)' = Serial(t, k)
  BY <1>1, <1>3 DEF Serial
<1>7. \A k : /\ IndexA(k)' = IndexA(k) /\ IndexB(k)' = IndexB(k)
             /\ IndexC(k)' = IndexC(k)
  BY DEF IndexA, IndexB, IndexC
<1>8. \A k : UNCHANGED <<cells, room>> => InBounds(k)' = InBounds(k)
  BY <1>7 DEF InBounds
<1>9. \A row, col, index : Term(row, col, index)' = Term(row, col, index)
  BY <1>1 DEF Term
<1> QED BY <1>1, <1>3, <1>4, <1>5, <1>6, <1>7, <1>8, <1>9

LEMMA ProgramInit == Init => ProgramInv
<1> SUFFICES ASSUME Init PROVE ProgramInv
  OBVIOUS
<1>1. pc = "main" /\ program \in Stand_alone \cup Service \cup {"sort"}
  BY DEF Init, MatrixInit, SortInit, NoMatrix
<1>2. ProgramTypeOK
  BY <1>1, WrapFacts DEF Init, MatrixInit, SortInit, NoMatrix, ProgramTypeOK,
                         Stand_alone, Service
<1> QED
  BY <1>1, <1>2 DEF ProgramInv, SizeInv, SegmentInv, ArraysInv, OverrunInv,
       OnlyNegativeSizeKillsServer, OnlyTheLimitOverruns, StepsInBounds,
       StuckInv, ProductInv, SameTermsInSameOrder

(* The loops start with empty cells.                                       *)
LEMMA AllocateStep ==
    ASSUME ProgramInv, program # "sort", pc \in {"main", "dense_mm"}, Allocate,
           SizeInv'
    PROVE  ProgramInv'
<1>1. /\ UNCHANGED <<program, matrix_size, step, term, temp>> /\ pc' = "multiply"
      /\ C' = [i \in 0 .. cells' - 1 |-> <<>>]
      /\ \A t \in Threads : step[t] = 0 /\ term[t] = NoTerm
      /\ program \in Stand_alone \cup Service
  BY DEF Allocate, ProgramInv, SizeInv, ProgramTypeOK
<1>2. StepsInBounds'
  <2>1. \A t \in Threads : Iterations(t) >= 0
    <3>1. N \in Nat
      BY UnsignedFacts, WrapFacts DEF N, ProgramInv, SizeInv, ProgramTypeOK
    <3>2. Block \in Nat
      BY <3>1, TeamIsNotEmpty DEF Block
    <3>3. ASSUME NEW t \in Threads
          PROVE  Iterations(t) \in Nat
      <4>1. t \in Nat /\ t * Block \in Nat /\ (t + 1) * Block \in Nat
        BY <3>2, TeamIsNotEmpty DEF Threads
      <4>2. First(t) \in Int /\ Last(t) \in Int
        BY <3>1, <4>1 DEF First, Last
      <4>3. \A x \in Nat : x * N * N \in Nat
        BY <3>1
      <4> QED BY <4>2, <4>3 DEF Iterations
    <3> QED BY <3>3
  <2> QED BY <1>1, <2>1, SameProgram DEF StepsInBounds
<1>3. StuckInv'
  <2>1. 0 \in Threads /\ Half > 0
    BY TeamIsNotEmpty, WrapFacts, LimitIsEven DEF Threads
  <2> QED BY <1>1, <2>1 DEF StuckInv
<1>4. ASSUME Regular'
      PROVE  /\ C' \in [0 .. cells' - 1 -> Seq(Int \X Int)]
             /\ CellsGrowInOrder' /\ CellsHaveDone' /\ TermsAreNext' /\ TempIsLoaded'
  <2>1. N \in Nat \ {0} /\ matrix_size = N /\ cells' = N * N
    BY <1>1, <1>4, SameProgram, UnsignedFacts, WrapFacts
       DEF Regular, ProgramInv, SizeInv, ProgramTypeOK, N
  <2>2. ASSUME NEW row \in 0 .. N - 1, NEW col \in 0 .. N - 1
        PROVE  Cell(row, col)' = <<>>
    <3>1. row * N + col \in Nat /\ row * N + col < N * N /\ N * N \in Nat
      BY <2>1, TwoDigits
    <3>2. row * N + col \in 0 .. cells' - 1
      BY <2>1, <3>1
    <3> QED BY <1>1, <3>2, SameProgram DEF Cell
  <2>3. Len(<<>>) = 0 /\ <<>> \in Seq(Int \X Int)
    BY EmptySeq
  <2>4. CellsGrowInOrder'
    BY <1>1, <2>1, <2>2, <2>3, SameProgram DEF CellsGrowInOrder
  <2>5. CellsHaveDone'
    <3> SUFFICES ASSUME NEW row \in 0 .. N - 1, NEW col \in 0 .. N - 1,
                        NEW index \in 0 .. N - 1, NEW t \in Threads, Owns(t, col)
                 PROVE  index < Len(Cell(row, col)')
                            <=> Serial(t, Iteration(row, col, index)) < 0
      <4>1. \A t \in Threads : step'[t] = 0
        BY <1>1
      <4>2. /\ N' = N /\ \A t, col : Owns(t, col)' = Owns(t, col)
            /\ \A t, row, col, index : Serial(t, Iteration(row, col, index))'
                                         = Serial(t, Iteration(row, col, index))
        BY <1>1, SameProgram DEF Iteration
      <4> QED BY <4>1, <4>2 DEF CellsHaveDone
    <3>1. Serial(t, Iteration(row, col, index)) \in Nat
      BY <1>1, <2>1, SerialFacts
    <3> QED BY <2>2, <2>3, <3>1
  <2>6. TermsAreNext'
    BY <1>1 DEF TermsAreNext
  <2>7. TempIsLoaded'
    <3> SUFFICES ASSUME NEW t \in Threads, Counters(t)'.col > 0, Optimal
                 PROVE  FALSE
      BY <1>1, SameProgram DEF TempIsLoaded
    <3>1. step[t] % N = 0
      BY <1>1, <2>1
    <3>2. Counters(t).col = step[t] % N
      BY DEF Counters, Optimal, CacheOptimal
    <3> QED BY <1>1, <3>1, <3>2, SameProgram
  <2>8. C' \in [0 .. cells' - 1 -> Seq(Int \X Int)]
    BY <1>1, <2>3
  <2> QED BY <2>4, <2>5, <2>6, <2>7, <2>8
<1> QED
  BY <1>1, <1>2, <1>3, <1>4 DEF ProgramInv, ProductInv, SameTermsInSameOrder

(* Everything before the loops.                                            *)
LEMMA BeforeTheLoops ==
    ASSUME ProgramInv, program # "sort", Generate \/ MakeSegment \/ StartWorker
    PROVE  ProgramInv'
<1>0. program \in Stand_alone \cup Service /\ Stand_alone \cap Service = {}
  BY DEF ProgramInv, SizeInv, ProgramTypeOK, Stand_alone, Service
<1>1. CASE Generate /\ ~TooLarge(matrix_size) /\ Allocate /\ room' = Bytes * cells'
  <2>1. SizeInv'
    BY <1>0, <1>1 DEF Generate, Allocate, ProgramInv, SizeInv, ProgramTypeOK,
         SegmentInv, ArraysInv, OverrunInv, OnlyNegativeSizeKillsServer,
         OnlyTheLimitOverruns, TooLarge, Unsigned, Stand_alone, Service
  <2> QED BY <1>1, <2>1, AllocateStep DEF Generate
<1>2. CASE StartWorker /\ matrix_size <= SQRT_UINT32_MAX /\ Allocate /\ room' = room
  <2>1. SizeInv'
    BY <1>0, <1>2 DEF StartWorker, Allocate, ProgramInv, SizeInv, ProgramTypeOK,
         SegmentInv, SegmentBytes, Int_, ArraysInv, OverrunInv, OnlyNegativeSizeKillsServer,
         OnlyTheLimitOverruns, Unsigned, Stand_alone, Service
  <2> QED BY <1>2, <2>1, AllocateStep DEF StartWorker
<1>3. CASE MakeSegment /\ pc' = "dense_mm"
  <2>1. /\ room' = SegmentBytes(matrix_size) /\ room' > 0
        /\ matrix_size >= 0 => Bytes * matrix_size * matrix_size <= room'
        /\ UNCHANGED <<program, matrix_size, cells, step, term, temp, C>>
        /\ program \in Service /\ pc = "main"
    <3>1. matrix_size \in Int
      BY WrapFacts DEF ProgramInv, SizeInv, ProgramTypeOK
    <3> QED BY <1>3, <3>1 DEF MakeSegment, Return
  <2>2. ProgramTypeOK' /\ SegmentInv'
    BY <1>0, <1>3, <2>1 DEF ProgramInv, SizeInv, ProgramTypeOK, SegmentInv,
                            SegmentBytes, Int_, Unsigned
  <2> QED
    BY <1>0, <1>3, <2>1, <2>2 DEF ProgramInv, SizeInv, ArraysInv, OverrunInv,
         OnlyNegativeSizeKillsServer, OnlyTheLimitOverruns, StepsInBounds,
         StuckInv, ProductInv, SameTermsInSameOrder
<1>4. CASE \E exit \in {"refused", "noMemory", "BAD_TRUNCATE", "BAD_MMAP", "clientKilled"} :
              Return(exit)
  BY <1>0, <1>4
     DEF Return, ProgramInv, SizeInv, ProgramTypeOK, SegmentInv, ArraysInv,
         OverrunInv, OnlyNegativeSizeKillsServer, OnlyTheLimitOverruns,
         StepsInBounds, StuckInv, ProductInv, SameTermsInSameOrder
<1>5. matrix_size > SQRT_UINT32_MAX \/ matrix_size <= SQRT_UINT32_MAX
  BY WrapFacts, LimitIsEven DEF ProgramInv, SizeInv, ProgramTypeOK
<1> QED
  BY <1>1, <1>2, <1>3, <1>4, <1>5 DEF Generate, MakeSegment, StartWorker

(* An iteration loads inside the arrays, or leaves them.                   *)
LEMMA LoadStep ==
    ASSUME ProgramInv, program # "sort", NEW t \in Threads, Load(t)
    PROVE  ProgramInv'
<1> DEFINE k == Counters(t)
<1>0. /\ program \in Stand_alone \cup Service /\ Stand_alone \cap Service = {}
      /\ pc = "multiply" /\ step[t] < Iterations(t) /\ term[t] = NoTerm
      /\ ProgramTypeOK /\ SegmentInv /\ ArraysInv
      /\ UNCHANGED <<program, matrix_size, cells, room, step, C>>
  BY DEF Load, Return, ProgramInv, SizeInv, ProgramTypeOK, Stand_alone, Service
<1>1. step \in [Threads -> Nat] /\ step[t] \in Nat /\ DOMAIN term = Threads
      /\ temp \in [Threads -> Int]
  BY <1>0 DEF ProgramTypeOK
<1>2. N \in Nat \ {0}
  <2>1. N \in Nat
    BY UnsignedFacts, WrapFacts, <1>0 DEF N, ProgramTypeOK
  <2>2. SUFFICES ASSUME N = 0 PROVE FALSE
    BY <2>1
  <2>3. First(t) = 0 /\ Last(t) \in Int /\ Last(t) <= 0
    <3>1. Block \in Nat /\ t \in Nat
      BY <2>2, TeamIsNotEmpty DEF Block, Threads
    <3>2. Block = 0
      <4>1. \A w \in Nat \ {0} : (w - 1) \div w = 0
        OBVIOUS
      <4> QED BY <2>2, <4>1, TeamIsNotEmpty DEF Block
    <3> QED BY <2>2, <3>1, <3>2 DEF First, Last
  <2>4. Iterations(t) = 0
    BY <2>3 DEF Iterations
  <2> QED BY <1>0, <1>1, <2>4
<1>3. /\ k.row \in 0 .. N - 1 /\ k.col \in 0 .. N - 1 /\ k.index \in 0 .. N - 1
      /\ k = Iteration(k.row, k.col, k.index)
  BY <1>0, <1>1, <1>2, CountersInRange
<1> HIDE DEF k
<1>4. Regular => /\ InBounds(k)
                 /\ IndexA(k) = k.row * N + k.index /\ IndexB(k) = k.index * N + k.col
                 /\ IndexC(k) = k.row * N + k.col
  <2>1. \A row, col, index \in 0 .. N - 1 : Regular =>
           LET l == Iteration(row, col, index) IN
           /\ InBounds(l)
           /\ IndexA(l) = row * N + index /\ IndexB(l) = index * N + col
           /\ IndexC(l) = row * N + col
    BY <1>0, RegularInBounds
  <2> QED BY <1>3, <2>1
<1>5. CASE ~InBounds(k) /\ Return("overrun")
  <2>1. ~Regular /\ N # 0
    BY <1>2, <1>4, <1>5
  <2>2. /\ program \in Service => matrix_size < 0
        /\ program \in Stand_alone => matrix_size = SQRT_UINT32_MAX
    BY <1>0, <2>1, SizesAtWork
  <2> QED
    BY <1>0, <1>5, <2>2
       DEF Return, ProgramInv, SizeInv, ProgramTypeOK, SegmentInv, ArraysInv,
           OverrunInv, OnlyNegativeSizeKillsServer, OnlyTheLimitOverruns,
           StepsInBounds, StuckInv, ProductInv, SameTermsInSameOrder
<1>6. CASE InBounds(k) /\ pc' = pc
  <2> DEFINE a == IF program \in {"cache_optimal", "service_optimal"} /\ k.col > 0
                    THEN temp[t] ELSE IndexA(k)
  <2>1. /\ term' = [term EXCEPT ![t] = Append(C[IndexC(k)], <<a, IndexB(k)>>)]
        /\ temp' = [temp EXCEPT ![t] = a]
    BY <1>0, <1>6 DEF Load, Return, k
  <2>2. a \in Int
    BY <1>1, <1>2, <1>3, WrapFacts, UnsignedFacts, <1>0 DEF IndexA, ProgramTypeOK
  <2>3. SizeInv'
    BY <1>0, <1>1, <1>6, <2>1, <2>2
       DEF ProgramInv, SizeInv, ProgramTypeOK, SegmentInv, SegmentBytes, Int_, Unsigned, ArraysInv,
           OverrunInv, OnlyNegativeSizeKillsServer, OnlyTheLimitOverruns, TooLarge
  <2>4. \A u \in Threads : Counters(u)' = Counters(u) /\ Iterations(u)' = Iterations(u)
    BY <1>0, SameProgram
  <2>5. StepsInBounds'
    <3> SUFFICES ASSUME NEW u \in Threads
                 PROVE  /\ step[u] <= Iterations(u)
                        /\ term'[u] # NoTerm => /\ step[u] < Iterations(u)
                                                /\ InBounds(Counters(u))
      BY <1>0, <2>4, SameProgram DEF StepsInBounds
    <3> QED BY <1>0, <1>1, <1>6, <2>1 DEF ProgramInv, StepsInBounds, k
  <2>6. StuckInv'
    BY <1>0, <1>6 DEF ProgramInv, StuckInv
  <2>7. ASSUME Regular
        PROVE  /\ TermsAreNext' /\ TempIsLoaded' /\ CellsGrowInOrder' /\ CellsHaveDone'
    <3>0. CellsGrowInOrder /\ CellsHaveDone /\ TermsAreNext /\ TempIsLoaded
      BY <1>0, <2>7 DEF ProgramInv, ProductInv
    <3>1. a = IndexA(k)
      BY <3>0 DEF TempIsLoaded, Optimal, k
    <3>2. \A row, col : Cell(row, col)' = Cell(row, col)
      BY <1>0, SameProgram DEF Cell
    <3>3. TermsAreNext'
      <4> SUFFICES ASSUME NEW u \in Threads, term'[u] # NoTerm
                   PROVE  term'[u] = Append(Cell(Counters(u).row, Counters(u).col),
                              Term(Counters(u).row, Counters(u).col, Counters(u).index))
        BY <1>0, <2>4, <3>2, SameProgram DEF TermsAreNext
      <4>1. CASE u = t
        BY <1>1, <1>4, <2>1, <2>7, <3>1, <4>1 DEF Cell, Term, k
      <4>2. CASE u # t
        BY <1>1, <2>1, <3>0, <4>2 DEF TermsAreNext
      <4> QED BY <4>1, <4>2
    <3>4. TempIsLoaded'
      <4> SUFFICES ASSUME NEW u \in Threads, Optimal,
                          Counters(u).col > 0 \/ term'[u] # NoTerm
                   PROVE  temp'[u] = IndexA(Counters(u))
        BY <1>0, <2>4, SameProgram DEF TempIsLoaded
      <4>1. CASE u = t
        BY <1>1, <2>1, <3>1, <4>1 DEF k
      <4>2. CASE u # t
        BY <1>1, <2>1, <3>0, <4>2 DEF TempIsLoaded
      <4> QED BY <4>1, <4>2
    <3>5. CellsGrowInOrder'
      BY <1>0, <3>0, <3>2, SameProgram DEF CellsGrowInOrder
    <3>6. CellsHaveDone'
      <4>1. \A u, row, col, index : Serial(u, Iteration(row, col, index))'
                                       = Serial(u, Iteration(row, col, index))
        BY <1>0, SameProgram DEF Iteration
      <4>2. N' = N /\ (\A u, col : Owns(u, col)' = Owns(u, col)) /\ step' = step
        BY <1>0, SameProgram
      <4> QED BY <3>0, <3>2, <4>1, <4>2 DEF CellsHaveDone
    <3> QED BY <3>3, <3>4, <3>5, <3>6
  <2>8. Regular' <=> Regular
    BY <1>0, SameProgram DEF Regular
  <2>9. ProductInv'
    BY <1>0, <2>7, <2>8 DEF ProgramInv, ProductInv
  <2> QED
    BY <1>0, <1>6, <2>3, <2>5, <2>6, <2>9 DEF ProgramInv, SameTermsInSameOrder
<1> QED BY <1>0, <1>5, <1>6 DEF Load, k

LEMMA SerialInCell ==
    ASSUME program \in Stand_alone \cup Service, N \in Nat \ {0}, NEW t \in Threads,
           NEW row \in 0 .. N - 1, NEW col \in 0 .. N - 1, Owns(t, col),
           NEW i \in 0 .. N - 1, NEW j \in 0 .. N - 1
    PROVE  Serial(t, Iteration(row, col, i)) < Serial(t, Iteration(row, col, j))
               <=> i < j
<1>1. row = row /\ col = col
  OBVIOUS
<1> QED BY <1>1, SerialFacts

(* The cell an iteration adds to: so far it has the terms before index.    *)
LEMMA CellIsDue ==
    ASSUME program \in Stand_alone \cup Service, N \in Nat \ {0},
           CellsGrowInOrder, CellsHaveDone, NEW t \in Threads,
           NEW row \in 0 .. N - 1, NEW col \in 0 .. N - 1, NEW index \in 0 .. N - 1,
           Owns(t, col), Cell(row, col) \in Seq(Int \X Int),
           Serial(t, Iteration(row, col, index)) = step[t]
    PROVE  Len(Cell(row, col)) = index
<1> DEFINE l == Len(Cell(row, col))
<1>1. l \in Nat /\ l <= N
  BY LenProperties DEF CellsGrowInOrder
<1>2. ASSUME NEW i \in 0 .. N - 1
      PROVE  i < l <=> i < index
  <2>1. i < l <=> Serial(t, Iteration(row, col, i)) < step[t]
    BY DEF CellsHaveDone
  <2>2. Serial(t, Iteration(row, col, i)) < Serial(t, Iteration(row, col, index))
           <=> i < index
    BY SerialInCell
  <2> QED BY <2>1, <2>2
<1>3. ~(index < l)
  BY <1>2
<1>4. ~(l < index)
  <2>1. SUFFICES ASSUME l < index PROVE FALSE
    OBVIOUS
  <2>2. l \in 0 .. N - 1
    BY <1>1, <2>1
  <2> QED BY <1>2, <2>1, <2>2
<1> QED BY <1>1, <1>3, <1>4

(* The sum is stored.                                                      *)
LEMMA StoreRegular ==
    ASSUME ProgramInv, program # "sort", NEW t \in Threads, Store(t), Regular
    PROVE  ProductInv'
<1> DEFINE k == Counters(t)
           s == step[t]
<1>0. /\ program \in Stand_alone \cup Service /\ pc = "multiply"
      /\ ProgramTypeOK /\ SegmentInv /\ ArraysInv
      /\ s < Iterations(t) /\ term[t] # NoTerm
      /\ UNCHANGED <<program, matrix_size, pc, cells, room, temp>>
      /\ C' = [C EXCEPT ![IndexC(k)] = term[t]]
      /\ term' = [term EXCEPT ![t] = NoTerm]
      /\ step' = [step EXCEPT ![t] = @ + 1]
  BY DEF Store, ProgramInv, SizeInv, ProgramTypeOK, StepsInBounds
<1>1. step \in [Threads -> Nat] /\ s \in Nat /\ DOMAIN term = Threads
  BY <1>0 DEF ProgramTypeOK
<1>2. /\ C \in [0 .. cells - 1 -> Seq(Int \X Int)]
      /\ CellsGrowInOrder /\ CellsHaveDone /\ TermsAreNext /\ TempIsLoaded
  BY <1>0 DEF ProgramInv, ProductInv
<1>3. N \in Nat \ {0}
  BY <1>0, WrapFacts DEF Regular, ProgramTypeOK
<1> DEFINE row == k.row
           col == k.col
           index == k.index
<1>4. /\ row \in 0 .. N - 1 /\ col \in 0 .. N - 1 /\ index \in 0 .. N - 1
      /\ Owns(t, col) /\ Serial(t, Iteration(row, col, index)) = s
      /\ k = Iteration(row, col, index)
  BY <1>0, <1>1, <1>3, CountersInRange
<1>5. ASSUME NEW r \in 0 .. N - 1, NEW c \in 0 .. N - 1
      PROVE  r * N + c \in 0 .. cells - 1 /\ Cell(r, c) \in Seq(Int \X Int)
             /\ Len(Cell(r, c)) \in Nat
  <2>1. r * N + c \in 0 .. cells - 1
    BY <1>0, <1>3, RegularInBounds
  <2> QED BY <1>2, <2>1, LenProperties DEF Cell
<1>6. Len(Cell(row, col)) = index
  BY <1>0, <1>2, <1>3, <1>4, <1>5, CellIsDue
<1>7. IndexC(k) = row * N + col
  BY <1>0, <1>4, RegularInBounds
<1>8. term[t] = Append(Cell(row, col), Term(row, col, index))
  BY <1>0, <1>2 DEF TermsAreNext
<1> HIDE DEF k, s, row, col, index
<1>9. /\ Term(row, col, index) \in Int \X Int
      /\ term[t] \in Seq(Int \X Int) /\ Len(term[t]) = index + 1
      /\ \A i \in 1 .. index : term[t][i] = Cell(row, col)[i]
      /\ term[t][index + 1] = Term(row, col, index)
  <2>1. Term(row, col, index) \in Int \X Int
    BY <1>3, <1>4 DEF Term
  <2>2. Cell(row, col) \in Seq(Int \X Int)
    BY <1>4, <1>5
  <2>3. /\ term[t] \in Seq(Int \X Int) /\ Len(term[t]) = Len(Cell(row, col)) + 1
        /\ \A i \in 1 .. Len(Cell(row, col)) : term[t][i] = Cell(row, col)[i]
        /\ term[t][Len(Cell(row, col)) + 1] = Term(row, col, index)
    BY <1>8, <2>1, <2>2, AppendProperties
  <2> QED BY <1>6, <2>1, <2>3
<1>10. N' = N /\ C' \in [0 .. cells' - 1 -> Seq(Int \X Int)]
  BY <1>0, <1>2, <1>9, SameProgram
<1>11. ASSUME NEW r \in 0 .. N - 1, NEW c \in 0 .. N - 1
       PROVE  Cell(r, c)' = IF r = row /\ c = col THEN term[t] ELSE Cell(r, c)
  <2>1. r * N + c = row * N + col => r = row /\ c = col
    BY <1>3, <1>4, TwoDigits
  <2>2. Cell(r, c)' = C'[r * N + c]
    BY <1>10 DEF Cell
  <2>3. r * N + c \in DOMAIN C
    BY <1>2, <1>5
  <2>4. CASE r = row /\ c = col
    BY <1>0, <1>7, <2>2, <2>3, <2>4
  <2>5. CASE ~(r = row /\ c = col)
    BY <1>0, <1>7, <2>1, <2>2, <2>3, <2>5 DEF Cell
  <2> QED BY <2>4, <2>5
<1>12. CellsGrowInOrder'
  <2> SUFFICES ASSUME NEW r \in 0 .. N - 1, NEW c \in 0 .. N - 1
               PROVE  /\ Len(Cell(r, c)') <= N
                      /\ \A i \in 1 .. Len(Cell(r, c)') : Cell(r, c)'[i] = Term(r, c, i - 1)
    BY <1>0, <1>10, SameProgram DEF CellsGrowInOrder
  <2>1. CASE r = row /\ c = col
    <3>1. Cell(r, c)' = term[t] /\ index + 1 <= N
      BY <1>3, <1>4, <1>11, <2>1
    <3>2. ASSUME NEW i \in 1 .. index + 1
          PROVE  term[t][i] = Term(row, col, i - 1)
      <4>1. CASE i = index + 1
        <5>1. i - 1 = index
          BY <1>4, <4>1
        <5> QED BY <1>9, <4>1, <5>1
      <4>2. CASE i # index + 1
        <5>1. i \in 1 .. index
          BY <1>4, <4>2
        <5> QED BY <1>2, <1>4, <1>6, <1>9, <5>1 DEF CellsGrowInOrder
      <4> QED BY <4>1, <4>2
    <3> QED BY <1>9, <2>1, <3>1, <3>2
  <2>2. CASE ~(r = row /\ c = col)
    BY <1>2, <1>11, <2>2 DEF CellsGrowInOrder
  <2> QED BY <2>1, <2>2
<1>13. CellsHaveDone'
  <2> SUFFICES ASSUME NEW r \in 0 .. N - 1, NEW c \in 0 .. N - 1, NEW i \in 0 .. N - 1,
                      NEW u \in Threads, Owns(u, c)
               PROVE  i < Len(Cell(r, c)')
                         <=> Serial(u, Iteration(r, c, i)) < step'[u]
    <3>1. \A u, r, c, i : Serial(u, Iteration(r, c, i))' = Serial(u, Iteration(r, c, i))
      BY <1>0, SameProgram DEF Iteration
    <3>2. \A u, c : Owns(u, c)' = Owns(u, c)
      BY <1>0, SameProgram
    <3> QED BY <1>10, <3>1, <3>2 DEF CellsHaveDone
  <2>1. i < Len(Cell(r, c)) <=> Serial(u, Iteration(r, c, i)) < step[u]
    BY <1>2 DEF CellsHaveDone
  <2>2. CASE u # t
    <3>1. c # col
      BY <1>3, <1>4, <2>2, ColumnHasOneOwner
    <3>2. step'[u] = step[u]
      BY <1>0, <1>1, <2>2
    <3> QED BY <1>11, <2>1, <3>1, <3>2
  <2>3. CASE u = t
    <3>1. step'[u] = s + 1
      BY <1>0, <1>1, <2>3 DEF s
    <3> DEFINE j == Serial(t, Iteration(r, c, i))
    <3>2. /\ j \in Nat
          /\ j = s => r = row /\ c = col /\ i = index
          /\ r = row /\ c = col => (j < s <=> i < index)
          /\ r = row /\ c = col /\ i = index => j = s
      <4>1. Serial(t, Iteration(row, col, index)) = s /\ Owns(t, c)
        BY <1>4, <2>3
      <4>2. j \in Nat
        BY <1>0, <1>3, <1>4, <4>1, SerialFacts
      <4>3. j = s => r = row /\ c = col /\ i = index
        BY <1>0, <1>3, <1>4, <4>1, SerialFacts
      <4>4. r = row /\ c = col => (j < s <=> i < index)
        BY <1>0, <1>3, <1>4, <4>1, SerialInCell
      <4> QED BY <4>1, <4>2, <4>3, <4>4
    <3> HIDE DEF j
    <3>3. j < s + 1 <=> j < s \/ j = s
      BY <1>1, <3>2
    <3>4. CASE r = row /\ c = col
      <4>1. i < Len(Cell(r, c)') <=> i < index + 1
        BY <1>9, <1>11, <3>4
      <4>2. i < index + 1 <=> i < index \/ i = index
        BY <1>4
      <4> QED BY <2>3, <3>1, <3>2, <3>3, <3>4, <4>1, <4>2 DEF j
    <3>5. CASE ~(r = row /\ c = col)
      BY <1>11, <2>1, <2>3, <3>1, <3>2, <3>3, <3>5 DEF j, s
    <3> QED BY <3>4, <3>5
  <2> QED BY <2>2, <2>3
<1>14. \A u \in Threads \ {t} : /\ step'[u] = step[u] /\ term'[u] = term[u]
                                /\ Counters(u)' = Counters(u)
  BY <1>0, <1>1, SameProgram
<1>15. TermsAreNext'
  <2> SUFFICES ASSUME NEW u \in Threads \ {t}, term[u] # NoTerm
               PROVE  LET l == Counters(u) IN
                      term[u] = Append(C'[l.row * N + l.col], Term(l.row, l.col, l.index))
    <3>1. term'[t] = NoTerm
      BY <1>0, <1>1
    <3> QED BY <1>10, <1>14, <3>1 DEF TermsAreNext, Cell, Term
  <2> DEFINE l == Counters(u)
  <2>1. /\ l.row \in 0 .. N - 1 /\ l.col \in 0 .. N - 1
        /\ Owns(u, l.col)
    BY <1>0, <1>1, <1>3, CountersInRange DEF ProgramInv, StepsInBounds
  <2>2. l.col # col
    BY <1>3, <1>4, <2>1, ColumnHasOneOwner
  <2>3. \A r, c \in 0 .. N - 1 : c # col => C'[r * N + c] = C[r * N + c]
    BY <1>10, <1>11 DEF Cell
  <2>4. term[u] = Append(C[l.row * N + l.col], Term(l.row, l.col, l.index))
    BY <1>2 DEF TermsAreNext, Cell
  <2> HIDE DEF l
  <2> QED BY <2>1, <2>2, <2>3, <2>4 DEF l
<1>16. TempIsLoaded'
  <2> SUFFICES ASSUME NEW u \in Threads, Optimal,
                      Counters(u)'.col > 0 \/ term'[u] # NoTerm
               PROVE  temp[u] = IndexA(Counters(u)')
    BY <1>0, SameProgram DEF TempIsLoaded
  <2>1. CASE u # t
    BY <1>2, <1>14, <2>1 DEF TempIsLoaded
  <2>2. CASE u = t
    <3>1. step'[t] = s + 1 /\ term'[t] = NoTerm
      BY <1>0, <1>1 DEF s
    <3>2. Counters(t) = [index |-> First(t) + s \div (N * N),
                         row |-> (s \div N) % N, col |-> s % N]
      BY DEF Counters, CacheOptimal, Optimal, s
    <3>3. Counters(t)' = [index |-> First(t) + (s + 1) \div (N * N),
                          row |-> ((s + 1) \div N) % N, col |-> (s + 1) % N]
      BY <1>0, <1>10, <3>1, SameProgram DEF Counters, CacheOptimal, Optimal
    <3>4. (s + 1) % N > 0
      BY <2>2, <3>1, <3>3
    <3>5. Counters(t)'.row = Counters(t).row /\ Counters(t)'.index = Counters(t).index
      <4>1. (s + 1) \div N = s \div N /\ (s + 1) \div (N * N) = s \div (N * N)
        BY <1>1, <1>3, <3>4, NextDigit DEF s
      <4> QED BY <3>2, <3>3, <4>1
    <3> QED BY <1>0, <1>2, <2>2, <3>5 DEF TempIsLoaded, IndexA
  <2> QED BY <2>1, <2>2
<1> QED
  BY <1>10, <1>12, <1>13, <1>15, <1>16 DEF ProductInv

LEMMA IterationsType ==
    ASSUME ProgramTypeOK, NEW t \in Threads
    PROVE  N \in Nat /\ Iterations(t) \in Nat /\ (Iterations(t) > 0 => N > 0)
<1>1. N \in Nat
  BY UnsignedFacts, WrapFacts DEF N, ProgramTypeOK
<1>2. t \in Nat /\ Block \in Nat /\ (N = 0 => Block = 0)
  <2>1. \A w \in Nat \ {0} : (w - 1) \div w = 0
    OBVIOUS
  <2> QED BY <1>1, <2>1, TeamIsNotEmpty DEF Block, Threads
<1>3. t * Block \in Nat /\ (t + 1) * Block \in Nat
  BY <1>2
<1>4. First(t) \in Int /\ Last(t) \in Int
  BY <1>1, <1>3 DEF First, Last
<1> DEFINE x == Last(t) - First(t)
<1>5. x \in Int /\ Iterations(t) = IF First(t) < Last(t) THEN x * N * N ELSE 0
  BY <1>4 DEF Iterations
<1>6. First(t) < Last(t) => x \in Nat
  BY <1>4
<1> HIDE DEF x
<1>7. x \in Nat => x * N * N \in Nat /\ (N = 0 => x * N * N = 0)
  BY <1>1
<1> QED BY <1>1, <1>5, <1>6, <1>7

(* The loops of a negative size leave the arrays in the first run of the   *)
(* inner one.                                                              *)
LEMMA NegativeIsStuck ==
    ASSUME ProgramTypeOK, SegmentInv, ArraysInv, pc = "multiply", matrix_size < 0,
           step[0] < Half, InBounds(Counters(0)), step[0] \in Nat
    PROVE  step[0] + 1 < Half
<1> DEFINE n == matrix_size
           s == step[0]
<1>1. /\ program \in Service /\ room > 0 /\ room < Half /\ room \in Int
      /\ N = n + Wrap /\ n \in Int /\ -Half <= n
  BY SizesAtWork, WrapFacts, LimitIsEven DEF Regular, ProgramTypeOK
<1>2. N \in Nat \ {0} /\ s < N /\ N >= Half /\ Half \in Nat
  BY <1>1, WrapFacts
<1>3. /\ First(0) = 0 /\ s % N = s /\ s \div N = 0 /\ s \div (N * N) = 0
  <2>1. First(0) = 0
    BY <1>1 DEF First, Service
  <2>2. s \in 0 .. N - 1 /\ 0 \in 0 .. N - 1
    BY <1>2
  <2>3. 0 * N + s = s /\ N * N \in Nat \ {0} /\ s < N * N
    <3>1. 0 * N + s < N * N
      BY <1>2, <2>2, TwoDigits
    <3> QED BY <1>2, <3>1
  <2>4. \A v \in Nat \ {0} : \A r \in 0 .. v - 1 : r \div v = 0 /\ r % v = r
    OBVIOUS
  <2>5. s \in 0 .. N * N - 1
    BY <2>2, <2>3
  <2> QED BY <1>2, <2>1, <2>2, <2>3, <2>4, <2>5
<1>4. 0 % N = 0 /\ Unsigned(0 * n + s) = s
  <2>1. 0 * n + s = s /\ s < Wrap
    BY <1>1, <1>2, WrapFacts
  <2>2. \A v \in Nat \ {0} : 0 % v = 0
    OBVIOUS
  <2> QED BY <1>2, <2>1, <2>2, UnsignedFacts
<1> DEFINE k == Counters(0)
<1>5. CASE program = "service"
  <2>1. k = [row |-> 0, col |-> 0, index |-> s]
    BY <1>3, <1>4, <1>5 DEF Counters, Naive
  <2>2. Bytes * s < room
    BY <1>4, <2>1 DEF InBounds, IndexA
  <2>3. PICK b \in Nat : Bytes = b + 1
    <3>1. Bytes - 1 \in Nat /\ Bytes = (Bytes - 1) + 1
      BY CellsHaveBytes
    <3> QED BY <3>1
  <2>4. Bytes * s = b * s + s /\ b * s \in Nat
    BY <2>3
  <2> QED BY <1>1, <1>2, <2>2, <2>4
<1>6. CASE program = "service_optimal"
  <2>1. k = [index |-> 0, row |-> 0, col |-> s]
    BY <1>3, <1>4, <1>6 DEF Counters, CacheOptimal
  <2>2. Bytes * (s + 1) <= room
    BY <1>4, <2>1 DEF InBounds, IndexB
  <2>3. PICK b \in Nat : Bytes = b + 1
    <3>1. Bytes - 1 \in Nat /\ Bytes = (Bytes - 1) + 1
      BY CellsHaveBytes
    <3> QED BY <3>1
  <2>4. Bytes * (s + 1) = b * (s + 1) + s + 1 /\ b * (s + 1) \in Nat
    BY <2>3
  <2> QED BY <1>1, <1>2, <2>2, <2>4
<1> QED BY <1>1, <1>5, <1>6 DEF Service

LEMMA StoreStep ==
    ASSUME ProgramInv, program # "sort", NEW t \in Threads, Store(t)
    PROVE  ProgramInv'
<1>0. /\ program \in Stand_alone \cup Service /\ pc = "multiply"
      /\ ProgramTypeOK /\ SegmentInv /\ ArraysInv
      /\ step[t] < Iterations(t) /\ InBounds(Counters(t))
      /\ UNCHANGED <<program, matrix_size, pc, cells, room, temp>>
      /\ term' = [term EXCEPT ![t] = NoTerm]
      /\ step' = [step EXCEPT ![t] = @ + 1]
  BY DEF Store, ProgramInv, SizeInv, ProgramTypeOK, StepsInBounds
<1>1. step \in [Threads -> Nat] /\ DOMAIN term = Threads
  BY <1>0 DEF ProgramTypeOK
<1>2. SizeInv'
  BY <1>0, <1>1
     DEF ProgramInv, SizeInv, ProgramTypeOK, SegmentInv, SegmentBytes, Int_,
         Unsigned, ArraysInv, OverrunInv, OnlyNegativeSizeKillsServer,
         OnlyTheLimitOverruns, TooLarge
<1>3. StepsInBounds'
  <2> SUFFICES ASSUME NEW u \in Threads
               PROVE  /\ step'[u] <= Iterations(u)
                      /\ term'[u] # NoTerm => /\ step'[u] < Iterations(u)
                                              /\ InBounds(Counters(u)')
    BY <1>0, SameProgram DEF StepsInBounds
  <2>1. CASE u = t
    BY <1>0, <1>1, <2>1, IterationsType
  <2>2. CASE u # t
    <3>1. step'[u] = step[u] /\ term'[u] = term[u]
      BY <1>0, <1>1, <2>2
    <3>2. Counters(u)' = Counters(u)
      BY <1>0, <3>1, SameProgram
    <3> QED BY <1>0, <3>1, <3>2 DEF ProgramInv, StepsInBounds
  <2> QED BY <2>1, <2>2
<1>4. cells # 0
  <2>1. N \in Nat \ {0}
    BY <1>0, <1>1, IterationsType
  <2>2. Counters(t).row \in Int /\ Counters(t).col \in Int
    BY <1>0, <1>1, <2>1, CountersInRange
  <2>3. IndexC(Counters(t)) \in Nat
    <3>1. Counters(t).row * matrix_size + Counters(t).col \in Int
      BY <1>0, <2>2, WrapFacts DEF ProgramTypeOK
    <3> QED BY <3>1, UnsignedFacts, WrapFacts DEF IndexC
  <2> QED BY <1>0, <2>3 DEF InBounds
<1>5. StuckInv'
  <2>1. ASSUME matrix_size < 0
        PROVE  step'[0] < Half
    <3>1. 0 \in Threads /\ step[0] < Half
      BY <1>0, <2>1, TeamIsNotEmpty DEF Threads, ProgramInv, StuckInv
    <3>2. CASE t = 0
      BY <1>0, <1>1, <2>1, <3>1, <3>2, NegativeIsStuck
    <3>3. CASE t # 0
      BY <1>0, <1>1, <3>1, <3>3
    <3> QED BY <3>2, <3>3
  <2> QED BY <1>0, <1>4, <2>1 DEF StuckInv
<1>6. ProductInv'
  <2>1. Regular' <=> Regular
    BY <1>0, SameProgram DEF Regular
  <2>2. CASE Regular
    BY <2>2, StoreRegular
  <2>3. CASE ~Regular
    BY <2>1, <2>3 DEF ProductInv
  <2> QED BY <2>2, <2>3
<1> QED
  BY <1>0, <1>2, <1>3, <1>5, <1>6 DEF ProgramInv, SameTermsInSameOrder

(* All iterations are done.                                                *)
LEMMA FinishStep ==
    ASSUME ProgramInv, program # "sort", Finish
    PROVE  ProgramInv'
<1>0. /\ program \in Stand_alone \cup Service /\ pc = "multiply" /\ pc' = "done"
      /\ ProgramTypeOK /\ SegmentInv /\ ArraysInv
      /\ \A t \in Threads : step[t] = Iterations(t)
      /\ UNCHANGED <<program, matrix_size, cells, room, step, term, temp, C>>
      /\ step \in [Threads -> Nat]
  BY DEF Finish, Return, ProgramInv, SizeInv, ProgramTypeOK
<1>1. 0 \in Threads /\ N \in Nat
  BY <1>0, TeamIsNotEmpty, IterationsType DEF Threads
<1>2. ASSUME N > 0
      PROVE  Regular
  <2>1. First(0) = 0 /\ Last(0) \in Nat /\ Last(0) > 0 /\ (program # "parallel" => Last(0) = N)
    <3>1. N \in Nat \ {0}
      BY <1>1, <1>2
    <3>2. Block \in Nat \ {0}
      BY <3>1, BlockFacts
    <3>3. (0 + 1) * Block = Block /\ 0 * Block = 0
      BY <3>2
    <3> QED BY <3>1, <3>2, <3>3 DEF First, Last
  <2>2. Iterations(0) = Last(0) * N * N
    BY <2>1 DEF Iterations
  <2>3. Iterations(0) >= N
    <3>1. PICK a \in Nat : Last(0) = a + 1
      <4>1. Last(0) - 1 \in Nat /\ Last(0) = (Last(0) - 1) + 1
        BY <2>1
      <4> QED BY <4>1
    <3>2. PICK b \in Nat : N = b + 1
      <4>1. N - 1 \in Nat /\ N = (N - 1) + 1
        BY <1>1, <1>2
      <4> QED BY <4>1
    <3>3. Iterations(0) = a * N * N + b * N + N /\ a * N * N \in Nat /\ b * N \in Nat
      BY <1>1, <2>2, <3>1, <3>2
    <3> QED BY <1>1, <3>3
  <2>4. step[0] >= N
    BY <1>0, <1>1, <2>3
  <2>5. cells # 0
    BY <1>0, <1>1, <1>2, <2>4 DEF ProgramInv, StuckInv
  <2>6. matrix_size >= 0
    <3>1. SUFFICES ASSUME matrix_size < 0 PROVE FALSE
      BY <1>0, WrapFacts DEF ProgramTypeOK
    <3>2. step[0] < Half
      BY <1>0, <3>1 DEF ProgramInv, StuckInv
    <3>3. N >= Half
      BY <1>0, <3>1, SizesAtWork, WrapFacts, LimitIsEven DEF Regular, ProgramTypeOK
    <3> QED BY <1>0, <1>1, <2>4, <3>2, <3>3, WrapFacts
  <2> QED
    BY <1>0, <1>2, <2>5, <2>6, SizesAtWork, WrapFacts DEF ProgramTypeOK
<1>3. SameTermsInSameOrder'
  <2> SUFFICES ASSUME NEW row \in 0 .. N - 1, NEW col \in 0 .. N - 1
               PROVE  Cell(row, col) = [i \in 1 .. N |-> Term(row, col, i - 1)]
    BY <1>0, SameProgram DEF SameTermsInSameOrder, Cell
  <2>1. N \in Nat \ {0} /\ Regular
    BY <1>1, <1>2
  <2>2. /\ CellsGrowInOrder /\ CellsHaveDone
        /\ C \in [0 .. cells - 1 -> Seq(Int \X Int)]
    BY <1>0, <2>1 DEF ProgramInv, ProductInv
  <2>3. Cell(row, col) \in Seq(Int \X Int)
    <3>1. row * N + col \in 0 .. cells - 1
      BY <1>0, <2>1, RegularInBounds
    <3> QED BY <2>2, <3>1 DEF Cell
  <2>4. PICK t \in Threads : Owns(t, col)
    BY <2>1, ColumnHasOwner
  <2>5. N - 1 \in 0 .. N - 1
    BY <2>1
  <2>6. Serial(t, Iteration(row, col, N - 1)) < Iterations(t)
    BY <1>0, <2>1, <2>4, <2>5, SerialFacts
  <2>7. N - 1 < Len(Cell(row, col))
    BY <1>0, <2>2, <2>4, <2>5, <2>6 DEF CellsHaveDone
  <2>8. Len(Cell(row, col)) = N
    <3>1. Len(Cell(row, col)) \in Nat /\ Len(Cell(row, col)) <= N
      BY <2>2, <2>3, LenProperties DEF CellsGrowInOrder
    <3> QED BY <2>1, <2>7, <3>1
  <2> QED BY <2>2, <2>3, <2>8, LenProperties DEF CellsGrowInOrder
<1> QED
  BY <1>0, <1>3
     DEF ProgramInv, SizeInv, ProgramTypeOK, SegmentInv, ArraysInv, OverrunInv,
         OnlyNegativeSizeKillsServer, OnlyTheLimitOverruns, StepsInBounds,
         StuckInv, ProductInv

LEMMA ProgramStep == ProgramInv /\ [Next]_vars => ProgramInv'
<1> SUFFICES ASSUME ProgramInv, [Next]_vars PROVE ProgramInv'
  OBVIOUS
<1>1. CASE program # "sort" /\ MatrixNext
  BY <1>1, BeforeTheLoops, LoadStep, StoreStep, FinishStep DEF MatrixNext
<1>2. CASE UNCHANGED matrixVars
  <2>1. \A t : Counters(t)' = Counters(t)
    BY <1>2, SameProgram DEF matrixVars
  <2>2. \A k : InBounds(k)' = InBounds(k)
    BY <1>2, SameProgram DEF matrixVars
  <2>3. SizeInv' /\ StuckInv' /\ SameTermsInSameOrder'
    BY <1>2 DEF matrixVars, ProgramInv, SizeInv, ProgramTypeOK, SegmentInv,
         SegmentBytes, Int_, Unsigned, ArraysInv, OverrunInv, TooLarge,
         OnlyNegativeSizeKillsServer, OnlyTheLimitOverruns, StuckInv,
         SameTermsInSameOrder, Term, N
  <2>4. StepsInBounds'
    BY <1>2, <2>1, <2>2, SameProgram DEF matrixVars, ProgramInv, StepsInBounds
  <2>5. ProductInv'
    <3>1. \A row, col : Cell(row, col)' = Cell(row, col)
      BY <1>2, SameProgram DEF matrixVars, Cell
    <3>2. \A u, row, col, index : Serial(u, Iteration(row, col, index))'
                                     = Serial(u, Iteration(row, col, index))
      BY <1>2, SameProgram DEF matrixVars, Iteration
    <3>3. N' = N /\ (\A u, col : Owns(u, col)' = Owns(u, col)) /\ Optimal' = Optimal
          /\ UNCHANGED <<step, term, temp, C, cells, pc, matrix_size, room>>
      BY <1>2, SameProgram DEF matrixVars
    <3>4. CellsGrowInOrder' = CellsGrowInOrder
      BY <3>1, <3>3 DEF CellsGrowInOrder, Term
    <3>5. CellsHaveDone' = CellsHaveDone
      BY <3>1, <3>2, <3>3 DEF CellsHaveDone
    <3>6. TermsAreNext' = TermsAreNext
      BY <2>1, <3>3 DEF TermsAreNext, Cell, Term
    <3>7. TempIsLoaded' = TempIsLoaded
      BY <2>1, <3>3 DEF TempIsLoaded, IndexA, Unsigned
    <3>8. Regular' = Regular
      BY <3>3 DEF Regular
    <3> QED BY <3>3, <3>4, <3>5, <3>6, <3>7, <3>8 DEF ProgramInv, ProductInv
  <2> QED BY <2>3, <2>4, <2>5 DEF ProgramInv
<1> QED BY <1>1, <1>2 DEF Next, vars, matrixVars

LEMMA ProgramSafe == Spec => []ProgramInv
BY ProgramInit, ProgramStep, PTL DEF Spec

-----------------------------------------------------------------------------
(* The worker of the service leaves its arrays for a negative size only    *)
(* (dense_mm.c, the int comparison with SQRT_UINT32_MAX; client_fifo.c,    *)
(* memory_matrix_size).                                                    *)
THEOREM ServerSafeFromSizes == Spec => []OnlyNegativeSizeKillsServer
<1>1. ProgramInv => OnlyNegativeSizeKillsServer
  BY DEF ProgramInv, SizeInv, OverrunInv
<1> QED BY <1>1, ProgramSafe, PTL

(* A stand-alone program leaves its arrays for the limit only, whose       *)
(* square is zero (dense_mm.c of cache_performance_test, the unsigned      *)
(* comparison with SQRT_UINT32_MAX).                                       *)
THEOREM StandAloneSafeBelowLimit == Spec => []OnlyTheLimitOverruns
<1>1. ProgramInv => OnlyTheLimitOverruns
  BY DEF ProgramInv, SizeInv, OverrunInv
<1> QED BY <1>1, ProgramSafe, PTL

(* All the programs compute the same product, in the same order of         *)
(* additions (the loops of dense_mm.c, cache_optimal_dense_mm.c and        *)
(* parallel_dense_mm.c).                                                   *)
THEOREM ProgramsAgree == Spec => []SameTermsInSameOrder
<1>1. ProgramInv => SameTermsInSameOrder
  BY DEF ProgramInv
<1> QED BY <1>1, ProgramSafe, PTL

-----------------------------------------------------------------------------
(* Quicksort.                                                              *)
(*                                                                         *)
(* One cell at most holds a fraction; b comes from a by moves within the   *)
(* cells lo to hi, in which a fraction may be lost.                        *)
IsWhole(x) == Whole_(x) = x
OneFraction(a) == \A i, j \in Cells : IsWhole(a[i]) \/ IsWhole(a[j]) \/ i = j
MovedBy(m, a, b, lo, hi) ==
    /\ m \in [Cells -> Cells]
    /\ \A i, j \in Cells : m[i] = m[j] => i = j
    /\ \A i \in Cells :
          IF i \in lo .. hi THEN m[i] \in lo .. hi /\ b[i] \in {a[m[i]], Whole_(a[m[i]])}
                            ELSE m[i] = i /\ b[i] = a[i]
Moved(a, b, lo, hi) == \E m \in [Cells -> Cells] : MovedBy(m, a, b, lo, hi)

LEMMA WholeFacts ==
    ASSUME NEW x \in Int
    PROVE  /\ Whole_(x) \in Int /\ Whole_(x) <= x /\ x <= Whole_(x) + 1
           /\ IsWhole(Whole_(x))
           /\ \A y \in Int : (IsWhole(y) /\ y <= x) => y <= Whole_(x)
<1>1. /\ x \div 2 \in Int /\ 2 * (x \div 2) <= x /\ x <= 2 * (x \div 2) + 1
  OBVIOUS
<1>2. (2 * (x \div 2)) \div 2 = x \div 2
  BY <1>1
<1>3. ASSUME NEW y \in Int, 2 * (y \div 2) = y, y <= x
      PROVE  y <= 2 * (x \div 2)
  BY <1>1, <1>3
<1> QED BY <1>1, <1>2, <1>3 DEF Whole_, IsWhole

LEMMA MovedTwice ==
    ASSUME NEW a \in [Cells -> Int], NEW b, NEW c, NEW lo, NEW hi,
           Moved(a, b, lo, hi), Moved(b, c, lo, hi)
    PROVE  Moved(a, c, lo, hi)
<1>1. PICK m \in [Cells -> Cells] : MovedBy(m, a, b, lo, hi)
  BY DEF Moved
<1>2. PICK l \in [Cells -> Cells] : MovedBy(l, b, c, lo, hi)
  BY DEF Moved
<1> DEFINE k == [i \in Cells |-> m[l[i]]]
<1>3. k \in [Cells -> Cells] /\ \A i \in Cells : k[i] = m[l[i]] /\ l[i] \in Cells
  OBVIOUS
<1>4. \A x \in Int : Whole_(Whole_(x)) = Whole_(x)
  BY WholeFacts DEF IsWhole
<1> HIDE DEF k
<1>5. \A i, j \in Cells : k[i] = k[j] => i = j
  BY <1>1, <1>2, <1>3 DEF MovedBy
<1>6. ASSUME NEW i \in Cells
      PROVE  IF i \in lo .. hi THEN k[i] \in lo .. hi /\ c[i] \in {a[k[i]], Whole_(a[k[i]])}
                               ELSE k[i] = i /\ c[i] = a[i]
  <2>1. a[k[i]] \in Int
    BY <1>3
  <2> QED BY <1>1, <1>2, <1>3, <1>4, <2>1 DEF MovedBy
<1>7. MovedBy(k, a, c, lo, hi)
  BY <1>3, <1>5, <1>6 DEF MovedBy
<1> QED BY <1>3, <1>7 DEF Moved

LEMMA SwapMoves ==
    ASSUME array_size \in Nat, NEW a \in [Cells -> Int], OneFraction(a),
           NEW lo \in Cells, NEW hi \in Cells, NEW i \in lo .. hi, NEW j \in lo .. hi
    PROVE  /\ swap(a, i, j) \in [Cells -> Int] /\ OneFraction(swap(a, i, j))
           /\ Moved(a, swap(a, i, j), lo, hi)
           /\ swap(a, i, j)[j] = Whole_(a[i])
           /\ i # j => swap(a, i, j)[i] = a[j]
           /\ \A k \in Cells \ {i, j} : swap(a, i, j)[k] = a[k]
<1>0. lo .. hi \subseteq Cells /\ i \in Cells /\ j \in Cells
  BY DEF Cells
<1>1. PICK b : b = swap(a, i, j)
  OBVIOUS
<1>2. \A k \in Cells : Whole_(a[k]) \in Int /\ IsWhole(Whole_(a[k]))
  BY WholeFacts
<1>3. /\ b \in [Cells -> Int] /\ b[j] = Whole_(a[i]) /\ (i # j => b[i] = a[j])
      /\ \A k \in Cells \ {i, j} : b[k] = a[k]
  BY <1>0, <1>1, <1>2 DEF swap
<1>4. OneFraction(b)
  <2> SUFFICES ASSUME NEW k \in Cells, NEW l \in Cells, ~IsWhole(b[k]), ~IsWhole(b[l]), k # l
               PROVE  FALSE
    BY DEF OneFraction
  <2>1. k # j /\ l # j
    BY <1>0, <1>2, <1>3
  <2>2. CASE k = i
    BY <1>0, <1>3, <2>1, <2>2 DEF OneFraction
  <2>3. CASE l = i
    BY <1>0, <1>3, <2>1, <2>3 DEF OneFraction
  <2>4. CASE k # i /\ l # i
    BY <1>0, <1>3, <2>1, <2>4 DEF OneFraction
  <2> QED BY <2>2, <2>3, <2>4
<1>5. Moved(a, b, lo, hi)
  <2> DEFINE m == [k \in Cells |-> IF k = i THEN j ELSE IF k = j THEN i ELSE k]
  <2>1. /\ m \in [Cells -> Cells]
        /\ \A k \in Cells : m[k] = IF k = i THEN j ELSE IF k = j THEN i ELSE k
    BY <1>0
  <2> HIDE DEF m
  <2>2. \A k, l \in Cells : m[k] = m[l] => k = l
    BY <1>0, <2>1
  <2>3. ASSUME NEW k \in Cells
        PROVE  IF k \in lo .. hi THEN m[k] \in lo .. hi /\ b[k] \in {a[m[k]], Whole_(a[m[k]])}
                                 ELSE m[k] = k /\ b[k] = a[k]
    BY <1>0, <1>3, <2>1
  <2>4. MovedBy(m, a, b, lo, hi)
    BY <2>1, <2>2, <2>3 DEF MovedBy
  <2> QED BY <2>1, <2>4 DEF Moved
<1> QED BY <1>1, <1>3, <1>4, <1>5

(* The loop over index.                                                    *)
WalkNext(w, i, pivot_val) ==
    IF w.a[i - 1] > pivot_val
      THEN w
      ELSE [a |-> swap(w.a, w.target, i - 1), target |-> w.target + 1]
Walks(f, a, start, end, pivot_val) ==
    f = [i \in start .. end |->
            IF i = start THEN [a |-> a, target |-> start]
                         ELSE WalkNext(f[i - 1], i, pivot_val)]

LEMMA WalkIsDefined ==
    ASSUME NEW start \in Nat, NEW end \in Nat, start <= end, NEW a, NEW pivot_val
    PROVE  \E f : /\ Walks(f, a, start, end, pivot_val)
                  /\ Walk(a, start, end, pivot_val) = f[end]
<1> DEFINE W(n) == \E f : Walks(f, a, start, start + n, pivot_val)
           Bad == {n \in Nat : ~W(n)}
<1>1. W(0)
  <2> DEFINE f == [i \in start .. start + 0 |-> [a |-> a, target |-> start]]
  <2>1. \A i \in start .. start + 0 : i = start
    OBVIOUS
  <2>2. f = [i \in start .. start + 0 |->
               IF i = start THEN [a |-> a, target |-> start]
                            ELSE WalkNext(f[i - 1], i, pivot_val)]
    BY <2>1
  <2> HIDE DEF f
  <2> QED BY <2>2 DEF Walks
<1>2. ASSUME NEW n \in Nat, n # 0, W(n - 1)
      PROVE  W(n)
  <2>1. PICK g : Walks(g, a, start, start + (n - 1), pivot_val)
    BY <1>2
  <2> DEFINE z == start + n
             f == [i \in start .. z |-> IF i = z THEN WalkNext(g[i - 1], i, pivot_val)
                                                 ELSE g[i]]
             h == [i \in start .. z |-> IF i = start THEN [a |-> a, target |-> start]
                                          ELSE WalkNext(f[i - 1], i, pivot_val)]
  <2>2. z \in Nat /\ start + (n - 1) = z - 1 /\ z > start
    BY <1>2
  <2>3. ASSUME NEW i \in start .. z - 1
        PROVE  g[i] = IF i = start THEN [a |-> a, target |-> start]
                                   ELSE WalkNext(g[i - 1], i, pivot_val)
    <3> DEFINE e == [i_ \in start .. z - 1 |->
                       IF i_ = start THEN [a |-> a, target |-> start]
                                     ELSE WalkNext(g[i_ - 1], i_, pivot_val)]
    <3>1. g = e
      BY <2>1, <2>2 DEF Walks
    <3>2. e[i] = IF i = start THEN [a |-> a, target |-> start]
                              ELSE WalkNext(g[i - 1], i, pivot_val)
      OBVIOUS
    <3> HIDE DEF e
    <3> QED BY <3>1, <3>2
  <2>4. ASSUME NEW i \in start .. z
        PROVE  f[i] = h[i]
    <3>1. /\ f[i] = IF i = z THEN WalkNext(g[i - 1], i, pivot_val) ELSE g[i]
          /\ h[i] = IF i = start THEN [a |-> a, target |-> start]
                                 ELSE WalkNext(f[i - 1], i, pivot_val)
      OBVIOUS
    <3>2. i # start => i - 1 \in start .. z /\ i - 1 # z
      BY <2>2
    <3>3. i # start => f[i - 1] = g[i - 1]
      BY <3>2
    <3>4. i # z => i \in start .. z - 1
      BY <2>2
    <3> HIDE DEF f, h, z
    <3>5. CASE i = z
      BY <2>2, <3>1, <3>3, <3>5
    <3>6. CASE i # z
      BY <2>3, <3>1, <3>3, <3>4, <3>6
    <3> QED BY <3>5, <3>6
  <2>5. f = h
    BY <2>4
  <2>6. Walks(f, a, start, z, pivot_val)
    <3> HIDE DEF f
    <3> QED BY <2>5 DEF Walks
  <2> QED BY <2>6
<1>3. Bad = {}
  <2> SUFFICES ASSUME Bad # {} PROVE FALSE
    OBVIOUS
  <2>1. PICK n \in Bad : \A y \in Bad : <<y, n>> \notin OpToRel(<, Nat)
    <3>1. Bad \subseteq Nat
      OBVIOUS
    <3> HIDE DEF Bad
    <3> QED BY <3>1, WFMin, NatLessThanWellFounded
  <2>2. n \in Nat /\ ~W(n)
    BY <2>1
  <2>3. n # 0
    BY <1>1, <2>2
  <2>4. n - 1 \in Nat /\ n - 1 < n
    BY <2>2, <2>3
  <2>5. <<n - 1, n>> \in OpToRel(<, Nat)
    BY <2>2, <2>4 DEF OpToRel
  <2>6. n - 1 \notin Bad
    BY <2>1, <2>5
  <2> HIDE DEF W
  <2> QED BY <1>2, <2>2, <2>3, <2>4, <2>6
<1>4. \E f : Walks(f, a, start, end, pivot_val)
  <2>1. end - start \in Nat /\ start + (end - start) = end
    OBVIOUS
  <2>2. W(end - start)
    BY <1>3, <2>1
  <2> QED BY <2>1, <2>2
<1> DEFINE walked == CHOOSE f : Walks(f, a, start, end, pivot_val)
<1>5. Walks(walked, a, start, end, pivot_val)
  BY <1>4
<1>6. Walk(a, start, end, pivot_val) = walked[end]
  BY DEF Walk, Walks, WalkNext
<1> HIDE DEF walked
<1> QED BY <1>5, <1>6

(* Behind index, what is below target is not above the pivot, and the rest *)
(* not below it; a fraction that is lost changes nothing of that.          *)
WalkInv(w, i, first, start, end, pivot_val) ==
    /\ w.a \in [Cells -> Int] /\ OneFraction(w.a)
    /\ w.target \in start .. i
    /\ Moved(first, w.a, start, end)
    /\ w.a[end] = pivot_val
    /\ \A x \in start .. w.target - 1 : w.a[x] <= pivot_val
    /\ \A x \in w.target .. i - 1 : w.a[x] >= pivot_val

LEMMA WalkStep ==
    ASSUME array_size \in Nat, NEW start \in Cells, NEW end \in Cells,
           NEW i \in start + 1 .. end, NEW w, NEW first \in [Cells -> Int],
           NEW pivot_val \in Int, IsWhole(pivot_val),
           WalkInv(w, i - 1, first, start, end, pivot_val)
    PROVE  WalkInv(WalkNext(w, i, pivot_val), i, first, start, end, pivot_val)
<1>0. /\ i \in Nat /\ start \in Nat /\ end \in Nat /\ i - 1 \in start .. end /\ i - 1 # end
      /\ start .. end \subseteq Cells /\ end \in start .. end
  BY DEF Cells
<1>1. PICK a, t : a = w.a /\ t = w.target
  OBVIOUS
<1>2. /\ a \in [Cells -> Int] /\ OneFraction(a) /\ t \in start .. i - 1
      /\ Moved(first, a, start, end) /\ a[end] = pivot_val
      /\ \A x \in start .. t - 1 : a[x] <= pivot_val
      /\ \A x \in t .. (i - 1) - 1 : a[x] >= pivot_val
  BY <1>1 DEF WalkInv
<1>3. CASE a[i - 1] > pivot_val
  <2>1. \A x \in t .. i - 1 : a[x] >= pivot_val
    <3>1. \A x \in t .. i - 1 : x = i - 1 \/ x \in t .. (i - 1) - 1
      BY <1>0, <1>2
    <3>2. i - 1 \in Cells /\ a[i - 1] \in Int
      BY <1>0, <1>2
    <3> QED BY <1>2, <1>3, <3>1, <3>2
  <2>2. t \in start .. i
    BY <1>0, <1>2
  <2> QED BY <1>1, <1>2, <1>3, <2>1, <2>2 DEF WalkInv, WalkNext
<1>4. CASE ~(a[i - 1] > pivot_val)
  <2>1. PICK b : b = swap(a, t, i - 1)
    OBVIOUS
  <2>2. t \in start .. end /\ t \in Cells /\ i - 1 \in Cells /\ t # end /\ t \in Nat
    BY <1>0, <1>2
  <2>3. /\ b \in [Cells -> Int] /\ OneFraction(b) /\ Moved(a, b, start, end)
        /\ b[i - 1] = Whole_(a[t])
        /\ t # i - 1 => b[t] = a[i - 1]
        /\ \A k \in Cells \ {t, i - 1} : b[k] = a[k]
    BY <1>0, <1>2, <2>1, <2>2, SwapMoves
  <2>4. Moved(first, b, start, end)
    BY <1>2, <2>3, MovedTwice
  <2>5. b[end] = pivot_val
    BY <1>0, <1>2, <2>2, <2>3
  <2>6. a[t] \in Int /\ a[i - 1] \in Int /\ a[i - 1] <= pivot_val
    BY <1>2, <1>4, <2>2
  <2>7. ASSUME NEW x \in start .. (t + 1) - 1
        PROVE  b[x] <= pivot_val
    <3>1. CASE x = t /\ t = i - 1
      BY <2>3, <2>6, <3>1, WholeFacts
    <3>2. CASE x = t /\ t # i - 1
      BY <2>3, <2>6, <3>2
    <3>3. CASE x # t
      <4>1. x \in start .. t - 1 /\ x \in Cells \ {t, i - 1}
        BY <1>0, <1>2, <2>2, <3>3
      <4> QED BY <1>2, <2>3, <4>1
    <3> QED BY <3>1, <3>2, <3>3
  <2>8. ASSUME NEW x \in t + 1 .. i - 1
        PROVE  b[x] >= pivot_val
    <3>1. CASE x = i - 1
      <4>1. t \in t .. (i - 1) - 1
        BY <1>0, <2>2, <3>1
      <4>2. a[t] >= pivot_val
        BY <1>2, <4>1
      <4>3. Whole_(a[t]) >= pivot_val /\ Whole_(a[t]) \in Int
        BY <2>6, <4>2, WholeFacts
      <4> QED BY <2>3, <3>1, <4>3
    <3>2. CASE x # i - 1
      <4>1. x \in t .. (i - 1) - 1 /\ x \in Cells \ {t, i - 1}
        BY <1>0, <1>2, <2>2, <3>2
      <4> QED BY <1>2, <2>3, <4>1
    <3> QED BY <3>1, <3>2
  <2>9. t + 1 \in start .. i
    BY <1>0, <1>2, <2>2
  <2>10. WalkNext(w, i, pivot_val) = [a |-> b, target |-> t + 1]
    BY <1>1, <1>4, <2>1 DEF WalkNext
  <2> QED BY <2>3, <2>4, <2>5, <2>7, <2>8, <2>9, <2>10 DEF WalkInv
<1> QED BY <1>3, <1>4

LEMMA WalkEnds ==
    ASSUME array_size \in Nat, NEW start \in Cells, NEW end \in Cells, start <= end,
           NEW first \in [Cells -> Int], OneFraction(first), IsWhole(first[end])
    PROVE  WalkInv(Walk(first, start, end, first[end]), end, first, start, end, first[end])
<1> DEFINE pv == first[end]
           Good(f, i) == WalkInv(f[i], i, first, start, end, pv)
<1>0. start \in Nat /\ end \in Nat /\ start .. end \subseteq Cells /\ pv \in Int
  BY DEF Cells
<1>1. PICK f : Walks(f, first, start, end, pv) /\ Walk(first, start, end, pv) = f[end]
  BY <1>0, WalkIsDefined
<1>2. ASSUME NEW i \in start .. end
      PROVE  f[i] = IF i = start THEN [a |-> first, target |-> start]
                                 ELSE WalkNext(f[i - 1], i, pv)
  <2> DEFINE e == [i_ \in start .. end |->
                     IF i_ = start THEN [a |-> first, target |-> start]
                                   ELSE WalkNext(f[i_ - 1], i_, pv)]
  <2>1. f = e
    BY <1>1 DEF Walks
  <2>2. e[i] = IF i = start THEN [a |-> first, target |-> start]
                            ELSE WalkNext(f[i - 1], i, pv)
    OBVIOUS
  <2> HIDE DEF e
  <2> QED BY <2>1, <2>2
<1>3. Good(f, start)
  <2>1. f[start] = [a |-> first, target |-> start] /\ start \in start .. start
    BY <1>0, <1>2
  <2>2. \A x \in start .. start - 1 : FALSE
    BY <1>0
  <2>3. Moved(first, first, start, end)
    <3> DEFINE m == [k \in Cells |-> k]
    <3>1. m \in [Cells -> Cells] /\ \A k \in Cells : m[k] = k
      OBVIOUS
    <3> HIDE DEF m
    <3> QED BY <3>1 DEF Moved, MovedBy
  <2> QED BY <2>1, <2>2, <2>3 DEF WalkInv
<1>4. ASSUME NEW i \in start + 1 .. end, Good(f, i - 1)
      PROVE  Good(f, i)
  <2>1. i \in start .. end /\ i # start
    BY <1>0
  <2> HIDE DEF pv
  <2>2. f[i] = WalkNext(f[i - 1], i, pv)
    BY <1>2, <2>1
  <2>3. WalkInv(f[i - 1], i - 1, first, start, end, pv) /\ IsWhole(pv)
    BY <1>4 DEF pv
  <2> QED BY <1>0, <2>2, <2>3, WalkStep
<1> DEFINE Bad == {n \in Nat : start + n <= end /\ ~Good(f, start + n)}
<1>5. Bad = {}
  <2> HIDE DEF Good
  <2> SUFFICES ASSUME Bad # {} PROVE FALSE
    OBVIOUS
  <2>1. PICK n \in Bad : \A y \in Bad : <<y, n>> \notin OpToRel(<, Nat)
    <3>1. Bad \subseteq Nat
      OBVIOUS
    <3> HIDE DEF Bad
    <3> QED BY <3>1, WFMin, NatLessThanWellFounded
  <2>2. n \in Nat /\ start + n <= end /\ ~Good(f, start + n)
    BY <2>1
  <2>3. n # 0
    BY <1>0, <1>3, <2>2
  <2>4. n - 1 \in Nat /\ n - 1 < n /\ start + (n - 1) = (start + n) - 1
        /\ start + n \in start + 1 .. end
    BY <1>0, <2>2, <2>3
  <2>5. <<n - 1, n>> \in OpToRel(<, Nat)
    BY <2>2, <2>4 DEF OpToRel
  <2>6. n - 1 \notin Bad
    BY <2>1, <2>5
  <2>7. Good(f, (start + n) - 1)
    BY <1>0, <2>2, <2>4, <2>6
  <2> QED BY <1>4, <2>2, <2>4, <2>7
<1>6. Good(f, end)
  <2> HIDE DEF Good
  <2>1. PICK n \in Nat : n = end - start /\ start + n = end
    BY <1>0
  <2>2. n \notin Bad
    BY <1>5
  <2>3. Good(f, start + n)
    BY <1>0, <2>1, <2>2
  <2> QED BY <2>1, <2>3
<1> QED BY <1>1, <1>6

(* partition leaves the pivot between what is not above it and what is not *)
(* below it.                                                               *)
LEMMA Partitions ==
    ASSUME array_size \in Nat, A \in [Cells -> Int], OneFraction(A),
           NEW start \in Cells, NEW end \in Cells, NEW pivot \in start .. end - 1,
           NEW r, r = partition(start, end, pivot)
    PROVE  /\ r.a \in [Cells -> Int] /\ OneFraction(r.a) /\ Moved(A, r.a, start, end)
           /\ r.pivot \in start .. end
           /\ \A x \in start .. r.pivot : r.a[x] <= r.a[r.pivot]
           /\ \A x \in r.pivot .. end : r.a[r.pivot] <= r.a[x]
<1>0. /\ start \in Nat /\ end \in Nat /\ start <= end /\ start .. end \subseteq Cells
      /\ pivot \in start .. end /\ end \in start .. end /\ pivot \in Cells
  BY DEF Cells
<1>1. PICK chosen : chosen = swap(A, pivot, end)
  OBVIOUS
<1>2. /\ chosen \in [Cells -> Int] /\ OneFraction(chosen) /\ Moved(A, chosen, start, end)
      /\ chosen[end] = Whole_(A[pivot])
  BY <1>0, <1>1, SwapMoves
<1>3. A[pivot] \in Int
  BY <1>0
<1>4. chosen[end] \in Int /\ IsWhole(chosen[end])
  BY <1>2, <1>3, WholeFacts
<1>5. PICK w : w = Walk(chosen, start, end, chosen[end])
  OBVIOUS
<1>6. WalkInv(w, end, chosen, start, end, chosen[end])
  BY <1>0, <1>2, <1>4, <1>5, WalkEnds
<1>7. PICK a, t, pv : a = w.a /\ t = w.target /\ pv = chosen[end]
  OBVIOUS
<1>8. /\ a \in [Cells -> Int] /\ OneFraction(a) /\ t \in start .. end
      /\ Moved(chosen, a, start, end) /\ a[end] = pv
      /\ \A x \in start .. t - 1 : a[x] <= pv
      /\ \A x \in t .. end - 1 : a[x] >= pv
      /\ pv \in Int /\ IsWhole(pv) /\ Whole_(pv) = pv
  BY <1>4, <1>6, <1>7 DEF WalkInv, IsWhole
<1>9. PICK b : b = swap(a, t, end)
  OBVIOUS
<1>10. r.a = b /\ r.pivot = t
  <2>1. Whole_(chosen[end]) = chosen[end]
    BY <1>4 DEF IsWhole
  <2> QED BY <1>1, <1>5, <1>7, <1>9, <2>1 DEF partition
<1>11. /\ b \in [Cells -> Int] /\ OneFraction(b) /\ Moved(a, b, start, end)
       /\ b[end] = Whole_(a[t])
       /\ t # end => b[t] = a[end]
       /\ \A k \in Cells \ {t, end} : b[k] = a[k]
  BY <1>0, <1>8, <1>9, SwapMoves
<1>12. Moved(A, b, start, end)
  BY <1>2, <1>8, <1>11, MovedTwice
<1>13. b[t] = pv
  BY <1>8, <1>11
<1>14. ASSUME NEW x \in start .. t
       PROVE  b[x] <= b[t]
  <2>1. CASE x = t
    BY <1>8, <1>13, <2>1
  <2>2. CASE x # t
    <3>1. x \in start .. t - 1 /\ x \in Cells \ {t, end}
      BY <1>0, <1>8, <2>2
    <3> QED BY <1>8, <1>11, <1>13, <3>1
  <2> QED BY <2>1, <2>2
<1>15. ASSUME NEW x \in t .. end
       PROVE  b[t] <= b[x]
  <2>1. CASE x = t
    BY <1>8, <1>13, <2>1
  <2>2. CASE x # t /\ x = end
    <3>1. t \in t .. end - 1 /\ t \in Cells
      BY <1>0, <1>8, <2>2
    <3>2. a[t] >= pv /\ a[t] \in Int
      BY <1>8, <3>1
    <3>3. pv <= Whole_(a[t])
      BY <1>8, <3>2, WholeFacts
    <3> QED BY <1>11, <1>13, <2>2, <3>3
  <2>3. CASE x # t /\ x # end
    <3>1. x \in t .. end - 1 /\ x \in Cells \ {t, end}
      BY <1>0, <1>8, <2>3
    <3>2. a[x] >= pv /\ a[x] \in Int
      BY <1>8, <3>1
    <3> QED BY <1>8, <1>11, <1>13, <3>1, <3>2
  <2> QED BY <2>1, <2>2, <2>3
<1> QED BY <1>8, <1>10, <1>11, <1>12, <1>14, <1>15

(* The calls that are left: their slices do not meet, and the first call's *)
(* comes first.                                                            *)
Call == [start : Nat, end : Nat]
Within(s, lo, hi) ==
    \A k \in 1 .. Len(s) : lo <= s[k].start /\ s[k].start <= s[k].end /\ s[k].end <= hi
Ordered(s) == \A k, l \in 1 .. Len(s) : k < l => s[k].end < s[l].start
Covered(s, i, j) == \E k \in 1 .. Len(s) : s[k].start <= i /\ j <= s[k].end

LEMMA ConcatCalls ==
    ASSUME NEW s \in Seq(Call), NEW t \in Seq(Call), NEW lo \in Nat, NEW hi \in Nat,
           Within(s, lo, hi), Within(t, lo, hi), Ordered(s), Ordered(t),
           \A k \in 1 .. Len(s), l \in 1 .. Len(t) : s[k].end < t[l].start
    PROVE  /\ s \o t \in Seq(Call) /\ Within(s \o t, lo, hi) /\ Ordered(s \o t)
           /\ \A i, j \in Nat : Covered(s \o t, i, j) <=> Covered(s, i, j) \/ Covered(t, i, j)
<1>1. PICK u : u = s \o t
  OBVIOUS
<1>2. PICK m, n : m = Len(s) /\ n = Len(t)
  OBVIOUS
<1>3. /\ u \in Seq(Call) /\ Len(u) = m + n /\ m \in Nat /\ n \in Nat
      /\ \A k \in 1 .. m : u[k] = s[k] /\ k \in 1 .. m + n
      /\ \A k \in 1 .. n : u[m + k] = t[k] /\ m + k \in 1 .. m + n
  BY <1>1, <1>2
<1>4. \A k \in 1 .. m + n : k \in 1 .. m \/ (k - m \in 1 .. n /\ m + (k - m) = k)
  BY <1>3
<1>5. \A k \in 1 .. m + n : \/ k \in 1 .. m /\ u[k] = s[k]
                            \/ k - m \in 1 .. n /\ k > m /\ u[k] = t[k - m]
  BY <1>3, <1>4
<1>6. Within(u, lo, hi)
  BY <1>2, <1>3, <1>5 DEF Within
<1>7. Ordered(u)
  <2> SUFFICES ASSUME NEW k \in 1 .. m + n, NEW l \in 1 .. m + n, k < l
               PROVE  u[k].end < u[l].start
    BY <1>3 DEF Ordered
  <2>1. CASE k \in 1 .. m /\ l \in 1 .. m
    BY <1>2, <1>3, <2>1 DEF Ordered
  <2>2. CASE k \in 1 .. m /\ l \notin 1 .. m
    <3>1. l - m \in 1 .. n /\ u[l] = t[l - m] /\ u[k] = s[k]
      BY <1>3, <1>5, <2>2
    <3> QED BY <1>2, <2>2, <3>1
  <2>3. CASE k \notin 1 .. m
    <3>1. /\ l - m \in 1 .. n /\ u[l] = t[l - m]
          /\ k - m \in 1 .. n /\ u[k] = t[k - m] /\ k - m < l - m
      BY <1>3, <1>5, <2>3
    <3> QED BY <1>2, <3>1 DEF Ordered
  <2> QED BY <2>1, <2>2, <2>3
<1>8. ASSUME NEW i \in Nat, NEW j \in Nat
      PROVE  Covered(u, i, j) <=> Covered(s, i, j) \/ Covered(t, i, j)
  <2>1. ASSUME Covered(u, i, j)
        PROVE  Covered(s, i, j) \/ Covered(t, i, j)
    <3>1. PICK k \in 1 .. m + n : u[k].start <= i /\ j <= u[k].end
      BY <1>3, <2>1 DEF Covered
    <3> QED BY <1>2, <1>5, <3>1 DEF Covered
  <2>2. ASSUME Covered(s, i, j)
        PROVE  Covered(u, i, j)
    BY <1>2, <1>3, <2>2 DEF Covered
  <2>3. ASSUME Covered(t, i, j)
        PROVE  Covered(u, i, j)
    <3>1. PICK k \in 1 .. n : t[k].start <= i /\ j <= t[k].end
      BY <1>2, <2>3 DEF Covered
    <3>2. u[m + k] = t[k] /\ m + k \in 1 .. Len(u)
      BY <1>3
    <3> QED BY <3>1, <3>2 DEF Covered
  <2> QED BY <2>1, <2>2, <2>3
<1> QED BY <1>1, <1>3, <1>6, <1>7, <1>8

LEMMA TailCalls ==
    ASSUME NEW s \in Seq(Call), s # <<>>, NEW lo \in Nat, NEW hi \in Nat,
           Within(s, lo, hi), Ordered(s)
    PROVE  /\ Head(s) \in Call /\ Tail(s) \in Seq(Call)
           /\ lo <= Head(s).start /\ Head(s).start <= Head(s).end /\ Head(s).end <= hi
           /\ Within(Tail(s), lo, hi) /\ Ordered(Tail(s))
           /\ \A k \in 1 .. Len(Tail(s)) : Head(s).end < Tail(s)[k].start
           /\ \A i, j \in Nat :
                 Covered(s, i, j) <=> \/ Head(s).start <= i /\ j <= Head(s).end
                                      \/ Covered(Tail(s), i, j)
<1>1. PICK h, t : h = Head(s) /\ t = Tail(s)
  OBVIOUS
<1>2. /\ h \in Call /\ t \in Seq(Call) /\ Len(s) \in Nat /\ Len(s) > 0 /\ Len(t) = Len(s) - 1
      /\ s[1] = h /\ \A k \in 1 .. Len(t) : t[k] = s[k + 1] /\ k + 1 \in 1 .. Len(s)
  BY <1>1, HeadTailProperties
<1>3. 1 \in 1 .. Len(s) /\ \A k \in 1 .. Len(s) : k = 1 \/ (k - 1 \in 1 .. Len(t) /\ (k - 1) + 1 = k)
  BY <1>2
<1>4. lo <= h.start /\ h.start <= h.end /\ h.end <= hi /\ Within(t, lo, hi)
  BY <1>2, <1>3 DEF Within
<1>5. \A k \in 1 .. Len(t) : h.end < t[k].start
  BY <1>2, <1>3 DEF Ordered
<1>6. Ordered(t)
  <2> SUFFICES ASSUME NEW k \in 1 .. Len(t), NEW l \in 1 .. Len(t), k < l
               PROVE  t[k].end < t[l].start
    BY DEF Ordered
  <2>1. k + 1 < l + 1
    BY <1>2
  <2> QED BY <1>2, <2>1 DEF Ordered
<1>7. ASSUME NEW i \in Nat, NEW j \in Nat
      PROVE  Covered(s, i, j) <=> (h.start <= i /\ j <= h.end) \/ Covered(t, i, j)
  <2>1. ASSUME Covered(s, i, j)
        PROVE  (h.start <= i /\ j <= h.end) \/ Covered(t, i, j)
    <3>1. PICK k \in 1 .. Len(s) : s[k].start <= i /\ j <= s[k].end
      BY <2>1 DEF Covered
    <3>2. CASE k = 1
      BY <1>2, <3>1, <3>2
    <3>3. CASE k # 1
      <4>1. k - 1 \in 1 .. Len(t) /\ t[k - 1] = s[k]
        BY <1>2, <1>3, <3>3
      <4> QED BY <3>1, <4>1 DEF Covered
    <3> QED BY <3>2, <3>3
  <2>2. ASSUME h.start <= i /\ j <= h.end
        PROVE  Covered(s, i, j)
    BY <1>2, <1>3, <2>2 DEF Covered
  <2>3. ASSUME Covered(t, i, j)
        PROVE  Covered(s, i, j)
    BY <1>2, <2>3 DEF Covered
  <2> QED BY <2>1, <2>2, <2>3
<1> QED BY <1>1, <1>2, <1>4, <1>5, <1>6, <1>7

(* The two recursive calls.                                                *)
LeftCall(call, p) == IF p > call.start THEN << [call EXCEPT !.end = p - 1] >> ELSE <<>>
RightCall(call, p) == IF p < call.end THEN << [call EXCEPT !.start = p + 1] >> ELSE <<>>

LEMMA HalvesCalls ==
    ASSUME NEW call \in Call, NEW p \in call.start .. call.end, NEW left, NEW right,
           left = LeftCall(call, p), right = RightCall(call, p)
    PROVE  /\ left \o right \in Seq(Call) /\ Ordered(left \o right)
           /\ Within(left \o right, call.start, call.end)
           /\ \A i, j \in call.start .. call.end :
                 i < j => Covered(left \o right, i, j) \/ (i <= p /\ p <= j)
<1>0. call.start \in Nat /\ call.end \in Nat /\ p \in Nat
  BY DEF Call
<1>1. /\ left \in Seq(Call) /\ Ordered(left) /\ Within(left, call.start, call.end)
      /\ \A k \in 1 .. Len(left) : left[k].end = p - 1
      /\ \A i, j \in call.start .. call.end : i < j /\ j < p => Covered(left, i, j)
  <2>1. CASE p > call.start
    <3>1. PICK c : c = [call EXCEPT !.end = p - 1]
      OBVIOUS
    <3>2. c \in Call /\ c.start = call.start /\ c.end = p - 1
      BY <1>0, <2>1, <3>1 DEF Call
    <3>3. left = <<c>> /\ left \in Seq(Call) /\ Len(left) = 1 /\ left[1] = c
      BY <2>1, <3>1, <3>2 DEF LeftCall
    <3>4. \A k \in 1 .. Len(left) : k = 1
      BY <3>3
    <3> QED BY <1>0, <2>1, <3>2, <3>3, <3>4 DEF Ordered, Within, Covered
  <2>2. CASE ~(p > call.start)
    <3>1. left = <<>> /\ left \in Seq(Call) /\ Len(left) = 0
      BY <2>2 DEF LeftCall
    <3>2. \A k \in 1 .. Len(left) : FALSE
      BY <3>1
    <3> QED BY <1>0, <2>2, <3>1, <3>2 DEF Ordered, Within
  <2> QED BY <2>1, <2>2
<1>2. /\ right \in Seq(Call) /\ Ordered(right) /\ Within(right, call.start, call.end)
      /\ \A k \in 1 .. Len(right) : right[k].start = p + 1
      /\ \A i, j \in call.start .. call.end : i < j /\ p < i => Covered(right, i, j)
  <2>1. CASE p < call.end
    <3>1. PICK c : c = [call EXCEPT !.start = p + 1]
      OBVIOUS
    <3>2. c \in Call /\ c.start = p + 1 /\ c.end = call.end
      BY <1>0, <2>1, <3>1 DEF Call
    <3>3. right = <<c>> /\ right \in Seq(Call) /\ Len(right) = 1 /\ right[1] = c
      BY <2>1, <3>1, <3>2 DEF RightCall
    <3>4. \A k \in 1 .. Len(right) : k = 1
      BY <3>3
    <3>5. Ordered(right) /\ Within(right, call.start, call.end)
      BY <1>0, <2>1, <3>2, <3>3, <3>4 DEF Ordered, Within
    <3>6. ASSUME NEW i \in call.start .. call.end, NEW j \in call.start .. call.end,
                 p < i
          PROVE  Covered(right, i, j)
      <4>1. c.start <= i /\ j <= c.end /\ 1 \in 1 .. Len(right)
        BY <1>0, <3>2, <3>3, <3>6
      <4> QED BY <3>3, <4>1 DEF Covered
    <3> QED BY <3>2, <3>3, <3>4, <3>5, <3>6
  <2>2. CASE ~(p < call.end)
    <3>1. right = <<>> /\ right \in Seq(Call) /\ Len(right) = 0
      BY <2>2 DEF RightCall
    <3>2. \A k \in 1 .. Len(right) : FALSE
      BY <3>1
    <3> QED BY <1>0, <2>2, <3>1, <3>2 DEF Ordered, Within
  <2> QED BY <2>1, <2>2
<1>3. \A k \in 1 .. Len(left), l \in 1 .. Len(right) : left[k].end < right[l].start
  BY <1>0, <1>1, <1>2
<1>4. /\ left \o right \in Seq(Call) /\ Ordered(left \o right)
      /\ Within(left \o right, call.start, call.end)
      /\ \A i, j \in Nat : Covered(left \o right, i, j) <=> Covered(left, i, j) \/ Covered(right, i, j)
  <2>1. PICK lo, hi : lo = call.start /\ hi = call.end
    OBVIOUS
  <2>2. PICK l, r : l = left /\ r = right
    OBVIOUS
  <2>3. /\ l \in Seq(Call) /\ r \in Seq(Call) /\ lo \in Nat /\ hi \in Nat
        /\ Within(l, lo, hi) /\ Within(r, lo, hi) /\ Ordered(l) /\ Ordered(r)
        /\ \A k \in 1 .. Len(l), m \in 1 .. Len(r) : l[k].end < r[m].start
    BY <1>0, <1>1, <1>2, <1>3, <2>1, <2>2
  <2>4. /\ l \o r \in Seq(Call) /\ Within(l \o r, lo, hi) /\ Ordered(l \o r)
        /\ \A i, j \in Nat : Covered(l \o r, i, j) <=> Covered(l, i, j) \/ Covered(r, i, j)
    BY <2>3, ConcatCalls
  <2> QED BY <2>1, <2>2, <2>4
<1>5. ASSUME NEW i \in call.start .. call.end, NEW j \in call.start .. call.end, i < j
      PROVE  Covered(left \o right, i, j) \/ (i <= p /\ p <= j)
  <2>1. i \in Nat /\ j \in Nat
    BY <1>0
  <2> QED BY <1>0, <1>1, <1>2, <1>4, <1>5, <2>1
<1> QED BY <1>4, <1>5

(* The invariant: two cells that no call has in common are in order, and   *)
(* the array is made of what it was made of.                               *)
CutInv == \A i, j \in Cells : i < j => Covered(calls, i, j) \/ A[i] <= A[j]
SortInv ==
    /\ array_size \in Nat
    /\ A \in [Cells -> Int] /\ generated \in [Cells -> Int]
    /\ OneFraction(A)
    /\ calls \in Seq(Call) /\ Within(calls, 0, array_size) /\ Ordered(calls)
    /\ CutInv
    /\ Moved(generated, A, 0, array_size)

LEMMA MovedMore ==
    ASSUME array_size \in Nat, NEW a, NEW b, NEW lo \in Nat, NEW hi \in Nat,
           hi <= array_size, Moved(a, b, lo, hi)
    PROVE  Moved(a, b, 0, array_size)
<1>1. PICK m \in [Cells -> Cells] : MovedBy(m, a, b, lo, hi)
  BY DEF Moved
<1>2. \A i \in Cells : i \in 0 .. array_size /\ m[i] \in 0 .. array_size
  BY DEF Cells
<1>3. MovedBy(m, a, b, 0, array_size)
  BY <1>1, <1>2 DEF MovedBy
<1> QED BY <1>3 DEF Moved

(* The cut survives a partition.                                           *)
LEMMA CutKept ==
    ASSUME SortInv, NEW lo \in Nat, NEW hi \in Nat, lo <= hi, hi <= array_size,
           NEW rest \in Seq(Call), \A k \in 1 .. Len(rest) : hi < rest[k].start,
           \A i, j \in Nat : Covered(calls, i, j) <=>
                               (lo <= i /\ j <= hi) \/ Covered(rest, i, j),
           NEW b \in [Cells -> Int], Moved(A, b, lo, hi),
           NEW new, \A i, j \in Nat : Covered(rest, i, j) => Covered(new, i, j),
           \A i, j \in lo .. hi : i < j => Covered(new, i, j) \/ b[i] <= b[j]
    PROVE  \A i, j \in Cells : i < j => Covered(new, i, j) \/ b[i] <= b[j]
<1> SUFFICES ASSUME NEW i \in Cells, NEW j \in Cells, i < j, ~Covered(new, i, j)
             PROVE  b[i] <= b[j]
  OBVIOUS
<1>0. /\ i \in Nat /\ j \in Nat /\ array_size \in Nat /\ lo .. hi \subseteq Cells
      /\ A \in [Cells -> Int] /\ OneFraction(A)
      /\ \A k, l \in Cells : k < l => Covered(calls, k, l) \/ A[k] <= A[l]
  <2>1. array_size \in Nat
    BY DEF SortInv
  <2>2. \A k \in 0 .. array_size : k \in Nat
    BY <2>1
  <2>3. i \in Nat /\ j \in Nat /\ lo .. hi \subseteq Cells
    BY <2>1, <2>2 DEF Cells
  <2>4. /\ A \in [Cells -> Int] /\ OneFraction(A)
        /\ \A k, l \in Cells : k < l => Covered(calls, k, l) \/ A[k] <= A[l]
    BY DEF SortInv, CutInv
  <2> QED BY <2>1, <2>3, <2>4
<1>1. PICK m \in [Cells -> Cells] : MovedBy(m, A, b, lo, hi)
  BY DEF Moved
<1>8. \A k \in Cells : IF k \in lo .. hi
                          THEN m[k] \in lo .. hi /\ b[k] \in {A[m[k]], Whole_(A[m[k]])}
                          ELSE m[k] = k /\ b[k] = A[k]
  BY <1>1 DEF MovedBy
<1>2. ~Covered(rest, i, j)
  BY <1>0
<1>3. \A k, l \in Nat : Covered(rest, k, l) => k > hi
  <2> SUFFICES ASSUME NEW k \in Nat, NEW l \in Nat, Covered(rest, k, l)
               PROVE  k > hi
    OBVIOUS
  <2>1. PICK n \in 1 .. Len(rest) : rest[n].start <= k
    BY DEF Covered
  <2>2. rest[n] \in Call
    OBVIOUS
  <2>3. rest[n].start \in Nat /\ hi < rest[n].start
    BY <2>2 DEF Call
  <2> QED BY <2>1, <2>3
<1>4. CASE i \in lo .. hi /\ j \in lo .. hi
  BY <1>4
<1>5. CASE i \notin lo .. hi /\ j \notin lo .. hi
  <2>1. ~Covered(calls, i, j)
    BY <1>0, <1>2, <1>5
  <2>2. A[i] <= A[j] /\ b[i] = A[i] /\ b[j] = A[j]
    BY <1>0, <1>1, <1>5, <2>1 DEF MovedBy
  <2> QED BY <2>2
<1>6. CASE i \notin lo .. hi /\ j \in lo .. hi
  <2>1. /\ m[j] \in lo .. hi /\ b[j] \in {A[m[j]], Whole_(A[m[j]])}
        /\ b[i] = A[i] /\ m[j] \in Nat /\ m[j] \in Cells
    <3>1. m[j] \in lo .. hi /\ b[j] \in {A[m[j]], Whole_(A[m[j]])}
      BY <1>8, <1>6
    <3>2. b[i] = A[i]
      BY <1>8, <1>6
    <3> QED BY <1>0, <3>1, <3>2
  <2>2. i < m[j] /\ i < lo
    BY <1>0, <1>6, <2>1
  <2>3. ~Covered(calls, i, m[j])
    BY <1>0, <1>3, <2>1, <2>2
  <2>4. A[i] <= A[m[j]] /\ A[i] \in Int /\ A[m[j]] \in Int
    BY <1>0, <2>1, <2>2, <2>3
  <2>5. A[i] <= Whole_(A[m[j]])
    <3>1. CASE IsWhole(A[m[j]])
      BY <2>4, <3>1 DEF IsWhole
    <3>2. CASE ~IsWhole(A[m[j]])
      <4>1. IsWhole(A[i])
        BY <1>0, <2>1, <2>2, <3>2 DEF OneFraction
      <4> QED BY <2>4, <4>1, WholeFacts
    <3> QED BY <3>1, <3>2
  <2> QED BY <2>1, <2>4, <2>5
<1>7. CASE i \in lo .. hi /\ j \notin lo .. hi
  <2>1. /\ m[i] \in lo .. hi /\ b[i] \in {A[m[i]], Whole_(A[m[i]])}
        /\ b[j] = A[j] /\ m[i] \in Nat /\ m[i] \in Cells
    <3>1. m[i] \in lo .. hi /\ b[i] \in {A[m[i]], Whole_(A[m[i]])}
      BY <1>8, <1>7
    <3>2. b[j] = A[j]
      BY <1>8, <1>7
    <3> QED BY <1>0, <3>1, <3>2
  <2>2. m[i] < j /\ j > hi /\ m[i] <= hi
    BY <1>0, <1>7, <2>1
  <2>3. ~Covered(calls, m[i], j)
    BY <1>0, <1>3, <2>1, <2>2
  <2>4. A[m[i]] <= A[j] /\ A[j] \in Int /\ A[m[i]] \in Int
    BY <1>0, <2>1, <2>2, <2>3
  <2>5. Whole_(A[m[i]]) <= A[m[i]] /\ Whole_(A[m[i]]) \in Int
    BY <2>4, WholeFacts
  <2> QED BY <2>1, <2>4, <2>5
<1> QED BY <1>4, <1>5, <1>6, <1>7

LEMMA SortStep ==
    ASSUME SortInv, quicksort
    PROVE  SortInv'
<1>0. /\ array_size \in Nat /\ A \in [Cells -> Int] /\ generated \in [Cells -> Int]
      /\ OneFraction(A) /\ calls \in Seq(Call) /\ calls # <<>>
      /\ Within(calls, 0, array_size) /\ Ordered(calls)
      /\ Moved(generated, A, 0, array_size)
      /\ array_size' = array_size /\ generated' = generated /\ Cells' = Cells
  BY DEF SortInv, quicksort, Cells
<1>1. PICK call, rest, lo, hi : /\ call = Head(calls) /\ rest = Tail(calls)
                                /\ lo = call.start /\ hi = call.end
  OBVIOUS
<1>2. /\ call \in Call /\ rest \in Seq(Call) /\ lo \in Nat /\ hi \in Nat
      /\ lo <= hi /\ hi <= array_size /\ lo \in Cells /\ hi \in Cells
      /\ Within(rest, 0, array_size) /\ Ordered(rest)
      /\ \A k \in 1 .. Len(rest) : hi < rest[k].start
      /\ \A i, j \in Nat : Covered(calls, i, j) <=>
                             (lo <= i /\ j <= hi) \/ Covered(rest, i, j)
  <2>1. /\ call \in Call /\ rest \in Seq(Call) /\ lo <= hi /\ hi <= array_size
        /\ Within(rest, 0, array_size) /\ Ordered(rest)
        /\ \A k \in 1 .. Len(rest) : hi < rest[k].start
        /\ \A i, j \in Nat : Covered(calls, i, j) <=>
                               (lo <= i /\ j <= hi) \/ Covered(rest, i, j)
    BY <1>0, <1>1, TailCalls
  <2>2. lo \in Nat /\ hi \in Nat
    BY <1>1, <2>1 DEF Call
  <2> QED BY <1>0, <2>1, <2>2 DEF Cells
<1>3. CASE lo >= hi /\ calls' = rest /\ A' = A
  <2>1. \A i, j \in lo .. hi : ~(i < j)
    BY <1>2, <1>3
  <2>2. Moved(A, A, lo, hi)
    <3> DEFINE m == [k \in Cells |-> k]
    <3>1. m \in [Cells -> Cells] /\ \A k \in Cells : m[k] = k
      OBVIOUS
    <3> HIDE DEF m
    <3> QED BY <3>1 DEF Moved, MovedBy
  <2>3. \A i, j \in Cells : i < j => Covered(rest, i, j) \/ A[i] <= A[j]
    BY <1>0, <1>2, <2>1, <2>2, CutKept
  <2> QED BY <1>0, <1>2, <1>3, <2>3 DEF SortInv, CutInv, OneFraction, Moved, MovedBy
<1>4. ASSUME NEW p \in lo .. hi - 1, NEW r, r = partition(lo, hi, p),
             NEW left, NEW right,
             left = IF r.pivot > lo THEN << [call EXCEPT !.end = r.pivot - 1] >> ELSE <<>>,
             right = IF r.pivot < hi THEN << [call EXCEPT !.start = r.pivot + 1] >> ELSE <<>>,
             A' = r.a, calls' = left \o right \o rest
      PROVE  SortInv'
  <2>1. PICK b, t, s : b = r.a /\ t = r.pivot /\ s = left \o right
    OBVIOUS
  <2>2. /\ b \in [Cells -> Int] /\ OneFraction(b) /\ Moved(A, b, lo, hi)
        /\ t \in lo .. hi
        /\ \A x \in lo .. t : b[x] <= b[t]
        /\ \A x \in t .. hi : b[t] <= b[x]
    BY <1>0, <1>2, <1>4, <2>1, Partitions
  <2>3. /\ s \in Seq(Call) /\ Ordered(s) /\ Within(s, lo, hi)
        /\ \A i, j \in lo .. hi : i < j => Covered(s, i, j) \/ (i <= t /\ t <= j)
    <3>1. t \in call.start .. call.end
      BY <1>1, <2>2
    <3>2. left = LeftCall(call, t) /\ right = RightCall(call, t)
      BY <1>1, <1>4, <2>1 DEF LeftCall, RightCall
    <3>3. /\ left \o right \in Seq(Call) /\ Ordered(left \o right)
          /\ Within(left \o right, call.start, call.end)
          /\ \A i, j \in call.start .. call.end :
                i < j => Covered(left \o right, i, j) \/ (i <= t /\ t <= j)
      BY <1>2, <3>1, <3>2, HalvesCalls
    <3> QED BY <1>1, <2>1, <3>3
  <2>4. PICK new : new = s \o rest
    OBVIOUS
  <2>5. /\ new \in Seq(Call) /\ Within(new, 0, array_size) /\ Ordered(new)
        /\ \A i, j \in Nat : Covered(new, i, j) <=> Covered(s, i, j) \/ Covered(rest, i, j)
    <3>1. \A k \in 1 .. Len(s) : s[k] \in Call /\ lo <= s[k].start /\ s[k].end <= hi
      BY <2>3 DEF Within
    <3>2. Within(s, 0, array_size)
      <4> SUFFICES ASSUME NEW k \in 1 .. Len(s)
                   PROVE  /\ 0 <= s[k].start /\ s[k].start <= s[k].end
                          /\ s[k].end <= array_size
        BY DEF Within
      <4>1. s[k].start \in Nat /\ s[k].end \in Nat /\ s[k].start <= s[k].end /\ s[k].end <= hi
        BY <2>3, <3>1 DEF Within, Call
      <4> QED BY <1>0, <1>2, <4>1
    <3>3. \A k \in 1 .. Len(s), l \in 1 .. Len(rest) : s[k].end < rest[l].start
      <4>1. \A l \in 1 .. Len(rest) : rest[l] \in Call
        BY <1>2
      <4> QED BY <1>2, <3>1, <4>1 DEF Call
    <3> QED BY <1>0, <1>2, <2>3, <2>4, <3>2, <3>3, ConcatCalls
  <2>6. ASSUME NEW i \in lo .. hi, NEW j \in lo .. hi, i < j, ~Covered(new, i, j)
        PROVE  b[i] <= b[j]
    <3>1. i \in Nat /\ j \in Nat /\ i \in Cells /\ j \in Cells /\ t \in Cells
      <4>1. \A x \in lo .. hi : x \in Nat /\ x \in 0 .. array_size
        BY <1>0, <1>2
      <4> QED BY <2>2, <4>1 DEF Cells
    <3>2. i <= t /\ t <= j
      BY <2>3, <2>5, <2>6, <3>1
    <3>3. b[i] <= b[t] /\ b[t] <= b[j]
      BY <1>2, <2>2, <3>1, <3>2
    <3>4. b[i] \in Int /\ b[t] \in Int /\ b[j] \in Int
      BY <2>2, <3>1
    <3> QED BY <3>3, <3>4
  <2>7. \A i, j \in Cells : i < j => Covered(new, i, j) \/ b[i] <= b[j]
    BY <1>0, <1>2, <2>2, <2>5, <2>6, CutKept
  <2>8. Moved(generated, b, 0, array_size)
    BY <1>0, <1>2, <2>2, MovedMore, MovedTwice
  <2>9. A' = b /\ calls' = new
    BY <1>4, <2>1, <2>3, <2>4
  <2>10. OneFraction(A)' /\ CutInv' /\ Within(calls, 0, array_size)' /\ Ordered(calls)'
    BY <1>0, <2>2, <2>5, <2>7, <2>9 DEF CutInv, OneFraction, Within, Ordered, Covered
  <2>11. Moved(generated, A, 0, array_size)'
    <3>1. PICK m \in [Cells -> Cells] : MovedBy(m, generated, b, 0, array_size)
      BY <2>8 DEF Moved
    <3>2. MovedBy(m, generated, A, 0, array_size)'
      BY <1>0, <2>9, <3>1 DEF MovedBy
    <3>3. m \in [Cells -> Cells]'
      BY <1>0
    <3> QED BY <3>2, <3>3 DEF Moved
  <2> QED BY <1>0, <2>2, <2>5, <2>9, <2>10, <2>11 DEF SortInv
<1>5. \/ lo >= hi /\ calls' = rest /\ A' = A
      \/ \E p \in lo .. hi - 1 :
            LET r == partition(lo, hi, p)
                left == IF r.pivot > lo THEN << [call EXCEPT !.end = r.pivot - 1] >> ELSE <<>>
                right == IF r.pivot < hi THEN << [call EXCEPT !.start = r.pivot + 1] >> ELSE <<>>
            IN  A' = r.a /\ calls' = left \o right \o rest
  BY <1>1 DEF quicksort
<1> QED BY <1>3, <1>4, <1>5

LEMMA SortStarts ==
    ASSUME NoSort \/ SortInit
    PROVE  SortInv
<1>1. /\ array_size \in Nat /\ A \in [Cells -> Int] /\ generated = A
      /\ \A i \in Cells : i < array_size => IsWhole(A[i])
      /\ (calls = <<>> /\ array_size = 0) \/ calls = << [start |-> 0, end |-> array_size] >>
  <2>1. CASE NoSort
    BY <2>1 DEF NoSort, Cells
  <2>2. CASE SortInit
    <3>1. array_size \in Nat /\ generated = A
          /\ calls = << [start |-> 0, end |-> array_size] >>
      BY <2>2, LengthIsBounded DEF SortInit
    <3>2. PICK array \in [0 .. array_size - 1 -> Whole], cell \in Behind :
             A = [i \in Cells |-> IF i < array_size THEN array[i] ELSE cell]
      BY <2>2 DEF SortInit
    <3>3. cell \in Int
      BY BehindConverts
    <3>4. ASSUME NEW i \in Cells
          PROVE  A[i] \in Int /\ (i < array_size => IsWhole(A[i]))
      <4>1. CASE i < array_size
        <5>1. i \in 0 .. array_size - 1
          BY <3>1, <4>1 DEF Cells
        <5>2. A[i] = array[i] /\ array[i] \in Whole
          BY <3>2, <4>1, <5>1
        <5>3. A[i] \in Nat /\ A[i] % 2 = 0
          BY <5>2, RandIsWhole
        <5>4. 2 * (A[i] \div 2) = A[i]
          BY <5>3
        <5> QED BY <5>3, <5>4 DEF IsWhole, Whole_
      <4>2. CASE ~(i < array_size)
        BY <3>2, <3>3, <4>2
      <4> QED BY <4>1, <4>2
    <3>5. A \in [Cells -> Int]
      BY <3>2, <3>4
    <3> QED BY <3>1, <3>4, <3>5
  <2> QED BY <2>1, <2>2
<1>2. OneFraction(A)
  BY <1>1 DEF OneFraction, Cells
<1>3. /\ calls \in Seq(Call) /\ Within(calls, 0, array_size) /\ Ordered(calls)
      /\ \A i, j \in Cells : i < j => Covered(calls, i, j)
  <2>1. CASE calls = <<>> /\ array_size = 0
    <3>1. \A i, j \in Cells : ~(i < j)
      BY <2>1 DEF Cells
    <3>2. calls \in Seq(Call) /\ Len(calls) = 0 /\ \A k \in 1 .. Len(calls) : FALSE
      BY <2>1
    <3> QED BY <3>1, <3>2 DEF Within, Ordered
  <2>2. CASE calls = << [start |-> 0, end |-> array_size] >>
    <3>1. PICK c : c = [start |-> 0, end |-> array_size]
      OBVIOUS
    <3>2. c \in Call /\ c.start = 0 /\ c.end = array_size
      BY <1>1, <3>1 DEF Call
    <3>3. calls \in Seq(Call) /\ Len(calls) = 1 /\ calls[1] = c
      BY <2>2, <3>1, <3>2
    <3>4. 1 \in 1 .. Len(calls) /\ \A k \in 1 .. Len(calls) : k = 1
      BY <3>3
    <3> QED BY <1>1, <3>2, <3>3, <3>4 DEF Within, Ordered, Covered, Cells
  <2> QED BY <1>1, <2>1, <2>2
<1>4. Moved(generated, A, 0, array_size)
  <2> DEFINE m == [k \in Cells |-> k]
  <2>1. m \in [Cells -> Cells] /\ \A k \in Cells : m[k] = k /\ k \in 0 .. array_size
    BY DEF Cells
  <2> HIDE DEF m
  <2> QED BY <1>1, <2>1 DEF Moved, MovedBy
<1> QED BY <1>1, <1>2, <1>3, <1>4 DEF SortInv, CutInv

LEMMA SortEnds ==
    ASSUME SortInv
    PROVE  SortsOneCellTooMany
<1> SUFFICES ASSUME calls = <<>>
             PROVE  /\ \A i \in 1 .. array_size : A[i - 1] <= A[i]
                    /\ \E m \in [Cells -> Cells] :
                          /\ \A i, j \in Cells : m[i] = m[j] => i = j
                          /\ \A i \in Cells : Whole_(A[i]) = Whole_(generated[m[i]])
  BY DEF SortsOneCellTooMany
<1>1. \A i, j \in Cells : i < j => A[i] <= A[j]
  <2>1. \A k \in 1 .. Len(calls) : FALSE
    OBVIOUS
  <2> QED BY <2>1 DEF SortInv, CutInv, Covered
<1>2. \A i \in 1 .. array_size : i - 1 \in Cells /\ i \in Cells /\ i - 1 < i
  BY DEF SortInv, Cells
<1>3. PICK m \in [Cells -> Cells] : MovedBy(m, generated, A, 0, array_size)
  BY DEF SortInv, Moved
<1>4. ASSUME NEW i \in Cells
      PROVE  Whole_(A[i]) = Whole_(generated[m[i]])
  <2>1. generated[m[i]] \in Int /\ A[i] \in {generated[m[i]], Whole_(generated[m[i]])}
    BY <1>3 DEF SortInv, MovedBy, Cells
  <2>2. Whole_(Whole_(generated[m[i]])) = Whole_(generated[m[i]])
    BY <2>1, WholeFacts DEF IsWhole
  <2> QED BY <2>1, <2>2
<1>5. \A i, j \in Cells : m[i] = m[j] => i = j
  BY <1>3 DEF MovedBy
<1> QED BY <1>1, <1>2, <1>4, <1>5

(* When sort.c is done, the array and the cell behind it, which main's     *)
(* call of quicksort takes for one of the array's, are sorted, and they    *)
(* hold what they held before but for the fraction that swap's unsigned    *)
(* may have lost: whatever the length, the numbers and the pivots that     *)
(* rand returns.                                                           *)
THEOREM QuicksortSorts == Spec => []SortsOneCellTooMany
<1>1. Init => SortInv
  BY SortStarts DEF Init
<1>2. SortInv /\ [Next]_vars => SortInv'
  <2> SUFFICES ASSUME SortInv, [Next]_vars PROVE SortInv'
    OBVIOUS
  <2>1. CASE UNCHANGED sortVars
    BY <2>1 DEF sortVars, SortInv, Cells, CutInv, OneFraction, Moved, MovedBy,
                Within, Ordered, Covered
  <2>2. CASE quicksort
    BY <2>2, SortStep
  <2> QED BY <2>1, <2>2 DEF Next, vars
<1>3. SortInv => SortsOneCellTooMany
  BY SortEnds
<1> QED BY <1>1, <1>2, <1>3, PTL DEF Spec
=============================================================================
