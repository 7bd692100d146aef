------------------------------ MODULE MsmProofs ------------------------------
(***************************************************************************)
(* Proofs about the two modules of the MSM side of the storage driver that *)
(* compute over tables: the choice of a tuning phase (MmcTuning) and the   *)
(* clock tree (ClockTree).  First the scan over the phases, by its         *)
(* invariant; then the clock tables row by row, what the clock driver's    *)
(* operations do to its state, and the books and the rates of every        *)
(* behaviour.                                                              *)
(***************************************************************************)
EXTENDS MmcTuning, ClockTree, WellFoundedInduction, FiniteSetTheorems, SequenceTheorems, TLAPS

-----------------------------------------------------------------------------
(* Numbers *)

\* A set of natural numbers has a least element ...
LEMMA LeastExists ==
    ASSUME NEW S \in SUBSET Nat, S # {}
    PROVE  \E x \in S : \A y \in S : x <= y
<1>1. PICK R : R = OpToRel(<, Nat)
  OBVIOUS
<1>2. IsWellFoundedOn(R, Nat)
  BY <1>1, NatLessThanWellFounded
<1>3. \E x \in S : \A y \in S : ~ (<<y, x>> \in R)
  BY ONLY <1>2, S \subseteq Nat, S # {}, WFMin
<1>4. \A x, y \in Nat : y < x => <<y, x>> \in R
  BY <1>1 DEF OpToRel
<1>5. PICK x \in S : \A y \in S : ~ (<<y, x>> \in R)
  BY <1>3
<1>6. \A y \in S : x <= y
  <2> SUFFICES ASSUME NEW y \in S
               PROVE  x <= y
    OBVIOUS
  <2>1. x \in Nat /\ y \in Nat
    OBVIOUS
  <2>2. ~ (y < x)
    BY <1>4, <1>5, <2>1
  <2> QED BY <2>1, <2>2
<1> QED BY <1>5, <1>6

\* ... and one that is bounded has a greatest.
LEMMA GreatestExists ==
    ASSUME NEW S \in SUBSET Nat, S # {}, NEW b \in Nat, \A x \in S : x <= b
    PROVE  \E x \in S : \A y \in S : y <= x
<1> DEFINE T == {b - x : x \in S}
<1>1. T \in SUBSET Nat /\ T # {}
  <2>1. ASSUME NEW x \in S
        PROVE  b - x \in Nat
    BY x \in Nat, x <= b
  <2> QED BY <2>1
<1>2. PICK z \in T : \A y \in T : z <= y
  <2> HIDE DEF T
  <2> QED BY ONLY <1>1, LeastExists
<1>3. PICK x \in S : z = b - x
  OBVIOUS
<1>4. ASSUME NEW y \in S
      PROVE  y <= x
  <2>1. b - y \in T
    OBVIOUS
  <2>2. b - x <= b - y
    BY <1>2, <1>3, <2>1
  <2>3. x \in Nat /\ y \in Nat
    OBVIOUS
  <2> QED BY <2>2, <2>3
<1> QED BY <1>4

LEMMA MaxPhasesType == MAX_PHASES \in Nat \ {0}
  BY TuningAssumption

\* Past the last delay comes the first.
LEMMA Modulo ==
    ASSUME NEW x \in Nat
    PROVE  /\ x < MAX_PHASES => x % MAX_PHASES = x
           /\ MAX_PHASES <= x /\ x < 2 * MAX_PHASES => x % MAX_PHASES = x - MAX_PHASES
           /\ x % MAX_PHASES \in Phases
<1>1. MAX_PHASES \in Nat /\ MAX_PHASES > 0
  BY MaxPhasesType
<1>2. x % MAX_PHASES \in Phases
  BY <1>1 DEF Phases
<1>3. x < MAX_PHASES => x % MAX_PHASES = x
  BY <1>1
<1>4. MAX_PHASES <= x /\ x < 2 * MAX_PHASES => x % MAX_PHASES = x - MAX_PHASES
  BY <1>1
<1> QED BY <1>2, <1>3, <1>4

LEMMA ModuloPast ==
    ASSUME NEW x \in Nat, MAX_PHASES <= x, x < 2 * MAX_PHASES
    PROVE  x % MAX_PHASES = x - MAX_PHASES
  BY Modulo

-----------------------------------------------------------------------------
(* Rows of delays that passed *)

LEMMA EndExists ==
    ASSUME NEW passed \in SUBSET Phases, NEW s \in passed
    PROVE  /\ End(passed, s) \in passed /\ s <= End(passed, s)
           /\ s .. End(passed, s) \subseteq passed /\ End(passed, s) + 1 \notin passed
<1> DEFINE S == {e \in Phases : s <= e /\ e + 1 \notin passed}
<1>1. MAX_PHASES \in Nat /\ MAX_PHASES > 0 /\ s \in Nat /\ s < MAX_PHASES
  BY MaxPhasesType DEF Phases
<1>2. S \in SUBSET Nat
  BY <1>1 DEF Phases
<1>3. MAX_PHASES - 1 \in S
  BY <1>1 DEF Phases
<1>4. PICK e \in S : \A y \in S : e <= y
  <2> HIDE DEF S
  <2> QED BY ONLY <1>2, <1>3, LeastExists
<1>5. ASSUME NEW k \in s .. e
      PROVE  k \in passed
  <2>1. CASE k = s
    BY <2>1
  <2>2. CASE k # s
    <3>1. e \in Nat /\ e < MAX_PHASES
      BY <1>1 DEF Phases
    <3>2. k - 1 \in Phases /\ s <= k - 1 /\ k - 1 < e /\ k \in Nat
      BY <1>1, <2>2, <3>1 DEF Phases
    <3>3. k - 1 \notin S
      BY <1>4, <3>1, <3>2
    <3>4. (k - 1) + 1 \in passed
      BY <3>2, <3>3
    <3> QED BY <3>2, <3>4
  <2> QED BY <2>1, <2>2
<1>6. e \in s .. e
  BY <1>1 DEF Phases
<1>7. e \in passed /\ s <= e /\ s .. e \subseteq passed /\ e + 1 \notin passed
  BY <1>5, <1>6
<1> QED BY <1>7 DEF End

\* Going back from a delay that passed, a row starts.
LEMMA StartExists ==
    ASSUME NEW passed \in SUBSET Phases, NEW t \in passed
    PROVE  \E a \in Starts(passed) : a <= t /\ a .. t \subseteq passed
<1> DEFINE S == {a \in Phases : a <= t /\ a .. t \subseteq passed}
<1>1. MAX_PHASES \in Nat /\ MAX_PHASES > 0 /\ t \in Nat /\ t < MAX_PHASES
  BY MaxPhasesType DEF Phases
<1>2. S \in SUBSET Nat
  BY <1>1 DEF Phases
<1>3. t \in S
  BY <1>1 DEF Phases
<1>4. PICK a \in S : \A y \in S : a <= y
  <2> HIDE DEF S
  <2> QED BY ONLY <1>2, <1>3, LeastExists
<1>5. a \in Nat /\ a < MAX_PHASES /\ a <= t
  BY <1>1 DEF Phases
<1>6. a \in passed
  BY <1>1, <1>5
<1>7. ASSUME a - 1 \in passed
      PROVE  FALSE
  <2>1. a - 1 \in Phases
    BY <1>7
  <2>2. (a - 1) .. t \subseteq passed
    <3> SUFFICES ASSUME NEW k \in (a - 1) .. t
                 PROVE  k \in passed
      OBVIOUS
    <3>1. k = a - 1 \/ k \in a .. t
      BY <1>1, <1>5
    <3> QED BY <1>7, <3>1
  <2>3. a - 1 \in S
    BY <1>5, <2>1, <2>2, <1>1
  <2> QED BY <1>4, <1>5, <2>3
<1> QED BY <1>5, <1>6, <1>7 DEF Starts

\* A row does not go on before it starts or behind its end.
LEMMA EndOfInterval ==
    ASSUME NEW passed \in SUBSET Phases, NEW a \in passed, NEW t \in passed,
           a <= t, a .. t \subseteq passed
    PROVE  t <= End(passed, a)
<1>1. a \in Nat /\ t \in Nat
  BY MaxPhasesType DEF Phases
<1>2. PICK e : e = End(passed, a)
  OBVIOUS
<1>3. e \in passed /\ a <= e /\ e + 1 \notin passed
  BY <1>2, EndExists
<1>4. e \in Nat
  BY <1>3, MaxPhasesType DEF Phases
<1>5. ~ (e + 1 \in a .. t)
  BY <1>3
<1>6. t <= e
  BY <1>1, <1>3, <1>4, <1>5
<1> QED BY <1>2, <1>6

\* The rows that are compared: when the last one wraps, the first is its end.
Rows(passed) == Starts(passed) \ (IF Wraps(passed) THEN {0} ELSE {})

LEMMA PhaseType ==
    ASSUME NEW p \in Phases
    PROVE  p \in Nat /\ p < MAX_PHASES
  BY MaxPhasesType DEF Phases

\* The delays of the row at 0, which goes on behind the last delay, are not
\* those of the row that wraps.
LEMMA FirstRow ==
    ASSUME NEW passed \in SUBSET Phases, Wraps(passed), NEW r \in Rows(passed)
    PROVE  /\ End(passed, 0) \in Nat /\ End(passed, 0) + 2 <= r
           /\ 0 .. End(passed, 0) \subseteq passed
<1>1. 0 \in passed /\ r \in passed /\ r # 0 /\ r - 1 \notin passed
  BY DEF Wraps, Rows, Starts
<1>2. PICK f : f = End(passed, 0)
  OBVIOUS
<1>3. f \in passed /\ 0 .. f \subseteq passed
  BY <1>1, <1>2, EndExists
<1>4. f \in Nat /\ r \in Nat
  BY <1>1, <1>3, PhaseType
<1>5. ~ (r - 1 \in 0 .. f)
  BY <1>1, <1>3
<1>6. f + 2 <= r
  <2>1. ~ (r - 1 <= f)
    BY <1>1, <1>4, <1>5
  <2> QED BY <1>4, <2>1
<1> QED BY <1>2, <1>3, <1>4, <1>6

\* The delays before the end of a row passed, and those of the row at 0 when
\* it goes on there; a row is not longer than there are delays.
LEMMA RowWindow ==
    ASSUME NEW passed \in SUBSET Phases, NEW r \in Rows(passed)
    PROVE  /\ RowLength(passed, r) \in 1 .. MAX_PHASES
           /\ Window(r, RowLength(passed, r)) \subseteq passed
<1>1. r \in passed /\ r \in Nat /\ r < MAX_PHASES
  BY PhaseType DEF Rows, Starts
<1>2. PICK e : e = End(passed, r)
  OBVIOUS
<1>3. e \in passed /\ r <= e /\ r .. e \subseteq passed
  BY <1>1, <1>2, EndExists
<1>4. e \in Nat /\ e < MAX_PHASES
  BY <1>3, PhaseType
<1>5. CASE ~ (Wraps(passed) /\ e = MAX_PHASES - 1)
  <2>1. RowLength(passed, r) = e - r + 1
    BY <1>1, <1>2, <1>4, <1>5 DEF RowLength
  <2>2. e - r + 1 \in 1 .. MAX_PHASES
    BY <1>1, <1>3, <1>4, MaxPhasesType
  <2>3. ASSUME NEW k \in 0 .. (e - r + 1) - 1
        PROVE  (r + k) % MAX_PHASES \in passed
    <3>1. r + k \in Nat /\ r + k < MAX_PHASES /\ r + k \in r .. e
      BY <1>1, <1>3, <1>4, MaxPhasesType
    <3>2. (r + k) % MAX_PHASES = r + k
      BY <3>1, Modulo
    <3> QED BY <1>3, <3>1, <3>2
  <2> QED BY <2>1, <2>2, <2>3 DEF Window
<1>6. CASE Wraps(passed) /\ e = MAX_PHASES - 1
  <2>1. PICK f : f = End(passed, 0)
    OBVIOUS
  <2>2. f \in Nat /\ f + 2 <= r /\ 0 .. f \subseteq passed
    BY <1>6, <2>1, FirstRow
  <2>3. RowLength(passed, r) = e - r + 1 + (f + 1)
    BY <1>2, <1>6, <2>1 DEF RowLength
  <2>4. e - r + 1 + (f + 1) \in 1 .. MAX_PHASES
    BY <1>1, <1>3, <1>4, <1>6, <2>2, MaxPhasesType
  <2>5. ASSUME NEW k \in 0 .. (e - r + 1 + (f + 1)) - 1
        PROVE  (r + k) % MAX_PHASES \in passed
    <3>0. MAX_PHASES \in Nat
      BY MaxPhasesType
    <3>1. CASE r + k < MAX_PHASES
      <4>1. r + k \in Nat /\ r + k \in r .. e
        BY <1>1, <1>4, <1>6, <3>0, <3>1
      <4>2. (r + k) % MAX_PHASES = r + k
        BY <3>1, <4>1, Modulo
      <4> QED BY <1>3, <4>1, <4>2
    <3>2. CASE ~ (r + k < MAX_PHASES)
      <4>1. /\ r + k \in Nat /\ MAX_PHASES <= r + k /\ r + k < 2 * MAX_PHASES
            /\ r + k - MAX_PHASES \in 0 .. f
        BY <1>1, <1>4, <1>6, <2>2, <3>0, <3>2
      <4>2. (r + k) % MAX_PHASES = r + k - MAX_PHASES
        <5>1. PICK x : x = r + k
          OBVIOUS
        <5>2. x \in Nat /\ MAX_PHASES <= x /\ x < 2 * MAX_PHASES
          BY <4>1, <5>1
        <5>3. x % MAX_PHASES = x - MAX_PHASES
          BY ONLY <5>2, ModuloPast
        <5> QED BY ONLY <1>1, k \in Nat, <3>0, <5>1, <5>2, <5>3
      <4> QED BY <2>2, <4>1, <4>2
    <3> QED BY <3>1, <3>2
  <2> QED BY <2>3, <2>4, <2>5 DEF Window
<1> QED BY <1>5, <1>6

\* A window that passed ends before the first delay that did not.
LEMMA WindowEnds ==
    ASSUME NEW passed, NEW t \in Nat, NEW m \in Nat, NEW k \in Nat,
           Window(t, m) \subseteq passed, (t + k) % MAX_PHASES \notin passed
    PROVE  m <= k
<1>1. ASSUME ~ (m <= k)
      PROVE  FALSE
  <2>1. k \in 0 .. m - 1
    BY <1>1
  <2>2. (t + k) % MAX_PHASES \in Window(t, m)
    BY <2>1 DEF Window
  <2> QED BY <2>2
<1> QED BY <1>1

\* Every window that passed is inside a row, if some delay did not pass.
LEMMA WindowInRow ==
    ASSUME NEW passed \in SUBSET Phases, passed # Phases, NEW t \in passed,
           NEW m \in Nat, Window(t, m) \subseteq passed
    PROVE  \E r \in Rows(passed) : m <= RowLength(passed, r)
<1>0. MAX_PHASES \in Nat /\ MAX_PHASES > 0 /\ t \in Nat /\ t < MAX_PHASES
  BY PhaseType, MaxPhasesType
<1>1. PICK a \in Starts(passed) : a <= t /\ a .. t \subseteq passed
  BY StartExists
<1>2. a \in passed /\ a \in Nat /\ a < MAX_PHASES
  BY PhaseType DEF Starts
<1>3. PICK e : e = End(passed, a)
  OBVIOUS
<1>4. e \in passed /\ a .. e \subseteq passed /\ e + 1 \notin passed /\ t <= e
  BY <1>1, <1>2, <1>3, EndExists, EndOfInterval
<1>5. e \in Nat /\ e < MAX_PHASES
  BY <1>4, PhaseType
<1>6. CASE e # MAX_PHASES - 1
  <2>1. (t + (e + 1 - t)) % MAX_PHASES \notin passed /\ e + 1 - t \in Nat
    <3>1. t + (e + 1 - t) = e + 1 /\ e + 1 \in Nat /\ e + 1 < MAX_PHASES /\ e + 1 - t \in Nat
      BY <1>0, <1>4, <1>5, <1>6
    <3>2. (e + 1) % MAX_PHASES = e + 1
      BY <3>1, Modulo
    <3> QED BY <1>4, <3>1, <3>2
  <2>2. m <= e + 1 - t
    BY ONLY <1>0, <2>1, WindowEnds, m \in Nat, Window(t, m) \subseteq passed
  <2>3. CASE a \in Rows(passed)
    <3>1. RowLength(passed, a) = e - a + 1
      BY <1>0, <1>2, <1>3, <1>5, <1>6 DEF RowLength
    <3>2. m <= e - a + 1
      BY <1>0, <1>1, <1>2, <1>5, <2>2
    <3> QED BY <2>3, <3>1, <3>2
  <2>4. CASE a \notin Rows(passed)
    <3>1. Wraps(passed) /\ a = 0
      BY <2>4 DEF Rows
    <3>2. MAX_PHASES - 1 \in passed
      BY <3>1 DEF Wraps
    <3>3. PICK b \in Starts(passed) :
             b <= MAX_PHASES - 1 /\ b .. MAX_PHASES - 1 \subseteq passed
      BY <3>2, StartExists
    <3>4. b # 0
      BY <3>3 DEF Phases
    <3>5. b \in Rows(passed) /\ b \in passed /\ b \in Nat
      BY <3>4, PhaseType DEF Rows, Starts
    <3>6. End(passed, b) = MAX_PHASES - 1
      <4>1. MAX_PHASES - 1 <= End(passed, b)
        BY <3>2, <3>3, <3>5, EndOfInterval
      <4>2. End(passed, b) \in Nat /\ End(passed, b) < MAX_PHASES
        BY <3>5, EndExists, PhaseType
      <4> QED BY <1>0, <4>1, <4>2
    <3>7. RowLength(passed, b) = MAX_PHASES - 1 - b + 1 + (e + 1)
      BY <1>3, <3>1, <3>6 DEF RowLength
    <3>8. m <= MAX_PHASES - 1 - b + 1 + (e + 1)
      BY <1>0, <1>5, <2>2, <3>3, <3>5
    <3> QED BY <3>5, <3>7, <3>8
  <2> QED BY <2>3, <2>4
<1>7. CASE e = MAX_PHASES - 1
  <2>1. a # 0
    BY <1>4, <1>7 DEF Phases
  <2>2. a \in Rows(passed)
    BY <1>1, <2>1 DEF Rows
  <2>3. CASE Wraps(passed)
    <3>1. PICK f : f = End(passed, 0)
      OBVIOUS
    <3>2. f \in Nat /\ f + 2 <= a
      BY <2>2, <2>3, <3>1, FirstRow
    <3>3. f + 1 \notin passed
      BY <2>3, <3>1, EndExists DEF Wraps
    <3>4. (t + (MAX_PHASES - t + (f + 1))) % MAX_PHASES \notin passed
          /\ MAX_PHASES - t + (f + 1) \in Nat
      <4>1. /\ t + (MAX_PHASES - t + (f + 1)) = MAX_PHASES + f + 1
            /\ MAX_PHASES - t + (f + 1) \in Nat
            /\ MAX_PHASES + f + 1 \in Nat
            /\ MAX_PHASES <= MAX_PHASES + f + 1 /\ MAX_PHASES + f + 1 < 2 * MAX_PHASES
            /\ MAX_PHASES + f + 1 - MAX_PHASES = f + 1
        BY <1>0, <1>2, <3>2
      <4>2. (MAX_PHASES + f + 1) % MAX_PHASES = f + 1
        <5>1. PICK x : x = MAX_PHASES + f + 1
          OBVIOUS
        <5>2. x \in Nat /\ MAX_PHASES <= x /\ x < 2 * MAX_PHASES
          BY <4>1, <5>1
        <5>3. x % MAX_PHASES = x - MAX_PHASES
          BY ONLY <5>2, ModuloPast
        <5>4. x - MAX_PHASES = f + 1
          BY ONLY <1>0, <3>2, <5>1
        <5> QED BY ONLY <1>0, <3>2, <5>1, <5>2, <5>3, <5>4
      <4> QED BY <3>3, <4>1, <4>2
    <3>5. m <= MAX_PHASES - t + (f + 1)
      BY ONLY <1>0, <3>4, WindowEnds, m \in Nat, Window(t, m) \subseteq passed
    <3>6. RowLength(passed, a) = e - a + 1 + (f + 1)
      BY <1>3, <1>7, <2>3, <3>1 DEF RowLength
    <3>7. m <= e - a + 1 + (f + 1)
      BY <1>0, <1>1, <1>2, <1>7, <3>2, <3>5
    <3> QED BY <2>2, <3>6, <3>7
  <2>4. CASE ~Wraps(passed)
    <3>1. 0 \notin passed
      BY <1>4, <1>7, <2>4 DEF Wraps
    <3>2. (t + (MAX_PHASES - t)) % MAX_PHASES \notin passed /\ MAX_PHASES - t \in Nat
      <4>1. /\ t + (MAX_PHASES - t) = MAX_PHASES /\ MAX_PHASES - t \in Nat
            /\ MAX_PHASES <= MAX_PHASES /\ MAX_PHASES < 2 * MAX_PHASES
            /\ MAX_PHASES - MAX_PHASES = 0
        BY <1>0
      <4>2. MAX_PHASES % MAX_PHASES = 0
        BY <1>0, <4>1, Modulo
      <4> QED BY <3>1, <4>1, <4>2
    <3>3. m <= MAX_PHASES - t
      BY ONLY <1>0, <3>2, WindowEnds, m \in Nat, Window(t, m) \subseteq passed
    <3>4. RowLength(passed, a) = e - a + 1
      BY <1>0, <1>2, <1>3, <1>7, <2>4 DEF RowLength
    <3>5. m <= e - a + 1
      BY <1>0, <1>1, <1>2, <1>7, <3>3
    <3> QED BY <2>2, <3>4, <3>5
  <2> QED BY <2>3, <2>4
<1> QED BY <1>6, <1>7

-----------------------------------------------------------------------------
(* The delay that is kept *)

\* The window of one delay is the delay.
LEMMA SingleWindow ==
    ASSUME NEW t \in Phases
    PROVE  Window(t, 1) = {t}
<1>1. t \in Nat /\ t < MAX_PHASES
  BY PhaseType
<1>2. 0 .. 1 - 1 = {0} /\ t + 0 = t
  BY <1>1
<1>3. t % MAX_PHASES = t
  BY <1>1, Modulo
<1> QED BY <1>2, <1>3 DEF Window

\* When every delay passed they are one row.
LEMMA AllPassed ==
    /\ Rows(Phases) = {0}
    /\ RowLength(Phases, 0) = MAX_PHASES
<1>0. MAX_PHASES \in Nat /\ MAX_PHASES > 0
  BY MaxPhasesType
<1>1. ~Wraps(Phases)
  BY DEF Wraps
<1>2. ASSUME NEW p \in Phases
      PROVE  p - 1 \notin Phases <=> p = 0
  BY <1>0, PhaseType DEF Phases
<1>3. 0 \in Phases
  BY <1>0 DEF Phases
<1>4. Rows(Phases) = {0}
  BY <1>1, <1>2, <1>3 DEF Rows, Starts
<1>5. End(Phases, 0) = MAX_PHASES - 1
  <2>1. PICK e : e = End(Phases, 0)
    OBVIOUS
  <2>2. e \in Phases /\ e + 1 \notin Phases
    BY <1>3, <2>1, EndExists
  <2>3. e = MAX_PHASES - 1
    BY <1>0, <2>2, PhaseType DEF Phases
  <2> QED BY <2>1, <2>3
<1>6. RowLength(Phases, 0) = MAX_PHASES
  BY <1>0, <1>1, <1>5 DEF RowLength
<1> QED BY <1>4, <1>6

LEMMA RowsExist ==
    ASSUME NEW passed \in SUBSET Phases, passed # {}
    PROVE  Rows(passed) # {}
<1>1. CASE passed = Phases
  BY <1>1, AllPassed
<1>2. CASE passed # Phases
  <2>1. PICK t \in passed : TRUE
    OBVIOUS
  <2>2. Window(t, 1) \subseteq passed
    BY SingleWindow
  <2>3. \E r \in Rows(passed) : 1 <= RowLength(passed, r)
    BY ONLY <1>2, <2>1, <2>2, WindowInRow, passed \in SUBSET Phases, 1 \in Nat
  <2> QED BY <2>3
<1> QED BY <1>1, <1>2

Longest(passed, r) ==
    \A s \in Rows(passed) :
        \/ RowLength(passed, s) < RowLength(passed, r)
        \/ RowLength(passed, s) = RowLength(passed, r) /\ r <= s

\* One of the rows is the first of the longest.
LEMMA LongestExists ==
    ASSUME NEW passed \in SUBSET Phases, passed # {}
    PROVE  \E r \in Rows(passed) : Longest(passed, r)
<1> DEFINE Lengths == {RowLength(passed, r) : r \in Rows(passed)}
<1>1. \A r \in Rows(passed) : RowLength(passed, r) \in Nat /\ RowLength(passed, r) <= MAX_PHASES
  BY RowWindow, MaxPhasesType
<1>2. /\ Lengths \in SUBSET Nat /\ Lengths # {}
      /\ \A n \in Lengths : n <= MAX_PHASES
  BY <1>1, RowsExist
<1>3. PICK n \in Lengths : \A k \in Lengths : k <= n
  <2>1. MAX_PHASES \in Nat
    BY MaxPhasesType
  <2> HIDE DEF Lengths
  <2> QED BY ONLY <1>2, <2>1, GreatestExists
<1> DEFINE First == {r \in Rows(passed) : RowLength(passed, r) = n}
<1>4. First \in SUBSET Nat /\ First # {}
  <2>1. \A r \in Rows(passed) : r \in Nat
    BY PhaseType DEF Rows, Starts
  <2> QED BY <1>3, <2>1
<1>5. PICK r \in First : \A s \in First : r <= s
  <2> HIDE DEF First
  <2> QED BY ONLY <1>4, LeastExists
<1>6. ASSUME NEW s \in Rows(passed)
      PROVE  \/ RowLength(passed, s) < RowLength(passed, r)
             \/ RowLength(passed, s) = RowLength(passed, r) /\ r <= s
  <2>1. RowLength(passed, r) = n
    BY <1>5
  <2>2. RowLength(passed, s) \in Lengths
    OBVIOUS
  <2>3. RowLength(passed, s) <= n /\ RowLength(passed, s) \in Nat /\ n \in Nat
    BY <1>1, <1>2, <1>3, <2>2
  <2>4. CASE RowLength(passed, s) = n
    BY <1>5, <2>1, <2>4
  <2>5. CASE RowLength(passed, s) # n
    BY <2>1, <2>3, <2>5
  <2> QED BY <2>4, <2>5
<1> QED BY <1>5, <1>6 DEF Longest

\* No window that passed is longer than the longest row.
LEMMA LongestFits ==
    ASSUME NEW passed \in SUBSET Phases, passed # {}, NEW r \in Rows(passed), Longest(passed, r)
    PROVE  ~Fits(passed, RowLength(passed, r) + 1) \/ RowLength(passed, r) = MAX_PHASES
<1>1. CASE passed = Phases
  BY <1>1, AllPassed
<1>2. CASE passed # Phases
  <2>1. PICK n : n = RowLength(passed, r)
    OBVIOUS
  <2>2. n \in Nat /\ n + 1 \in Nat
    BY <2>1, RowWindow, MaxPhasesType
  <2>3. ASSUME NEW t \in Phases, Window(t, n + 1) \subseteq passed
        PROVE  FALSE
    <3>1. t \in Nat /\ t < MAX_PHASES
      BY PhaseType
    <3>2. t \in Window(t, n + 1)
      <4>1. 0 \in 0 .. (n + 1) - 1 /\ t + 0 = t
        BY <2>2, <3>1
      <4>2. t % MAX_PHASES = t
        BY <3>1, Modulo
      <4> QED BY <4>1, <4>2 DEF Window
    <3>3. t \in passed
      BY <2>3, <3>2
    <3>4. PICK m : m = n + 1
      OBVIOUS
    <3>5. m \in Nat /\ Window(t, m) \subseteq passed
      BY <2>2, <2>3, <3>4
    <3>6. PICK s \in Rows(passed) : m <= RowLength(passed, s)
      BY ONLY <1>2, <3>3, <3>5, WindowInRow, passed \in SUBSET Phases
    <3>7. RowLength(passed, s) \in Nat
      BY RowWindow, MaxPhasesType
    <3>8. RowLength(passed, s) <= n
      BY <2>1, <2>2, <3>7 DEF Longest
    <3> QED BY <2>2, <3>4, <3>6, <3>7, <3>8
  <2> QED BY <2>1, <2>3 DEF Fits
<1> QED BY <1>1, <1>2

\* "Finds the largest consecutive sequence of phases & then selects the 3/4th
\* of the range": three quarters into a window of delays that passed than
\* which there is no longer one (sdhci_msm_find_appropriate_phase).
LEMMA ChosenWell ==
    ASSUME NEW passed \in SUBSET Phases, passed # {}
    PROVE  /\ sdhci_msm_find_appropriate_phase(passed) \in Phases
           /\ \E n \in 1 .. MAX_PHASES, s \in Phases :
                 /\ Window(s, n) \subseteq passed
                 /\ ~Fits(passed, n + 1) \/ n = MAX_PHASES
                 /\ sdhci_msm_find_appropriate_phase(passed) =
                       (s + (IF n = 1 THEN 0 ELSE (3 * n) \div 4 - 1)) % MAX_PHASES
<1> DEFINE r == CHOOSE r \in Rows(passed) : Longest(passed, r)
           n == RowLength(passed, r)
           quarter == (n * 3) \div 4
<1>1. r \in Rows(passed) /\ Longest(passed, r)
  BY LongestExists
<1>2. sdhci_msm_find_appropriate_phase(passed) =
         (r + (IF quarter = 0 THEN 0 ELSE quarter - 1)) % MAX_PHASES
  BY DEF sdhci_msm_find_appropriate_phase, Rows, Longest
<1> HIDE DEF r
<1>3. n \in 1 .. MAX_PHASES /\ Window(r, n) \subseteq passed
  BY <1>1, RowWindow
<1>4. ~Fits(passed, n + 1) \/ n = MAX_PHASES
  BY <1>1, LongestFits
<1>5. r \in Phases /\ r \in Nat
  BY <1>1, PhaseType DEF Rows, Starts
<1> HIDE DEF n
<1>6. n \in Nat /\ n >= 1
  BY <1>3, MaxPhasesType
<1>7. (IF quarter = 0 THEN 0 ELSE quarter - 1) = (IF n = 1 THEN 0 ELSE (3 * n) \div 4 - 1)
  BY <1>6
<1>8. (IF quarter = 0 THEN 0 ELSE quarter - 1) \in Nat
  BY <1>6
<1>9. sdhci_msm_find_appropriate_phase(passed) \in Phases
  <2>1. PICK x : x = r + (IF quarter = 0 THEN 0 ELSE quarter - 1)
    OBVIOUS
  <2>2. x \in Nat
    BY <1>5, <1>8, <2>1
  <2>3. x % MAX_PHASES \in Phases
    BY <2>2, Modulo
  <2> QED BY <1>2, <2>1, <2>3
<1>10. sdhci_msm_find_appropriate_phase(passed) =
          (r + (IF n = 1 THEN 0 ELSE (3 * n) \div 4 - 1)) % MAX_PHASES
  BY <1>2, <1>7
<1> QED BY <1>3, <1>4, <1>5, <1>9, <1>10

-----------------------------------------------------------------------------
(* The call *)

\* The drive strength is the default one until the tuning changes it, which is
\* remembered until it is put back.
DefaultStrength ==
    0 \in support =>
        /\ pc = "calibrate" \/ pc = "select" => strength = 0
        /\ pc \in {"initDll", "config", "test", "drvType", "restore"} =>
               strength = 0 \/ drv_type_changed
        /\ pc \in {"idle", "out"} /\ ret = 0 => strength = 0
        /\ pc = "idle" /\ ~tuning_done => strength = 0

\* What the steps of the call start from.
InCall ==
    /\ pc \in {"initDll", "config", "test", "drvType"} => drv_type <= MX_DRV_SUPPORTED_HS200
    /\ pc = "initDll" => phase = 0
    /\ pc = "calibrate" => tuned = {}
    /\ pc = "select" => tuned # {}

Inv == TypeOK /\ InCall /\ DefaultStrength /\ PhaseWellChosen

\* Away from the out label nothing is said of the delay.
LEMMA ElsewhereWellChosen ==
    ASSUME pc' # "out" \/ tuned' = {} \/ ret' = 1
    PROVE  PhaseWellChosen'
  BY DEF PhaseWellChosen

LEMMA BoundTypes == MX_DRV_SUPPORTED_HS200 \in Nat /\ 0 \in DrvTypes /\ 0 \in Phases
  BY TuningAssumption DEF DrvTypes, Phases

\* mmc_set_drv_type: the strength the card is given, if it has it.
LEMMA DrvTypeSet ==
    ASSUME TypeOK, NEW d \in Nat, mmc_set_drv_type(d)
    PROVE  /\ strength' \in DrvTypes
           /\ ~SwitchMayFail /\ d \in support => strength' = d
  BY DEF TypeOK, mmc_set_drv_type, DrvTypes

LEMMA BeginKeeps == Inv /\ (\E t \in {"hs200", "hs400"} : Begin(t)) => Inv'
<1> SUFFICES ASSUME Inv, (\E t \in {"hs200", "hs400"} : Begin(t))
             PROVE  Inv'
  OBVIOUS
<1>1. PICK t \in {"hs200", "hs400"} : Begin(t)
  OBVIOUS
<1>2. /\ pc = "idle" /\ timing' = t /\ pc' = IF tuning_done THEN "calibrate" ELSE "initDll"
      /\ phase' = 0 /\ tuned' = {} /\ drv_type' = 0 /\ drv_type_changed' = FALSE /\ ret' = 0
      /\ UNCHANGED <<slot, attempt_cdr_unlock, host, dll, card>>
  BY <1>1 DEF Begin
<1>3. tuning_done => ret = 0
  BY <1>1 DEF Begin
<1>4. TypeOK'
  <2>1. /\ UNCHANGED <<slot, attempt_cdr_unlock, tuning_done, calibration_done, saved_phase,
                       dll, support, strength>>
    BY <1>2 DEF host, card
  <2>2. drv_type_changed' \in BOOLEAN
    BY <1>2
  <2>3. drv_type' \in 0 .. MX_DRV_SUPPORTED_HS200 + 1 /\ phase' \in 0 .. MAX_PHASES
    BY <1>2, BoundTypes, MaxPhasesType
  <2> QED BY <1>2, <2>1, <2>2, <2>3, BoundTypes DEF Inv, TypeOK
<1>5. InCall'
  BY <1>2, BoundTypes DEF InCall
<1>6. DefaultStrength'
  BY <1>2, <1>3 DEF Inv, DefaultStrength, host, card
<1>7. PhaseWellChosen'
  BY <1>2, ElsewhereWellChosen
<1> QED BY <1>4, <1>5, <1>6, <1>7 DEF Inv

LEMMA NextSlotKeeps == Inv /\ NextSlot => Inv'
<1> SUFFICES ASSUME Inv, NextSlot
             PROVE  Inv'
  OBVIOUS
<1>1. /\ pc = "idle" /\ pc' = pc /\ slot' = 2 /\ dll' = NoPhase /\ timing' = "none" /\ ret' = 0
      /\ saved_phase' = 0 /\ support' \in DrvSupport /\ strength' = 0
      /\ UNCHANGED <<phase, tuned, drv_type, drv_type_changed, attempt_cdr_unlock>>
  BY DEF NextSlot, loop, drive
<1>2. tuning_done' \in BOOLEAN /\ calibration_done' \in BOOLEAN
  BY DEF NextSlot
<1>3. TypeOK'
  <2>1. support' \subseteq DrvTypes
    BY <1>1, TuningAssumption
  <2> QED BY <1>1, <1>2, <2>1, BoundTypes DEF Inv, TypeOK
<1>4. InCall'
  BY <1>1 DEF InCall
<1>5. DefaultStrength'
  BY <1>1 DEF DefaultStrength
<1>6. PhaseWellChosen'
  BY <1>1, ElsewhereWellChosen
<1> QED BY <1>3, <1>4, <1>5, <1>6 DEF Inv

LEMMA CalibrateKeeps == Inv /\ Calibrate => Inv'
<1> SUFFICES ASSUME Inv, Calibrate
             PROVE  Inv'
  OBVIOUS
<1>1. /\ pc = "calibrate" /\ pc' = "out" /\ dll' \in {NoPhase, saved_phase} /\ ret' \in {ret, 1}
      /\ UNCHANGED <<timing, phase, tuned, drv_type, drv_type_changed, slot,
                     attempt_cdr_unlock, tuning_done, saved_phase, support, strength>>
  BY DEF Calibrate, loop, drive, card
<1>2. calibration_done' \in BOOLEAN
  BY DEF Calibrate, Inv, TypeOK
<1>3. TypeOK'
  BY <1>1, <1>2 DEF Inv, TypeOK
<1>4. InCall'
  BY <1>1 DEF InCall
<1>5. DefaultStrength'
  BY <1>1 DEF Inv, DefaultStrength
<1>6. PhaseWellChosen'
  BY <1>1, ElsewhereWellChosen DEF Inv, InCall
<1> QED BY <1>3, <1>4, <1>5, <1>6 DEF Inv

LEMMA InitDllKeeps == Inv /\ InitDll => Inv'
<1> SUFFICES ASSUME Inv, InitDll
             PROVE  Inv'
  OBVIOUS
<1>1. /\ pc = "initDll" /\ dll' = NoPhase
      /\ (pc' = "config" /\ ret' = ret) \/ (pc' = "out" /\ ret' = 1)
      /\ UNCHANGED <<timing, phase, tuned, drv_type, drv_type_changed, slot, attempt_cdr_unlock,
                     tuning_done, calibration_done, saved_phase, support, strength>>
  BY DEF InitDll, loop, drive, host, card
<1>2. phase' \in Phases
  BY <1>1, BoundTypes DEF Inv, InCall
<1>3. TypeOK'
  BY <1>1, <1>2 DEF Inv, TypeOK
<1>4. InCall'
  BY <1>1 DEF Inv, InCall
<1>5. DefaultStrength'
  BY <1>1 DEF Inv, DefaultStrength
<1>6. PhaseWellChosen'
  BY <1>1, ElsewhereWellChosen
<1> QED BY <1>3, <1>4, <1>5, <1>6 DEF Inv

LEMMA ConfigDllKeeps == Inv /\ ConfigDll => Inv'
<1> SUFFICES ASSUME Inv, ConfigDll
             PROVE  Inv'
  OBVIOUS
<1>1. /\ pc = "config" /\ dll' \in {phase, NoPhase}
      /\ (pc' = "test" /\ ret' = ret) \/ (pc' = "out" /\ ret' = 1)
      /\ UNCHANGED <<timing, phase, tuned, drv_type, drv_type_changed, slot, attempt_cdr_unlock,
                     tuning_done, calibration_done, saved_phase, support, strength>>
  BY DEF ConfigDll, loop, drive, host, card
<1>2. phase \in Phases
  BY <1>1 DEF Inv, TypeOK
<1>3. TypeOK'
  BY <1>1, <1>2 DEF Inv, TypeOK
<1>4. InCall'
  BY <1>1 DEF Inv, InCall
<1>5. DefaultStrength'
  BY <1>1 DEF Inv, DefaultStrength
<1>6. PhaseWellChosen'
  BY <1>1, ElsewhereWellChosen
<1> QED BY <1>3, <1>4, <1>5, <1>6 DEF Inv

LEMMA SendTuningBlockKeeps == Inv /\ SendTuningBlock => Inv'
<1> SUFFICES ASSUME Inv, SendTuningBlock
             PROVE  Inv'
  OBVIOUS
<1>1. /\ pc = "test" /\ tuned' \in {tuned, tuned \cup {phase}} /\ phase' = phase + 1
      /\ pc' \in {"config", "drvType", "restore"} /\ (pc' = "config" => phase' < MAX_PHASES)
      /\ UNCHANGED <<timing, drv_type, drv_type_changed, ret, slot, attempt_cdr_unlock, dll,
                     tuning_done, calibration_done, saved_phase, support, strength>>
  BY DEF SendTuningBlock, drive, host, card
<1>2. phase \in Phases /\ tuned' \subseteq Phases
  BY <1>1 DEF Inv, TypeOK
<1>3. phase' \in 0 .. MAX_PHASES /\ (pc' = "config" => phase' \in Phases)
  BY <1>1, <1>2, MaxPhasesType DEF Phases
<1>4. TypeOK'
  BY <1>1, <1>2, <1>3 DEF Inv, TypeOK
<1>5. InCall'
  BY <1>1 DEF Inv, InCall
<1>6. DefaultStrength'
  BY <1>1 DEF Inv, DefaultStrength
<1>7. PhaseWellChosen'
  BY <1>1, ElsewhereWellChosen
<1> QED BY <1>4, <1>5, <1>6, <1>7 DEF Inv

LEMMA NextDrvTypeKeeps == Inv /\ NextDrvType => Inv'
<1> SUFFICES ASSUME Inv, NextDrvType
             PROVE  Inv'
  OBVIOUS
<1>1. /\ pc = "drvType" /\ drv_type' = drv_type + 1
      /\ UNCHANGED <<timing, ret, slot, attempt_cdr_unlock, dll, tuning_done, calibration_done,
                     saved_phase, support>>
  BY DEF NextDrvType, host
<1>2. drv_type \in Nat /\ drv_type <= MX_DRV_SUPPORTED_HS200
  BY <1>1, BoundTypes DEF Inv, TypeOK, InCall
<1>3. drv_type' \in Nat /\ drv_type' \in 0 .. MX_DRV_SUPPORTED_HS200 + 1
  BY <1>1, <1>2, BoundTypes
<1>4. CASE /\ drv_type' <= MX_DRV_SUPPORTED_HS200 /\ drv_type_changed' = TRUE
           /\ mmc_set_drv_type(drv_type')
           /\ (pc' = "config" /\ phase' = 0 /\ tuned' = {}) \/ UNCHANGED <<pc, phase, tuned>>
  <2>1. strength' \in DrvTypes
    BY <1>3, <1>4, DrvTypeSet DEF Inv
  <2>2. drv_type_changed' \in BOOLEAN
    BY <1>4
  <2>3. /\ phase' \in 0 .. MAX_PHASES /\ tuned' \subseteq Phases
        /\ pc' \in {"config", "drvType"} /\ (pc' = "config" => phase' \in Phases)
    BY <1>1, <1>4, BoundTypes, MaxPhasesType DEF Inv, TypeOK
  <2>4. TypeOK'
    BY <1>1, <1>3, <2>1, <2>2, <2>3 DEF Inv, TypeOK
  <2>5. InCall'
    BY <1>4, <2>3 DEF InCall
  <2>6. DefaultStrength'
    BY <1>4, <2>3 DEF DefaultStrength
  <2>7. PhaseWellChosen'
    BY <2>3, ElsewhereWellChosen
  <2> QED BY <2>4, <2>5, <2>6, <2>7 DEF Inv
<1>5. CASE pc' = "restore" /\ UNCHANGED <<drv_type_changed, phase, tuned, strength>>
  <2>1. TypeOK'
    BY <1>1, <1>3, <1>5 DEF Inv, TypeOK
  <2>2. InCall'
    BY <1>5 DEF InCall
  <2>3. DefaultStrength'
    BY <1>1, <1>5 DEF Inv, DefaultStrength
  <2>4. PhaseWellChosen'
    BY <1>5, ElsewhereWellChosen
  <2> QED BY <2>1, <2>2, <2>3, <2>4 DEF Inv
<1> QED BY <1>4, <1>5 DEF NextDrvType, loop

\* The strength is put back, by a card that obeys.
LEMMA RestoreKeeps == ~SwitchMayFail /\ Inv /\ Restore => Inv'
<1> SUFFICES ASSUME ~SwitchMayFail, Inv, Restore
             PROVE  Inv'
  OBVIOUS
<1>1. /\ pc = "restore"
      /\ (tuned # {} /\ pc' = "select" /\ ret' = ret) \/ (tuned = {} /\ pc' = "out" /\ ret' = 1)
      /\ UNCHANGED <<timing, phase, tuned, drv_type, drv_type_changed, slot, dll, tuning_done,
                     calibration_done, saved_phase, support>>
  BY DEF Restore, loop, drive, host
<1>2. attempt_cdr_unlock' \in BOOLEAN
  BY DEF Restore, Inv, TypeOK
<1>3. strength' \in DrvTypes /\ (0 \in support => strength' = 0)
  <2>1. CASE drv_type_changed
    <3>1. mmc_set_drv_type(0)
      BY <2>1 DEF Restore
    <3> QED BY <3>1, DrvTypeSet DEF Inv
  <2>2. CASE ~drv_type_changed
    <3>1. strength' = strength
      BY <2>2 DEF Restore
    <3>2. strength \in DrvTypes
      BY DEF Inv, TypeOK
    <3>3. 0 \in support => strength = 0
      BY <1>1, <2>2 DEF Inv, DefaultStrength
    <3> QED BY <3>1, <3>2, <3>3
  <2> QED BY <2>1, <2>2
<1>4. TypeOK'
  BY <1>1, <1>2, <1>3 DEF Inv, TypeOK
<1>5. InCall'
  BY <1>1 DEF InCall
<1>6. DefaultStrength'
  BY <1>1, <1>3 DEF DefaultStrength
<1>7. PhaseWellChosen'
  BY <1>1, ElsewhereWellChosen
<1> QED BY <1>4, <1>5, <1>6, <1>7 DEF Inv

\* Of the delays that passed the one is kept that ChosenWell is about.
LEMMA SelectKeeps == Inv /\ Select => Inv'
<1> SUFFICES ASSUME Inv, Select
             PROVE  Inv'
  OBVIOUS
<1> DEFINE selected == sdhci_msm_find_appropriate_phase(tuned)
<1>1. /\ pc = "select" /\ pc' = "out"
      /\ (dll' = selected /\ saved_phase' = selected) \/ (dll' = NoPhase /\ saved_phase' = saved_phase)
      /\ UNCHANGED <<timing, phase, tuned, drv_type, drv_type_changed, ret, slot,
                     attempt_cdr_unlock, tuning_done, calibration_done, support, strength>>
  BY DEF Select, loop, drive, card
<1>2. tuned \in SUBSET Phases /\ tuned # {}
  BY <1>1 DEF Inv, TypeOK, InCall
<1>3. /\ selected \in Phases
      /\ \E n \in 1 .. MAX_PHASES, s \in Phases :
            /\ Window(s, n) \subseteq tuned
            /\ ~Fits(tuned, n + 1) \/ n = MAX_PHASES
            /\ selected = (s + (IF n = 1 THEN 0 ELSE (3 * n) \div 4 - 1)) % MAX_PHASES
  BY <1>2, ChosenWell
<1> HIDE DEF selected
<1>4. TypeOK'
  BY <1>1, <1>3 DEF Inv, TypeOK
<1>5. InCall'
  BY <1>1 DEF InCall
<1>6. DefaultStrength'
  BY <1>1 DEF Inv, DefaultStrength
<1>7. PhaseWellChosen'
  <2>1. CASE dll' = NoPhase
    BY <2>1 DEF PhaseWellChosen
  <2>2. CASE dll' = selected
    <3>1. tuned' = tuned
      BY <1>1
    <3>2. PICK n \in 1 .. MAX_PHASES, s \in Phases :
            /\ Window(s, n) \subseteq tuned
            /\ ~Fits(tuned, n + 1) \/ n = MAX_PHASES
            /\ selected = (s + (IF n = 1 THEN 0 ELSE (3 * n) \div 4 - 1)) % MAX_PHASES
      BY <1>3
    <3>3. /\ Window(s, n) \subseteq tuned'
          /\ ~Fits(tuned', n + 1) \/ n = MAX_PHASES
          /\ dll' = (s + (IF n = 1 THEN 0 ELSE (3 * n) \div 4 - 1)) % MAX_PHASES
      BY <2>2, <3>1, <3>2
    <3> QED BY <3>3 DEF PhaseWellChosen
  <2> QED BY <1>1, <2>1, <2>2
<1> QED BY <1>4, <1>5, <1>6, <1>7 DEF Inv

LEMMA OutKeeps == Inv /\ Out => Inv'
<1> SUFFICES ASSUME Inv, Out
             PROVE  Inv'
  OBVIOUS
<1>1. /\ pc = "out" /\ pc' = "idle"
      /\ UNCHANGED <<timing, phase, tuned, drv_type, drv_type_changed, ret, slot,
                     attempt_cdr_unlock, calibration_done, saved_phase, dll, support, strength>>
  BY DEF Out, loop, drive, card
<1>2. tuning_done' = TRUE
  BY DEF Out
<1>3. TypeOK'
  BY <1>1, <1>2 DEF Inv, TypeOK
<1>4. InCall'
  BY <1>1 DEF InCall
<1>5. DefaultStrength'
  BY <1>1, <1>2 DEF Inv, DefaultStrength
<1>6. PhaseWellChosen'
  BY <1>1, ElsewhereWellChosen
<1> QED BY <1>3, <1>4, <1>5, <1>6 DEF Inv

-----------------------------------------------------------------------------
(* The theorem *)

LEMMA InitInv == Init => Inv
<1> SUFFICES ASSUME Init
             PROVE  Inv
  OBVIOUS
<1>1. /\ pc = "idle" /\ timing = "none" /\ phase = 0 /\ tuned = {} /\ drv_type = 0
      /\ ret = 0 /\ slot = 1 /\ saved_phase = 0 /\ dll = NoPhase
      /\ support \in DrvSupport /\ strength = 0
  BY DEF Init
<1>2. /\ drv_type_changed \in BOOLEAN /\ attempt_cdr_unlock \in BOOLEAN
      /\ tuning_done \in BOOLEAN /\ calibration_done \in BOOLEAN
  BY DEF Init
<1>3. support \subseteq DrvTypes
  BY <1>1, TuningAssumption
<1>4. phase \in 0 .. MAX_PHASES /\ drv_type \in 0 .. MX_DRV_SUPPORTED_HS200 + 1
  BY <1>1, BoundTypes, MaxPhasesType
<1>5. TypeOK
  BY <1>1, <1>2, <1>3, <1>4, BoundTypes DEF TypeOK
<1>6. InCall /\ DefaultStrength /\ PhaseWellChosen
  BY <1>1 DEF InCall, DefaultStrength, PhaseWellChosen
<1> QED BY <1>5, <1>6 DEF Inv

LEMMA StutterKeeps == Inv /\ UNCHANGED vars => Inv'
<1> SUFFICES ASSUME Inv, UNCHANGED vars
             PROVE  Inv'
  OBVIOUS
<1>1. TypeOK' /\ InCall' /\ DefaultStrength'
  BY DEF Inv, TypeOK, InCall, DefaultStrength, vars, loop, drive, host, card
<1>2. PhaseWellChosen'
  BY DEF Inv, PhaseWellChosen, vars, loop
<1> QED BY <1>1, <1>2 DEF Inv

LEMMA NextKeeps == ~SwitchMayFail /\ Inv /\ [Next]_vars => Inv'
<1>1. ~SwitchMayFail /\ Inv /\ Next => Inv'
  BY BeginKeeps, NextSlotKeeps, CalibrateKeeps, InitDllKeeps, ConfigDllKeeps,
     SendTuningBlockKeeps, NextDrvTypeKeeps, RestoreKeeps, SelectKeeps, OutKeeps
  DEF Next, Tune
<1> QED BY <1>1, StutterKeeps

\* For every number of delays and of drive strengths, on cards that carry out
\* their switch commands (MmcDriverType shows one that does not): the delay
\* kept is three quarters into a longest window of those that passed, across
\* the wrap-around, and after a tuning that returns 0 the card has its default
\* drive strength (sdhci_msm_execute_tuning).
THEOREM TuningIsWellChosen == ~SwitchMayFail /\ Spec => []TunedWell
<1> SUFFICES ASSUME ~SwitchMayFail
             PROVE  Spec => []TunedWell
  OBVIOUS
<1>1. Inv /\ [Next]_vars => Inv'
  BY NextKeeps
<1>2. Inv => TunedWell
  BY DEF Inv, TunedWell, DriverTypeRestored, DefaultStrength
<1> QED BY InitInv, <1>1, <1>2, PTL DEF Spec

-----------------------------------------------------------------------------
(* The frequency tables *)

Boot == {"cxo", "gpll0", "gpll4"}

Frequency == [freq : Nat, src : Boot \cup ExternalPlls, mux : {"sys", "mm"},
              div2 : Nat \ {0}, m : Nat, n : Nat]

SourceRate == [cxo |-> 192000, gpll0 |-> 6000000, gpll4 |-> 16000000]

\* What a root generator makes of a row.
RateOf(w) ==
    LET base == (2 * SourceRate[w.src]) \div w.div2
    IN IF w.n = 0 THEN base ELSE (base \div w.n) * w.m

\* Rows from the crystal and GPLL0 that give the frequency they are for; rows
\* that do without the M/N counter; rows of the PLLs outside the driver.
ExactRow == { w \in Frequency : w.src \in {"cxo", "gpll0"} /\ RateOf(w) = w.freq }
PlainRow == { w \in ExactRow : w.n = 0 }
ExternalRow == { w \in Frequency : w.src \in ExternalPlls }

LEMMA SevenRows ==
    ASSUME NEW R, NEW a \in R, NEW b \in R, NEW c \in R, NEW d \in R, NEW e \in R, NEW f \in R,
           NEW g \in R
    PROVE  <<a, b, c, d, e, f, g>> \in Seq(R)
OBVIOUS

LEMMA FourteenRows ==
    ASSUME NEW R, NEW a \in R, NEW b \in R, NEW c \in R, NEW d \in R, NEW e \in R, NEW f \in R,
           NEW g \in R, NEW h \in R, NEW i \in R, NEW j \in R, NEW k \in R, NEW l \in R,
           NEW m \in R, NEW n \in R
    PROVE  <<a, b, c, d, e, f, g, h, i, j, k, l, m, n>> \in Seq(R)
OBVIOUS

LEMMA SdccExact == SdccFreqs \in Seq(ExactRow)
<1> USE SMT DEF F, ExactRow, RateOf, Frequency, Boot, SourceRate
<1>1. F(1440, "cxo", 32, 3, 25) \in ExactRow
  OBVIOUS
<1>2. F(4000, "cxo", 24, 1, 4) \in ExactRow
  OBVIOUS
<1>3. F(200000, "gpll0", 30, 1, 2) \in ExactRow
  OBVIOUS
<1>4. F(250000, "gpll0", 24, 1, 2) \in ExactRow
  OBVIOUS
<1>5. F(500000, "gpll0", 24, 0, 0) \in ExactRow
  OBVIOUS
<1>6. F(1000000, "gpll0", 12, 0, 0) \in ExactRow
  OBVIOUS
<1>7. F(2000000, "gpll0", 6, 0, 0) \in ExactRow
  OBVIOUS
<1> QED
  BY ONLY <1>1, <1>2, <1>3, <1>4, <1>5, <1>6, <1>7, SevenRows DEF SdccFreqs

LEMMA UartExact == UartFreqs \in Seq(ExactRow)
<1> USE SMT DEF F, ExactRow, RateOf, Frequency, Boot, SourceRate
<1>1. F(36864, "gpll0", 2, 96, 15625) \in ExactRow
  OBVIOUS
<1>2. F(73728, "gpll0", 2, 192, 15625) \in ExactRow
  OBVIOUS
<1>3. F(147456, "gpll0", 2, 384, 15625) \in ExactRow
  OBVIOUS
<1>4. F(160000, "gpll0", 10, 2, 15) \in ExactRow
  OBVIOUS
<1>5. F(192000, "cxo", 2, 0, 0) \in ExactRow
  OBVIOUS
<1>6. F(240000, "gpll0", 10, 1, 5) \in ExactRow
  OBVIOUS
<1>7. F(320000, "gpll0", 2, 4, 75) \in ExactRow
  OBVIOUS
<1>8. F(400000, "gpll0", 30, 0, 0) \in ExactRow
  OBVIOUS
<1>9. F(464000, "gpll0", 2, 29, 375) \in ExactRow
  OBVIOUS
<1>10. F(480000, "gpll0", 25, 0, 0) \in ExactRow
  OBVIOUS
<1>11. F(512000, "gpll0", 2, 32, 375) \in ExactRow
  OBVIOUS
<1>12. F(560000, "gpll0", 2, 7, 75) \in ExactRow
  OBVIOUS
<1>13. F(589824, "gpll0", 2, 1536, 15625) \in ExactRow
  OBVIOUS
<1>14. F(600000, "gpll0", 20, 0, 0) \in ExactRow
  OBVIOUS
<1> QED
  BY ONLY <1>1, <1>2, <1>3, <1>4, <1>5, <1>6, <1>7, <1>8, <1>9, <1>10, <1>11, <1>12, <1>13,
          <1>14, FourteenRows DEF UartFreqs

LEMMA Usb30Exact == Usb30Freqs \in Seq(ExactRow)
<1>1. F(1250000, "gpll0", 2, 5, 24) \in ExactRow
  BY SMT DEF F, ExactRow, RateOf, Frequency, Boot, SourceRate
<1> QED BY ONLY <1>1 DEF Usb30Freqs

\* The tables of the generators without the counter.
LEMMA PlainTables ==
    /\ UsbHsFreqs \in Seq(PlainRow) /\ CeFreqs \in Seq(PlainRow)
    /\ CxoMmFreqs \in Seq(PlainRow) /\ AxiFreqs \in Seq(PlainRow)
    /\ MdpFreqs \in Seq(PlainRow)
<1> USE SMT DEF F, F_MM, PlainRow, ExactRow, RateOf, Frequency, Boot, SourceRate
<1>1. F(750000, "gpll0", 16, 0, 0) \in PlainRow
  OBVIOUS
<1>2. F(500000, "gpll0", 24, 0, 0) \in PlainRow
  OBVIOUS
<1>3. F(1000000, "gpll0", 12, 0, 0) \in PlainRow
  OBVIOUS
<1>4. F_MM(192000, "cxo", 2, 0, 0) \in PlainRow
  OBVIOUS
<1>5. F_MM(1000000, "gpll0", 12, 0, 0) \in PlainRow
  OBVIOUS
<1>6. F_MM(750000, "gpll0", 16, 0, 0) \in PlainRow
  OBVIOUS
<1>7. F_MM(2400000, "gpll0", 5, 0, 0) \in PlainRow
  OBVIOUS
<1>8. UsbHsFreqs \in Seq(PlainRow)
  BY ONLY <1>1 DEF UsbHsFreqs
<1>9. CeFreqs \in Seq(PlainRow)
  BY ONLY <1>2, <1>3 DEF CeFreqs
<1>10. CxoMmFreqs \in Seq(PlainRow)
  BY ONLY <1>4 DEF CxoMmFreqs
<1>11. AxiFreqs \in Seq(PlainRow)
  BY ONLY <1>4, <1>5 DEF AxiFreqs
<1>12. MdpFreqs \in Seq(PlainRow)
  BY ONLY <1>6, <1>7 DEF MdpFreqs
<1> QED BY ONLY <1>8, <1>9, <1>10, <1>11, <1>12

LEMMA ExternalTables ==
    /\ EdpLinkFreqs \in Seq(ExternalRow) /\ EdpLinkFreqs # << >>
    /\ EdpPixelFreqs \in Seq(ExternalRow) /\ EdpPixelFreqs # << >>
<1>1. ASSUME NEW f \in Nat, NEW s \in ExternalPlls, NEW d \in Nat \ {0}
      PROVE  F_MDSS(f, s, d, 0, 0) \in ExternalRow
  BY SMT DEF F_MDSS, F_MM, ExternalRow, Frequency
<1>2. /\ F_MDSS(1620000, "edppll_270", 4, 0, 0) \in ExternalRow
      /\ F_MDSS(2700000, "edppll_270", 22, 0, 0) \in ExternalRow
  BY <1>1, SMT DEF ExternalPlls
<1>3. /\ F_MDSS(1385000, "edppll_350", 4, 0, 0) \in ExternalRow
      /\ F_MDSS(3500000, "edppll_350", 22, 0, 0) \in ExternalRow
  BY <1>1, SMT DEF ExternalPlls
<1>4. EdpLinkFreqs \in Seq(ExternalRow) /\ EdpLinkFreqs # << >>
  BY ONLY <1>2, SMT DEF EdpLinkFreqs
<1>5. EdpPixelFreqs \in Seq(ExternalRow) /\ EdpPixelFreqs # << >>
  BY ONLY <1>3, SMT DEF EdpPixelFreqs
<1> QED BY ONLY <1>4, <1>5

\* The source clock the driver enables for a row is one of its own or none.
LEMMA SourceOfRow ==
    ASSUME NEW w \in Frequency
    PROVE  SrcClk(w) \in Boot \cup {None}
<1>1. w.src \in Boot \cup ExternalPlls
  BY DEF Frequency
<1> QED BY <1>1 DEF SrcClk

LEMMA SourceOfExactRow ==
    ASSUME NEW w \in ExactRow
    PROVE  SrcClk(w) = w.src /\ w.src \in {"cxo", "gpll0"}
<1>1. w.src \in {"cxo", "gpll0"}
  BY DEF ExactRow
<1>2. w.src \notin ExternalPlls
  BY <1>1 DEF ExternalPlls
<1> QED BY <1>1, <1>2 DEF SrcClk

LEMMA RowKinds ==
    /\ Seq(PlainRow) \subseteq Seq(ExactRow)
    /\ Seq(ExactRow) \subseteq Seq(Frequency)
    /\ Seq(ExternalRow) \subseteq Seq(Frequency)
<1>1. PlainRow \subseteq ExactRow /\ ExactRow \subseteq Frequency /\ ExternalRow \subseteq Frequency
  BY DEF PlainRow, ExactRow, ExternalRow
<1> QED BY ONLY <1>1, SMT

\* The tables of msm8994-clock.c.
LEMMA Tables8994 ==
    /\ UartFreqs8994 \in Seq(Frequency) /\ AxiFreqs8994 \in Seq(Frequency)
    /\ MdpFreqs8994 \in Seq(Frequency) /\ Sdcc1Freqs8994 \in Seq(Frequency)
    /\ I2cFreqs8994 \in Seq(Frequency) /\ HdmiFreqs \in Seq(Frequency)
    /\ MockUtmiFreqs \in Seq(Frequency) /\ PhyAuxFreqs \in Seq(Frequency)
<1>1. /\ F(631600, "gpll0", 19, 0, 0) \in Frequency
      /\ F(960000, "gpll4", 12, 0, 0) \in Frequency
      /\ F(1920000, "gpll4", 4, 0, 0) \in Frequency
      /\ F(3840000, "gpll4", 2, 0, 0) \in Frequency
      /\ F(192000, "cxo", 2, 0, 0) \in Frequency
      /\ F(500000, "gpll0", 32, 0, 0) \in Frequency
      /\ F(600000, "gpll0", 20, 0, 0) \in Frequency
      /\ F(12000, "cxo", 32, 0, 0) \in Frequency
      /\ F_MM(3000000, "gpll0", 4, 0, 0) \in Frequency
  BY SMT DEF F, F_MM, Frequency, Boot
<1>2. /\ UartFreqs \in Seq(Frequency) /\ SdccFreqs \in Seq(Frequency)
      /\ AxiFreqs \in Seq(Frequency) /\ MdpFreqs \in Seq(Frequency)
  BY SdccExact, UartExact, PlainTables, RowKinds
<1>3. /\ UartFreqs8994 \in Seq(Frequency) /\ AxiFreqs8994 \in Seq(Frequency)
      /\ MdpFreqs8994 \in Seq(Frequency)
  BY ONLY <1>1, <1>2, SMT DEF UartFreqs8994, AxiFreqs8994, MdpFreqs8994
<1>4. SubSeq(SdccFreqs, 1, 5) \in Seq(Frequency)
  <2>1. Len(SdccFreqs) = 7
    BY SMT DEF SdccFreqs
  <2>2. ASSUME NEW i \in 1 .. 5
        PROVE  SdccFreqs[i] \in Frequency
    <3>1. SdccFreqs \in Seq(Frequency) /\ i \in 1 .. Len(SdccFreqs)
      BY <1>2, <2>1
    <3> QED BY ONLY <3>1, ElementOfSeq
  <2> QED BY ONLY <2>2, SubSeqProperties
<1>5. << F(960000, "gpll4", 12, 0, 0), F(1920000, "gpll4", 4, 0, 0),
         F(3840000, "gpll4", 2, 0, 0) >> \in Seq(Frequency)
  BY ONLY <1>1, SMT
<1>6. Sdcc1Freqs8994 \in Seq(Frequency)
  BY ONLY <1>4, <1>5, ConcatProperties, SMT DEF Sdcc1Freqs8994
<1>7. /\ I2cFreqs8994 \in Seq(Frequency) /\ MockUtmiFreqs \in Seq(Frequency)
      /\ PhyAuxFreqs \in Seq(Frequency)
  BY ONLY <1>1, SMT DEF I2cFreqs8994, MockUtmiFreqs, PhyAuxFreqs
<1>8. HdmiFreqs \in Seq(Frequency)
  <2>1. HdmiPclks \in [1 .. 10 -> Nat]
    BY SMT DEF HdmiPclks
  <2>2. ASSUME NEW i \in 1 .. 10
        PROVE  F_MDSS(HdmiPclks[i], "hdmipll", 2, 0, 0) \in Frequency
    BY <2>1, SMT DEF F_MDSS, F_MM, Frequency, ExternalPlls
  <2> QED BY <2>2, SMT DEF HdmiFreqs
<1> QED BY ONLY <1>3, <1>6, <1>7, <1>8

LEMMA FrequencyTables ==
    /\ SdccFreqs \in Seq(Frequency) /\ UartFreqs \in Seq(Frequency)
    /\ UsbHsFreqs \in Seq(Frequency) /\ CeFreqs \in Seq(Frequency)
    /\ CxoMmFreqs \in Seq(Frequency) /\ AxiFreqs \in Seq(Frequency)
    /\ MdpFreqs \in Seq(Frequency) /\ EdpLinkFreqs \in Seq(Frequency)
    /\ EdpPixelFreqs \in Seq(Frequency) /\ Usb30Freqs \in Seq(Frequency)
  BY SdccExact, UartExact, Usb30Exact, PlainTables, ExternalTables, RowKinds

-----------------------------------------------------------------------------
(* The sections of the two files *)

\* The root generators of both files.
Generators ==
    {"sdcc1_apps_clk_src", "sdcc2_apps_clk_src", "blsp2_uart6_apps_clk_src",
     "blsp1_uart2_apps_clk_src", "usb_hs_system_clk_src", "ce2_clk_src", "ce1_clk_src",
     "dsi_esc0_clk_src", "dsi_esc1_clk_src", "vsync_clk_src", "mdp_axi_clk_src",
     "mdss_mdp_clk_src", "edpaux_clk_src", "edplink_clk_src", "edppixel_clk_src",
     "usb30_master_clk_src", "usb30_mock_utmi_clk_src", "usb30_phy_aux_clk_src",
     "hdmi_clk_src", "extpclk_clk_src", "gcc_blsp1_qup2_i2c_apps_clk_src"}

\* A root generator's table; what else the proofs need to know of a clock c
\* with the record e, in a section that defines the clocks D: the parent of a
\* branch is in the section, or one of two that both files have.
GeneratorEntry(c, e) == e.ops = "rcg" /\ c \in Generators /\ e.tbl \in Seq(Frequency)
OtherEntry(e, D) ==
    /\ e.ops \in {"branch", "vote", "reset"}
    /\ e.ops = "branch" => e.parent \in D \cup {"cxo", "vsync_clk_src", None}

Entry(c, e, D) ==
    \/ c \notin Boot /\ (GeneratorEntry(c, e) \/ OtherEntry(e, D))
    \/ c \in Boot /\ e.ops \in {"cxo", "pll"}

Section(t) == \A c \in DOMAIN t : Entry(c, t[c], DOMAIN t)

\* Of the clocks of msm8974-clock.c: their tables are exact.
ExactEntry(e) ==
    e.ops = "rcg" =>
        \/ e.tbl \in Seq(ExactRow) /\ (e.how = "mnd" \/ e.tbl \in Seq(PlainRow))
        \/ e.tbl \in Seq(ExternalRow) /\ e.tbl # << >>

ExactSection(t) == \A c \in DOMAIN t : ExactEntry(t[c])

LEMMA GeneratorFields ==
    ASSUME NEW how, NEW tbl
    PROVE  /\ Rcg(how, tbl).ops = "rcg" /\ Rcg(how, tbl).how = how /\ Rcg(how, tbl).tbl = tbl
           /\ RcgNoFreq(how, tbl).ops = "rcg" /\ RcgNoFreq(how, tbl).how = how
           /\ RcgNoFreq(how, tbl).tbl = tbl
           /\ NoCfgReg(Rcg(how, tbl)).ops = "rcg" /\ NoCfgReg(Rcg(how, tbl)).how = how
           /\ NoCfgReg(Rcg(how, tbl)).tbl = tbl
           /\ NoCfgReg(RcgNoFreq(how, tbl)).ops = "rcg"
           /\ NoCfgReg(RcgNoFreq(how, tbl)).how = how
           /\ NoCfgReg(RcgNoFreq(how, tbl)).tbl = tbl
<1>1. PICK r : r = Rcg(how, tbl)
  OBVIOUS
<1>2. r = [ops |-> "rcg", how |-> how, tbl |-> tbl, dummy |-> TRUE, cfgReg |-> TRUE]
  BY <1>1 DEF Rcg
<1>3. PICK q : q = RcgNoFreq(how, tbl)
  OBVIOUS
<1>4. q = [r EXCEPT !.dummy = FALSE]
  BY <1>1, <1>3 DEF RcgNoFreq
<1>5. DOMAIN q = {"ops", "how", "tbl", "dummy", "cfgReg"}
  BY <1>2, <1>4
<1>6. q.ops = "rcg" /\ q.how = how /\ q.tbl = tbl
  BY <1>2, <1>4
<1>7. NoCfgReg(r).ops = "rcg" /\ NoCfgReg(r).how = how /\ NoCfgReg(r).tbl = tbl
  BY <1>2 DEF NoCfgReg
<1>8. NoCfgReg(q).ops = "rcg" /\ NoCfgReg(q).how = how /\ NoCfgReg(q).tbl = tbl
  BY <1>5, <1>6 DEF NoCfgReg
<1> QED BY <1>1, <1>2, <1>3, <1>6, <1>7, <1>8

LEMMA BranchFields ==
    ASSUME NEW p
    PROVE  /\ Branch(p).ops = "branch" /\ Branch(p).parent = p
           /\ Sibling(p).ops = "branch" /\ Sibling(p).parent = p
           /\ WithBcr(Branch(p)).ops = "branch" /\ WithBcr(Branch(p)).parent = p
           /\ WithBcr(Sibling(p)).ops = "branch" /\ WithBcr(Sibling(p)).parent = p
<1>1. PICK b : b = Branch(p)
  OBVIOUS
<1>2. b = [ops |-> "branch", parent |-> p, sibling |-> FALSE, bcr |-> FALSE]
  BY <1>1 DEF Branch
<1>3. PICK q : q = Sibling(p)
  OBVIOUS
<1>4. q = [b EXCEPT !.sibling = TRUE]
  BY <1>1, <1>3 DEF Sibling
<1>5. DOMAIN q = {"ops", "parent", "sibling", "bcr"}
  BY <1>2, <1>4
<1>6. q.ops = "branch" /\ q.parent = p
  BY <1>2, <1>4
<1>7. WithBcr(b).ops = "branch" /\ WithBcr(b).parent = p
  BY <1>2 DEF WithBcr
<1>8. WithBcr(q).ops = "branch" /\ WithBcr(q).parent = p
  BY <1>5, <1>6 DEF WithBcr
<1> QED BY <1>1, <1>2, <1>3, <1>6, <1>7, <1>8

\* The same, as entries of a section.
LEMMA GeneratorEntries ==
    ASSUME NEW c \in Generators, NEW D, NEW how, NEW tbl, tbl \in Seq(Frequency)
    PROVE  /\ Entry(c, Rcg(how, tbl), D) /\ Entry(c, RcgNoFreq(how, tbl), D)
           /\ Entry(c, NoCfgReg(Rcg(how, tbl)), D) /\ Entry(c, NoCfgReg(RcgNoFreq(how, tbl)), D)
<1>1. c \notin Boot
  BY DEF Generators, Boot
<1> QED BY <1>1, GeneratorFields DEF Entry, GeneratorEntry

LEMMA BranchEntries ==
    ASSUME NEW c, c \notin Boot, NEW D, NEW p, p \in D \cup {"cxo", "vsync_clk_src", None}
    PROVE  /\ Entry(c, Branch(p), D) /\ Entry(c, Sibling(p), D)
           /\ Entry(c, WithBcr(Branch(p)), D) /\ Entry(c, WithBcr(Sibling(p)), D)
<1>1. ASSUME NEW e, e.ops = "branch", e.parent = p
      PROVE  Entry(c, e, D)
  BY <1>1 DEF Entry, OtherEntry
<1> QED BY <1>1, BranchFields

LEMMA OtherEntries ==
    ASSUME NEW c, c \notin Boot, NEW D, NEW bit
    PROVE  Entry(c, Vote(bit), D) /\ Entry(c, Reset, D)
<1>1. Vote(bit).ops = "vote" /\ Reset.ops = "reset"
  BY DEF Vote, Reset
<1> QED BY <1>1 DEF Entry, OtherEntry

LEMMA SourceEntries ==
    ASSUME NEW c \in Boot, NEW D, NEW rate
    PROVE  Entry(c, Cxo, D) /\ Entry(c, Pll(rate), D)
<1>1. Cxo.ops = "cxo" /\ Pll(rate).ops = "pll"
  BY DEF Cxo, Pll
<1> QED BY <1>1 DEF Entry

\* Which tables are exact for which operations.
LEMMA GeneratorsExact ==
    ASSUME NEW how, NEW tbl,
           \/ tbl \in Seq(ExactRow) /\ (how = "mnd" \/ tbl \in Seq(PlainRow))
           \/ tbl \in Seq(ExternalRow) /\ tbl # << >>
    PROVE  /\ ExactEntry(Rcg(how, tbl)) /\ ExactEntry(RcgNoFreq(how, tbl))
           /\ ExactEntry(NoCfgReg(Rcg(how, tbl))) /\ ExactEntry(NoCfgReg(RcgNoFreq(how, tbl)))
<1>1. ASSUME NEW e, e.how = how, e.tbl = tbl
      PROVE  ExactEntry(e)
  BY <1>1 DEF ExactEntry
<1> QED BY <1>1, GeneratorFields

LEMMA ExactTables ==
    /\ SdccFreqs \in Seq(ExactRow) /\ UartFreqs \in Seq(ExactRow) /\ Usb30Freqs \in Seq(ExactRow)
    /\ UsbHsFreqs \in Seq(ExactRow) /\ UsbHsFreqs \in Seq(PlainRow)
    /\ CeFreqs \in Seq(ExactRow) /\ CeFreqs \in Seq(PlainRow)
    /\ CxoMmFreqs \in Seq(ExactRow) /\ CxoMmFreqs \in Seq(PlainRow)
    /\ AxiFreqs \in Seq(ExactRow) /\ AxiFreqs \in Seq(PlainRow)
    /\ MdpFreqs \in Seq(ExactRow) /\ MdpFreqs \in Seq(PlainRow)
    /\ EdpLinkFreqs \in Seq(ExternalRow) /\ EdpLinkFreqs # << >>
    /\ EdpPixelFreqs \in Seq(ExternalRow) /\ EdpPixelFreqs # << >>
  BY SdccExact, UartExact, Usb30Exact, PlainTables, ExternalTables, RowKinds

LEMMA OthersExact ==
    /\ \A p : /\ ExactEntry(Branch(p)) /\ ExactEntry(Sibling(p))
             /\ ExactEntry(WithBcr(Branch(p))) /\ ExactEntry(WithBcr(Sibling(p)))
    /\ \A x : ExactEntry(Vote(x)) /\ ExactEntry(Pll(x))
    /\ ExactEntry(Cxo) /\ ExactEntry(Reset)
<1>1. ASSUME NEW e, e.ops # "rcg"
      PROVE  ExactEntry(e)
  BY <1>1 DEF ExactEntry
<1>2. ASSUME NEW x
      PROVE  Vote(x).ops = "vote" /\ Pll(x).ops = "pll"
  BY DEF Vote, Pll
<1>3. Cxo.ops = "cxo" /\ Reset.ops = "reset"
  BY DEF Cxo, Reset
<1> QED BY <1>1, <1>2, <1>3, BranchFields

LEMMA SourcesSections ==
    Section(Sources8974) /\ ExactSection(Sources8974) /\ Section(Sources8994)
<1>1. ASSUME NEW c \in Boot, NEW D, NEW rate
      PROVE  Entry(c, Cxo, D) /\ Entry(c, Pll(rate), D)
  BY SourceEntries
<1>2. "cxo" \in Boot /\ "gpll0" \in Boot /\ "gpll4" \in Boot
  BY DEF Boot
<1>3. Section(Sources8974)
  BY ONLY <1>1, <1>2, SMT DEF Section, Sources8974
<1>4. Section(Sources8994)
  BY ONLY <1>1, <1>2, SMT DEF Section, Sources8994
<1>5. ExactSection(Sources8974)
  BY ONLY OthersExact, SMT DEF ExactSection, Sources8974
<1> QED BY <1>3, <1>4, <1>5

LEMMA Sdcc8974Section == Section(Sdcc8974) /\ ExactSection(Sdcc8974)
<1>1. PICK D : D = DOMAIN Sdcc8974
  OBVIOUS
<1>2. D \cap Boot = {}
  BY <1>1 DEF Sdcc8974, Boot
<1>3. /\ "sdcc1_apps_clk_src" \in D
      /\ "sdcc2_apps_clk_src" \in D
  BY <1>1 DEF Sdcc8974
<1>4. /\ Entry("sdcc1_apps_clk_src", Rcg("mnd", SdccFreqs), D)
      /\ Entry("sdcc2_apps_clk_src", Rcg("mnd", SdccFreqs), D)
  BY FrequencyTables, GeneratorEntries DEF Generators
<1>5. \A c \in D : /\ Entry(c, Branch("sdcc1_apps_clk_src"), D)
                   /\ Entry(c, Branch("sdcc2_apps_clk_src"), D)
                   /\ Entry(c, Sibling(None), D)
  BY <1>2, <1>3, BranchEntries
<1>6. Section(Sdcc8974)
  BY ONLY <1>1, <1>4, <1>5 DEF Section, Sdcc8974
<1>7. ExactEntry(Rcg("mnd", SdccFreqs))
  BY ExactTables, GeneratorsExact
<1> QED BY ONLY <1>6, <1>7, OthersExact DEF ExactSection, Sdcc8974

LEMMA Uart8974Section == Section(Uart8974) /\ ExactSection(Uart8974)
<1>1. PICK D : D = DOMAIN Uart8974
  OBVIOUS
<1>2. D \cap Boot = {}
  BY <1>1 DEF Uart8974, Boot
<1>3. "blsp2_uart6_apps_clk_src" \in D
  BY <1>1 DEF Uart8974
<1>4. Entry("blsp2_uart6_apps_clk_src", Rcg("mnd", UartFreqs), D)
  BY FrequencyTables, GeneratorEntries DEF Generators
<1>5. \A c \in D : /\ Entry(c, Branch("blsp2_uart6_apps_clk_src"), D)
                   /\ Entry(c, Vote(15), D)
  BY <1>2, <1>3, BranchEntries, OtherEntries
<1>6. Section(Uart8974)
  BY ONLY <1>1, <1>4, <1>5 DEF Section, Uart8974
<1>7. ExactEntry(Rcg("mnd", UartFreqs))
  BY ExactTables, GeneratorsExact
<1> QED BY ONLY <1>6, <1>7, OthersExact DEF ExactSection, Uart8974

LEMMA UsbHs8974Section == Section(UsbHs8974) /\ ExactSection(UsbHs8974)
<1>1. PICK D : D = DOMAIN UsbHs8974
  OBVIOUS
<1>2. D \cap Boot = {}
  BY <1>1 DEF UsbHs8974, Boot
<1>3. "usb_hs_system_clk_src" \in D
  BY <1>1 DEF UsbHs8974
<1>4. Entry("usb_hs_system_clk_src", Rcg("hid", UsbHsFreqs), D)
  BY FrequencyTables, GeneratorEntries DEF Generators
<1>5. \A c \in D : /\ Entry(c, Branch("usb_hs_system_clk_src"), D)
                   /\ Entry(c, Sibling(None), D)
  BY <1>2, <1>3, BranchEntries
<1>6. Section(UsbHs8974)
  BY ONLY <1>1, <1>4, <1>5 DEF Section, UsbHs8974
<1>7. ExactEntry(Rcg("hid", UsbHsFreqs))
  BY ExactTables, GeneratorsExact
<1> QED BY ONLY <1>6, <1>7, OthersExact DEF ExactSection, UsbHs8974

LEMMA Ce8974Section == Section(Ce8974) /\ ExactSection(Ce8974)
<1>1. PICK D : D = DOMAIN Ce8974
  OBVIOUS
<1>2. D \cap Boot = {}
  BY <1>1 DEF Ce8974, Boot
<1>3. /\ "ce2_clk_src" \in D
      /\ "ce1_clk_src" \in D
  BY <1>1 DEF Ce8974
<1>4. /\ Entry("ce2_clk_src", Rcg("hid", CeFreqs), D)
      /\ Entry("ce1_clk_src", Rcg("hid", CeFreqs), D)
  BY FrequencyTables, GeneratorEntries DEF Generators
<1>5. \A c \in D : /\ Entry(c, Vote(0), D)
                   /\ Entry(c, Vote(1), D)
                   /\ Entry(c, Vote(2), D)
                   /\ Entry(c, Vote(3), D)
                   /\ Entry(c, Vote(4), D)
                   /\ Entry(c, Vote(5), D)
  BY <1>2, <1>3, OtherEntries
<1>6. Section(Ce8974)
  BY ONLY <1>1, <1>4, <1>5 DEF Section, Ce8974
<1>7. ExactEntry(Rcg("hid", CeFreqs))
  BY ExactTables, GeneratorsExact
<1> QED BY ONLY <1>6, <1>7, OthersExact DEF ExactSection, Ce8974

LEMMA I2c8974Section == Section(I2c8974) /\ ExactSection(I2c8974)
<1>1. PICK D : D = DOMAIN I2c8974
  OBVIOUS
<1>2. D \cap Boot = {}
  BY <1>1 DEF I2c8974, Boot
<1>3. \A c \in D : Entry(c, Branch("cxo"), D)
  BY <1>2, BranchEntries
<1>4. Section(I2c8974)
  BY ONLY <1>1, <1>3 DEF Section, I2c8974
<1> QED BY ONLY <1>4, OthersExact DEF ExactSection, I2c8974

LEMMA Display8974Section == Section(Display8974) /\ ExactSection(Display8974)
<1>1. PICK D : D = DOMAIN Display8974
  OBVIOUS
<1>2. D \cap Boot = {}
  BY <1>1 DEF Display8974, Boot
<1>3. /\ "dsi_esc0_clk_src" \in D
      /\ "dsi_esc1_clk_src" \in D
      /\ "vsync_clk_src" \in D
      /\ "mdp_axi_clk_src" \in D
  BY <1>1 DEF Display8974
<1>4. /\ Entry("dsi_esc0_clk_src", RcgNoFreq("hid", CxoMmFreqs), D)
      /\ Entry("dsi_esc1_clk_src", RcgNoFreq("hid", CxoMmFreqs), D)
      /\ Entry("vsync_clk_src", RcgNoFreq("hid", CxoMmFreqs), D)
      /\ Entry("mdp_axi_clk_src", RcgNoFreq("hid", AxiFreqs), D)
  BY FrequencyTables, GeneratorEntries DEF Generators
<1>5. \A c \in D : /\ Entry(c, Branch("dsi_esc0_clk_src"), D)
                   /\ Entry(c, Branch("dsi_esc1_clk_src"), D)
                   /\ Entry(c, Branch("mdp_axi_clk_src"), D)
                   /\ Entry(c, Sibling(None), D)
  BY <1>2, <1>3, BranchEntries
<1>6. Section(Display8974)
  BY ONLY <1>1, <1>4, <1>5 DEF Section, Display8974
<1>7. /\ ExactEntry(RcgNoFreq("hid", CxoMmFreqs))
      /\ ExactEntry(RcgNoFreq("hid", AxiFreqs))
  BY ExactTables, GeneratorsExact
<1> QED BY ONLY <1>6, <1>7, OthersExact DEF ExactSection, Display8974

LEMMA Mdp8974Section == Section(Mdp8974) /\ ExactSection(Mdp8974)
<1>1. PICK D : D = DOMAIN Mdp8974
  OBVIOUS
<1>2. D \cap Boot = {}
  BY <1>1 DEF Mdp8974, Boot
<1>3. "mdss_mdp_clk_src" \in D
  BY <1>1 DEF Mdp8974
<1>4. Entry("mdss_mdp_clk_src", Rcg("hid", MdpFreqs), D)
  BY FrequencyTables, GeneratorEntries DEF Generators
<1>5. \A c \in D : /\ Entry(c, Sibling("mdss_mdp_clk_src"), D)
                   /\ Entry(c, Branch("vsync_clk_src"), D)
  BY <1>2, <1>3, BranchEntries
<1>6. Section(Mdp8974)
  BY ONLY <1>1, <1>4, <1>5 DEF Section, Mdp8974
<1>7. ExactEntry(Rcg("hid", MdpFreqs))
  BY ExactTables, GeneratorsExact
<1> QED BY ONLY <1>6, <1>7, OthersExact DEF ExactSection, Mdp8974

LEMMA Edp8974Section == Section(Edp8974) /\ ExactSection(Edp8974)
<1>1. PICK D : D = DOMAIN Edp8974
  OBVIOUS
<1>2. D \cap Boot = {}
  BY <1>1 DEF Edp8974, Boot
<1>3. /\ "edpaux_clk_src" \in D
      /\ "edplink_clk_src" \in D
      /\ "edppixel_clk_src" \in D
  BY <1>1 DEF Edp8974
<1>4. /\ Entry("edpaux_clk_src", NoCfgReg(RcgNoFreq("hid", CxoMmFreqs)), D)
      /\ Entry("edplink_clk_src", NoCfgReg(Rcg("hid", EdpLinkFreqs)), D)
      /\ Entry("edppixel_clk_src", NoCfgReg(Rcg("mnd", EdpPixelFreqs)), D)
  BY FrequencyTables, GeneratorEntries DEF Generators
<1>5. \A c \in D : /\ Entry(c, Branch("edpaux_clk_src"), D)
                   /\ Entry(c, Branch("edplink_clk_src"), D)
                   /\ Entry(c, Branch("edppixel_clk_src"), D)
  BY <1>2, <1>3, BranchEntries
<1>6. Section(Edp8974)
  BY ONLY <1>1, <1>4, <1>5 DEF Section, Edp8974
<1>7. /\ ExactEntry(NoCfgReg(RcgNoFreq("hid", CxoMmFreqs)))
      /\ ExactEntry(NoCfgReg(Rcg("hid", EdpLinkFreqs)))
      /\ ExactEntry(NoCfgReg(Rcg("mnd", EdpPixelFreqs)))
  BY ExactTables, GeneratorsExact
<1> QED BY ONLY <1>6, <1>7, OthersExact DEF ExactSection, Edp8974

LEMMA Usb308974Section == Section(Usb30_8974) /\ ExactSection(Usb30_8974)
<1>1. PICK D : D = DOMAIN Usb30_8974
  OBVIOUS
<1>2. D \cap Boot = {}
  BY <1>1 DEF Usb30_8974, Boot
<1>3. "usb30_master_clk_src" \in D
  BY <1>1 DEF Usb30_8974
<1>4. Entry("usb30_master_clk_src", Rcg("mnd", Usb30Freqs), D)
  BY FrequencyTables, GeneratorEntries DEF Generators
<1>5. \A c \in D : /\ Entry(c, Branch("usb30_master_clk_src"), D)
                   /\ Entry(c, Sibling(None), D)
  BY <1>2, <1>3, BranchEntries
<1>6. Section(Usb30_8974)
  BY ONLY <1>1, <1>4, <1>5 DEF Section, Usb30_8974
<1>7. ExactEntry(Rcg("mnd", Usb30Freqs))
  BY ExactTables, GeneratorsExact
<1> QED BY ONLY <1>6, <1>7, OthersExact DEF ExactSection, Usb30_8974

LEMMA Uart8994Section == Section(Uart8994)
<1>1. PICK D : D = DOMAIN Uart8994
  OBVIOUS
<1>2. D \cap Boot = {}
  BY <1>1 DEF Uart8994, Boot
<1>3. "blsp1_uart2_apps_clk_src" \in D
  BY <1>1 DEF Uart8994
<1>4. Entry("blsp1_uart2_apps_clk_src", Rcg("mnd", UartFreqs8994), D)
  BY FrequencyTables, Tables8994, GeneratorEntries DEF Generators
<1>5. \A c \in D : /\ Entry(c, Branch("blsp1_uart2_apps_clk_src"), D)
                   /\ Entry(c, Vote(17), D)
  BY <1>2, <1>3, BranchEntries, OtherEntries
<1> QED BY ONLY <1>1, <1>4, <1>5 DEF Section, Uart8994

LEMMA UsbHs8994Section == Section(UsbHs8994)
<1>1. PICK D : D = DOMAIN UsbHs8994
  OBVIOUS
<1>2. D \cap Boot = {}
  BY <1>1 DEF UsbHs8994, Boot
<1>3. "usb_hs_system_clk_src" \in D
  BY <1>1 DEF UsbHs8994
<1>4. Entry("usb_hs_system_clk_src", Rcg("hid", UsbHsFreqs), D)
  BY FrequencyTables, GeneratorEntries DEF Generators
<1>5. \A c \in D : /\ Entry(c, Branch("usb_hs_system_clk_src"), D)
                   /\ Entry(c, Sibling(None), D)
  BY <1>2, <1>3, BranchEntries
<1> QED BY ONLY <1>1, <1>4, <1>5 DEF Section, UsbHs8994

LEMMA Sdcc8994Section == Section(Sdcc8994)
<1>1. PICK D : D = DOMAIN Sdcc8994
  OBVIOUS
<1>2. D \cap Boot = {}
  BY <1>1 DEF Sdcc8994, Boot
<1>3. /\ "sdcc1_apps_clk_src" \in D
      /\ "sdcc2_apps_clk_src" \in D
  BY <1>1 DEF Sdcc8994
<1>4. /\ Entry("sdcc1_apps_clk_src", Rcg("mnd", Sdcc1Freqs8994), D)
      /\ Entry("sdcc2_apps_clk_src", Rcg("mnd", SdccFreqs), D)
  BY FrequencyTables, Tables8994, GeneratorEntries DEF Generators
<1>5. \A c \in D : /\ Entry(c, Branch("sdcc1_apps_clk_src"), D)
                   /\ Entry(c, Branch("sdcc2_apps_clk_src"), D)
                   /\ Entry(c, Sibling(None), D)
  BY <1>2, <1>3, BranchEntries
<1> QED BY ONLY <1>1, <1>4, <1>5 DEF Section, Sdcc8994

LEMMA Usb308994Section == Section(Usb30_8994)
<1>1. PICK D : D = DOMAIN Usb30_8994
  OBVIOUS
<1>2. D \cap Boot = {}
  BY <1>1 DEF Usb30_8994, Boot
<1>3. /\ "usb30_master_clk_src" \in D
      /\ "usb30_mock_utmi_clk_src" \in D
      /\ "usb30_phy_aux_clk_src" \in D
  BY <1>1 DEF Usb30_8994
<1>4. /\ Entry("usb30_master_clk_src", Rcg("mnd", Usb30Freqs), D)
      /\ Entry("usb30_mock_utmi_clk_src", Rcg("hid", MockUtmiFreqs), D)
      /\ Entry("usb30_phy_aux_clk_src", Rcg("hid", PhyAuxFreqs), D)
  BY FrequencyTables, Tables8994, GeneratorEntries DEF Generators
<1>5. \A c \in D : /\ Entry(c, WithBcr(Branch("usb30_master_clk_src")), D)
                   /\ Entry(c, Branch("usb30_mock_utmi_clk_src"), D)
                   /\ Entry(c, Branch("usb30_phy_aux_clk_src"), D)
                   /\ Entry(c, Sibling(None), D)
                   /\ Entry(c, WithBcr(Sibling(None)), D)
                   /\ Entry(c, Reset, D)
  BY <1>2, <1>3, BranchEntries, OtherEntries
<1> QED BY ONLY <1>1, <1>4, <1>5 DEF Section, Usb30_8994

LEMMA Hdmi8994Section == Section(Hdmi8994)
<1>1. PICK D : D = DOMAIN Hdmi8994
  OBVIOUS
<1>2. D \cap Boot = {}
  BY <1>1 DEF Hdmi8994, Boot
<1>3. /\ "hdmi_clk_src" \in D
      /\ "extpclk_clk_src" \in D
  BY <1>1 DEF Hdmi8994
<1>4. /\ Entry("hdmi_clk_src", Rcg("hid", CxoMmFreqs), D)
      /\ Entry("extpclk_clk_src", Rcg("hid", HdmiFreqs), D)
  BY FrequencyTables, Tables8994, GeneratorEntries DEF Generators
<1>5. \A c \in D : /\ Entry(c, Sibling(None), D)
                   /\ Entry(c, Branch("hdmi_clk_src"), D)
                   /\ Entry(c, Branch("extpclk_clk_src"), D)
  BY <1>2, <1>3, BranchEntries
<1> QED BY ONLY <1>1, <1>4, <1>5 DEF Section, Hdmi8994

LEMMA I2c8994Section == Section(I2c8994)
<1>1. PICK D : D = DOMAIN I2c8994
  OBVIOUS
<1>2. D \cap Boot = {}
  BY <1>1 DEF I2c8994, Boot
<1>3. "gcc_blsp1_qup2_i2c_apps_clk_src" \in D
  BY <1>1 DEF I2c8994
<1>4. Entry("gcc_blsp1_qup2_i2c_apps_clk_src", Rcg("hid", I2cFreqs8994), D)
  BY FrequencyTables, Tables8994, GeneratorEntries DEF Generators
<1>5. \A c \in D : Entry(c, Branch("gcc_blsp1_qup2_i2c_apps_clk_src"), D)
  BY <1>2, <1>3, BranchEntries
<1> QED BY ONLY <1>1, <1>4, <1>5 DEF Section, I2c8994

\* A section of MSM8994 that changes one entry of MSM8974's.
LEMMA ChangedSection ==
    ASSUME NEW t, Section(t), NEW c \in Generators, c \in DOMAIN t,
           NEW how, NEW tbl, tbl \in Seq(Frequency), NEW e,
           e = Rcg(how, tbl) \/ e = RcgNoFreq(how, tbl)
    PROVE  Section([t EXCEPT ![c] = e]) /\ DOMAIN [t EXCEPT ![c] = e] = DOMAIN t
<1>1. Entry(c, e, DOMAIN t)
  BY GeneratorEntries
<1>2. PICK u : u = [t EXCEPT ![c] = e]
  OBVIOUS
<1>3. DOMAIN u = DOMAIN t /\ \A d \in DOMAIN t : u[d] = IF d = c THEN e ELSE t[d]
  BY <1>2
<1> QED BY <1>1, <1>2, <1>3 DEF Section

LEMMA DisplaySections8994 ==
    /\ Section(Display8994) /\ DOMAIN Display8994 = DOMAIN Display8974
    /\ Section(Mdp8994) /\ DOMAIN Mdp8994 = DOMAIN Mdp8974
<1>3. AxiFreqs8994 \in Seq(Frequency) /\ MdpFreqs8994 \in Seq(Frequency)
  BY Tables8994
<1>4. "mdp_axi_clk_src" \in Generators /\ "mdss_mdp_clk_src" \in Generators
  BY DEF Generators
<1>5. "mdp_axi_clk_src" \in DOMAIN Display8974
  BY DEF Display8974
<1>6. "mdss_mdp_clk_src" \in DOMAIN Mdp8974
  BY DEF Mdp8974
<1>7. /\ Display8994 = [Display8974 EXCEPT !["mdp_axi_clk_src"] = RcgNoFreq("hid", AxiFreqs8994)]
      /\ Mdp8994 = [Mdp8974 EXCEPT !["mdss_mdp_clk_src"] = Rcg("hid", MdpFreqs8994)]
  BY DEF Display8994, Mdp8994
<1>8. Section(Display8994) /\ DOMAIN Display8994 = DOMAIN Display8974
  BY ONLY <1>3, <1>4, <1>5, <1>7, ChangedSection, Display8974Section
<1>9. Section(Mdp8994) /\ DOMAIN Mdp8994 = DOMAIN Mdp8974
  BY ONLY <1>3, <1>4, <1>6, <1>7, ChangedSection, Mdp8974Section
<1> QED BY <1>8, <1>9

-----------------------------------------------------------------------------
(* The tables *)

LEMMA TableFields ==
    ASSUME NEW s
    PROVE  /\ \A i \in DOMAIN s : DOMAIN s[i] \subseteq DOMAIN Table(s)
           /\ \A c \in DOMAIN Table(s) :
                 \E i \in DOMAIN s : c \in DOMAIN s[i] /\ Table(s)[c] = s[i][c]
<1>1. DOMAIN Table(s) = UNION { DOMAIN s[i] : i \in DOMAIN s }
  BY DEF Table
<1>2. ASSUME NEW c \in DOMAIN Table(s)
      PROVE  \E i \in DOMAIN s : c \in DOMAIN s[i] /\ Table(s)[c] = s[i][c]
  <2>1. \E i \in DOMAIN s : c \in DOMAIN s[i]
    BY <1>1, <1>2
  <2>2. PICK k : k = CHOOSE i \in DOMAIN s : c \in DOMAIN s[i]
    OBVIOUS
  <2>3. k \in DOMAIN s /\ c \in DOMAIN s[k]
    BY <2>1, <2>2
  <2>4. Table(s)[c] = s[k][c]
    BY <1>1, <1>2, <2>2 DEF Table
  <2> QED BY <2>3, <2>4
<1> QED BY <1>1, <1>2

LEMMA TableSections ==
    ASSUME NEW s
    PROVE  /\ (\A i \in DOMAIN s : Section(s[i])) => Section(Table(s))
           /\ (\A i \in DOMAIN s : ExactSection(s[i])) => ExactSection(Table(s))
<1>1. ASSUME NEW D, NEW E, D \subseteq E, NEW c, NEW e, Entry(c, e, D)
      PROVE  Entry(c, e, E)
  BY <1>1 DEF Entry, OtherEntry
<1>2. ASSUME \A i \in DOMAIN s : Section(s[i])
      PROVE  Section(Table(s))
  <2> SUFFICES ASSUME NEW c \in DOMAIN Table(s)
               PROVE  Entry(c, Table(s)[c], DOMAIN Table(s))
    BY DEF Section
  <2>1. PICK i \in DOMAIN s : c \in DOMAIN s[i] /\ Table(s)[c] = s[i][c]
    BY TableFields
  <2>2. Entry(c, s[i][c], DOMAIN s[i])
    BY <1>2, <2>1 DEF Section
  <2> QED BY <1>1, <2>1, <2>2, TableFields
<1>3. ASSUME \A i \in DOMAIN s : ExactSection(s[i])
      PROVE  ExactSection(Table(s))
  BY <1>3, TableFields DEF ExactSection
<1> QED BY <1>2, <1>3

LEMMA Clocks8974Sections == Section(Clocks8974) /\ ExactSection(Clocks8974)
<1>1. PICK s : s = << Sources8974, Sdcc8974, Uart8974, UsbHs8974, Ce8974, I2c8974, Display8974,
                      Mdp8974, Edp8974, Usb30_8974 >>
  OBVIOUS
<1>2. \A i \in DOMAIN s : Section(s[i]) /\ ExactSection(s[i])
  BY <1>1, SourcesSections, Sdcc8974Section, Uart8974Section, UsbHs8974Section, Ce8974Section,
     I2c8974Section, Display8974Section, Mdp8974Section, Edp8974Section, Usb308974Section
<1>3. Clocks8974 = Table(s)
  BY <1>1 DEF Clocks8974
<1> QED BY <1>2, <1>3, TableSections

LEMMA Clocks8994Section == Section(Clocks8994)
<1>1. PICK s : s = << Sources8994, Uart8994, UsbHs8994, Sdcc8994, Usb30_8994, Display8994, Mdp8994,
                      Edp8994, Hdmi8994, I2c8994 >>
  OBVIOUS
<1>2. \A i \in DOMAIN s : Section(s[i])
  BY <1>1, SourcesSections, Uart8994Section, UsbHs8994Section, Sdcc8994Section, Usb308994Section,
     DisplaySections8994, Edp8974Section, Hdmi8994Section, I2c8994Section DEF Edp8994
<1>3. Clocks8994 = Table(s)
  BY <1>1 DEF Clocks8994
<1> QED BY <1>2, <1>3, TableSections

\* The clocks of the sections are in the tables.
LEMMA Domains8974 ==
    /\ DOMAIN Sources8974 \subseteq DOMAIN Clocks8974 /\ DOMAIN Sdcc8974 \subseteq DOMAIN Clocks8974
    /\ DOMAIN Uart8974 \subseteq DOMAIN Clocks8974 /\ DOMAIN UsbHs8974 \subseteq DOMAIN Clocks8974
    /\ DOMAIN Ce8974 \subseteq DOMAIN Clocks8974 /\ DOMAIN I2c8974 \subseteq DOMAIN Clocks8974
    /\ DOMAIN Display8974 \subseteq DOMAIN Clocks8974 /\ DOMAIN Mdp8974 \subseteq DOMAIN Clocks8974
    /\ DOMAIN Edp8974 \subseteq DOMAIN Clocks8974 /\ DOMAIN Usb30_8974 \subseteq DOMAIN Clocks8974
<1>1. PICK s : s = << Sources8974, Sdcc8974, Uart8974, UsbHs8974, Ce8974, I2c8974, Display8974,
                      Mdp8974, Edp8974, Usb30_8974 >>
  OBVIOUS
<1>2. DOMAIN s = 1 .. 10
  BY <1>1
<1>3. \A i \in 1 .. 10 : DOMAIN s[i] \subseteq DOMAIN Clocks8974
  BY <1>1, <1>2, TableFields DEF Clocks8974
<1> QED BY ONLY <1>1, <1>3

LEMMA Domains8994 ==
    /\ DOMAIN Sources8994 \subseteq DOMAIN Clocks8994 /\ DOMAIN Uart8994 \subseteq DOMAIN Clocks8994
    /\ DOMAIN UsbHs8994 \subseteq DOMAIN Clocks8994 /\ DOMAIN Sdcc8994 \subseteq DOMAIN Clocks8994
    /\ DOMAIN Usb30_8994 \subseteq DOMAIN Clocks8994 /\ DOMAIN Display8994 \subseteq DOMAIN Clocks8994
    /\ DOMAIN Mdp8994 \subseteq DOMAIN Clocks8994 /\ DOMAIN Edp8994 \subseteq DOMAIN Clocks8994
    /\ DOMAIN Hdmi8994 \subseteq DOMAIN Clocks8994 /\ DOMAIN I2c8994 \subseteq DOMAIN Clocks8994
<1>1. PICK s : s = << Sources8994, Uart8994, UsbHs8994, Sdcc8994, Usb30_8994, Display8994, Mdp8994,
                      Edp8994, Hdmi8994, I2c8994 >>
  OBVIOUS
<1>2. DOMAIN s = 1 .. 10
  BY <1>1
<1>3. \A i \in 1 .. 10 : DOMAIN s[i] \subseteq DOMAIN Clocks8994
  BY <1>1, <1>2, TableFields DEF Clocks8994
<1> QED BY ONLY <1>1, <1>3

\* The names clients ask for lead to clocks of the tables.
LEMMA Names8974 ==
    \A id \in DOMAIN Lookup8974 : Lookup8974[id] \in DOMAIN Clocks8974 \ Boot
<1>1. {"gcc_sdcc1_ahb_clk", "gcc_sdcc1_apps_clk", "gcc_sdcc1_cdccal_sleep_clk",
       "gcc_sdcc1_cdccal_ff_clk", "gcc_sdcc2_ahb_clk", "gcc_sdcc2_apps_clk"}
        \subseteq DOMAIN Clocks8974
  BY Domains8974 DEF Sdcc8974
<1>2. {"gcc_blsp2_ahb_clk", "gcc_blsp2_uart6_apps_clk"}
        \subseteq DOMAIN Clocks8974
  BY Domains8974 DEF Uart8974
<1>3. {"gcc_usb_hs_ahb_clk", "gcc_usb_hs_system_clk"}
        \subseteq DOMAIN Clocks8974
  BY Domains8974 DEF UsbHs8974
<1>4. {"gcc_ce2_ahb_clk", "gcc_ce2_axi_clk", "gcc_ce2_clk", "ce2_clk_src",
       "gcc_ce1_ahb_clk", "gcc_ce1_axi_clk", "gcc_ce1_clk", "ce1_clk_src"}
        \subseteq DOMAIN Clocks8974
  BY Domains8974 DEF Ce8974
<1>5. {"gcc_blsp2_qup5_i2c_apps_clk"}
        \subseteq DOMAIN Clocks8974
  BY Domains8974 DEF I2c8974
<1>6. {"mdp_ahb_clk", "mdss_esc0_clk", "mdss_esc1_clk", "mdss_axi_clk",
       "mmss_mmssnoc_axi_clk", "mmss_s0_axi_clk"}
        \subseteq DOMAIN Clocks8974
  BY Domains8974 DEF Display8974
<1>7. {"mdss_vsync_clk", "mdss_mdp_clk_src", "mdss_mdp_clk", "mdss_mdp_lut_clk"}
        \subseteq DOMAIN Clocks8974
  BY Domains8974 DEF Mdp8974
<1>8. {"mdss_edppixel_clk", "mdss_edplink_clk", "mdss_edpaux_clk"}
        \subseteq DOMAIN Clocks8974
  BY Domains8974 DEF Edp8974
<1>9. {"gcc_sys_noc_usb30_axi_clk", "gcc_usb30_master_clk"}
        \subseteq DOMAIN Clocks8974
  BY Domains8974 DEF Usb30_8974
<1>10. \A id \in DOMAIN Lookup8974 : Lookup8974[id] \in DOMAIN Clocks8974
  BY ONLY <1>1, <1>2, <1>3, <1>4, <1>5, <1>6, <1>7, <1>8, <1>9 DEF Lookup8974
<1>11. \A id \in DOMAIN Lookup8974 : Lookup8974[id] \notin Boot
  BY ONLY TRUE DEF Lookup8974, Boot
<1> QED BY ONLY <1>10, <1>11

LEMMA Names8994 ==
    \A id \in DOMAIN Lookup8994 : Lookup8994[id] \in DOMAIN Clocks8994 \ Boot
<1>1. {"gcc_blsp1_ahb_clk", "gcc_blsp1_uart2_apps_clk"}
        \subseteq DOMAIN Clocks8994
  BY Domains8994, DisplaySections8994 DEF Uart8994
<1>2. {"gcc_usb_hs_ahb_clk", "gcc_usb_hs_system_clk"}
        \subseteq DOMAIN Clocks8994
  BY Domains8994, DisplaySections8994 DEF UsbHs8994
<1>3. {"gcc_sdcc1_ahb_clk", "gcc_sdcc1_apps_clk", "gcc_sdcc2_ahb_clk",
       "gcc_sdcc2_apps_clk"}
        \subseteq DOMAIN Clocks8994
  BY Domains8994, DisplaySections8994 DEF Sdcc8994
<1>4. {"gcc_usb2b_phy_sleep_clk", "gcc_usb30_master_clk", "gcc_sys_noc_usb30_axi_clk",
       "gcc_usb30_mock_utmi_clk", "gcc_usb30_sleep_clk", "gcc_usb30_phy_aux_clk",
       "gcc_usb30_pipe_clk", "gcc_usb30_phy_reset", "gcc_usb_phy_cfg_ahb2phy_clk"}
        \subseteq DOMAIN Clocks8994
  BY Domains8994, DisplaySections8994 DEF Usb30_8994
<1>5. {"mdp_ahb_clk", "mdss_esc0_clk", "mdss_esc1_clk", "mdss_axi_clk",
       "mmss_mmssnoc_axi_clk", "mmss_s0_axi_clk"}
        \subseteq DOMAIN Clocks8994
  BY Domains8994, DisplaySections8994 DEF Display8974
<1>6. {"mdss_vsync_clk", "mdss_mdp_clk_src", "mdss_mdp_clk", "mdss_mdp_lut_clk"}
        \subseteq DOMAIN Clocks8994
  BY Domains8994, DisplaySections8994 DEF Mdp8974
<1>7. {"mdss_edppixel_clk", "mdss_edplink_clk", "mdss_edpaux_clk"}
        \subseteq DOMAIN Clocks8994
  BY Domains8994, DisplaySections8994 DEF Edp8974, Edp8994
<1>8. {"mmss_misc_ahb_clk", "mdss_hdmi_ahb_clk", "mdss_hdmi_clk", "mdss_extpclk_clk"}
        \subseteq DOMAIN Clocks8994
  BY Domains8994, DisplaySections8994 DEF Hdmi8994
<1>9. {"gcc_blsp1_qup2_i2c_apps_clk_src", "gcc_blsp1_qup2_i2c_apps_clk"}
        \subseteq DOMAIN Clocks8994
  BY Domains8994, DisplaySections8994 DEF I2c8994
<1>10. \A id \in DOMAIN Lookup8994 : Lookup8994[id] \in DOMAIN Clocks8994
  BY ONLY <1>1, <1>2, <1>3, <1>4, <1>5, <1>6, <1>7, <1>8, <1>9 DEF Lookup8994
<1>11. \A id \in DOMAIN Lookup8994 : Lookup8994[id] \notin Boot
  BY ONLY TRUE DEF Lookup8994, Boot
<1> QED BY ONLY <1>10, <1>11

-----------------------------------------------------------------------------
(* What the tables say of the clocks of a chip *)

LEMMA ClkSection ==
    ASSUME chip \in Chips
    PROVE  /\ Section(Clk)
           /\ chip = "msm8974" => ExactSection(Clk)
           /\ {"cxo", "gpll0", "vsync_clk_src"} \subseteq DOMAIN Clk
           /\ chip # "msm8974" => "gpll4" \in DOMAIN Clk
           /\ \A id \in DOMAIN Lookup(chip) : Lookup(chip)[id] \in DOMAIN Clk \ Boot
<1>1. {"cxo", "gpll0"} \subseteq DOMAIN Clocks8974
  BY Domains8974 DEF Sources8974
<1>2. {"cxo", "gpll0", "gpll4"} \subseteq DOMAIN Clocks8994
  BY Domains8994 DEF Sources8994
<1>3. "vsync_clk_src" \in DOMAIN Display8974
  BY DEF Display8974
<1>4. "vsync_clk_src" \in DOMAIN Clocks8974 /\ "vsync_clk_src" \in DOMAIN Clocks8994
  BY <1>3, Domains8974, Domains8994, DisplaySections8994
<1>5. CASE chip = "msm8974"
  <2>1. Clk = Clocks8974 /\ Lookup(chip) = Lookup8974
    BY <1>5 DEF Clk, Clocks, Lookup
  <2> QED BY <1>1, <1>4, <1>5, <2>1, Clocks8974Sections, Names8974
<1>6. CASE chip # "msm8974"
  <2>1. Clk = Clocks8994 /\ Lookup(chip) = Lookup8994
    BY <1>6 DEF Clk, Clocks, Lookup
  <2> QED BY <1>2, <1>4, <1>6, <2>1, Clocks8994Section, Names8994
<1> QED BY <1>5, <1>6

\* A name's clock is in the table and is no source.
LEMMA NamedClock ==
    ASSUME chip \in Chips, NEW id, Known(id)
    PROVE  /\ Lookup(chip)[id] \in DOMAIN Clk
           /\ Clk[Lookup(chip)[id]].ops \notin {"cxo", "pll"}
<1>1. PICK c : c = Lookup(chip)[id]
  OBVIOUS
<1>2. c \in DOMAIN Clk /\ c \notin Boot /\ Entry(c, Clk[c], DOMAIN Clk)
  BY <1>1, ClkSection DEF Known, Section
<1>3. Clk[c].ops \in {"rcg", "branch", "vote", "reset"}
  BY <1>2 DEF Entry, GeneratorEntry, OtherEntry
<1> QED BY <1>1, <1>2, <1>3

LEMMA GeneratorTable ==
    ASSUME chip \in Chips, NEW r \in Rcgs
    PROVE  /\ r \in DOMAIN Clk /\ Clk[r].ops = "rcg" /\ r \in Generators
           /\ Clk[r].tbl \in Seq(Frequency)
<1>1. r \in DOMAIN Clk /\ Clk[r].ops = "rcg"
  BY DEF Rcgs
<1>2. Entry(r, Clk[r], DOMAIN Clk)
  BY <1>1, ClkSection DEF Section
<1> QED BY <1>1, <1>2 DEF Entry, GeneratorEntry, OtherEntry

\* The clock a rate goes to is a generator of the table.
LEMMA RootOfRate ==
    ASSUME chip \in Chips, NEW c \in DOMAIN Clk, NEW f, RateAccepted(c, f)
    PROVE  Root(c) \in Rcgs /\ InTable(Root(c), f)
<1>1. PICK r : r = Root(c)
  OBVIOUS
<1>2. r # None /\ Clk[r].ops = "rcg" /\ InTable(r, f)
  BY <1>1 DEF RateAccepted
<1>3. CASE Clk[c].ops # "branch"
  BY <1>1, <1>2, <1>3 DEF Root, Rcgs
<1>4. CASE Clk[c].ops = "branch"
  <2>1. r = Clk[c].parent
    BY <1>1, <1>2, <1>4 DEF Root
  <2>2. Entry(c, Clk[c], DOMAIN Clk)
    BY ClkSection DEF Section
  <2>3. r \in DOMAIN Clk
    BY <1>2, <1>4, <2>1, <2>2, ClkSection DEF Entry, GeneratorEntry, OtherEntry
  <2> QED BY <1>1, <1>2, <2>3 DEF Rcgs
<1> QED BY <1>3, <1>4

\* The source that is enabled for a row is the driver's, or there is none.
LEMMA SourceOfRate ==
    ASSUME chip \in Chips, NEW r \in Rcgs, NEW i \in 1 .. Len(Clk[r].tbl)
    PROVE  \/ SrcClk(Clk[r].tbl[i]) = None
           \/ /\ SrcClk(Clk[r].tbl[i]) \in DOMAIN Clk
              /\ Clk[SrcClk(Clk[r].tbl[i])].ops \in {"cxo", "pll"}
<1>1. PICK w : w = Clk[r].tbl[i]
  OBVIOUS
<1>2. Clk[r].tbl \in Seq(Frequency)
  BY GeneratorTable
<1>3. w \in Frequency
  BY <1>1, <1>2, ElementOfSeq
<1>4. ASSUME NEW s \in Boot, s \in DOMAIN Clk
      PROVE  Clk[s].ops \in {"cxo", "pll"}
  <2>1. Entry(s, Clk[s], DOMAIN Clk)
    BY <1>4, ClkSection DEF Section
  <2> QED BY <1>4, <2>1 DEF Entry
<1>5. CASE chip # "msm8974"
  <2>1. Boot \subseteq DOMAIN Clk
    BY <1>5, ClkSection DEF Boot
  <2> QED BY <1>1, <1>3, <1>4, <2>1, SourceOfRow
<1>6. CASE chip = "msm8974"
  <2>1. ExactEntry(Clk[r])
    BY <1>6, ClkSection, GeneratorTable DEF ExactSection
  <2>2. Clk[r].tbl \in Seq(ExactRow) \/ Clk[r].tbl \in Seq(ExternalRow)
    BY <2>1, GeneratorTable DEF ExactEntry
  <2>3. w \in ExactRow \/ w \in ExternalRow
    BY <1>1, <2>2, ElementOfSeq
  <2>4. CASE w \in ExactRow
    <3>1. SrcClk(w) \in {"cxo", "gpll0"}
      BY <2>4, SourceOfExactRow
    <3>2. SrcClk(w) \in DOMAIN Clk /\ SrcClk(w) \in Boot
      BY <3>1, ClkSection DEF Boot
    <3> QED BY <1>1, <1>4, <3>2
  <2>5. CASE w \in ExternalRow
    BY <1>1, <2>5 DEF ExternalRow, SrcClk
  <2> QED BY <2>3, <2>4, <2>5
<1> QED BY <1>5, <1>6

LEMMA FiveFinite ==
    ASSUME NEW a, NEW b, NEW c, NEW d, NEW e
    PROVE  IsFiniteSet({a, b, c, d, e})
<1>1. IsFiniteSet({a})
  BY FS_Singleton
<1>2. IsFiniteSet({a, b})
  <2>1. {a, b} = {a} \cup {b}
    OBVIOUS
  <2> QED BY <1>1, <2>1, FS_AddElement
<1>3. IsFiniteSet({a, b, c})
  <2>1. {a, b, c} = {a, b} \cup {c}
    OBVIOUS
  <2> QED BY <1>2, <2>1, FS_AddElement
<1>4. IsFiniteSet({a, b, c, d})
  <2>1. {a, b, c, d} = {a, b, c} \cup {d}
    OBVIOUS
  <2> QED BY <1>3, <2>1, FS_AddElement
<1>5. {a, b, c, d, e} = {a, b, c, d} \cup {e}
  OBVIOUS
<1> QED BY <1>4, <1>5, FS_AddElement

LEMMA GeneratorsFinite == IsFiniteSet(Generators)
<1>1. PICK A : A = {"sdcc1_apps_clk_src", "sdcc2_apps_clk_src", "blsp2_uart6_apps_clk_src",
                    "blsp1_uart2_apps_clk_src", "usb_hs_system_clk_src"}
  OBVIOUS
<1>2. PICK B : B = {"ce2_clk_src", "ce1_clk_src", "dsi_esc0_clk_src", "dsi_esc1_clk_src",
                    "vsync_clk_src"}
  OBVIOUS
<1>3. PICK C : C = {"mdp_axi_clk_src", "mdss_mdp_clk_src", "edpaux_clk_src", "edplink_clk_src",
                    "edppixel_clk_src"}
  OBVIOUS
<1>4. PICK D : D = {"usb30_master_clk_src", "usb30_mock_utmi_clk_src", "usb30_phy_aux_clk_src",
                    "hdmi_clk_src", "extpclk_clk_src"}
  OBVIOUS
<1>5. IsFiniteSet(A) /\ IsFiniteSet(B) /\ IsFiniteSet(C) /\ IsFiniteSet(D)
  BY ONLY <1>1, <1>2, <1>3, <1>4, FiveFinite
<1>6. IsFiniteSet(((A \cup B) \cup C) \cup D)
  BY ONLY <1>5, FS_Union
<1>7. Generators = (((A \cup B) \cup C) \cup D) \cup {"gcc_blsp1_qup2_i2c_apps_clk_src"}
  BY ONLY <1>1, <1>2, <1>3, <1>4 DEF Generators
<1> QED BY ONLY <1>6, <1>7, FS_AddElement

LEMMA FiniteRcgs ==
    ASSUME chip \in Chips
    PROVE  IsFiniteSet(Rcgs)
<1>1. Rcgs \subseteq Generators
  BY GeneratorTable
<1> QED BY <1>1, GeneratorsFinite, FS_Subset

-----------------------------------------------------------------------------
(* The state and what the driver's operations do to it *)

\* ClockTypeOK and the domains of the functions, without the bounds.
IsState(s) ==
    /\ DOMAIN s = {"count", "on", "current", "cfg", "bcr", "wild"}
    /\ s.count \in [DOMAIN Clk -> Nat]
    /\ s.on \subseteq Gates
    /\ s.current \in [Rcgs -> Nat]
    /\ \A r \in Rcgs : s.current[r] <= Len(Clk[r].tbl)
    /\ DOMAIN s.cfg = Rcgs
    /\ s.bcr \subseteq DOMAIN Clk

\* The roots on record for a source, and the two parts of BooksMatchHardware.
RunsFrom(s, c) == { r \in Rcgs : s.current[r] # 0 /\ SrcClk(Clk[r].tbl[s.current[r]]) = c }
Held(s) == \A c \in DOMAIN Clk : Clk[c].ops \in {"pll", "cxo"} =>
                                   s.count[c] >= Cardinality(RunsFrom(s, c))
Follows(s) == \A g \in Gates : /\ s.count[g] > 0 => g \in s.on
                               /\ g \in s.on => s.count[g] > 0 \/ g \in LeftOn
Booked(s) == IsState(s) /\ Follows(s) /\ Held(s)

LEMMA EnableFields ==
    ASSUME NEW s, IsState(s), NEW c \in DOMAIN Clk, NEW e, e = ClkEnable(s, c)
    PROVE  /\ DOMAIN e = DOMAIN s
           /\ e.count = [s.count EXCEPT ![c] = @ + 1]
           /\ e.on = IF s.count[c] = 0 /\ HasGate(c) THEN s.on \cup {c} ELSE s.on
           /\ e.current = s.current /\ e.cfg = s.cfg /\ e.bcr = s.bcr
<1>1. DOMAIN s = {"count", "on", "current", "cfg", "bcr", "wild"}
  BY DEF IsState
<1> QED BY <1>1 DEF ClkEnable

LEMMA DisableFields ==
    ASSUME NEW s, IsState(s), NEW c \in DOMAIN Clk, NEW d, d = ClkDisable(s, c)
    PROVE  /\ s.count[c] = 0 => d = s
           /\ s.count[c] # 0 =>
                /\ DOMAIN d = DOMAIN s
                /\ d.count = [s.count EXCEPT ![c] = @ - 1]
                /\ d.on = IF s.count[c] = 1 THEN s.on \ {c} ELSE s.on
                /\ d.current = s.current /\ d.cfg = s.cfg /\ d.bcr = s.bcr
<1>1. DOMAIN s = {"count", "on", "current", "cfg", "bcr", "wild"} /\ s.count[c] \in Nat
  BY DEF IsState
<1>2. CASE s.count[c] = 0
  BY <1>2 DEF ClkDisable
<1>3. CASE s.count[c] = 1
  <2>1. d = [s EXCEPT !.count[c] = 0, !.on = @ \ {c}]
    BY <1>3 DEF ClkDisable
  <2>2. d.count = [s.count EXCEPT ![c] = 0]
    BY <1>1, <2>1
  <2>3. [s.count EXCEPT ![c] = 0] = [s.count EXCEPT ![c] = @ - 1]
    BY <1>3
  <2>4. d.on = s.on \ {c} /\ DOMAIN d = DOMAIN s
    BY <1>1, <2>1
  <2>5. d.current = s.current /\ d.cfg = s.cfg /\ d.bcr = s.bcr
    BY <1>1, <2>1
  <2> QED BY <1>3, <2>2, <2>3, <2>4, <2>5
<1>4. CASE s.count[c] # 0 /\ s.count[c] # 1
  BY <1>1, <1>4 DEF ClkDisable
<1> QED BY <1>2, <1>3, <1>4

\* The row of a rate in the table: the first that has it.
LEMMA RowWithRate ==
    ASSUME chip \in Chips, NEW r \in Rcgs, NEW f, InTable(r, f)
    PROVE  /\ RowOf(r, f) \in 1 .. Len(Clk[r].tbl)
           /\ Clk[r].tbl[RowOf(r, f)].freq = f
<1>1. PICK t : t = Clk[r].tbl
  OBVIOUS
<1>2. Len(t) \in Nat
  BY <1>1, GeneratorTable
<1>3. PICK S : S = { i \in 1 .. Len(t) : t[i].freq = f }
  OBVIOUS
<1>4. S \in SUBSET Nat /\ S # {}
  BY <1>1, <1>2, <1>3 DEF InTable
<1>5. PICK i \in S : \A j \in S : i <= j
  BY ONLY <1>4, LeastExists
<1>6. \A j \in 1 .. (i - 1) : t[j].freq # f
  BY <1>2, <1>3, <1>5
<1>7. \E k \in 1 .. Len(t) : t[k].freq = f /\ \A j \in 1 .. (k - 1) : t[j].freq # f
  BY <1>3, <1>5, <1>6
<1> QED BY <1>1, <1>7 DEF RowOf

LEMMA NoneIsNoSource ==
    ASSUME chip \in Chips
    PROVE  ~ (None \in DOMAIN Clk /\ Clk[None].ops \in {"cxo", "pll"})
<1>1. SUFFICES ASSUME None \in DOMAIN Clk, Clk[None].ops \in {"cxo", "pll"} PROVE FALSE
  OBVIOUS
<1>2. Entry(None, Clk[None], DOMAIN Clk)
  BY <1>1, ClkSection DEF Section
<1>3. None \notin Boot
  BY DEF Boot, None
<1> QED BY <1>1, <1>2, <1>3 DEF Entry, GeneratorEntry, OtherEntry

LEMMA SourceEnabled ==
    ASSUME chip \in Chips, NEW s, IsState(s), NEW r \in Rcgs, NEW i \in 1 .. Len(Clk[r].tbl),
           NEW e, e = EnableSource(s, SrcClk(Clk[r].tbl[i]))
    PROVE  \/ SrcClk(Clk[r].tbl[i]) = None /\ e = s
           \/ /\ SrcClk(Clk[r].tbl[i]) \in DOMAIN Clk
              /\ Clk[SrcClk(Clk[r].tbl[i])].ops \in {"cxo", "pll"}
              /\ e = ClkEnable(s, SrcClk(Clk[r].tbl[i]))
BY NoneIsNoSource, SourceOfRate DEF EnableSource

\* clock_lib2_rcg_set_rate on the fields, e the state with the source enabled.
LEMMA SetRateFields ==
    ASSUME chip \in Chips, NEW s, IsState(s), NEW r \in Rcgs, NEW f,
           NEW i, i = RowOf(r, f), i # s.current[r], NEW row, row = Clk[r].tbl[i],
           NEW e, e = EnableSource(s, SrcClk(row)), DOMAIN e = DOMAIN s,
           e.current = s.current, e.cfg = s.cfg, e.bcr = s.bcr,
           NEW n, n = RcgSetRate(s, r, f)
    PROVE  /\ DOMAIN n = DOMAIN s
           /\ n.count = e.count /\ n.on = e.on /\ n.bcr = s.bcr
           /\ n.current = [s.current EXCEPT ![r] = i]
           /\ n.cfg = [s.cfg EXCEPT ![r] = Program(Clk[r].how, s.cfg[r], row)]
<1>1. DOMAIN e = {"count", "on", "current", "cfg", "bcr", "wild"} /\ r \in DOMAIN s.cfg
  BY DEF IsState
<1>2. n = [e EXCEPT !.current[r] = i, !.cfg[r] = Program(Clk[r].how, @, row),
                    !.wild = IF Clk[r].cfgReg THEN @ ELSE @ \cup {r}]
  BY DEF RcgSetRate
<1> QED BY <1>1, <1>2

LEMMA ResetFields ==
    ASSUME NEW s, IsState(s), NEW c \in DOMAIN Clk, NEW a \in BOOLEAN, NEW n, n = ClkReset(s, c, a)
    PROVE  /\ DOMAIN n = DOMAIN s
           /\ n.count = s.count /\ n.on = s.on /\ n.current = s.current /\ n.cfg = s.cfg
           /\ n.bcr \subseteq DOMAIN Clk
<1>1. DOMAIN s = {"count", "on", "current", "cfg", "bcr", "wild"} /\ s.bcr \subseteq DOMAIN Clk
  BY DEF IsState
<1>2. CASE ~HasReset(c)
  BY <1>1, <1>2 DEF ClkReset
<1>3. CASE HasReset(c) /\ Clk[c].ops = "branch" /\ ~Clk[c].bcr
  BY <1>1, <1>3 DEF ClkReset
<1>4. CASE HasReset(c) /\ ~ (Clk[c].ops = "branch" /\ ~Clk[c].bcr)
  <2>1. n = [s EXCEPT !.bcr = IF a THEN @ \cup {c} ELSE @ \ {c}]
    BY <1>4 DEF ClkReset
  <2> QED BY <1>1, <2>1
<1> QED BY <1>2, <1>3, <1>4

-----------------------------------------------------------------------------
(* Every operation keeps the books *)

LEMMA RunsFromFinite ==
    ASSUME chip \in Chips, NEW s, NEW c
    PROVE  IsFiniteSet(RunsFrom(s, c)) /\ Cardinality(RunsFrom(s, c)) \in Nat
<1>1. RunsFrom(s, c) \in SUBSET Rcgs
  BY DEF RunsFrom
<1> QED BY <1>1, FiniteRcgs, FS_Subset, FS_CardinalityType

LEMMA EnableBooked ==
    ASSUME chip \in Chips, NEW s, Booked(s), NEW c \in DOMAIN Clk
    PROVE  Booked(ClkEnable(s, c))
<1>1. PICK e : e = ClkEnable(s, c)
  OBVIOUS
<1>2. IsState(s)
  BY DEF Booked
<1>3. /\ DOMAIN e = DOMAIN s
      /\ e.count = [s.count EXCEPT ![c] = @ + 1]
      /\ e.on = IF s.count[c] = 0 /\ HasGate(c) THEN s.on \cup {c} ELSE s.on
      /\ e.current = s.current /\ e.cfg = s.cfg /\ e.bcr = s.bcr
  BY ONLY <1>1, <1>2, c \in DOMAIN Clk, EnableFields
<1>4. s.count \in [DOMAIN Clk -> Nat]
  BY <1>2 DEF IsState
<1>5. e.count \in [DOMAIN Clk -> Nat] /\ \A x \in DOMAIN Clk : e.count[x] >= s.count[x]
  BY <1>3, <1>4
<1>6. HasGate(c) => c \in Gates
  BY DEF Gates
<1>7. IsState(e)
  BY <1>2, <1>3, <1>5, <1>6 DEF IsState
<1>8. Follows(e)
  <2>1. SUFFICES ASSUME NEW g \in Gates
                 PROVE  /\ e.count[g] > 0 => g \in e.on
                        /\ g \in e.on => e.count[g] > 0 \/ g \in LeftOn
    BY DEF Follows
  <2>2. g \in DOMAIN Clk /\ HasGate(g)
    BY DEF Gates
  <2>3. /\ s.count[g] > 0 => g \in s.on
        /\ g \in s.on => s.count[g] > 0 \/ g \in LeftOn
    BY DEF Booked, Follows
  <2>4. s.count[g] \in Nat /\ e.count[g] \in Nat /\ e.count[g] >= s.count[g]
    BY <1>4, <1>5, <2>2
  <2>5. CASE g = c
    <3>1. e.count[g] > 0
      BY <1>3, <1>4, <2>2, <2>5
    <3>2. g \in e.on
      BY <1>3, <2>2, <2>3, <2>4, <2>5
    <3> QED BY <3>1, <3>2
  <2>6. CASE g # c
    <3>1. e.count[g] = s.count[g]
      BY <1>3, <1>4, <2>2, <2>6
    <3>2. g \in e.on <=> g \in s.on
      BY <1>3, <2>6
    <3> QED BY <2>3, <3>1, <3>2
  <2> QED BY <2>5, <2>6
<1>9. Held(e)
  <2>1. SUFFICES ASSUME NEW x \in DOMAIN Clk, Clk[x].ops \in {"pll", "cxo"}
                 PROVE  e.count[x] >= Cardinality(RunsFrom(e, x))
    BY DEF Held
  <2>2. RunsFrom(e, x) = RunsFrom(s, x)
    BY <1>3 DEF RunsFrom
  <2>3. s.count[x] >= Cardinality(RunsFrom(s, x))
    BY <2>1 DEF Booked, Held
  <2>4. PICK k : k = Cardinality(RunsFrom(s, x)) /\ k \in Nat
    BY RunsFromFinite
  <2>5. s.count[x] \in Nat /\ e.count[x] \in Nat /\ e.count[x] >= s.count[x]
    BY <1>4, <1>5
  <2> QED BY ONLY <2>2, <2>3, <2>4, <2>5
<1> QED BY <1>1, <1>7, <1>8, <1>9 DEF Booked

\* No client names a source, so none gives up the reference of another's root.
LEMMA DisableBooked ==
    ASSUME chip \in Chips, NEW s, Booked(s), NEW c \in DOMAIN Clk, Clk[c].ops \notin {"cxo", "pll"}
    PROVE  Booked(ClkDisable(s, c))
<1>1. PICK d : d = ClkDisable(s, c)
  OBVIOUS
<1>2. IsState(s)
  BY DEF Booked
<1>3. /\ s.count[c] = 0 => d = s
      /\ s.count[c] # 0 =>
           /\ DOMAIN d = DOMAIN s
           /\ d.count = [s.count EXCEPT ![c] = @ - 1]
           /\ d.on = IF s.count[c] = 1 THEN s.on \ {c} ELSE s.on
           /\ d.current = s.current /\ d.cfg = s.cfg /\ d.bcr = s.bcr
  BY ONLY <1>1, <1>2, c \in DOMAIN Clk, DisableFields
<1>4. s.count \in [DOMAIN Clk -> Nat]
  BY <1>2 DEF IsState
<1>5. CASE s.count[c] = 0
  BY <1>1, <1>3, <1>5
<1>6. CASE s.count[c] # 0
  <2>1. d.count \in [DOMAIN Clk -> Nat] /\ \A x \in DOMAIN Clk : x # c => d.count[x] = s.count[x]
    BY <1>3, <1>4, <1>6
  <2>2. IsState(d)
    BY <1>2, <1>3, <1>6, <2>1 DEF IsState
  <2>3. Follows(d)
    <3>1. SUFFICES ASSUME NEW g \in Gates
                   PROVE  /\ d.count[g] > 0 => g \in d.on
                          /\ g \in d.on => d.count[g] > 0 \/ g \in LeftOn
      BY DEF Follows
    <3>2. g \in DOMAIN Clk
      BY DEF Gates
    <3>3. /\ s.count[g] > 0 => g \in s.on
          /\ g \in s.on => s.count[g] > 0 \/ g \in LeftOn
      BY DEF Booked, Follows
    <3>4. CASE g = c
      <4>1. d.count[g] = s.count[g] - 1 /\ s.count[g] \in Nat
        BY <1>3, <1>4, <1>6, <3>2, <3>4
      <4>2. s.count[g] = 1 => g \notin d.on
        BY <1>3, <1>6, <3>4
      <4>3. s.count[g] # 1 => d.on = s.on
        BY <1>3, <1>6, <3>4
      <4> QED BY <1>6, <3>3, <3>4, <4>1, <4>2, <4>3
    <3>5. CASE g # c
      <4>1. g \in d.on <=> g \in s.on
        BY <1>3, <1>6, <3>5
      <4> QED BY <2>1, <3>2, <3>3, <3>5, <4>1
    <3> QED BY <3>4, <3>5
  <2>4. Held(d)
    <3>1. SUFFICES ASSUME NEW x \in DOMAIN Clk, Clk[x].ops \in {"pll", "cxo"}
                   PROVE  d.count[x] >= Cardinality(RunsFrom(d, x))
      BY DEF Held
    <3>2. RunsFrom(d, x) = RunsFrom(s, x)
      BY <1>3, <1>6 DEF RunsFrom
    <3>3. s.count[x] >= Cardinality(RunsFrom(s, x))
      BY <3>1 DEF Booked, Held
    <3>4. x # c
      BY <3>1
    <3> QED BY <2>1, <3>2, <3>3, <3>4
  <2> QED BY <1>1, <2>2, <2>3, <2>4 DEF Booked
<1> QED BY <1>5, <1>6

\* The source of the new row has its reference before the root is on record
\* for it; the old source keeps the one it had.
LEMMA SetRateBooked ==
    ASSUME chip \in Chips, NEW s, Booked(s), NEW r \in Rcgs, NEW f, InTable(r, f)
    PROVE  Booked(RcgSetRate(s, r, f))
<1>1. PICK n : n = RcgSetRate(s, r, f)
  OBVIOUS
<1>2. PICK i : i = RowOf(r, f)
  OBVIOUS
<1>3. PICK row : row = Clk[r].tbl[i]
  OBVIOUS
<1>4. PICK src : src = SrcClk(row)
  OBVIOUS
<1>5. PICK e : e = EnableSource(s, src)
  OBVIOUS
<1>6. i \in 1 .. Len(Clk[r].tbl)
  BY <1>2, RowWithRate
<1>7. IsState(s) /\ Follows(s) /\ Held(s)
  BY DEF Booked
<1>8. \/ src = None /\ e = s
      \/ src \in DOMAIN Clk /\ Clk[src].ops \in {"cxo", "pll"} /\ e = ClkEnable(s, src)
  BY ONLY chip \in Chips, r \in Rcgs, <1>3, <1>4, <1>5, <1>6, <1>7, SourceEnabled
<1>11. ASSUME src \in DOMAIN Clk, e = ClkEnable(s, src)
       PROVE  /\ DOMAIN e = DOMAIN s
              /\ e.count = [s.count EXCEPT ![src] = @ + 1]
              /\ e.on = IF s.count[src] = 0 /\ HasGate(src) THEN s.on \cup {src} ELSE s.on
              /\ e.current = s.current /\ e.cfg = s.cfg /\ e.bcr = s.bcr
  <2>1. IsState(s)
    BY <1>7
  <2> QED BY ONLY <1>11, <2>1, EnableFields
<1>9. CASE i = s.current[r]
  <2>1. n = s
    BY <1>1, <1>2, <1>9 DEF RcgSetRate
  <2> QED BY <1>1, <2>1
<1>10. CASE i # s.current[r]
  <2>1. /\ DOMAIN e = DOMAIN s
        /\ e.current = s.current /\ e.cfg = s.cfg /\ e.bcr = s.bcr
    BY <1>8, <1>11
  <2>2. Booked(e)
    BY <1>8, EnableBooked
  <2>3. /\ DOMAIN n = DOMAIN s
        /\ n.count = e.count /\ n.on = e.on /\ n.bcr = s.bcr
        /\ n.current = [s.current EXCEPT ![r] = i]
        /\ n.cfg = [s.cfg EXCEPT ![r] = Program(Clk[r].how, s.cfg[r], row)]
    BY ONLY chip \in Chips, r \in Rcgs, <1>1, <1>2, <1>3, <1>4, <1>5, <1>7, <1>10, <2>1,
            SetRateFields
  <2>4. IsState(n)
    <3>1. s.current \in [Rcgs -> Nat] /\ \A q \in Rcgs : s.current[q] <= Len(Clk[q].tbl)
      BY <1>7 DEF IsState
    <3>2. i \in Nat /\ i <= Len(Clk[r].tbl)
      BY <1>6, GeneratorTable
    <3>3. n.current \in [Rcgs -> Nat] /\ \A q \in Rcgs : n.current[q] <= Len(Clk[q].tbl)
      BY <2>3, <3>1, <3>2
    <3>4. DOMAIN n.cfg = Rcgs
      BY <1>7, <2>3 DEF IsState
    <3> QED BY <1>7, <2>2, <2>3, <3>3, <3>4 DEF Booked, IsState
  <2>5. Follows(n)
    BY <2>2, <2>3 DEF Booked, Follows
  <2>6. Held(n)
    <3>1. SUFFICES ASSUME NEW x \in DOMAIN Clk, Clk[x].ops \in {"pll", "cxo"}
                   PROVE  n.count[x] >= Cardinality(RunsFrom(n, x))
      BY DEF Held
    <3>2. PICK R : R = RunsFrom(s, x) /\ IsFiniteSet(R)
      BY RunsFromFinite
    <3>3. PICK k : k = Cardinality(R) /\ k \in Nat
      BY <3>2, RunsFromFinite
    <3>4. s.count \in [DOMAIN Clk -> Nat] /\ s.current \in [Rcgs -> Nat]
      BY <1>7 DEF IsState
    <3>5. s.count[x] >= k /\ s.count[x] \in Nat
      BY <1>7, <3>1, <3>2, <3>3, <3>4 DEF Held
    <3>6. \A q \in Rcgs : q # r => n.current[q] = s.current[q]
      BY <2>3, <3>4
    <3>7. n.current[r] = i
      BY <2>3, <3>4
    <3>8. CASE src = x
      <4>1. e = ClkEnable(s, x)
        <5>1. ~ (None \in DOMAIN Clk /\ Clk[None].ops \in {"cxo", "pll"})
          BY NoneIsNoSource
        <5> QED BY <1>8, <3>1, <3>8, <5>1
      <4>3. e.count = [s.count EXCEPT ![x] = @ + 1]
        BY <1>11, <3>8, <4>1
      <4>4. n.count[x] = s.count[x] + 1
        BY <2>3, <3>4, <4>3
      <4>5. RunsFrom(n, x) \subseteq R \cup {r}
        BY <3>2, <3>6 DEF RunsFrom
      <4>6. IsFiniteSet(R \cup {r}) /\ Cardinality(R \cup {r}) \in {k, k + 1}
        BY ONLY <3>2, <3>3, FS_AddElement
      <4>7. Cardinality(RunsFrom(n, x)) <= Cardinality(R \cup {r})
        BY <4>5, <4>6, FS_Subset
      <4>8. Cardinality(RunsFrom(n, x)) \in Nat
        BY RunsFromFinite
      <4> QED BY <3>3, <3>5, <4>4, <4>6, <4>7, <4>8
    <3>9. CASE src # x
      <4>1. n.count[x] = s.count[x]
        BY <1>8, <1>11, <2>3, <3>4, <3>9
      <4>2. RunsFrom(n, x) \subseteq R
        BY <1>3, <1>4, <3>2, <3>6, <3>7, <3>9 DEF RunsFrom
      <4>3. Cardinality(RunsFrom(n, x)) <= k
        BY <3>2, <3>3, <4>2, FS_Subset
      <4>4. Cardinality(RunsFrom(n, x)) \in Nat
        BY RunsFromFinite
      <4> QED BY <3>3, <3>5, <4>1, <4>3, <4>4
    <3> QED BY <3>8, <3>9
  <2> QED BY <1>1, <2>4, <2>5, <2>6 DEF Booked
<1> QED BY <1>9, <1>10

LEMMA ResetBooked ==
    ASSUME NEW s, Booked(s), NEW c \in DOMAIN Clk, NEW a \in BOOLEAN
    PROVE  Booked(ClkReset(s, c, a))
<1>1. PICK n : n = ClkReset(s, c, a)
  OBVIOUS
<1>2. IsState(s)
  BY DEF Booked
<1>3. /\ DOMAIN n = DOMAIN s
      /\ n.count = s.count /\ n.on = s.on /\ n.current = s.current /\ n.cfg = s.cfg
      /\ n.bcr \subseteq DOMAIN Clk
  BY ONLY <1>1, <1>2, c \in DOMAIN Clk, a \in BOOLEAN, ResetFields
<1>4. IsState(n)
  BY <1>2, <1>3 DEF IsState
<1>5. Follows(n)
  BY <1>3 DEF Booked, Follows
<1>6. \A x : RunsFrom(n, x) = RunsFrom(s, x)
  BY <1>3 DEF RunsFrom
<1>7. Held(n)
  BY <1>3, <1>6 DEF Booked, Held
<1> QED BY <1>1, <1>4, <1>5, <1>7 DEF Booked

LEMMA GetSetEnableBooked ==
    ASSUME chip \in Chips, NEW s, Booked(s), NEW id, NEW f, NEW enable \in BOOLEAN,
           GetSetEnableOk(id, f)
    PROVE  Booked(GetSetEnableState(s, id, f, enable))
<1>1. PICK c : c = Lookup(chip)[id]
  OBVIOUS
<1>2. c \in DOMAIN Clk
  BY <1>1, NamedClock DEF GetSetEnableOk, Known
<1>3. PICK s1 : s1 = IF f # 0 THEN ClkSetRate(s, c, f) ELSE s
  OBVIOUS
<1>4. Booked(s1)
  <2>1. CASE f # 0
    <3>1. RateAccepted(c, f)
      BY <1>1, <2>1 DEF GetSetEnableOk
    <3>2. Root(c) \in Rcgs /\ InTable(Root(c), f)
      BY <1>2, <3>1, RootOfRate
    <3> QED BY <1>3, <2>1, <3>2, SetRateBooked DEF ClkSetRate
  <2>2. CASE f = 0
    BY <1>3, <2>2
  <2> QED BY <2>1, <2>2
<1>5. Booked(ClkEnable(s1, c))
  BY <1>2, <1>4, EnableBooked
<1>6. GetSetEnableState(s, id, f, enable) = IF enable THEN ClkEnable(s1, c) ELSE s1
  BY <1>1, <1>3 DEF GetSetEnableState
<1> QED BY <1>4, <1>5, <1>6

-----------------------------------------------------------------------------
(* The books match the hardware *)

BooksInv == chip \in ChipsUsed /\ Booked(st) /\ Bounded(st)

LEMMA TableKept ==
    ASSUME chip' = chip
    PROVE  /\ Clk' = Clk /\ Rcgs' = Rcgs /\ Gates' = Gates
           /\ \A s, c : RunsFrom(s, c)' = RunsFrom(s, c)
<1>1. Clk' = Clk
  BY DEF Clk
<1>2. Rcgs' = Rcgs
  BY <1>1 DEF Rcgs
<1>3. Gates' = Gates
  BY <1>1 DEF Gates, HasGate, BranchGate, VoteGate, PllGate
<1>4. \A s, c : RunsFrom(s, c)' = RunsFrom(s, c)
  BY <1>1, <1>2 DEF RunsFrom
<1> QED BY <1>1, <1>2, <1>3, <1>4

LEMMA ReturnBooked ==
    ASSUME BooksInv, NEW s, Booked(s), NEW op, NEW id, NEW f, NEW r, Return(op, id, f, s, r)
    PROVE  BooksInv'
<1>1. Bounded(s) /\ st' = s /\ chip' = chip
  BY DEF Return
<1>2. /\ Clk' = Clk /\ Rcgs' = Rcgs /\ Gates' = Gates
      /\ \A x, c : RunsFrom(x, c)' = RunsFrom(x, c)
  BY <1>1, TableKept
<1>3. IsState(st)'
  BY <1>1, <1>2 DEF Booked, IsState
<1>4. Follows(st)'
  BY <1>1, <1>2 DEF Booked, Follows
<1>5. Held(st)'
  BY <1>1, <1>2 DEF Booked, Held
<1>6. Bounded(st)'
  BY <1>1, <1>2 DEF Bounded
<1> QED BY <1>1, <1>3, <1>4, <1>5, <1>6 DEF BooksInv, Booked

LEMMA BooksBegin ==
    ASSUME ClockInit
    PROVE  BooksInv
<1>1. chip \in Chips
  BY ChipsAssumption DEF ClockInit
<1>2. /\ DOMAIN st = {"count", "on", "current", "cfg", "bcr", "wild"}
      /\ st.count = [c \in DOMAIN Clk |-> 0]
      /\ st.on = LeftOn \cap Gates
      /\ st.current = [r \in Rcgs |-> 0]
      /\ st.cfg = [r \in Rcgs |-> ResetConfig]
      /\ st.bcr = {}
  BY DEF ClockInit
<1>3. \A r \in Rcgs : Len(Clk[r].tbl) \in Nat
  BY <1>1, GeneratorTable
<1>4. IsState(st)
  <2>1. st.count \in [DOMAIN Clk -> Nat]
    BY <1>2
  <2>2. st.current \in [Rcgs -> Nat] /\ \A r \in Rcgs : st.current[r] <= Len(Clk[r].tbl)
    BY <1>2, <1>3
  <2>3. DOMAIN st.cfg = Rcgs
    BY <1>2
  <2> QED BY <1>2, <2>1, <2>2, <2>3 DEF IsState
<1>5. Follows(st)
  BY <1>2 DEF Follows, Gates
<1>6. Held(st)
  <2>1. \A c : RunsFrom(st, c) = {}
    BY <1>2 DEF RunsFrom
  <2>2. Cardinality({}) = 0
    BY FS_EmptySet
  <2>3. \A c \in DOMAIN Clk : st.count[c] = 0
    BY <1>2
  <2>4. \A c \in DOMAIN Clk : st.count[c] >= Cardinality(RunsFrom(st, c))
    BY ONLY <2>1, <2>2, <2>3
  <2> QED BY <2>4 DEF Held
<1>7. Bounded(st)
  BY <1>2, ChipsAssumption DEF Bounded
<1> QED BY <1>4, <1>5, <1>6, <1>7 DEF BooksInv, Booked, ClockInit

LEMMA OrAssertBooked ==
    ASSUME BooksInv, NEW op, NEW id, NEW f, OrAssert(op, id, f)
    PROVE  BooksInv'
<1>1. chip \in Chips /\ Booked(st)
  BY ChipsAssumption DEF BooksInv
<1>2. CASE GetSetEnableOk(id, f)
  BY <1>1, <1>2, GetSetEnableBooked, ReturnBooked DEF OrAssert
<1>3. CASE ~GetSetEnableOk(id, f)
  BY <1>1, <1>3, ReturnBooked DEF OrAssert
<1> QED BY <1>2, <1>3

\* The two clocks of clock_config_cdc, each left alone when it is not known.
CdcEnabled(s, id) == IF Known(id) THEN GetSetEnableState(s, id, 0, TRUE) ELSE s

LEMMA CdcBooked ==
    ASSUME chip \in Chips, NEW s, Booked(s), NEW id
    PROVE  Booked(CdcEnabled(s, id))
<1>1. CASE Known(id)
  <2>1. GetSetEnableOk(id, 0)
    BY <1>1 DEF GetSetEnableOk, Known
  <2> QED BY <1>1, <2>1, GetSetEnableBooked DEF CdcEnabled
<1>2. CASE ~Known(id)
  BY <1>2 DEF CdcEnabled
<1> QED BY <1>1, <1>2

LEMMA CdcReturns ==
    ASSUME ClockConfigCdc
    PROVE  \E s, r : /\ Return("config_cdc", Cdccal[1], 0, s, r)
                     /\ s = st \/ s = CdcEnabled(CdcEnabled(st, Cdccal[1]), Cdccal[2])
<1>1. CASE chip = "msm8974"
  BY <1>1 DEF ClockConfigCdc
<1>2. CASE chip # "msm8974"
  BY <1>2 DEF ClockConfigCdc, CdcEnabled
<1> QED BY <1>1, <1>2

LEMMA BooksKept ==
    ASSUME BooksInv, [ClockNext]_clockVars
    PROVE  BooksInv'
<1>1. chip \in Chips /\ Booked(st)
  BY ChipsAssumption DEF BooksInv
<1>2. ASSUME NEW id, NEW f, NEW enable \in BOOLEAN, GetSetEnable(id, f, enable)
      PROVE  BooksInv'
  <2>1. CASE GetSetEnableOk(id, f)
    BY <1>1, <1>2, <2>1, GetSetEnableBooked, ReturnBooked DEF GetSetEnable
  <2>2. CASE ~GetSetEnableOk(id, f)
    BY <1>1, <1>2, <2>2, ReturnBooked DEF GetSetEnable
  <2> QED BY <2>1, <2>2
<1>3. ASSUME NEW id, Enable(id)
      PROVE  BooksInv'
  <2>1. Booked(ClkEnable(st, Lookup(chip)[id]))
    BY <1>1, <1>3, NamedClock, EnableBooked DEF Enable
  <2> QED BY <1>3, <2>1, ReturnBooked DEF Enable
<1>4. ASSUME NEW id, Disable(id)
      PROVE  BooksInv'
  <2>1. Booked(ClkDisable(st, Lookup(chip)[id]))
    BY <1>1, <1>4, NamedClock, DisableBooked DEF Disable
  <2> QED BY <1>4, <2>1, ReturnBooked DEF Disable
<1>5. ASSUME NEW id, NEW f, SetRate(id, f)
      PROVE  BooksInv'
  <2>1. CASE RateAccepted(Lookup(chip)[id], f)
    <3>1. Lookup(chip)[id] \in DOMAIN Clk
      BY <1>1, <1>5, NamedClock DEF SetRate
    <3>2. Root(Lookup(chip)[id]) \in Rcgs /\ InTable(Root(Lookup(chip)[id]), f)
      BY <1>1, <2>1, <3>1, RootOfRate
    <3>3. Booked(ClkSetRate(st, Lookup(chip)[id], f))
      BY <1>1, <3>2, SetRateBooked DEF ClkSetRate
    <3> QED BY <1>5, <2>1, <3>3, ReturnBooked DEF SetRate
  <2>2. CASE ~RateAccepted(Lookup(chip)[id], f)
    BY <1>1, <1>5, <2>2, ReturnBooked DEF SetRate
  <2> QED BY <2>1, <2>2
<1>6. ASSUME NEW id, NEW a \in BOOLEAN, ResetClk(id, a)
      PROVE  BooksInv'
  <2>1. Booked(ClkReset(st, Lookup(chip)[id], a))
    BY <1>1, <1>6, NamedClock, ResetBooked DEF ResetClk
  <2> QED BY <1>6, <2>1, ReturnBooked DEF ResetClk
<1>7. ASSUME NEW sdc, ClockInitMmc(sdc)
      PROVE  BooksInv'
  BY <1>7, OrAssertBooked DEF ClockInitMmc
<1>8. ASSUME NEW sdc, NEW f, ClockConfigMmc(sdc, f)
      PROVE  BooksInv'
  <2>1. CASE f \in DOMAIN MmcRates
    BY <1>8, <2>1, OrAssertBooked DEF ClockConfigMmc
  <2>2. CASE f \notin DOMAIN MmcRates
    BY <1>1, <1>8, <2>2, ReturnBooked DEF ClockConfigMmc
  <2> QED BY <2>1, <2>2
<1>9. ASSUME ClockConfigCdc
      PROVE  BooksInv'
  <2>1. PICK s, r : /\ Return("config_cdc", Cdccal[1], 0, s, r)
                    /\ s = st \/ s = CdcEnabled(CdcEnabled(st, Cdccal[1]), Cdccal[2])
    BY <1>9, CdcReturns
  <2>2. Booked(s)
    BY <1>1, <2>1, CdcBooked
  <2> QED BY <2>1, <2>2, ReturnBooked
<1>10. CASE UNCHANGED clockVars
  <2>1. chip' = chip /\ st' = st
    BY <1>10 DEF clockVars
  <2>2. /\ Clk' = Clk /\ Rcgs' = Rcgs /\ Gates' = Gates
        /\ \A x, c : RunsFrom(x, c)' = RunsFrom(x, c)
    BY <2>1, TableKept
  <2>3. IsState(st)'
    BY <1>1, <2>1, <2>2 DEF Booked, IsState
  <2>4. Follows(st)' /\ Held(st)'
    BY <1>1, <2>1, <2>2 DEF Booked, Follows, Held
  <2>5. Bounded(st)'
    BY <2>1, <2>2 DEF BooksInv, Bounded
  <2> QED BY <2>1, <2>3, <2>4, <2>5 DEF BooksInv, Booked
<1> QED BY <1>2, <1>3, <1>4, <1>5, <1>6, <1>7, <1>8, <1>9, <1>10 DEF ClockNext

LEMMA BooksAreRight ==
    ASSUME BooksInv
    PROVE  BooksMatchHardware
<1>1. IsState(st) /\ Follows(st) /\ Held(st) /\ Bounded(st) /\ chip \in ChipsUsed
  BY DEF BooksInv, Booked
<1>2. ClockTypeOK
  <2>1. ASSUME NEW c \in DOMAIN Clk
        PROVE  st.count[c] \in 0 .. (MaxCount + MaxSource)
    <3>1. st.count[c] \in Nat
      BY <1>1 DEF IsState
    <3>2. st.count[c] <= MaxSource \/ st.count[c] <= MaxCount
      BY <1>1 DEF Bounded
    <3> QED BY <3>1, <3>2, ChipsAssumption
  <2>2. ASSUME NEW r \in Rcgs
        PROVE  st.current[r] \in 0 .. Len(Clk[r].tbl)
    <3>1. chip \in Chips
      BY <1>1, ChipsAssumption
    <3>2. Len(Clk[r].tbl) \in Nat
      BY <3>1, GeneratorTable
    <3> QED BY <1>1, <3>2 DEF IsState
  <2> QED BY <1>1, <2>1, <2>2 DEF ClockTypeOK, IsState
<1>3. GatesFollowCounts
  BY <1>1 DEF GatesFollowCounts, Follows
<1>4. SourcesHeld
  <2>1. \A s : { r \in Rcgs : Running(r) /\ SrcClk(Row(r)) = s } = RunsFrom(st, s)
    BY DEF RunsFrom, Running, Row
  <2> QED BY <1>1, <2>1 DEF SourcesHeld, Held
<1> QED BY <1>2, <1>3, <1>4 DEF BooksMatchHardware

LEMMA BooksAlways == ClockSpec => []BooksInv
<1>1. ClockInit => BooksInv
  BY BooksBegin
<1>2. BooksInv /\ [ClockNext]_clockVars => BooksInv'
  BY BooksKept
<1> QED BY <1>1, <1>2, PTL DEF ClockSpec

\* BooksMatchHardware of every behaviour, over either chip's table: a clock with
\* a reference runs, one without does not unless it was left on, and a source
\* has a reference for each root on record for it, whoever calls what in which
\* order (clk_enable, clk_disable, clock_lib2_rcg_set_rate).
THEOREM BooksHold == ClockSpec => []BooksMatchHardware
<1>1. BooksInv => BooksMatchHardware
  BY BooksAreRight
<1> QED BY <1>1, BooksAlways, PTL

-----------------------------------------------------------------------------
(* A call touches its own clock *)

\* From s to n nothing goes off, what goes on is c or a PLL, and what is
\* reprogrammed is c's root.
Grows(s, n, c) ==
    /\ s.on \subseteq n.on
    /\ \A g \in n.on \ s.on : g = c \/ Clk[g].ops = "pll"
    /\ \A r \in Rcgs : n.cfg[r] # s.cfg[r] => r = Root(c)

LEMMA EnableGrows ==
    ASSUME NEW s, IsState(s), NEW c \in DOMAIN Clk
    PROVE  /\ Grows(s, ClkEnable(s, c), c)
           /\ ClkEnable(s, c).cfg = s.cfg /\ IsState(ClkEnable(s, c))
<1>1. PICK e : e = ClkEnable(s, c)
  OBVIOUS
<1>2. /\ DOMAIN e = DOMAIN s
      /\ e.count = [s.count EXCEPT ![c] = @ + 1]
      /\ e.on = IF s.count[c] = 0 /\ HasGate(c) THEN s.on \cup {c} ELSE s.on
      /\ e.current = s.current /\ e.cfg = s.cfg /\ e.bcr = s.bcr
  BY ONLY <1>1, IsState(s), c \in DOMAIN Clk, EnableFields
<1>3. Grows(s, e, c)
  BY <1>2 DEF Grows
<1>4. e.count \in [DOMAIN Clk -> Nat]
  BY <1>2 DEF IsState
<1>5. e.on \subseteq Gates
  BY <1>2 DEF IsState, Gates
<1>6. IsState(e)
  BY <1>2, <1>4, <1>5 DEF IsState
<1> QED BY <1>1, <1>2, <1>3, <1>6

LEMMA SetRateGrows ==
    ASSUME chip \in Chips, NEW s, Booked(s), NEW c \in DOMAIN Clk, NEW f, RateAccepted(c, f)
    PROVE  Grows(s, ClkSetRate(s, c, f), c)
<1>1. Root(c) \in Rcgs /\ InTable(Root(c), f)
  BY RootOfRate
<1>2. PICK r \in Rcgs : r = Root(c)
  BY <1>1
<1>3. PICK n : n = RcgSetRate(s, r, f)
  OBVIOUS
<1>4. PICK i : i = RowOf(r, f)
  OBVIOUS
<1>5. PICK row : row = Clk[r].tbl[i]
  OBVIOUS
<1>6. PICK src : src = SrcClk(row)
  OBVIOUS
<1>7. PICK e : e = EnableSource(s, src)
  OBVIOUS
<1>8. i \in 1 .. Len(Clk[r].tbl)
  BY <1>1, <1>2, <1>4, RowWithRate
<1>9. IsState(s)
  BY DEF Booked
<1>10. \/ src = None /\ e = s
       \/ src \in DOMAIN Clk /\ Clk[src].ops \in {"cxo", "pll"} /\ e = ClkEnable(s, src)
  BY ONLY chip \in Chips, r \in Rcgs, <1>5, <1>6, <1>7, <1>8, <1>9, SourceEnabled
<1>11. CASE i = s.current[r]
  <2>1. n = s
    BY <1>3, <1>4, <1>11 DEF RcgSetRate
  <2> QED BY <1>2, <1>3, <2>1 DEF Grows, ClkSetRate
<1>12. CASE i # s.current[r]
  <2>1. ASSUME src \in DOMAIN Clk, e = ClkEnable(s, src)
        PROVE  /\ DOMAIN e = DOMAIN s
               /\ e.count = [s.count EXCEPT ![src] = @ + 1]
               /\ e.on = IF s.count[src] = 0 /\ HasGate(src) THEN s.on \cup {src} ELSE s.on
               /\ e.current = s.current /\ e.cfg = s.cfg /\ e.bcr = s.bcr
    BY ONLY <1>9, <2>1, EnableFields
  <2>2. /\ DOMAIN e = DOMAIN s
        /\ e.current = s.current /\ e.cfg = s.cfg /\ e.bcr = s.bcr
    BY <1>10, <2>1
  <2>3. /\ DOMAIN n = DOMAIN s
        /\ n.count = e.count /\ n.on = e.on /\ n.bcr = s.bcr
        /\ n.current = [s.current EXCEPT ![r] = i]
        /\ n.cfg = [s.cfg EXCEPT ![r] = Program(Clk[r].how, s.cfg[r], row)]
    BY ONLY chip \in Chips, r \in Rcgs, <1>3, <1>4, <1>5, <1>6, <1>7, <1>9, <1>12, <2>2,
            SetRateFields
  <2>4. s.on \subseteq n.on
    BY <1>10, <2>1, <2>3
  <2>5. ASSUME NEW g \in n.on \ s.on
        PROVE  Clk[g].ops = "pll"
    <3>1. src \in DOMAIN Clk /\ Clk[src].ops \in {"cxo", "pll"} /\ HasGate(src) /\ g = src
      BY <1>10, <2>1, <2>3
    <3> QED BY <3>1 DEF HasGate, BranchGate, VoteGate, PllGate
  <2>6. \A q \in Rcgs : n.cfg[q] # s.cfg[q] => q = r
    BY <1>9, <2>3 DEF IsState
  <2> QED BY <1>2, <1>3, <2>4, <2>5, <2>6 DEF Grows, ClkSetRate
<1> QED BY <1>11, <1>12

LEMMA GetSetEnableGrows ==
    ASSUME chip \in Chips, NEW s, Booked(s), NEW id, NEW f, NEW enable \in BOOLEAN,
           GetSetEnableOk(id, f)
    PROVE  /\ Grows(s, GetSetEnableState(s, id, f, enable), Lookup(chip)[id])
           /\ f = 0 => GetSetEnableState(s, id, f, enable).cfg = s.cfg
<1>1. PICK c : c = Lookup(chip)[id]
  OBVIOUS
<1>2. c \in DOMAIN Clk
  BY <1>1, NamedClock DEF GetSetEnableOk, Known
<1>3. PICK s1 : s1 = IF f # 0 THEN ClkSetRate(s, c, f) ELSE s
  OBVIOUS
<1>4. Booked(s1) /\ Grows(s, s1, c)
  <2>1. CASE f # 0
    <3>1. RateAccepted(c, f)
      BY <1>1, <2>1 DEF GetSetEnableOk
    <3>2. Root(c) \in Rcgs /\ InTable(Root(c), f)
      BY <1>2, <3>1, RootOfRate
    <3>3. Booked(s1)
      BY <1>3, <2>1, <3>2, SetRateBooked DEF ClkSetRate
    <3> QED BY <1>2, <1>3, <2>1, <3>1, <3>3, SetRateGrows
  <2>2. CASE f = 0
    BY <1>3, <2>2 DEF Grows
  <2> QED BY <2>1, <2>2
<1>5. GetSetEnableState(s, id, f, enable) = IF enable THEN ClkEnable(s1, c) ELSE s1
  BY <1>1, <1>3 DEF GetSetEnableState
<1>6. PICK e : e = ClkEnable(s1, c)
  OBVIOUS
<1>7. Grows(s1, e, c) /\ e.cfg = s1.cfg
  BY <1>2, <1>4, <1>6, EnableGrows DEF Booked
<1>8. Grows(s, e, c)
  BY <1>4, <1>7 DEF Grows
<1>9. f = 0 => s1 = s
  BY <1>3
<1> QED BY <1>1, <1>4, <1>5, <1>6, <1>7, <1>8, <1>9

LEMMA NothingIsLocal ==
    ASSUME NEW op, NEW id, NEW f, NEW r, Return(op, id, f, st, r)
    PROVE  CallIsLocal
<1>1. st' = st
  BY DEF Return
<1> QED BY <1>1 DEF CallIsLocal

LEMMA GrowthIsLocal ==
    ASSUME NEW op, NEW id, Known(id), NEW f, NEW s, Grows(st, s, Lookup(chip)[id]),
           Return(op, id, f, s, "ok")
    PROVE  CallIsLocal
<1>1. st' = s /\ call'.id = id /\ call'.ret = "ok"
  BY DEF Return
<1> QED BY <1>1 DEF CallIsLocal, Grows

LEMMA OrAssertIsLocal ==
    ASSUME BooksInv, NEW op, NEW id, NEW f, OrAssert(op, id, f)
    PROVE  CallIsLocal
<1>1. chip \in Chips /\ Booked(st)
  BY ChipsAssumption DEF BooksInv
<1>2. CASE GetSetEnableOk(id, f)
  <2>1. Known(id) /\ Grows(st, GetSetEnableState(st, id, f, TRUE), Lookup(chip)[id])
    BY <1>1, <1>2, GetSetEnableGrows DEF GetSetEnableOk, Known
  <2> QED BY <1>2, <2>1, GrowthIsLocal DEF OrAssert
<1>3. CASE ~GetSetEnableOk(id, f)
  BY <1>3, NothingIsLocal DEF OrAssert
<1> QED BY <1>2, <1>3

LEMMA DisableIsLocal ==
    ASSUME BooksInv, NEW id, Disable(id)
    PROVE  CallIsLocal
<1>1. chip \in Chips /\ IsState(st)
  BY ChipsAssumption DEF BooksInv, Booked
<1>2. PICK c \in DOMAIN Clk : c = Lookup(chip)[id]
  BY <1>1, NamedClock DEF Disable
<1>3. PICK d : d = ClkDisable(st, c)
  OBVIOUS
<1>4. Known(id) /\ st' = d /\ call'.id = id /\ call'.op = "disable" /\ call'.ret = "ok"
  BY <1>2, <1>3 DEF Disable, Return
<1>5. /\ st.count[c] = 0 => d = st
      /\ st.count[c] # 0 =>
           /\ DOMAIN d = DOMAIN st
           /\ d.count = [st.count EXCEPT ![c] = @ - 1]
           /\ d.on = IF st.count[c] = 1 THEN st.on \ {c} ELSE st.on
           /\ d.current = st.current /\ d.cfg = st.cfg /\ d.bcr = st.bcr
  BY ONLY <1>1, <1>3, c \in DOMAIN Clk, DisableFields
<1>6. d.on \subseteq st.on /\ d.cfg = st.cfg
  BY <1>5
<1>7. \A g \in st.on \ d.on : g = c /\ st.count[g] = 1
  BY <1>5
<1> QED BY <1>2, <1>4, <1>6, <1>7 DEF CallIsLocal

LEMMA ResetIsLocal ==
    ASSUME BooksInv, NEW id, NEW a \in BOOLEAN, ResetClk(id, a)
    PROVE  CallIsLocal
<1>1. chip \in Chips /\ IsState(st)
  BY ChipsAssumption DEF BooksInv, Booked
<1>2. PICK c \in DOMAIN Clk : c = Lookup(chip)[id]
  BY <1>1, NamedClock DEF ResetClk
<1>3. PICK n : n = ClkReset(st, c, a)
  OBVIOUS
<1>4. Known(id) /\ st' = n /\ call'.id = id /\ call'.ret = "ok"
  BY <1>2, <1>3 DEF ResetClk, Return
<1>5. /\ DOMAIN n = DOMAIN st
      /\ n.count = st.count /\ n.on = st.on /\ n.current = st.current /\ n.cfg = st.cfg
      /\ n.bcr \subseteq DOMAIN Clk
  BY ONLY <1>1, <1>3, c \in DOMAIN Clk, a \in BOOLEAN, ResetFields
<1> QED BY <1>4, <1>5 DEF CallIsLocal

LEMMA CdcGrows ==
    ASSUME chip \in Chips, NEW s, Booked(s), NEW id
    PROVE  s.on \subseteq CdcEnabled(s, id).on /\ CdcEnabled(s, id).cfg = s.cfg
<1>1. CASE Known(id)
  <2>1. GetSetEnableOk(id, 0)
    BY <1>1 DEF GetSetEnableOk, Known
  <2>2. CdcEnabled(s, id) = GetSetEnableState(s, id, 0, TRUE)
    BY <1>1 DEF CdcEnabled
  <2>3. PICK n : n = GetSetEnableState(s, id, 0, TRUE)
    OBVIOUS
  <2>4. Grows(s, n, Lookup(chip)[id]) /\ n.cfg = s.cfg
    BY <2>1, <2>3, GetSetEnableGrows
  <2> QED BY <2>2, <2>3, <2>4 DEF Grows
<1>2. CASE ~Known(id)
  BY <1>2 DEF CdcEnabled
<1> QED BY <1>1, <1>2

LEMMA CdcIsLocal ==
    ASSUME BooksInv, ClockConfigCdc
    PROVE  CallIsLocal
<1>1. chip \in Chips /\ Booked(st)
  BY ChipsAssumption DEF BooksInv
<1>2. PICK s, r : /\ Return("config_cdc", Cdccal[1], 0, s, r)
                  /\ s = st \/ s = CdcEnabled(CdcEnabled(st, Cdccal[1]), Cdccal[2])
  BY CdcReturns
<1>3. PICK t : t = CdcEnabled(st, Cdccal[1])
  OBVIOUS
<1>4. Booked(t) /\ st.on \subseteq t.on /\ t.cfg = st.cfg
  BY <1>1, <1>3, CdcBooked, CdcGrows
<1>5. st.on \subseteq s.on /\ s.cfg = st.cfg
  BY <1>1, <1>2, <1>3, <1>4, CdcGrows
<1>6. st' = s /\ call'.op = "config_cdc"
  BY <1>2 DEF Return
<1> QED BY <1>5, <1>6 DEF CallIsLocal

LEMMA StepIsLocal ==
    ASSUME BooksInv, ClockNext
    PROVE  CallIsLocal
<1>1. chip \in Chips /\ Booked(st)
  BY ChipsAssumption DEF BooksInv
<1>2. ASSUME NEW id, NEW f, NEW enable \in BOOLEAN, GetSetEnable(id, f, enable)
      PROVE  CallIsLocal
  <2>1. CASE GetSetEnableOk(id, f)
    <3>1. Known(id) /\ Grows(st, GetSetEnableState(st, id, f, enable), Lookup(chip)[id])
      BY <1>1, <2>1, GetSetEnableGrows DEF GetSetEnableOk, Known
    <3> QED BY <1>2, <2>1, <3>1, GrowthIsLocal DEF GetSetEnable
  <2>2. CASE ~GetSetEnableOk(id, f)
    BY <1>2, <2>2, NothingIsLocal DEF GetSetEnable
  <2> QED BY <2>1, <2>2
<1>3. ASSUME NEW id, Enable(id)
      PROVE  CallIsLocal
  <2>1. Known(id) /\ Grows(st, ClkEnable(st, Lookup(chip)[id]), Lookup(chip)[id])
    BY <1>1, <1>3, NamedClock, EnableGrows DEF Enable, Booked
  <2> QED BY <1>3, <2>1, GrowthIsLocal DEF Enable
<1>4. ASSUME NEW id, NEW f, SetRate(id, f)
      PROVE  CallIsLocal
  <2>1. CASE RateAccepted(Lookup(chip)[id], f)
    <3>1. Known(id) /\ Lookup(chip)[id] \in DOMAIN Clk
      BY <1>1, <1>4, NamedClock DEF SetRate
    <3>2. Grows(st, ClkSetRate(st, Lookup(chip)[id], f), Lookup(chip)[id])
      BY <1>1, <2>1, <3>1, SetRateGrows
    <3> QED BY <1>4, <2>1, <3>1, <3>2, GrowthIsLocal DEF SetRate
  <2>2. CASE ~RateAccepted(Lookup(chip)[id], f)
    BY <1>4, <2>2, NothingIsLocal DEF SetRate
  <2> QED BY <2>1, <2>2
<1>5. ASSUME NEW sdc, ClockInitMmc(sdc)
      PROVE  CallIsLocal
  BY <1>5, OrAssertIsLocal DEF ClockInitMmc
<1>6. ASSUME NEW sdc, NEW f, ClockConfigMmc(sdc, f)
      PROVE  CallIsLocal
  <2>1. CASE f \in DOMAIN MmcRates
    BY <1>6, <2>1, OrAssertIsLocal DEF ClockConfigMmc
  <2>2. CASE f \notin DOMAIN MmcRates
    BY <1>6, <2>2, NothingIsLocal DEF ClockConfigMmc
  <2> QED BY <2>1, <2>2
<1> QED BY <1>2, <1>3, <1>4, <1>5, <1>6, DisableIsLocal, ResetIsLocal, CdcIsLocal DEF ClockNext

\* CallsAreLocal of every behaviour: no call switches another client's gate
\* off, reprograms another root or, when it fails, leaves a trace.
THEOREM CallsStayLocal == ClockSpec => CallsAreLocal
<1>1. BooksInv /\ [ClockNext]_clockVars => [CallIsLocal]_clockVars
  BY StepIsLocal
<1> QED BY <1>1, BooksAlways, PTL DEF ClockSpec, CallsAreLocal

-----------------------------------------------------------------------------
(* The sources and the SD controllers' clocks of msm8974-clock.c *)

MmcKeys == {"sdcc1_apps_clk_src", "sdcc2_apps_clk_src", "gcc_sdcc1_apps_clk",
            "gcc_sdcc2_apps_clk"}
SourceKeys == {"cxo", "gpll0"}

LEMMA KeysApart ==
    /\ (MmcKeys \cup SourceKeys) \cap DOMAIN Uart8974 = {}
    /\ (MmcKeys \cup SourceKeys) \cap DOMAIN UsbHs8974 = {}
    /\ (MmcKeys \cup SourceKeys) \cap DOMAIN Ce8974 = {}
    /\ (MmcKeys \cup SourceKeys) \cap DOMAIN I2c8974 = {}
    /\ (MmcKeys \cup SourceKeys) \cap DOMAIN Display8974 = {}
    /\ (MmcKeys \cup SourceKeys) \cap DOMAIN Mdp8974 = {}
    /\ (MmcKeys \cup SourceKeys) \cap DOMAIN Edp8974 = {}
    /\ (MmcKeys \cup SourceKeys) \cap DOMAIN Usb30_8974 = {}
    /\ MmcKeys \cap DOMAIN Sources8974 = {} /\ SourceKeys \cap DOMAIN Sdcc8974 = {}
<1> USE DEF MmcKeys, SourceKeys
<1>1. (MmcKeys \cup SourceKeys) \cap DOMAIN Uart8974 = {}
  BY DEF Uart8974
<1>2. (MmcKeys \cup SourceKeys) \cap DOMAIN UsbHs8974 = {}
  BY DEF UsbHs8974
<1>3. (MmcKeys \cup SourceKeys) \cap DOMAIN Ce8974 = {}
  BY DEF Ce8974
<1>4. (MmcKeys \cup SourceKeys) \cap DOMAIN I2c8974 = {}
  BY DEF I2c8974
<1>5. (MmcKeys \cup SourceKeys) \cap DOMAIN Display8974 = {}
  BY DEF Display8974
<1>6. (MmcKeys \cup SourceKeys) \cap DOMAIN Mdp8974 = {}
  BY DEF Mdp8974
<1>7. (MmcKeys \cup SourceKeys) \cap DOMAIN Edp8974 = {}
  BY DEF Edp8974
<1>8. (MmcKeys \cup SourceKeys) \cap DOMAIN Usb30_8974 = {}
  BY DEF Usb30_8974
<1>9. MmcKeys \cap DOMAIN Sources8974 = {} /\ SourceKeys \cap DOMAIN Sdcc8974 = {}
  BY DEF Sources8974, Sdcc8974
<1> QED BY ONLY <1>1, <1>2, <1>3, <1>4, <1>5, <1>6, <1>7, <1>8, <1>9

LEMMA KeyValues ==
    /\ \A c \in MmcKeys : c \in DOMAIN Clocks8974 /\ Clocks8974[c] = Sdcc8974[c]
    /\ \A c \in SourceKeys : c \in DOMAIN Clocks8974 /\ Clocks8974[c] = Sources8974[c]
<1>1. PICK s : s = << Sources8974, Sdcc8974, Uart8974, UsbHs8974, Ce8974, I2c8974, Display8974,
                      Mdp8974, Edp8974, Usb30_8974 >>
  OBVIOUS
<1>2. Clocks8974 = Table(s)
  BY <1>1 DEF Clocks8974
<1>3. MmcKeys \subseteq DOMAIN Sdcc8974 /\ SourceKeys \subseteq DOMAIN Sources8974
  BY DEF MmcKeys, SourceKeys, Sdcc8974, Sources8974
<1>4. DOMAIN s = 1 .. 10
  BY <1>1
<1>5. \A i \in 3 .. 10 : (MmcKeys \cup SourceKeys) \cap DOMAIN s[i] = {}
  BY ONLY <1>1, KeysApart
<1>6. s[1] = Sources8974 /\ s[2] = Sdcc8974
  BY <1>1
<1>7. ASSUME NEW c \in MmcKeys
      PROVE  c \in DOMAIN Clocks8974 /\ Clocks8974[c] = Sdcc8974[c]
  <2>1. c \in DOMAIN Clocks8974
    BY <1>3, Domains8974
  <2>2. PICK i \in 1 .. 10 : c \in DOMAIN s[i] /\ Clocks8974[c] = s[i][c]
    BY <1>2, <1>4, <2>1, TableFields
  <2>3. i # 1 /\ ~ (i \in 3 .. 10)
    BY <1>5, <1>6, <2>2, KeysApart
  <2>4. i = 2
    BY <2>3
  <2> QED BY <1>6, <2>1, <2>2, <2>4
<1>8. ASSUME NEW c \in SourceKeys
      PROVE  c \in DOMAIN Clocks8974 /\ Clocks8974[c] = Sources8974[c]
  <2>1. c \in DOMAIN Clocks8974
    BY <1>3, Domains8974
  <2>2. PICK i \in 1 .. 10 : c \in DOMAIN s[i] /\ Clocks8974[c] = s[i][c]
    BY <1>2, <1>4, <2>1, TableFields
  <2>3. i # 2 /\ ~ (i \in 3 .. 10)
    BY <1>5, <1>6, <2>2, KeysApart
  <2>4. i = 1
    BY <2>3
  <2> QED BY <1>6, <2>1, <2>2, <2>4
<1> QED BY <1>7, <1>8

\* The rates of the two sources.
LEMMA SourceRates ==
    ASSUME chip = "msm8974", NEW s \in {"cxo", "gpll0"}
    PROVE  Clk[s].rate = SourceRate[s]
<1>1. Clk[s] = Sources8974[s]
  BY KeyValues DEF Clk, Clocks, SourceKeys
<1>2. Sources8974.cxo.rate = SourceRate.cxo
  BY SMT DEF Sources8974, SourceRate, Cxo
<1>3. Sources8974.gpll0.rate = SourceRate.gpll0
  BY SMT DEF Sources8974, SourceRate, Pll
<1> QED BY <1>1, <1>2, <1>3

\* The core clock of a sdc: a branch behind a root with the table of SdccFreqs.
LEMMA CoreClock ==
    ASSUME chip = "msm8974", NEW sdc
    PROVE  LET c == Lookup(chip)[SdcCore(sdc)]
               r == Clk[c].parent
           IN /\ Known(SdcCore(sdc)) /\ c \in Gates /\ r \in Rcgs /\ Root(c) = r
              /\ Clk[r].tbl = SdccFreqs /\ r # None
<1>1. PICK id : id = SdcCore(sdc) /\ id \in {"sdc1_core_clk", "sdc2_core_clk"}
  BY DEF SdcCore
<1>2. /\ id \in DOMAIN Lookup8974
      /\ id = "sdc1_core_clk" => Lookup8974[id] = "gcc_sdcc1_apps_clk"
      /\ id = "sdc2_core_clk" => Lookup8974[id] = "gcc_sdcc2_apps_clk"
  BY <1>1 DEF Lookup8974
<1>3. Lookup(chip) = Lookup8974 /\ Clk = Clocks8974
  BY DEF Lookup, Clk, Clocks
<1>4. PICK c : c = Lookup8974[id]
  OBVIOUS
<1>5. c \in {"gcc_sdcc1_apps_clk", "gcc_sdcc2_apps_clk"}
  BY <1>1, <1>2, <1>4
<1>6. PICK r : r = IF c = "gcc_sdcc1_apps_clk" THEN "sdcc1_apps_clk_src" ELSE "sdcc2_apps_clk_src"
  OBVIOUS
<1>7. /\ c \in DOMAIN Clk /\ Clk[c] = Sdcc8974[c]
      /\ r \in DOMAIN Clk /\ Clk[r] = Sdcc8974[r]
  BY <1>3, <1>5, <1>6, KeyValues DEF MmcKeys
<1>8. Sdcc8974[c] = Branch(r)
  BY <1>5, <1>6 DEF Sdcc8974
<1>9. Sdcc8974[r] = Rcg("mnd", SdccFreqs)
  BY <1>6 DEF Sdcc8974
<1>10. Clk[c].ops = "branch"
  BY <1>7, <1>8 DEF Branch
<1>11. Clk[c].parent = r
  BY <1>7, <1>8 DEF Branch
<1>12. ~Clk[c].sibling
  BY <1>7, <1>8 DEF Branch
<1>13. Clk[r].ops = "rcg"
  BY <1>7, <1>9 DEF Rcg
<1>14. Clk[r].tbl = SdccFreqs
  BY <1>7, <1>9 DEF Rcg
<1>15. c \in Gates
  BY <1>7, <1>10 DEF Gates, HasGate, BranchGate
<1>16. r \in Rcgs /\ r # None
  BY <1>6, <1>7, <1>13 DEF Rcgs, None
<1>17. Root(c) = r
  BY <1>10, <1>11, <1>12 DEF Root
<1>18. Lookup(chip)[SdcCore(sdc)] = c /\ Known(SdcCore(sdc))
  BY <1>1, <1>2, <1>3, <1>4 DEF Known
<1> QED BY <1>11, <1>14, <1>15, <1>16, <1>17, <1>18

-----------------------------------------------------------------------------
(* The registers produce the rate on record *)

IsConfig(cfg) == DOMAIN cfg = {"sel", "div2", "mode", "m", "n"} /\ cfg.sel \in Nat

\* Divider, mode and counter are those of the row.
Produces(cfg, row) ==
    /\ cfg.div2 = row.div2
    /\ cfg.mode = IF row.n # 0 THEN 2 ELSE 0
    /\ row.n # 0 => cfg.m = row.m /\ cfg.n = row.n

\* A root without a row has the registers of the reset, one with a row those
\* of the row.  A source select that moves between the values below four and
\* those above is only right for a settled root.
RootRight(s, r) ==
    /\ IsConfig(s.cfg[r])
    /\ s.current[r] = 0 => s.cfg[r].sel = 0 /\ s.cfg[r].mode = 0
    /\ (s.current[r] # 0 /\ Clk[r].tbl[s.current[r]] \in ExactRow) =>
          /\ Produces(s.cfg[r], Clk[r].tbl[s.current[r]])
          /\ Settled(r) => s.cfg[r].sel = SourceVal(Clk[r].tbl[s.current[r]])
RatesRight(s) == \A r \in Rcgs : RootRight(s, r)

LEMMA SourceValues ==
    /\ \A w \in ExactRow :
          SourceVal(w) = IF w.src = "cxo" THEN 0 ELSE IF w.mux = "sys" THEN 1 ELSE 5
    /\ \A w \in ExternalRow : SourceVal(w) \in {3, 4}
<1>1. ASSUME NEW w \in ExactRow
      PROVE  SourceVal(w) = IF w.src = "cxo" THEN 0 ELSE IF w.mux = "sys" THEN 1 ELSE 5
  <2>1. w.src \in {"cxo", "gpll0"} /\ w.mux \in {"sys", "mm"}
    BY DEF ExactRow, Frequency
  <2> QED BY <2>1 DEF SourceVal
<1>2. ASSUME NEW w \in ExternalRow
      PROVE  SourceVal(w) \in {3, 4}
  <2>1. w.src \in {"edppll_270", "edppll_350", "hdmipll"}
    BY DEF ExternalRow, ExternalPlls
  <2> QED BY <2>1 DEF SourceVal
<1> QED BY <1>1, <1>2

LEMMA ProgramFields ==
    ASSUME NEW cfg, IsConfig(cfg), NEW row \in ExactRow \cup ExternalRow, NEW how,
           NEW new, new = Program(how, cfg, row)
    PROVE  /\ IsConfig(new)
           /\ new.sel = SelectAfter(cfg.sel, SourceVal(row))
           /\ new.div2 = row.div2
           /\ how # "mnd" => new.mode = cfg.mode
           /\ how = "mnd" => /\ new.mode = (IF row.n # 0 THEN 2 ELSE 0)
                             /\ new.m = row.m /\ new.n = row.n
<1>1. SelectAfter(cfg.sel, SourceVal(row)) \in Nat
  <2>1. SourceVal(row) \in Nat
    BY SourceValues
  <2> QED BY <2>1 DEF SelectAfter
<1>2. DOMAIN cfg = {"sel", "div2", "mode", "m", "n"}
  BY DEF IsConfig
<1>3. PICK hid : hid = ProgramHid(cfg, row)
  OBVIOUS
<1>4. /\ DOMAIN hid = DOMAIN cfg
      /\ hid.sel = SelectAfter(cfg.sel, SourceVal(row))
      /\ hid.div2 = row.div2
      /\ hid.mode = cfg.mode
  BY <1>2, <1>3 DEF ProgramHid
<1>5. CASE how # "mnd"
  <2>1. new = hid
    BY <1>3, <1>5 DEF Program
  <2> QED BY <1>1, <1>2, <1>4, <1>5, <2>1 DEF IsConfig
<1>6. CASE how = "mnd"
  <2>1. new = [hid EXCEPT !.mode = IF row.n # 0 THEN 2 ELSE 0, !.m = row.m, !.n = row.n]
    BY <1>3, <1>6 DEF Program, ProgramMnd
  <2>2. /\ DOMAIN new = DOMAIN hid /\ new.sel = hid.sel /\ new.div2 = hid.div2
        /\ new.mode = (IF row.n # 0 THEN 2 ELSE 0)
        /\ new.m = row.m /\ new.n = row.n
    BY <1>2, <1>4, <2>1
  <2> QED BY <1>1, <1>2, <1>4, <1>6, <2>2 DEF IsConfig
<1> QED BY <1>5, <1>6

\* What a table of msm8974-clock.c can be.
LEMMA ExactOrExternal ==
    ASSUME chip = "msm8974", NEW r \in Rcgs
    PROVE  \/ /\ Clk[r].tbl \in Seq(ExactRow)
              /\ Clk[r].how = "mnd" \/ Clk[r].tbl \in Seq(PlainRow)
           \/ Clk[r].tbl \in Seq(ExternalRow) /\ Clk[r].tbl # << >>
<1>1. chip \in Chips
  BY DEF Chips
<1>2. ExactEntry(Clk[r])
  BY <1>1, ClkSection, GeneratorTable DEF ExactSection
<1> QED BY <1>1, <1>2, GeneratorTable DEF ExactEntry

LEMMA SettledExact ==
    ASSUME chip = "msm8974", NEW r \in Rcgs, Settled(r)
    PROVE  Clk[r].tbl \in Seq(ExactRow)
<1>1. SUFFICES ASSUME Clk[r].tbl \in Seq(ExternalRow), Clk[r].tbl # << >>
               PROVE  FALSE
  BY ExactOrExternal
<1>2. PICK t : t = Clk[r].tbl
  OBVIOUS
<1>3. 1 \in 1 .. Len(t) /\ t[1] \in ExternalRow
  BY <1>1, <1>2
<1>4. SrcClk(t[1]) = None
  BY <1>3 DEF ExternalRow, SrcClk
<1> QED BY <1>2, <1>3, <1>4 DEF Settled

LEMMA RowOfTable ==
    ASSUME NEW R, NEW t \in Seq(R), NEW i \in 1 .. Len(t)
    PROVE  t[i] \in R
OBVIOUS

\* The registers after a switch, for the row that was on record and the new.
LEMMA SwitchRight ==
    ASSUME chip = "msm8974", NEW s, IsState(s), NEW r \in Rcgs, RootRight(s, r),
           NEW i \in 1 .. Len(Clk[r].tbl), Clk[r].tbl[i] \in ExactRow, NEW new,
           new = Program(Clk[r].how, s.cfg[r], Clk[r].tbl[i])
    PROVE  /\ Produces(new, Clk[r].tbl[i])
           /\ Settled(r) => new.sel = SourceVal(Clk[r].tbl[i])
<1>1. PICK row : row = Clk[r].tbl[i]
  OBVIOUS
<1>2. PICK t : t = Clk[r].tbl
  OBVIOUS
<1>3. PICK cfg : cfg = s.cfg[r]
  OBVIOUS
<1>4. PICK k : k = s.current[r]
  OBVIOUS
<1>5. chip \in Chips
  BY DEF Chips
<1>6. Len(t) \in Nat /\ k \in Nat /\ k <= Len(t)
  BY <1>2, <1>4, <1>5, GeneratorTable DEF IsState
<1>7. /\ IsConfig(cfg)
      /\ k = 0 => cfg.sel = 0 /\ cfg.mode = 0
      /\ k # 0 /\ t[k] \in ExactRow =>
            Produces(cfg, t[k]) /\ (Settled(r) => cfg.sel = SourceVal(t[k]))
  BY <1>2, <1>3, <1>4 DEF RootRight
<1>8. /\ new.sel = SelectAfter(cfg.sel, SourceVal(row))
      /\ new.div2 = row.div2
      /\ Clk[r].how # "mnd" => new.mode = cfg.mode
      /\ Clk[r].how = "mnd" => /\ new.mode = (IF row.n # 0 THEN 2 ELSE 0)
                               /\ new.m = row.m /\ new.n = row.n
  BY <1>1, <1>3, <1>7, ProgramFields
<1>9. row.src \in {"cxo", "gpll0"}
  BY <1>1 DEF ExactRow
<1>10. t \in Seq(ExactRow) /\ (Clk[r].how = "mnd" \/ t \in Seq(PlainRow))
  <2>1. SUFFICES ASSUME t \in Seq(ExternalRow) PROVE FALSE
    BY <1>2, ExactOrExternal
  <2>2. row \in ExternalRow
    BY <1>1, <1>2, <2>1
  <2>3. row.src \in ExternalPlls
    BY <2>2 DEF ExternalRow
  <2> QED BY <1>9, <2>3 DEF ExternalPlls
<1>11. k # 0 => t[k] \in ExactRow
  BY <1>6, <1>10
<1>12. Produces(new, row)
  <2>1. CASE Clk[r].how = "mnd"
    BY <1>8, <2>1 DEF Produces
  <2>2. CASE Clk[r].how # "mnd"
    <3>1. t \in Seq(PlainRow)
      BY <1>10, <2>2
    <3>2. row.n = 0
      BY <1>1, <1>2, <3>1 DEF PlainRow
    <3>3. k # 0 => t[k].n = 0
      BY <1>6, <3>1 DEF PlainRow
    <3>4. cfg.mode = 0
      BY <1>7, <1>11, <3>3 DEF Produces
    <3> QED BY <1>8, <2>2, <3>2, <3>4 DEF Produces
  <2> QED BY <2>1, <2>2
<1>13. ASSUME Settled(r)
       PROVE  new.sel = SourceVal(row)
  <2>1. SourceVal(row) \in Nat
    BY <1>1, SourceValues
  <2>2. CASE k = 0
    <3>1. cfg.sel = 0
      BY <1>7, <2>2
    <3> QED BY <1>8, <2>1, <3>1 DEF SelectAfter
  <2>3. CASE k # 0
    <3>1. cfg.sel = SourceVal(t[k]) /\ k \in 1 .. Len(t)
      BY <1>6, <1>7, <1>11, <1>13, <2>3
    <3>2. (SourceVal(t[k]) >= 4) = (SourceVal(row) >= 4)
      BY <1>1, <1>2, <1>13, <3>1 DEF Settled
    <3> QED BY <1>8, <2>1, <3>1, <3>2 DEF SelectAfter
  <2> QED BY <2>2, <2>3
<1> QED BY <1>1, <1>12, <1>13

LEMMA SameRegisters ==
    ASSUME NEW s, RatesRight(s), NEW n, n.cfg = s.cfg, n.current = s.current
    PROVE  RatesRight(n)
BY DEF RatesRight, RootRight

LEMMA SetRateRight ==
    ASSUME chip = "msm8974", NEW s, IsState(s), RatesRight(s), NEW r \in Rcgs, NEW f, InTable(r, f)
    PROVE  RatesRight(RcgSetRate(s, r, f))
<1>1. PICK n : n = RcgSetRate(s, r, f)
  OBVIOUS
<1>2. PICK i : i = RowOf(r, f)
  OBVIOUS
<1>3. PICK row : row = Clk[r].tbl[i]
  OBVIOUS
<1>4. PICK e : e = EnableSource(s, SrcClk(row))
  OBVIOUS
<1>5. PICK src : src = SrcClk(row)
  OBVIOUS
<1>6. chip \in Chips
  BY DEF Chips
<1>7. i \in 1 .. Len(Clk[r].tbl)
  BY <1>2, <1>6, RowWithRate
<1>8. \/ src = None /\ e = s
      \/ src \in DOMAIN Clk /\ Clk[src].ops \in {"cxo", "pll"} /\ e = ClkEnable(s, src)
  BY ONLY <1>6, IsState(s), r \in Rcgs, <1>3, <1>4, <1>5, <1>7, SourceEnabled
<1>9. CASE i = s.current[r]
  <2>1. n = s
    BY <1>1, <1>2, <1>9 DEF RcgSetRate
  <2> QED BY <1>1, <2>1
<1>10. CASE i # s.current[r]
  <2>1. ASSUME src \in DOMAIN Clk, e = ClkEnable(s, src)
        PROVE  /\ DOMAIN e = DOMAIN s
               /\ e.count = [s.count EXCEPT ![src] = @ + 1]
               /\ e.on = IF s.count[src] = 0 /\ HasGate(src) THEN s.on \cup {src} ELSE s.on
               /\ e.current = s.current /\ e.cfg = s.cfg /\ e.bcr = s.bcr
    BY ONLY IsState(s), <2>1, EnableFields
  <2>2. /\ DOMAIN e = DOMAIN s
        /\ e.current = s.current /\ e.cfg = s.cfg /\ e.bcr = s.bcr
    BY <1>8, <2>1
  <2>3. /\ DOMAIN n = DOMAIN s
        /\ n.count = e.count /\ n.on = e.on /\ n.bcr = s.bcr
        /\ n.current = [s.current EXCEPT ![r] = i]
        /\ n.cfg = [s.cfg EXCEPT ![r] = Program(Clk[r].how, s.cfg[r], row)]
    BY ONLY <1>6, r \in Rcgs, IsState(s), <1>1, <1>2, <1>3, <1>4, <1>10, <2>2, SetRateFields
  <2>4. DOMAIN s.cfg = Rcgs /\ DOMAIN s.current = Rcgs
    BY DEF IsState
  <2>5. ASSUME NEW q \in Rcgs, q # r
        PROVE  RootRight(n, q)
    <3>1. n.current[q] = s.current[q] /\ n.cfg[q] = s.cfg[q]
      BY <2>3, <2>4, <2>5
    <3> QED BY <3>1 DEF RatesRight, RootRight
  <2>6. RootRight(n, r)
    <3>1. n.current[r] = i /\ n.cfg[r] = Program(Clk[r].how, s.cfg[r], row)
      BY <2>3, <2>4
    <3>2. RootRight(s, r) /\ IsConfig(s.cfg[r])
      BY DEF RatesRight, RootRight
    <3>3. row \in ExactRow \cup ExternalRow
      BY <1>3, <1>7, ExactOrExternal, RowOfTable
    <3>4. IsConfig(n.cfg[r])
      BY <3>1, <3>2, <3>3, ProgramFields
    <3>5. i # 0
      BY <1>6, <1>7, GeneratorTable
    <3>6. row \in ExactRow => Produces(n.cfg[r], row) /\ (Settled(r) => n.cfg[r].sel = SourceVal(row))
      BY <1>3, <1>7, <3>1, <3>2, SwitchRight
    <3> QED BY <1>3, <3>1, <3>4, <3>5, <3>6 DEF RootRight
  <2> QED BY <1>1, <2>5, <2>6 DEF RatesRight
<1> QED BY <1>9, <1>10

\* The rate behind a settled root.
LEMMA RateOfRoot ==
    ASSUME chip = "msm8974", IsState(st), NEW r \in Rcgs, RootRight(st, r), Running(r), Settled(r)
    PROVE  RateOut(r) = Row(r).freq
<1>1. PICK t : t = Clk[r].tbl
  OBVIOUS
<1>2. PICK k : k = st.current[r]
  OBVIOUS
<1>3. PICK cfg : cfg = st.cfg[r]
  OBVIOUS
<1>4. t \in Seq(ExactRow)
  BY <1>1, SettledExact
<1>5. k \in Nat /\ k # 0 /\ k <= Len(t)
  BY <1>1, <1>2 DEF IsState, Running
<1>6. PICK row \in ExactRow : row = t[k]
  BY <1>4, <1>5
<1>7. Row(r) = row
  BY <1>1, <1>2, <1>6 DEF Row
<1>8. Produces(cfg, row) /\ cfg.sel = SourceVal(row)
  BY <1>1, <1>2, <1>3, <1>5, <1>6 DEF RootRight
<1>9. /\ row.src \in {"cxo", "gpll0"} /\ RateOf(row) = row.freq
      /\ row.n \in Nat
  BY DEF ExactRow, Frequency
<1>10. SelectedSource(r) = row.src
  <2>1. PICK rows : rows = { t[i] : i \in 1 .. Len(t) }
    OBVIOUS
  <2>2. PICK hits : hits = { w.src : w \in { v \in rows : SourceVal(v) = cfg.sel } }
    OBVIOUS
  <2>3. rows \subseteq ExactRow /\ row \in rows
    BY <1>4, <1>5, <1>6, <2>1
  <2>4. ASSUME NEW w \in rows, SourceVal(w) = cfg.sel
        PROVE  w.src = row.src
    <3>1. w \in ExactRow /\ w.src \in {"cxo", "gpll0"}
      BY <2>3 DEF ExactRow
    <3>2. PICK a : a = SourceVal(w) /\ a = IF w.src = "cxo" THEN 0 ELSE IF w.mux = "sys" THEN 1 ELSE 5
      BY <3>1, SourceValues
    <3>3. PICK b : b = SourceVal(row)
                   /\ b = IF row.src = "cxo" THEN 0 ELSE IF row.mux = "sys" THEN 1 ELSE 5
      BY SourceValues
    <3>4. a = b
      BY <1>8, <2>4, <3>2, <3>3
    <3>5. (a = 0) <=> w.src = "cxo"
      BY ONLY <3>2
    <3>6. (b = 0) <=> row.src = "cxo"
      BY ONLY <3>3
    <3> QED BY ONLY <1>9, <3>1, <3>4, <3>5, <3>6
  <2>5. hits = {row.src}
    BY <1>8, <2>2, <2>3, <2>4
  <2>6. SelectedSource(r) = IF hits = {} THEN None ELSE CHOOSE s \in hits : TRUE
    BY <1>1, <1>3, <2>1, <2>2 DEF SelectedSource
  <2> QED BY <2>5, <2>6
<1>11. row.src # None
  BY <1>9 DEF None
<1>12. Clk[row.src].rate = SourceRate[row.src]
  BY <1>9, SourceRates
<1>13. PICK base : base = (2 * SourceRate[row.src]) \div row.div2
  OBVIOUS
<1>14. RateOut(r) = IF cfg.mode # 2 THEN base ELSE IF cfg.n = 0 THEN 0 ELSE (base \div cfg.n) * cfg.m
  BY <1>3, <1>8, <1>10, <1>11, <1>12, <1>13 DEF RateOut, Produces
<1>15. RateOf(row) = IF row.n = 0 THEN base ELSE (base \div row.n) * row.m
  BY <1>13 DEF RateOf
<1>16. CASE row.n = 0
  <2>1. cfg.mode = 0
    BY <1>8, <1>16 DEF Produces
  <2> QED BY <1>7, <1>9, <1>14, <1>15, <1>16, <2>1
<1>17. CASE row.n # 0
  <2>1. cfg.mode = 2 /\ cfg.n = row.n /\ cfg.m = row.m
    BY <1>8, <1>17 DEF Produces
  <2> QED BY <1>7, <1>9, <1>14, <1>15, <1>17, <2>1
<1> QED BY <1>16, <1>17

-----------------------------------------------------------------------------
(* Every operation keeps the registers right *)

LEMMA EnableRight ==
    ASSUME NEW s, IsState(s), RatesRight(s), NEW c \in DOMAIN Clk
    PROVE  RatesRight(ClkEnable(s, c))
<1>1. PICK e : e = ClkEnable(s, c)
  OBVIOUS
<1>2. /\ DOMAIN e = DOMAIN s
      /\ e.count = [s.count EXCEPT ![c] = @ + 1]
      /\ e.on = IF s.count[c] = 0 /\ HasGate(c) THEN s.on \cup {c} ELSE s.on
      /\ e.current = s.current /\ e.cfg = s.cfg /\ e.bcr = s.bcr
  BY ONLY <1>1, IsState(s), c \in DOMAIN Clk, EnableFields
<1> QED BY <1>1, <1>2, SameRegisters

LEMMA DisableRight ==
    ASSUME NEW s, IsState(s), RatesRight(s), NEW c \in DOMAIN Clk
    PROVE  RatesRight(ClkDisable(s, c))
<1>1. PICK d : d = ClkDisable(s, c)
  OBVIOUS
<1>2. /\ s.count[c] = 0 => d = s
      /\ s.count[c] # 0 =>
           /\ DOMAIN d = DOMAIN s
           /\ d.count = [s.count EXCEPT ![c] = @ - 1]
           /\ d.on = IF s.count[c] = 1 THEN s.on \ {c} ELSE s.on
           /\ d.current = s.current /\ d.cfg = s.cfg /\ d.bcr = s.bcr
  BY ONLY <1>1, IsState(s), c \in DOMAIN Clk, DisableFields
<1>3. d.current = s.current /\ d.cfg = s.cfg
  BY <1>2
<1> QED BY <1>1, <1>3, SameRegisters

LEMMA ResetRight ==
    ASSUME NEW s, IsState(s), RatesRight(s), NEW c \in DOMAIN Clk, NEW a \in BOOLEAN
    PROVE  RatesRight(ClkReset(s, c, a))
<1>1. PICK n : n = ClkReset(s, c, a)
  OBVIOUS
<1>2. /\ DOMAIN n = DOMAIN s
      /\ n.count = s.count /\ n.on = s.on /\ n.current = s.current /\ n.cfg = s.cfg
      /\ n.bcr \subseteq DOMAIN Clk
  BY ONLY <1>1, IsState(s), c \in DOMAIN Clk, a \in BOOLEAN, ResetFields
<1> QED BY <1>1, <1>2, SameRegisters

LEMMA SourceFields ==
    ASSUME chip \in Chips, NEW s, IsState(s), NEW r, r \in Rcgs,
           NEW i, i \in 1 .. Len(Clk[r].tbl), NEW e, e = EnableSource(s, SrcClk(Clk[r].tbl[i]))
    PROVE  /\ DOMAIN e = DOMAIN s
           /\ e.current = s.current /\ e.cfg = s.cfg /\ e.bcr = s.bcr
<1>1. PICK src : src = SrcClk(Clk[r].tbl[i])
  OBVIOUS
<1>2. e = s \/ (src \in DOMAIN Clk /\ e = ClkEnable(s, src))
  BY <1>1, SourceEnabled
<1>3. ASSUME src \in DOMAIN Clk, e = ClkEnable(s, src)
      PROVE  /\ DOMAIN e = DOMAIN s
             /\ e.count = [s.count EXCEPT ![src] = @ + 1]
             /\ e.on = IF s.count[src] = 0 /\ HasGate(src) THEN s.on \cup {src} ELSE s.on
             /\ e.current = s.current /\ e.cfg = s.cfg /\ e.bcr = s.bcr
  BY ONLY IsState(s), <1>3, EnableFields
<1> QED BY <1>2, <1>3

LEMMA SetRateRecords ==
    ASSUME chip \in Chips, NEW s, Booked(s), NEW r \in Rcgs, NEW f, InTable(r, f)
    PROVE  RcgSetRate(s, r, f).current[r] = RowOf(r, f)
<1>1. PICK n : n = RcgSetRate(s, r, f)
  OBVIOUS
<1>2. PICK i : i = RowOf(r, f)
  OBVIOUS
<1>3. PICK row : row = Clk[r].tbl[i]
  OBVIOUS
<1>4. PICK e : e = EnableSource(s, SrcClk(row))
  OBVIOUS
<1>5. IsState(s) /\ s.current \in [Rcgs -> Nat]
  BY DEF Booked, IsState
<1>6. i \in 1 .. Len(Clk[r].tbl)
  BY <1>2, RowWithRate
<1>7. /\ DOMAIN e = DOMAIN s
      /\ e.current = s.current /\ e.cfg = s.cfg /\ e.bcr = s.bcr
  BY <1>3, <1>4, <1>5, <1>6, SourceFields
<1>8. CASE i = s.current[r]
  BY <1>2, <1>8 DEF RcgSetRate
<1>9. CASE i # s.current[r]
  <2>1. /\ DOMAIN n = DOMAIN s
        /\ n.count = e.count /\ n.on = e.on /\ n.bcr = s.bcr
        /\ n.current = [s.current EXCEPT ![r] = i]
        /\ n.cfg = [s.cfg EXCEPT ![r] = Program(Clk[r].how, s.cfg[r], row)]
    BY ONLY chip \in Chips, r \in Rcgs, <1>1, <1>2, <1>3, <1>4, <1>5, <1>7, <1>9, SetRateFields
  <2> QED BY <1>1, <1>2, <1>5, <2>1
<1> QED BY <1>8, <1>9

\* get_set_enable keeps the registers right.
LEMMA GetSetEnableRight ==
    ASSUME chip = "msm8974", NEW s, Booked(s), RatesRight(s), NEW id, NEW f,
           NEW enable \in BOOLEAN, GetSetEnableOk(id, f)
    PROVE  RatesRight(GetSetEnableState(s, id, f, enable))
<1>1. PICK c : c = Lookup(chip)[id]
  OBVIOUS
<1>2. chip \in Chips
  BY DEF Chips
<1>3. c \in DOMAIN Clk
  BY <1>1, <1>2, NamedClock DEF GetSetEnableOk, Known
<1>4. f # 0 => Root(c) \in Rcgs /\ InTable(Root(c), f)
  <2>1. f # 0 => RateAccepted(c, f)
    BY <1>1 DEF GetSetEnableOk
  <2> QED BY <1>2, <1>3, <2>1, RootOfRate
<1>5. PICK s1 : s1 = IF f # 0 THEN ClkSetRate(s, c, f) ELSE s
  OBVIOUS
<1>6. Booked(s1) /\ RatesRight(s1)
  BY <1>2, <1>4, <1>5, SetRateBooked, SetRateRight DEF ClkSetRate, Booked
<1>7. RatesRight(ClkEnable(s1, c))
  BY <1>3, <1>6, EnableRight DEF Booked
<1>8. GetSetEnableState(s, id, f, enable) = IF enable THEN ClkEnable(s1, c) ELSE s1
  BY <1>1, <1>5 DEF GetSetEnableState
<1> QED BY <1>6, <1>7, <1>8

GetSetEnabled(s, id, f) == GetSetEnableState(s, id, f, TRUE)

\* What it leaves when it is asked to enable: the gate is on, and the root has
\* the rate that was asked for.
LEMMA EnabledAsAsked ==
    ASSUME chip \in Chips, NEW s, Booked(s), NEW id, NEW f, GetSetEnableOk(id, f),
           NEW n, n = GetSetEnabled(s, id, f), NEW c, c = Lookup(chip)[id]
    PROVE  /\ c \in Gates => c \in n.on
           /\ f # 0 => n.current[Root(c)] = RowOf(Root(c), f)
<1>1. c \in DOMAIN Clk
  BY NamedClock DEF GetSetEnableOk, Known
<1>2. f # 0 => Root(c) \in Rcgs /\ InTable(Root(c), f)
  <2>1. f # 0 => RateAccepted(c, f)
    BY DEF GetSetEnableOk
  <2> QED BY <1>1, <2>1, RootOfRate
<1>3. PICK s1 : s1 = IF f # 0 THEN ClkSetRate(s, c, f) ELSE s
  OBVIOUS
<1>4. Booked(s1)
  BY <1>2, <1>3, SetRateBooked DEF ClkSetRate
<1>5. f # 0 => s1.current[Root(c)] = RowOf(Root(c), f)
  <2>1. SUFFICES ASSUME f # 0
                 PROVE  s1.current[Root(c)] = RowOf(Root(c), f)
    OBVIOUS
  <2>2. s1 = RcgSetRate(s, Root(c), f) /\ Root(c) \in Rcgs /\ InTable(Root(c), f)
    BY <1>2, <1>3, <2>1 DEF ClkSetRate
  <2> QED BY <2>2, SetRateRecords
<1>6. n = ClkEnable(s1, c)
  BY <1>3 DEF GetSetEnabled, GetSetEnableState
<1>7. /\ DOMAIN n = DOMAIN s1
      /\ n.count = [s1.count EXCEPT ![c] = @ + 1]
      /\ n.on = IF s1.count[c] = 0 /\ HasGate(c) THEN s1.on \cup {c} ELSE s1.on
      /\ n.current = s1.current /\ n.cfg = s1.cfg /\ n.bcr = s1.bcr
  <2>1. IsState(s1)
    BY <1>4 DEF Booked
  <2> QED BY ONLY <1>1, <1>6, <2>1, EnableFields
<1>8. c \in Gates => c \in n.on
  <2>1. Booked(n)
    BY <1>1, <1>4, <1>6, EnableBooked
  <2>2. s1.count \in [DOMAIN Clk -> Nat]
    BY <1>4 DEF Booked, IsState
  <2>3. n.count[c] > 0
    BY ONLY <1>1, <1>7, <2>2
  <2> QED BY <2>1, <2>3 DEF Booked, Follows
<1> QED BY <1>5, <1>7, <1>8

-----------------------------------------------------------------------------
(* The rates of every behaviour *)

RatesInv == chip = "msm8974" => RatesRight(st)

\* The rates clock_config_mmc may ask for that SdccFreqs has, and those it lacks.
ServedRates == {4000, 250000, 500000, 1000000, 2000000}
OtherRates == {0, 1920000, 3840000}

\* The call config_mmc with a rate of the table left the card's clock as asked.
MmcAsked ==
    (chip = "msm8974" /\ call.op = "config_mmc" /\ call.rate \notin OtherRates) =>
        LET c == Lookup(chip)[call.id]
            r == Clk[c].parent
        IN /\ call.ret = "ok" /\ c \in st.on
           /\ r \in Rcgs /\ Settled(r) /\ Running(r) /\ Row(r).freq = call.rate

LEMMA ReturnRight ==
    ASSUME NEW s, chip = "msm8974" => RatesRight(s), NEW op, NEW id, NEW f, NEW r,
           Return(op, id, f, s, r)
    PROVE  RatesInv'
<1>1. st' = s /\ chip' = chip
  BY DEF Return
<1>2. Clk' = Clk /\ Rcgs' = Rcgs
  BY <1>1, TableKept
<1>3. SUFFICES ASSUME chip = "msm8974"
               PROVE  RatesRight(st)'
  BY <1>1 DEF RatesInv
<1>4. \A q : Settled(q)' <=> Settled(q)
  BY <1>2 DEF Settled
<1>5. \A q \in Rcgs : RootRight(s, q)
  BY <1>3 DEF RatesRight
<1>6. ASSUME NEW q \in Rcgs
      PROVE  RootRight(st, q)'
  BY <1>1, <1>2, <1>4, <1>5 DEF RootRight
<1> QED BY <1>2, <1>6 DEF RatesRight

LEMMA RatesBegin ==
    ASSUME ClockInit
    PROVE  RatesInv /\ MmcAsked
<1>1. /\ st.current = [r \in Rcgs |-> 0]
      /\ st.cfg = [r \in Rcgs |-> ResetConfig]
      /\ call.op = "clk_init"
  BY DEF ClockInit
<1>2. \A r \in Rcgs : RootRight(st, r)
  BY <1>1 DEF RootRight, IsConfig, ResetConfig
<1> QED BY <1>1, <1>2 DEF RatesInv, RatesRight, MmcAsked

LEMMA OrAssertRight ==
    ASSUME BooksInv, RatesInv, NEW op, NEW id, NEW f, OrAssert(op, id, f)
    PROVE  RatesInv'
<1>1. chip \in Chips /\ Booked(st) /\ (chip = "msm8974" => RatesRight(st))
  BY ChipsAssumption DEF BooksInv, RatesInv
<1>2. CASE GetSetEnableOk(id, f)
  <2>1. chip = "msm8974" => RatesRight(GetSetEnableState(st, id, f, TRUE))
    BY <1>1, <1>2, GetSetEnableRight
  <2> QED BY <1>2, <2>1, ReturnRight DEF OrAssert
<1>3. CASE ~GetSetEnableOk(id, f)
  BY <1>1, <1>3, ReturnRight DEF OrAssert
<1> QED BY <1>2, <1>3

LEMMA RatesKept ==
    ASSUME BooksInv, RatesInv, [ClockNext]_clockVars
    PROVE  RatesInv'
<1>1. chip \in Chips /\ Booked(st) /\ IsState(st) /\ (chip = "msm8974" => RatesRight(st))
  BY ChipsAssumption DEF BooksInv, RatesInv, Booked
<1>2. ASSUME NEW id, NEW f, NEW enable \in BOOLEAN, GetSetEnable(id, f, enable)
      PROVE  RatesInv'
  <2>1. CASE GetSetEnableOk(id, f)
    <3>1. chip = "msm8974" => RatesRight(GetSetEnableState(st, id, f, enable))
      BY <1>1, <2>1, GetSetEnableRight
    <3> QED BY <1>2, <2>1, <3>1, ReturnRight DEF GetSetEnable
  <2>2. CASE ~GetSetEnableOk(id, f)
    BY <1>1, <1>2, <2>2, ReturnRight DEF GetSetEnable
  <2> QED BY <2>1, <2>2
<1>3. ASSUME NEW id, Enable(id)
      PROVE  RatesInv'
  <2>1. chip = "msm8974" => RatesRight(ClkEnable(st, Lookup(chip)[id]))
    BY <1>1, <1>3, NamedClock, EnableRight DEF Enable
  <2> QED BY <1>3, <2>1, ReturnRight DEF Enable
<1>4. ASSUME NEW id, Disable(id)
      PROVE  RatesInv'
  <2>1. chip = "msm8974" => RatesRight(ClkDisable(st, Lookup(chip)[id]))
    BY <1>1, <1>4, NamedClock, DisableRight DEF Disable
  <2> QED BY <1>4, <2>1, ReturnRight DEF Disable
<1>5. ASSUME NEW id, NEW f, SetRate(id, f)
      PROVE  RatesInv'
  <2>1. CASE RateAccepted(Lookup(chip)[id], f)
    <3>1. Lookup(chip)[id] \in DOMAIN Clk
      BY <1>1, <1>5, NamedClock DEF SetRate
    <3>2. Root(Lookup(chip)[id]) \in Rcgs /\ InTable(Root(Lookup(chip)[id]), f)
      BY <1>1, <2>1, <3>1, RootOfRate
    <3>3. chip = "msm8974" => RatesRight(ClkSetRate(st, Lookup(chip)[id], f))
      BY <1>1, <3>2, SetRateRight DEF ClkSetRate
    <3> QED BY <1>5, <2>1, <3>3, ReturnRight DEF SetRate
  <2>2. CASE ~RateAccepted(Lookup(chip)[id], f)
    BY <1>1, <1>5, <2>2, ReturnRight DEF SetRate
  <2> QED BY <2>1, <2>2
<1>6. ASSUME NEW id, NEW a \in BOOLEAN, ResetClk(id, a)
      PROVE  RatesInv'
  <2>1. chip = "msm8974" => RatesRight(ClkReset(st, Lookup(chip)[id], a))
    BY <1>1, <1>6, NamedClock, ResetRight DEF ResetClk
  <2> QED BY <1>6, <2>1, ReturnRight DEF ResetClk
<1>7. ASSUME NEW sdc, ClockInitMmc(sdc)
      PROVE  RatesInv'
  BY <1>7, OrAssertRight DEF ClockInitMmc
<1>8. ASSUME NEW sdc, NEW f, ClockConfigMmc(sdc, f)
      PROVE  RatesInv'
  <2>1. CASE f \in DOMAIN MmcRates
    BY <1>8, <2>1, OrAssertRight DEF ClockConfigMmc
  <2>2. CASE f \notin DOMAIN MmcRates
    BY <1>1, <1>8, <2>2, ReturnRight DEF ClockConfigMmc
  <2> QED BY <2>1, <2>2
<1>9. ASSUME ClockConfigCdc
      PROVE  RatesInv'
  <2>1. CASE chip = "msm8974"
    <3>1. Return("config_cdc", Cdccal[1], 0, st, "ok")
      BY <1>9, <2>1 DEF ClockConfigCdc
    <3> QED BY <1>1, <3>1, ReturnRight
  <2>2. CASE chip # "msm8974"
    <3>1. PICK s, r : Return("config_cdc", Cdccal[1], 0, s, r)
      BY <1>9, CdcReturns
    <3> QED BY <2>2, <3>1, ReturnRight
  <2> QED BY <2>1, <2>2
<1>10. CASE UNCHANGED clockVars
  <2>1. chip' = chip /\ st' = st
    BY <1>10 DEF clockVars
  <2>2. Clk' = Clk /\ Rcgs' = Rcgs
    BY <2>1, TableKept
  <2>3. \A q : Settled(q)' <=> Settled(q)
    BY <2>2 DEF Settled
  <2>4. \A q : RootRight(st, q)' <=> RootRight(st, q)
    BY <2>1, <2>2, <2>3 DEF RootRight
  <2> QED BY <2>1, <2>2, <2>4 DEF RatesInv, RatesRight
<1> QED BY <1>2, <1>3, <1>4, <1>5, <1>6, <1>7, <1>8, <1>9, <1>10 DEF ClockNext

-----------------------------------------------------------------------------
(* The SD controllers' core clock *)

\* Its table has every rate that clock_config_mmc asks for, 192 and 384 MHz
\* excepted, and no row that would stop its root from being settled.
LEMMA SdccTable ==
    /\ \A f \in ServedRates :
          \E i \in 1 .. Len(SdccFreqs) : SdccFreqs[i].freq = f
    /\ \A i \in 1 .. Len(SdccFreqs) : SdccFreqs[i].mux = "sys"
<1>1. PICK t : t = SdccFreqs
  OBVIOUS
<1>2. Len(t) = 7
  BY <1>1 DEF SdccFreqs
<1>3. t[2] = F(4000, "cxo", 24, 1, 4) /\ t[4] = F(250000, "gpll0", 24, 1, 2)
  BY <1>1, SMT DEF SdccFreqs
<1>4. t[5] = F(500000, "gpll0", 24, 0, 0) /\ t[6] = F(1000000, "gpll0", 12, 0, 0)
      /\ t[7] = F(2000000, "gpll0", 6, 0, 0)
  BY <1>1, SMT DEF SdccFreqs
<1>5. t[1] = F(1440, "cxo", 32, 3, 25) /\ t[3] = F(200000, "gpll0", 30, 1, 2)
  BY <1>1, SMT DEF SdccFreqs
<1>6. t[2].freq = 4000 /\ t[4].freq = 250000 /\ t[5].freq = 500000 /\ t[6].freq = 1000000
      /\ t[7].freq = 2000000
  BY <1>3, <1>4, SMT DEF F
<1>7. ASSUME NEW f \in ServedRates
      PROVE  \E i \in 1 .. 7 : t[i].freq = f
  BY <1>6, SMT DEF ServedRates
<1>8. ASSUME NEW i \in 1 .. 7
      PROVE  t[i].mux = "sys"
  <2>1. t[1].mux = "sys" /\ t[2].mux = "sys" /\ t[3].mux = "sys" /\ t[4].mux = "sys"
        /\ t[5].mux = "sys" /\ t[6].mux = "sys" /\ t[7].mux = "sys"
    BY <1>3, <1>4, <1>5, SMT DEF F
  <2>2. i = 1 \/ i = 2 \/ i = 3 \/ i = 4 \/ i = 5 \/ i = 6 \/ i = 7
    BY SMT
  <2> QED BY ONLY <2>1, <2>2
<1> QED BY <1>1, <1>2, <1>7, <1>8

LEMMA SdccSettled ==
    ASSUME NEW r, Clk[r].tbl = SdccFreqs
    PROVE  Settled(r)
<1>1. ASSUME NEW i \in 1 .. Len(SdccFreqs)
      PROVE  SourceVal(SdccFreqs[i]) \in {0, 1} /\ SrcClk(SdccFreqs[i]) # None
  <2>1. PICK w \in ExactRow : w = SdccFreqs[i]
    BY SdccExact
  <2>2. w.mux = "sys"
    BY <2>1, SdccTable
  <2>3. SourceVal(w) \in {0, 1}
    BY <2>2, SourceValues
  <2>4. SrcClk(w) \in {"cxo", "gpll0"}
    BY SourceOfExactRow
  <2> QED BY <2>1, <2>3, <2>4 DEF None
<1> QED BY <1>1 DEF Settled

LEMMA AskedRates ==
    /\ \A f \in DOMAIN MmcRates : MmcRates[f] \in ServedRates \cup OtherRates
    /\ 0 \in OtherRates /\ 0 \notin ServedRates
<1>1. \A f \in DOMAIN MmcRates : MmcRates[f] \in ServedRates \cup OtherRates
  BY SMT DEF MmcRates, ServedRates, OtherRates
<1>2. 0 \in OtherRates /\ 0 \notin ServedRates
  BY SMT DEF ServedRates, OtherRates
<1> QED BY <1>1, <1>2

\* A rate of the table is granted: clock_config_mmc does not end in ASSERT(0).
LEMMA ConfigServed ==
    ASSUME BooksInv, RatesInv, chip = "msm8974", NEW sdc,
           NEW f, f \in ServedRates,
           OrAssert("config_mmc", SdcCore(sdc), f)
    PROVE  MmcAsked'
<1>1. PICK id : id = SdcCore(sdc)
  OBVIOUS
<1>2. PICK c : c = Lookup(chip)[id]
  OBVIOUS
<1>3. PICK r : r = Clk[c].parent
  OBVIOUS
<1>4. /\ Known(id) /\ c \in Gates /\ r \in Rcgs /\ Root(c) = r
      /\ Clk[r].tbl = SdccFreqs /\ r # None
  BY <1>1, <1>2, <1>3, CoreClock
<1>5. chip \in Chips /\ Booked(st) /\ RatesRight(st)
  BY ChipsAssumption DEF BooksInv, RatesInv
<1>6. f # 0
  BY AskedRates
<1>7. InTable(r, f)
  BY <1>4, SdccTable DEF InTable
<1>8. Clk[r].ops = "rcg"
  BY <1>4 DEF Rcgs
<1>9. GetSetEnableOk(id, f)
  BY <1>2, <1>4, <1>7, <1>8 DEF GetSetEnableOk, RateAccepted, Known
<1>10. PICK n : n = GetSetEnabled(st, id, f)
  OBVIOUS
<1>11. c \in n.on /\ n.current[r] = RowOf(r, f)
  <2>1. /\ c \in Gates => c \in n.on
        /\ f # 0 => n.current[Root(c)] = RowOf(Root(c), f)
    BY ONLY <1>2, <1>5, <1>9, <1>10, EnabledAsAsked
  <2> QED BY <1>4, <1>6, <2>1
<1>12. Return("config_mmc", id, f, n, "ok")
  BY <1>1, <1>9, <1>10 DEF OrAssert, GetSetEnabled
<1>13. st' = n /\ chip' = chip /\ call'.id = id /\ call'.rate = f /\ call'.ret = "ok"
  BY <1>12 DEF Return
<1>14. Clk' = Clk /\ Rcgs' = Rcgs
  BY <1>13, TableKept
<1>15. Settled(r)'
  <2>1. Settled(r)
    BY <1>4, SdccSettled
  <2> QED BY <1>14, <2>1 DEF Settled
<1>16. RowOf(r, f) \in 1 .. Len(Clk[r].tbl) /\ Clk[r].tbl[RowOf(r, f)].freq = f
  BY <1>4, <1>5, <1>7, RowWithRate
<1>17. RowOf(r, f) # 0
  <2>1. Len(Clk[r].tbl) \in Nat
    BY <1>4, <1>5, GeneratorTable
  <2> QED BY <1>16, <2>1
<1>18. Running(r)' /\ Row(r)'.freq = f
  BY <1>11, <1>13, <1>14, <1>16, <1>17 DEF Running, Row
<1>19. Lookup(chip)[call.id]' = c
  BY <1>2, <1>13
<1>20. Clk[c].parent' = r
  BY <1>3, <1>14
<1> QED BY <1>4, <1>11, <1>13, <1>14, <1>15, <1>18, <1>19, <1>20 DEF MmcAsked

LEMMA AskedKept ==
    ASSUME BooksInv, RatesInv, MmcAsked, [ClockNext]_clockVars
    PROVE  MmcAsked'
<1>1. ASSUME NEW sdc, NEW f, ClockConfigMmc(sdc, f)
      PROVE  MmcAsked'
  <2>1. CASE f \in DOMAIN MmcRates
    <3>1. OrAssert("config_mmc", SdcCore(sdc), MmcRates[f])
      BY <1>1, <2>1 DEF ClockConfigMmc
    <3>2. PICK k : k = MmcRates[f]
      OBVIOUS
    <3>3. k \in ServedRates \cup OtherRates
      BY <2>1, <3>2, AskedRates
    <3>4. call'.rate = k /\ chip' = chip
      <4>1. PICK s, r : Return("config_mmc", SdcCore(sdc), MmcRates[f], s, r)
        BY <3>1 DEF OrAssert
      <4> QED BY <3>2, <4>1 DEF Return
    <3>5. CASE k \in ServedRates /\ chip = "msm8974"
      BY <3>1, <3>2, <3>5, ConfigServed
    <3>6. CASE k \in OtherRates \/ chip # "msm8974"
      BY <3>4, <3>6 DEF MmcAsked
    <3> QED BY <3>3, <3>5, <3>6
  <2>2. CASE f \notin DOMAIN MmcRates
    <3>1. call'.rate = 0
      BY <1>1, <2>2 DEF ClockConfigMmc, Return
    <3> QED BY <3>1, AskedRates DEF MmcAsked
  <2> QED BY <2>1, <2>2
<1>2. ASSUME NEW op, op # "config_mmc", NEW id, NEW f, NEW s, NEW r, Return(op, id, f, s, r)
      PROVE  MmcAsked'
  <2>1. call'.op # "config_mmc"
    BY <1>2 DEF Return
  <2> QED BY <2>1 DEF MmcAsked
<1>3. ASSUME NEW id, NEW f, NEW enable \in BOOLEAN, GetSetEnable(id, f, enable)
      PROVE  MmcAsked'
  BY <1>2, <1>3 DEF GetSetEnable
<1>4. ASSUME NEW id, Enable(id)
      PROVE  MmcAsked'
  BY <1>2, <1>4 DEF Enable
<1>5. ASSUME NEW id, Disable(id)
      PROVE  MmcAsked'
  BY <1>2, <1>5 DEF Disable
<1>6. ASSUME NEW id, NEW f, SetRate(id, f)
      PROVE  MmcAsked'
  BY <1>2, <1>6 DEF SetRate
<1>7. ASSUME NEW id, NEW a \in BOOLEAN, ResetClk(id, a)
      PROVE  MmcAsked'
  BY <1>2, <1>7 DEF ResetClk
<1>8. ASSUME NEW sdc, ClockInitMmc(sdc)
      PROVE  MmcAsked'
  BY <1>2, <1>8 DEF ClockInitMmc, OrAssert
<1>9. ASSUME ClockConfigCdc
      PROVE  MmcAsked'
  BY <1>2, <1>9, CdcReturns
<1>10. CASE UNCHANGED clockVars
  <2>1. chip' = chip /\ st' = st /\ call' = call
    BY <1>10 DEF clockVars
  <2>2. Clk' = Clk /\ Rcgs' = Rcgs
    BY <2>1, TableKept
  <2>3. \A q : Settled(q)' <=> Settled(q)
    BY <2>2 DEF Settled
  <2>4. \A q : (Running(q)' <=> Running(q)) /\ Row(q)' = Row(q)
    BY <2>1, <2>2 DEF Running, Row
  <2> QED BY <2>1, <2>2, <2>3, <2>4 DEF MmcAsked
<1> QED BY <1>1, <1>3, <1>4, <1>5, <1>6, <1>7, <1>8, <1>9, <1>10 DEF ClockNext

LEMMA RatesAlways == ClockSpec => [](BooksInv /\ RatesInv /\ MmcAsked)
<1>1. ClockInit => BooksInv /\ RatesInv /\ MmcAsked
  BY BooksBegin, RatesBegin
<1>2. BooksInv /\ RatesInv /\ MmcAsked /\ [ClockNext]_clockVars
         => (BooksInv /\ RatesInv /\ MmcAsked)'
  BY BooksKept, RatesKept, AskedKept
<1> QED BY <1>1, <1>2, PTL DEF ClockSpec

\* RateAsRecorded of every behaviour over the build's table: whatever rates were
\* set before, in whatever order and through whichever branch, source, divider
\* and M/N counter of a running root give the rate the driver has on record
\* (clock_lib2_rcg_set_rate).  The table of msm8994 holds rows that do not give
\* the rate they are for, see ExactRow.
THEOREM RatesHold == ClockSpec => [](chip = "msm8974" => RateAsRecorded)
<1>1. BooksInv /\ RatesInv => (chip = "msm8974" => RateAsRecorded)
  <2> SUFFICES ASSUME BooksInv, RatesInv, chip = "msm8974", NEW r \in Rcgs, Running(r), Settled(r)
               PROVE  RateOut(r) = Row(r).freq
    BY DEF RateAsRecorded
  <2>1. IsState(st) /\ RootRight(st, r)
    BY DEF BooksInv, Booked, RatesInv, RatesRight
  <2> QED BY <2>1, RateOfRoot
<1> QED BY <1>1, RatesAlways, PTL

\* MmcClockServed of every behaviour: clock_config_mmc with a rate of the table
\* never fails, and leaves the card's clock running at the rate it asked for.
THEOREM MmcClockIsServed == ClockSpec => []MmcClockServed
<1>1. BooksInv /\ RatesInv /\ MmcAsked => MmcClockServed
  <2> SUFFICES ASSUME BooksInv, RatesInv, MmcAsked, chip = "msm8974", call.op = "config_mmc",
                      call.rate \notin OtherRates
               PROVE  LET c == Lookup(chip)[call.id] IN
                        call.ret = "ok" /\ c \in st.on /\ RateOut(Clk[c].parent) = call.rate
    BY SMT DEF MmcClockServed, OtherRates
  <2>1. PICK c : c = Lookup(chip)[call.id]
    OBVIOUS
  <2>2. PICK r : r = Clk[c].parent
    OBVIOUS
  <2>3. /\ call.ret = "ok" /\ c \in st.on
        /\ r \in Rcgs /\ Settled(r) /\ Running(r) /\ Row(r).freq = call.rate
    BY <2>1, <2>2 DEF MmcAsked
  <2>4. IsState(st) /\ RootRight(st, r)
    BY <2>3 DEF BooksInv, Booked, RatesInv, RatesRight
  <2>5. RateOut(r) = call.rate
    BY <2>3, <2>4, RateOfRoot
  <2> QED BY <2>1, <2>2, <2>3, <2>5
<1> QED BY <1>1, RatesAlways, PTL
=============================================================================
