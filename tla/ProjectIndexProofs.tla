------------------------- MODULE ProjectIndexProofs -------------------------
(***************************************************************************)
(* The properties of ProjectAnalysis that speak of the program's index,    *)
(* for any number of units: what the index knows once the units are folded *)
(* into it, and that neither the order of the units nor a narrower         *)
(* selection of rules changes what is reported.  The lemmas are in         *)
(* ProjectAnalysisProofs; the induction they assume is proved here.        *)
(***************************************************************************)
EXTENDS ProjectAnalysisProofs, WellFoundedInduction, FiniteSetTheorems

(***************************************************************************)
(* Induction over the units of a project.  The library's induction rules   *)
(* take an operator; a least counterexample does the same for a set.       *)
(***************************************************************************)
LEMMA LeastElement ==
  ASSUME NEW T \in SUBSET Nat, T # {}
  PROVE  \E m \in T : \A k \in T : m <= k
<1>1. \E x \in T : \A y \in T : ~(y < x)
  <2>1. PICK x \in T : \A y \in T : ~(<<y, x>> \in OpToRel(<, Nat))
    BY NatLessThanWellFounded, WFMin, Zenon
  <2>2. \A y \in T : ~(y < x)
    BY <2>1, Zenon DEF OpToRel
  <2> HIDE <2>1
  <2>3. QED
    BY <2>2, Zenon
<1>2. QED
  BY <1>1

\* Induction up to a bound, by the least number left out.
LEMMA UpTo ==
  ASSUME NEW n \in Nat, NEW P, 0 \in P, \A k \in 0..n : k \in P /\ k < n => k + 1 \in P
  PROVE  0..n \subseteq P
<1> DEFINE T == {k \in 0..n : k \notin P}
<1>1. T = {}
  <2> SUFFICES ASSUME T # {} PROVE FALSE
    OBVIOUS
  <2>1. T \in SUBSET Nat
    OBVIOUS
  <2>2. PICK m \in T : \A k \in T : m <= k
    BY <2>1, LeastElement, Zenon
  <2>3. m \in 0..n /\ m \notin P /\ m # 0
    OBVIOUS
  <2>4. m - 1 \in 0..n /\ m - 1 < n /\ ~(m <= m - 1) /\ m - 1 + 1 = m
    BY <2>3
  <2>5. m - 1 \in P
    BY <2>2, <2>4, Zenon
  <2>6. QED
    BY <2>3, <2>4, <2>5
<1>2. QED
  BY <1>1, Zenon

\* The induction that ProjectAnalysisProofs takes as a hypothesis holds.
LEMMA InductionUpTo == InductsUpTo
BY UpTo, Zenon DEF InductsUpTo

\* A set of units and its mirror image have as many members.
LEMMA MirrorCardinality ==
  ASSUME NEW n \in Nat, NEW S \in SUBSET (1..n), NEW T \in SUBSET (1..n),
         \A u \in 1..n : u \in T <=> Mirror(n, u) \in S
  PROVE  Cardinality(T) = Cardinality(S)
<1> DEFINE f == [u \in S |-> Mirror(n, u)]
<1>1. IsFiniteSet(S)
  <2>1. IsFiniteSet(1..n)
    BY FS_Interval
  <2>2. QED
    BY <2>1, FS_Subset, Zenon
<1>2. \A u \in S : Mirror(n, u) \in T
  BY MirrorFacts
<1>3. f \in [S -> T]
  BY <1>2, Zenon
<1>4. \A u, v \in S : f[u] = f[v] => u = v
  BY MirrorFacts
<1>5. \A t \in T : \E u \in S : f[u] = t
  <2>1. ASSUME NEW t \in T PROVE Mirror(n, t) \in S /\ Mirror(n, Mirror(n, t)) = t
    BY MirrorFacts, Zenon
  <2>2. QED
    BY <2>1, Zenon
<1>6. f \in Bijection(S, T)
  <2> HIDE DEF f
  <2>1. QED
    BY <1>3, <1>4, <1>5, Zenon DEF Bijection, Injection, Surjection, IsInjective
<1>7. ExistsBijection(S, T)
  BY <1>6, Zenon DEF ExistsBijection
<1>8. QED
  BY <1>1, <1>7, FS_Bijection, Zenon

\* A set of units and its mirror image have the same size, the hypothesis of the reversal.
LEMMA MirrorsCount == MirrorCounts
BY MirrorCardinality, Zenon DEF MirrorCounts, Mirror

\* What the program decides about a unit it decides the same wherever the evidence is, in a
\* project of any size: the instances of its entries, its forks and its handles.
THEOREM ProgramJudges == Spec => []JudgedByProgram
<1>1. Inv => JudgedByProgram
  BY InductionUpTo, ProgramJudged, Zenon
<1>2. QED
  BY <1>1, InvHolds, PTL

\* A rule selected alone reads over its channels, in every unit, what it reads over them among all
\* the selected rules, in any project: fact_selection.hpp leaves out no fact and no channel that the
\* rule depends on, but for the names that NarrowSelectionAgrees leaves out.
THEOREM NarrowAgrees == Spec => []NarrowSelectionAgrees
<1>1. Inv => NarrowSelectionAgrees
  BY InductionUpTo, NarrowAgreed, Zenon
<1>2. QED
  BY <1>1, InvHolds, PTL

\* The order of the units does not change which of them are compatible, which are analysed again,
\* nor what any rule reads of them, in any program that defines each helper one way.
THEOREM OrderIrrelevant == Spec => []UnitOrderIrrelevant
<1>1. Inv => UnitOrderIrrelevant
  BY InductionUpTo, MirrorsCount, OrderAgreed, Zenon
<1>2. QED
  BY <1>1, InvHolds, PTL
=============================================================================
