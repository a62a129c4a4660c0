------------------------- MODULE LiveUnitGaugeProofs -------------------------
(***************************************************************************)
(* LiveUnitGauge for any finite set of threads and any number of visits:   *)
(* the live count is exact, and so is the peak once no thread is inside    *)
(* enter.  The inductive invariant is TypeOK, LiveCountsHolders and        *)
(* PeakInv together: that live_ does not wrap needs the holders, and that  *)
(* no raise of the peak is lost needs the thread that still carries it.    *)
(***************************************************************************)
EXTENDS LiveUnitGauge, FiniteSetTheorems, TLAPS

GaugeInv == TypeOK /\ LiveCountsHolders /\ PeakInv

\* The threads holding a unit are finitely many, and no more than there are threads.
LEMMA HoldingFinite ==
  TypeOK => /\ IsFiniteSet(Holding)
            /\ Cardinality(Holding) \in Nat
            /\ Cardinality(Holding) <= Cardinality(Threads)
            /\ Cardinality(Threads) \in Nat
<1>1. Holding \in SUBSET Threads
  BY DEF Holding
<1>2. QED
  BY <1>1, FS_Subset, FS_CardinalityType, ThreadsAssumption

\* The gauge starts in its invariant.
LEMMA GaugeInit == Init => GaugeInv
<1>1. SUFFICES ASSUME Init PROVE GaugeInv
  OBVIOUS
<1>2. TypeOK
  BY <1>1 DEF Init, TypeOK
<1>3. Holding = {}
  BY <1>1 DEF Init, Holding
<1>4. LiveCountsHolders
  BY <1>1, <1>2, <1>3, FS_EmptySet, HoldingFinite DEF Init, LiveCountsHolders
<1>5. PeakInv
  BY <1>1 DEF Init, PeakInv
<1>6. QED
  BY <1>2, <1>4, <1>5 DEF GaugeInv

\* The types survive every step; a thread that leaves is counted, so live_ > 0.
LEMMA GaugeTypeStep ==
  ASSUME GaugeInv, [Next]_vars
  PROVE  TypeOK'
<1> USE DEF GaugeInv, TypeOK
<1>1. ASSUME NEW t \in Threads, Increment(t) PROVE TypeOK'
  BY <1>1 DEF Increment
<1>2. ASSUME NEW t \in Threads, LoadPeak(t) PROVE TypeOK'
  BY <1>2 DEF LoadPeak
<1>3. ASSUME NEW t \in Threads, NotHigher(t) PROVE TypeOK'
  BY <1>3 DEF NotHigher
<1>4. ASSUME NEW t \in Threads, Exchange(t) PROVE TypeOK'
  BY <1>4 DEF Exchange
<1>5. ASSUME NEW t \in Threads, ExchangeFails(t) PROVE TypeOK'
  BY <1>5 DEF ExchangeFails
<1>6. ASSUME NEW t \in Threads, Leave(t) PROVE TypeOK'
  <2>1. t \in Holding
    BY <1>6 DEF Leave, Holding
  <2>2. live # 0
    BY <2>1, HoldingFinite, FS_EmptySet DEF LiveCountsHolders
  <2>3. QED
    BY <1>6, <2>2 DEF Leave
<1>7. CASE UNCHANGED vars
  BY <1>7 DEF vars
<1>8. QED
  BY <1>1, <1>2, <1>3, <1>4, <1>5, <1>6, <1>7 DEF Next, Enter

\* live_ stays the number of holders: entering adds one, leaving removes one, and the
\* loop of enter changes neither.
LEMMA GaugeCountStep ==
  ASSUME GaugeInv, [Next]_vars
  PROVE  LiveCountsHolders'
<1> USE DEF GaugeInv, LiveCountsHolders
<1>1. /\ TypeOK' /\ IsFiniteSet(Holding) /\ Cardinality(Holding) \in Nat
      /\ (Cardinality(Holding) <= Cardinality(Threads))'
      /\ Cardinality(Threads) \in Nat
  BY GaugeTypeStep, HoldingFinite, PTL
<1>2. ASSUME NEW t \in Threads, Increment(t) PROVE LiveCountsHolders'
  <2>1. Holding' = Holding \cup {t} /\ t \notin Holding
    BY <1>2 DEF Increment, Holding, TypeOK
  <2>2. Cardinality(Holding') = Cardinality(Holding) + 1
    BY SMTT(20), <2>1, <1>1, FS_AddElement
  <2>3. QED
    BY <1>1, <1>2, <2>2 DEF Increment, TypeOK
<1>3. ASSUME NEW t \in Threads, Leave(t) PROVE LiveCountsHolders'
  <2>1. Holding' = Holding \ {t} /\ t \in Holding
    BY <1>3 DEF Leave, Holding, TypeOK
  <2>2. Cardinality(Holding') = Cardinality(Holding) - 1
    BY <2>1, <1>1, FS_RemoveElement
  <2>3. QED
    BY <1>1, <1>3, <2>2 DEF Leave, TypeOK
<1>4. ASSUME NEW t \in Threads, Enter(t) PROVE LiveCountsHolders'
  <2>1. Holding' = Holding
    BY <1>4 DEF Enter, LoadPeak, NotHigher, Exchange, ExchangeFails, Holding, TypeOK
  <2>2. QED
    BY <1>4, <2>1 DEF Enter, LoadPeak, NotHigher, Exchange, ExchangeFails
<1>5. CASE UNCHANGED vars
  BY <1>5 DEF vars, Holding
<1>6. QED
  BY <1>2, <1>3, <1>4, <1>5 DEF Next

\* The peak lags only while a thread inside enter carries the maximum: the thread that
\* raises the maximum becomes that carrier, and a carrier that leaves the loop has
\* either installed its value or seen one at least as high.
LEMMA GaugePeakStep ==
  ASSUME GaugeInv, [Next]_vars
  PROVE  PeakInv'
<1> USE DEF GaugeInv, TypeOK, PeakInv
<1>1. ASSUME NEW t \in Threads, Increment(t) PROVE PeakInv'
  <2>1. CASE live + 1 > most
    BY <1>1, <2>1 DEF Increment
  <2>2. CASE live + 1 <= most
    BY <1>1, <2>2 DEF Increment
  <2>3. QED
    BY <2>1, <2>2
<1>2. ASSUME NEW t \in Threads, LoadPeak(t) PROVE PeakInv'
  BY <1>2 DEF LoadPeak
<1>3. ASSUME NEW t \in Threads, NotHigher(t) PROVE PeakInv'
  BY <1>3 DEF NotHigher
<1>4. ASSUME NEW t \in Threads, Exchange(t) PROVE PeakInv'
  BY <1>4 DEF Exchange
<1>5. ASSUME NEW t \in Threads, ExchangeFails(t) PROVE PeakInv'
  BY <1>5 DEF ExchangeFails
<1>6. ASSUME NEW t \in Threads, Leave(t) PROVE PeakInv'
  BY <1>6, GaugeTypeStep DEF Leave
<1>7. CASE UNCHANGED vars
  BY <1>7 DEF vars
<1>8. QED
  BY <1>1, <1>2, <1>3, <1>4, <1>5, <1>6, <1>7 DEF Next, Enter

\* The inductive invariant of the gauge holds in every behaviour.
THEOREM GaugeInvariance == Spec => []GaugeInv
<1>1. GaugeInv /\ [Next]_vars => GaugeInv'
  BY GaugeTypeStep, GaugeCountStep, GaugePeakStep DEF GaugeInv
<1>2. QED
  BY GaugeInit, <1>1, PTL DEF Spec

\* live_ is the number of units held, for any number of threads: it never wraps below
\* zero and never exceeds the bound of the pool.
THEOREM LiveCountIsExact == Spec => []LiveCountsHolders
<1>1. GaugeInv => LiveCountsHolders
  BY DEF GaugeInv
<1>2. QED
  BY <1>1, GaugeInvariance, PTL

\* peak() is exact whenever no thread is inside enter, for any number of threads, any
\* interleaving and any number of failed exchanges.
THEOREM PeakCorrect == Spec => []PeakIsExact
<1>1. GaugeInv => PeakIsExact
  BY DEF GaugeInv, PeakInv, PeakIsExact, Entering, TypeOK
<1>2. QED
  BY <1>1, GaugeInvariance, PTL

\* The compare-exchange loop only ever raises the peak.
THEOREM PeakMonotone == Spec => PeakNeverFalls
<1>1. GaugeInv /\ [Next]_vars => [peak' >= peak]_vars
  BY DEF GaugeInv, TypeOK, Next, Enter, Increment, LoadPeak, NotHigher, Exchange,
         ExchangeFails, Leave, vars
<1>2. QED
  BY <1>1, GaugeInvariance, PTL DEF Spec, PeakNeverFalls
==============================================================================
