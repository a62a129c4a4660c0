---------------------------- MODULE LiveUnitGauge ----------------------------
(***************************************************************************)
(* LiveUnitGauge (src/internal/analysis/cross_tu/inter_tu_coordinator.cpp):*)
(* two atomic counters shared by the workers of a pool, at the granularity *)
(* of their atomic operations.  enter increments live_ and then raises     *)
(* peak_ with a compare-exchange loop that may fail spuriously; a slow     *)
(* thread may run its loop long after others have entered and left.        *)
(*                                                                         *)
(* A thread is "out", holds a unit ("in"), or is inside enter: about to    *)
(* load peak_, or at the test of its loop with the peak it last saw.       *)
(***************************************************************************)
EXTENDS Naturals, FiniteSets

CONSTANTS Threads,
          MaxVisits   \* bound: times a thread enters

ASSUME ThreadsAssumption == IsFiniteSet(Threads)
ASSUME VisitsAssumption == MaxVisits \in Nat

VARIABLES live, peak,   \* the two atomics
          at,           \* thread -> "out", "load", "test", "in"
          now, seen,    \* thread -> the locals now and peak of enter
          visits,       \* thread -> how often it has entered
          most          \* history: the largest value live_ ever had

vars == <<live, peak, at, now, seen, visits, most>>

Init ==
  /\ live = 0 /\ peak = 0 /\ most = 0
  /\ at = [t \in Threads |-> "out"]
  /\ now = [t \in Threads |-> 0]
  /\ seen = [t \in Threads |-> 0]
  /\ visits = [t \in Threads |-> 0]

\* now = ++live_
Increment(t) ==
  /\ at[t] = "out" /\ visits[t] < MaxVisits
  /\ live' = live + 1
  /\ now' = [now EXCEPT ![t] = live + 1]
  /\ at' = [at EXCEPT ![t] = "load"]
  /\ visits' = [visits EXCEPT ![t] = @ + 1]
  /\ most' = IF live + 1 > most THEN live + 1 ELSE most
  /\ UNCHANGED <<peak, seen>>

\* peak = peak_.load()
LoadPeak(t) ==
  /\ at[t] = "load"
  /\ seen' = [seen EXCEPT ![t] = peak]
  /\ at' = [at EXCEPT ![t] = "test"]
  /\ UNCHANGED <<live, peak, now, visits, most>>

\* now > peak is false: enter returns.
NotHigher(t) ==
  /\ at[t] = "test" /\ now[t] <= seen[t]
  /\ at' = [at EXCEPT ![t] = "in"]
  /\ UNCHANGED <<live, peak, now, seen, visits, most>>

\* Mutant: a plain store in place of the compare-exchange.
Store(t) ==
  /\ at[t] = "test" /\ now[t] > seen[t]
  /\ peak' = now[t]
  /\ at' = [at EXCEPT ![t] = "in"]
  /\ UNCHANGED <<live, now, seen, visits, most>>

\* The compare-exchange succeeds.
Exchange(t) ==
  /\ at[t] = "test" /\ now[t] > seen[t] /\ peak = seen[t]
  /\ peak' = now[t]
  /\ at' = [at EXCEPT ![t] = "in"]
  /\ UNCHANGED <<live, now, seen, visits, most>>

\* Mutant: one attempt and no loop.
GivesUp(t) ==
  /\ at[t] = "test" /\ now[t] > seen[t]
  /\ at' = [at EXCEPT ![t] = "in"]
  /\ UNCHANGED <<live, peak, now, seen, visits, most>>

\* Mutant: the local keeps the peak it saw first.
FailsWithoutReload(t) ==
  /\ at[t] = "test" /\ now[t] > seen[t]
  /\ UNCHANGED vars

\* It fails, spuriously or because another thread raised the peak: the local is
\* reloaded and the loop goes round.
ExchangeFails(t) ==
  /\ at[t] = "test" /\ now[t] > seen[t]
  /\ seen' = [seen EXCEPT ![t] = peak]
  /\ UNCHANGED <<live, peak, at, now, visits, most>>

\* ~LiveUnitSlot
Leave(t) ==
  /\ at[t] = "in"
  /\ live' = live - 1
  /\ at' = [at EXCEPT ![t] = "out"]
  /\ UNCHANGED <<peak, now, seen, visits, most>>

Enter(t) == LoadPeak(t) \/ NotHigher(t) \/ Exchange(t) \/ ExchangeFails(t)

Next == \E t \in Threads : Increment(t) \/ Enter(t) \/ Leave(t)

\* A thread inside enter keeps running, and a weak compare-exchange that can succeed
\* again and again does not fail spuriously for ever.
Spec ==
  /\ Init /\ [][Next]_vars
  /\ \A t \in Threads : WF_vars(Enter(t)) /\ SF_vars(Exchange(t))

(***************************************************************************)
(* Properties                                                              *)
(***************************************************************************)
\* The two counters, unsigned in the code, never go below zero.
TypeOK ==
  /\ live \in Nat /\ peak \in Nat /\ most \in Nat
  /\ at \in [Threads -> {"out", "load", "test", "in"}]
  /\ now \in [Threads -> Nat] /\ seen \in [Threads -> Nat]
  /\ visits \in [Threads -> Nat]

Entering == {t \in Threads : at[t] \in {"load", "test"}}

Holding == {t \in Threads : at[t] # "out"}

\* live_ counts the threads between the increment of enter and the decrement of
\* leave, so it never wraps below zero and never exceeds the number of threads.
LiveCountsHolders == live = Cardinality(Holding) /\ most <= Cardinality(Threads)

\* No thread being inside enter, as after pool.wait(), peak() is exactly the most
\* units that were ever live at once: no raise is lost between a thread's load of
\* peak_ and its exchange, and the peak never overstates.
PeakIsExact == /\ peak <= most
               /\ Entering = {} => peak = most

\* The strengthening that makes PeakIsExact inductive: the peak a thread saw is never
\* above the peak, and while the peak lags, a thread inside enter carries the maximum.
PeakInv ==
  /\ live <= most
  /\ peak <= most
  /\ \A t \in Threads : at[t] \in {"load", "test"} => now[t] <= most
  /\ \A t \in Threads : at[t] = "test" => seen[t] <= peak
  /\ peak = most \/ \E t \in Threads : at[t] \in {"load", "test"} /\ now[t] = most

\* The peak never goes down: two racing enters cannot overwrite a higher value.
PeakNeverFalls == [][peak' >= peak]_vars

\* Every enter returns.
EnterReturns == \A t \in Threads : t \in Entering ~> t \notin Entering
==============================================================================
