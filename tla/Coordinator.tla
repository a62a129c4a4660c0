----------------------------- MODULE Coordinator -----------------------------
(***************************************************************************)
(* InterTUCoordinator::analyze as it runs: the calling thread, a pool of   *)
(* workers fed by a FIFO queue in each of the two passes, the shared       *)
(* vectors they write, and the files of the units, which other processes   *)
(* may rewrite at any moment.                                              *)
(*                                                                         *)
(* The calling thread is at pc:                                            *)
(*   "passA"  submitting unit next to the first pool, or waiting for it    *)
(*   "abi"    the first pool is gone; group the units and fold the index   *)
(*   "passB"  gating unit next for the second pool, or waiting for it      *)
(*   "report" the second pool is gone; collect the failures and the report *)
(*   "done"   returned                                                     *)
(* A worker is idle, or is running analyseUnit on a unit: about to load    *)
(* it, to build its facts, to record its failure, or to leave.             *)
(***************************************************************************)
EXTENDS UnitFacts, Functions

CONSTANTS N,             \* units.size()
          Workers,       \* the threads of a pool: liveUnitBound(options)
          EnabledRules,  \* AnalysisOptions::enabledRules
          Contents,      \* bitcode that parses, as the IR it holds
          Garbage,       \* bitcode that does not parse
          Missing,       \* a file that cannot be read
          Rewrites,      \* what other processes may leave in the file of a unit
          NoFacts,       \* TUFacts{}
          NoUnit,        \* no module loaded
          Pending        \* analyze has not returned

ASSUME NAssumption == N \in Nat
ASSUME WorkersAssumption == IsFiniteSet(Workers) /\ Workers # {}
ASSUME RulesAssumption == EnabledRules \subseteq Rules
ASSUME ContentsAssumption ==
  Garbage \notin Contents /\ Missing \notin Contents /\ NoUnit \notin Contents
ASSUME RewritesAssumption == Rewrites \subseteq Contents \cup {Garbage, Missing}

Units == 1..N
Bytes == Contents \cup {Garbage, Missing}
Selection == ForRules(EnabledRules, TRUE)

\* The pieces of ProgramSymbolIndex and UnitFacts as this analysis calls them.
BuildUnit(module, program) == BuildFacts(module, Selection, TRUE, program)

CompatibleAmong(facts, loaded) == CompatibleUnits([u \in loaded |-> facts[u].abiKey])

GateOpens(facts, index) == CrossTUChangesFacts(facts, index, Selection)

VARIABLES recorded,     \* ProjectUnitSource: the bytes, or the digest of the file
          inFile,       \* the units added with addFile
          disk,         \* what the file of a unit holds now
          pc, next,     \* the calling thread and the position of its loop
          queue,        \* the units submitted to the pool and not yet taken
          worker,       \* worker -> [at, unit, module]
          live, peak,   \* LiveUnitGauge
          failed, failures, factsByUnit,
          compatible, programIndex, reanalyzed,
          failedUnits, report

sources == <<recorded, inFile, disk>>
gauge   == <<live, peak>>
shared  == <<failed, failures, factsByUnit>>
grouped == <<compatible, programIndex>>
result  == <<failedUnits, report>>
vars    == <<sources, pc, next, queue, worker, gauge, shared, grouped, reanalyzed, result>>

Idle == [at |-> "idle", unit |-> 0, module |-> NoUnit]

Init ==
  /\ recorded \in [Units -> Bytes]
  /\ inFile \in SUBSET Units
  /\ \A u \in Units \ inFile : recorded[u] # Missing
  /\ disk = recorded
  /\ pc = IF N = 0 THEN "done" ELSE "passA"
  /\ next = 1
  /\ queue = <<>>
  /\ worker = [w \in Workers |-> Idle]
  /\ live = 0 /\ peak = 0
  /\ failed = [u \in Units |-> FALSE]
  /\ failures = <<>>
  /\ factsByUnit = [u \in Units |-> NoFacts]
  /\ compatible = {} /\ programIndex = EmptyIndex
  /\ reanalyzed = {}
  /\ failedUnits = <<>> /\ report = EmptyFunction

(***************************************************************************)
(* The calling thread                                                      *)
(***************************************************************************)
SubmitA ==
  /\ pc = "passA" /\ next <= N
  /\ queue' = Append(queue, next)
  /\ next' = next + 1
  /\ UNCHANGED <<sources, pc, worker, gauge, shared, grouped, reanalyzed, result>>

\* Mutant: the pool is waited for no longer than until its queue is empty.
QueueEmpty == queue = <<>>

\* Mutant: a task counts as finished once its facts are written.
FactsWritten == queue = <<>> /\ \A w \in Workers : worker[w].at \in {"idle", "leave"}

\* pool.wait() returns: nothing queued, nothing running.
PoolDrained == queue = <<>> /\ \A w \in Workers : worker[w] = Idle

WaitA ==
  /\ pc = "passA" /\ next = N + 1 /\ PoolDrained
  /\ pc' = "abi"
  /\ UNCHANGED <<sources, next, queue, worker, gauge, shared, grouped, reanalyzed, result>>

\* Every unit failed: analyze returns what the workers listed, as they listed it.
AllFailed ==
  /\ pc = "abi" /\ \A u \in Units : failed[u]
  /\ failedUnits' = failures
  /\ pc' = "done"
  /\ UNCHANGED <<sources, next, queue, worker, gauge, shared, grouped, reanalyzed, report>>

GroupAbi ==
  /\ pc = "abi" /\ \E u \in Units : ~failed[u]
  /\ compatible' = CompatibleAmong(factsByUnit, {u \in Units : ~failed[u]})
  /\ programIndex' = FoldIndex(factsByUnit, compatible')
  /\ pc' = "passB"
  /\ next' = 1
  /\ UNCHANGED <<sources, queue, worker, gauge, shared, reanalyzed, result>>

\* Mutant: a unit that is not compatible does not advance the loop.
GateBStuck ==
  /\ pc = "passB" /\ next <= N /\ next \in compatible
  /\ IF GateOpens(factsByUnit[next], programIndex)
     THEN /\ reanalyzed' = reanalyzed \cup {next}
          /\ queue' = Append(queue, next)
     ELSE UNCHANGED <<reanalyzed, queue>>
  /\ next' = next + 1
  /\ UNCHANGED <<sources, pc, worker, gauge, shared, grouped, result>>

\* One round of pass B's loop: submit the unit if the gate opens for it.
GateB ==
  /\ pc = "passB" /\ next <= N
  /\ IF next \in compatible /\ GateOpens(factsByUnit[next], programIndex)
     THEN /\ reanalyzed' = reanalyzed \cup {next}
          /\ queue' = Append(queue, next)
     ELSE UNCHANGED <<reanalyzed, queue>>
  /\ next' = next + 1
  /\ UNCHANGED <<sources, pc, worker, gauge, shared, grouped, result>>

WaitB ==
  /\ pc = "passB" /\ next = N + 1 /\ PoolDrained
  /\ pc' = "report"
  /\ UNCHANGED <<sources, next, queue, worker, gauge, shared, grouped, reanalyzed, result>>

\* The failures in unit order, as std::sort leaves them.
InUnitOrder(list) ==
  LET order == CHOOSE p \in Bijection(DOMAIN list, DOMAIN list) :
                 \A i, j \in DOMAIN list : i < j => list[p[i]] <= list[p[j]]
  IN [i \in DOMAIN list |-> list[order[i]]]

\* Mutant: the failures stay in the order the workers listed them.
ReportUnsorted ==
  /\ pc = "report"
  /\ failedUnits' = failures
  /\ report' = [u \in {v \in compatible : ~failed[v]} |-> factsByUnit[u]]
  /\ pc' = "done"
  /\ UNCHANGED <<sources, next, queue, worker, gauge, shared, grouped, reanalyzed>>

\* Mutant: a unit that failed in the second pass is reported on.
ReportWithFailed ==
  /\ pc = "report"
  /\ failedUnits' = InUnitOrder(failures)
  /\ report' = [u \in compatible |-> factsByUnit[u]]
  /\ pc' = "done"
  /\ UNCHANGED <<sources, next, queue, worker, gauge, shared, grouped, reanalyzed>>

\* The failures are sorted, and the rules run on the facts of the units that did not fail.
Report ==
  /\ pc = "report"
  /\ failedUnits' = InUnitOrder(failures)
  /\ report' = [u \in {v \in compatible : ~failed[v]} |-> factsByUnit[u]]
  /\ pc' = "done"
  /\ UNCHANGED <<sources, next, queue, worker, gauge, shared, grouped, reanalyzed>>

(***************************************************************************)
(* A worker, in analyseUnit                                                *)
(***************************************************************************)
\* The pool hands the oldest task to a free thread, which enters the gauge before it
\* loads anything.
Take(w) ==
  /\ worker[w] = Idle /\ queue # <<>>
  /\ queue' = Tail(queue)
  /\ worker' = [worker EXCEPT ![w] = [at |-> "load", unit |-> Head(queue), module |-> NoUnit]]
  /\ live' = live + 1
  /\ peak' = IF live' > peak THEN live' ELSE peak
  /\ UNCHANGED <<sources, pc, next, shared, grouped, reanalyzed, result>>

\* Mutant: the file is not compared with what it held when the unit was added.
LoadedModuleUnchecked(u) ==
  LET bytes == IF u \in inFile THEN disk[u] ELSE recorded[u]
  IN IF recorded[u] # Missing /\ bytes \in Contents THEN bytes ELSE NoUnit

\* ProjectUnitSource::load.  A file must still hold the bytes it held when the unit
\* was added; Missing and Garbage parse in no case.
LoadedModule(u) ==
  IF u \in inFile
  THEN IF recorded[u] # Missing /\ disk[u] = recorded[u] /\ disk[u] \in Contents
       THEN disk[u] ELSE NoUnit
  ELSE IF recorded[u] \in Contents THEN recorded[u] ELSE NoUnit

Load(w) ==
  /\ worker[w].at = "load"
  /\ LET module == LoadedModule(worker[w].unit)
     IN worker' = [worker EXCEPT ![w] = [at |-> IF module = NoUnit THEN "fail" ELSE "build",
                                         unit |-> worker[w].unit, module |-> module]]
  /\ UNCHANGED <<sources, pc, next, queue, gauge, shared, grouped, reanalyzed, result>>

Leaving(u) == [at |-> "leave", unit |-> u, module |-> NoUnit]

\* Mutant: the facts of the first pass stay.
FailKeepsFacts(w) ==
  /\ worker[w].at = "fail"
  /\ failed' = [failed EXCEPT ![worker[w].unit] = TRUE]
  /\ failures' = Append(failures, worker[w].unit)
  /\ worker' = [worker EXCEPT ![w] = Leaving(worker[w].unit)]
  /\ UNCHANGED <<sources, pc, next, queue, gauge, factsByUnit, grouped, reanalyzed, result>>

\* Under failureMutex.
Fail(w) ==
  /\ worker[w].at = "fail"
  /\ failed' = [failed EXCEPT ![worker[w].unit] = TRUE]
  /\ factsByUnit' = [factsByUnit EXCEPT ![worker[w].unit] = NoFacts]
  /\ failures' = Append(failures, worker[w].unit)
  /\ worker' = [worker EXCEPT ![w] = Leaving(worker[w].unit)]
  /\ UNCHANGED <<sources, pc, next, queue, gauge, grouped, reanalyzed, result>>

\* The first pass builds against nothingKnownYet, the second against the program index.
Program == IF pc = "passA" THEN EmptyIndex ELSE programIndex

Build(w) ==
  /\ worker[w].at = "build"
  /\ factsByUnit' = [factsByUnit EXCEPT ![worker[w].unit] =
                       BuildUnit(worker[w].module, Program)]
  /\ worker' = [worker EXCEPT ![w] = Leaving(worker[w].unit)]
  /\ UNCHANGED <<sources, pc, next, queue, gauge, failed, failures, grouped, reanalyzed, result>>

\* Mutant: the slot is never given back.
LeaveCounted(w) ==
  /\ worker[w].at = "leave"
  /\ worker' = [worker EXCEPT ![w] = Idle]
  /\ UNCHANGED <<sources, pc, next, queue, gauge, shared, grouped, reanalyzed, result>>

\* The unit is destroyed, then the slot leaves the gauge.
Leave(w) ==
  /\ worker[w].at = "leave"
  /\ worker' = [worker EXCEPT ![w] = Idle]
  /\ live' = live - 1
  /\ UNCHANGED <<sources, pc, next, queue, peak, shared, grouped, reanalyzed, result>>

(***************************************************************************)
(* Another process rewrites, truncates or removes the file of a unit.      *)
(***************************************************************************)
Rewrite(u, bytes) ==
  /\ pc # "done" /\ u \in inFile
  /\ disk' = [disk EXCEPT ![u] = bytes]
  /\ UNCHANGED <<recorded, inFile, pc, next, queue, worker, gauge, shared, grouped,
                 reanalyzed, result>>

Caller == SubmitA \/ WaitA \/ AllFailed \/ GroupAbi \/ GateB \/ WaitB \/ Report

Worker(w) == Take(w) \/ Load(w) \/ Fail(w) \/ Build(w) \/ Leave(w)

Next ==
  \/ Caller
  \/ \E w \in Workers : Worker(w)
  \/ \E u \in Units, bytes \in Rewrites : Rewrite(u, bytes)

\* The caller and every worker keep running: the analysis waits for nothing but the
\* pool, and neither loading nor building a unit waits for another thread.
Spec ==
  /\ Init /\ [][Next]_vars
  /\ WF_vars(Caller)
  /\ \A w \in Workers : WF_vars(Worker(w))

(***************************************************************************)
(* Properties                                                              *)
(***************************************************************************)
\* The shared vectors keep one element per unit, the queue and the list of failures hold
\* units only, and the gauge, an unsigned counter, never goes below zero.
TypeOK ==
  /\ recorded \in [Units -> Bytes] /\ disk \in [Units -> Bytes]
  /\ inFile \in SUBSET Units
  /\ pc \in {"passA", "abi", "passB", "report", "done"}
  /\ next \in 1..(N + 1)
  /\ queue \in Seq(Units)
  /\ worker \in [Workers -> [at : {"idle", "load", "build", "fail", "leave"},
                             unit : 0..N, module : Contents \cup {NoUnit}]]
  /\ live \in Nat /\ peak \in Nat
  /\ failed \in [Units -> BOOLEAN]
  /\ failures \in Seq(Units)
  /\ factsByUnit = [u \in Units |-> factsByUnit[u]]
  /\ compatible \in SUBSET Units /\ reanalyzed \in SUBSET Units

Busy == {w \in Workers : worker[w] # Idle}

\* The units a task is pending for: queued, or held by a worker that has not yet
\* written factsByUnit.
Queued == {queue[i] : i \in DOMAIN queue}

Writing == {w \in Workers : worker[w].at \in {"load", "build", "fail"}}

Unsettled == Queued \cup {worker[w].unit : w \in Writing}

\* "the number of units in memory never exceeds the number of workers" (LiveUnitGauge
\* in analyseUnit): the gauge counts the workers holding a unit, and the peak it
\* reports is bounded by --max-live-units, and by the number of units.
LiveUnitsBounded ==
  /\ live = Cardinality(Busy)
  /\ live <= peak
  /\ peak <= Cardinality(Workers) /\ peak <= N

\* No unit is analysed by two workers at once, nor queued while it is analysed or
\* queued twice: each task owns its element of factsByUnit and of failed.
OneTaskPerUnit ==
  /\ \A i, j \in DOMAIN queue : queue[i] = queue[j] => i = j
  /\ \A v, w \in Busy : worker[v].unit = worker[w].unit => v = w
  /\ \A w \in Busy, i \in DOMAIN queue : worker[w].unit # queue[i]

\* The facts the calling thread is about to read (grouping, gating, reporting) are
\* not being written: no lock guards factsByUnit, only pool.wait() and the fact that
\* a unit is gated before it is submitted.
ReadsOnlySettledFacts ==
  /\ pc \in {"abi", "report", "done"} => Unsettled = {}
  /\ pc = "passB" => \A u \in compatible : u >= next => u \notin Unsettled

\* A unit that failed keeps no facts, whichever pass failed it, and never becomes
\* readable again in this analysis: its first-pass conclusions are "exactly what the
\* second pass was going to correct".
FailureIsFinal ==
  [][\A u \in Units :
       failed[u] => failed'[u] /\ factsByUnit[u] = NoFacts /\ factsByUnit'[u] = NoFacts]_vars

UnitOrder(list) == \A i, j \in DOMAIN list : i < j => list[i] < list[j]

\* When analyze returns, every unit is exactly one of failed, skipped for its ABI and
\* reported on, and each failure is listed once: in unit order however the workers raced,
\* as long as one unit loaded.
EveryUnitAccountedOnce ==
  pc = "done" =>
    LET listed  == {failedUnits[i] : i \in DOMAIN failedUnits}
        skipped == {u \in Units : ~failed[u] /\ u \notin compatible}
    IN /\ listed = {u \in Units : failed[u]}
       /\ Len(failedUnits) = Cardinality(listed)
       /\ compatible # {} => UnitOrder(failedUnits)
       /\ listed \cap DOMAIN report = {}
       /\ Units = listed \cup skipped \cup DOMAIN report
       /\ skipped \cap DOMAIN report = {}

\* "Units that could not be loaded, in unit order" (inter_tu_coordinator.hpp:23).
FailedInUnitOrder == pc = "done" => UnitOrder(failedUnits)

\* The pool always drains and analyze returns, whatever happens to the files.
Termination == <>(pc = "done")

(***************************************************************************)
(* The schedule of the workers and the moments at which files change can   *)
(* only decide which units fail; everything else is the function of the    *)
(* recorded bytes that AnalysisService gives.                              *)
(***************************************************************************)
Returned == pc = "done" /\ N # 0

Answer ==
  [failed     |-> {u \in Units : failed[u]},
   skipped    |-> {u \in Units : ~failed[u] /\ u \notin compatible},
   reanalyzed |-> reanalyzed,
   report     |-> report]

Service == INSTANCE AnalysisService WITH
  Build <- BuildUnit, NothingKnown <- EmptyIndex, Group <- CompatibleAmong,
  Fold <- FoldIndex, Changes <- GateOpens,
  answered <- Returned, answer <- IF Returned THEN Answer ELSE Pending

\* The concurrent coordinator implements the promise of AnalysisService.
ImplementsService == Service!Spec

(***************************************************************************)
(* The invariant that carries the proofs: what the caller, the queue and   *)
(* the workers have established at every point of the two passes.          *)
(***************************************************************************)
\* Tasks are taken in the order the units were submitted, so what a worker holds comes
\* before what is queued, and no two tasks share a unit; the pool is empty outside the
\* passes.
PoolInv ==
  /\ \A i, j \in DOMAIN queue : i < j => queue[i] < queue[j]
  /\ \A i \in DOMAIN queue : queue[i] < next
  /\ \A w \in Workers :
       /\ worker[w].at = "idle" => worker[w] = Idle
       /\ worker[w].at # "idle" =>
            /\ worker[w].unit \in Units /\ worker[w].unit < next
            /\ \A i \in DOMAIN queue : worker[w].unit < queue[i]
            /\ \A v \in Workers \ {w} : worker[v].unit # worker[w].unit
  /\ pc \notin {"passA", "passB"} => PoolDrained
  /\ N = 0 => pc = "done"

\* A worker that loaded its unit holds the bytes the unit was added with, whatever the
\* file holds now, and one that failed had a reason to.
LoadInv ==
  \A w \in Workers :
    /\ worker[w].at = "build" =>
         recorded[worker[w].unit] \in Contents /\ worker[w].module = recorded[worker[w].unit]
    /\ worker[w].at = "fail" =>
         recorded[worker[w].unit] \notin Contents \/ worker[w].unit \in inFile

\* The units that failed in the first pass, and the facts that pass left.
FailedFirst == {u \in Units : failed[u] /\ u \notin compatible}

Alone == Service!FirstPass(FailedFirst)

FailedSoFar(u) == /\ failed[u] /\ factsByUnit[u] = NoFacts
                  /\ recorded[u] \notin Contents \/ u \in inFile

FirstPassInv ==
  pc \in {"passA", "abi"} =>
    /\ compatible = {} /\ reanalyzed = {} /\ report = EmptyFunction
    /\ \A u \in Units :
         IF u >= next \/ u \in Unsettled THEN ~failed[u]
         ELSE \/ FailedSoFar(u)
              \/ /\ ~failed[u] /\ recorded[u] \in Contents
                 /\ factsByUnit[u] = Service!FactsAlone(u)
    /\ pc = "abi" => next = N + 1

\* In the second pass the first one's results are still there for every unit that was
\* not sent through again, and a unit that was is pending, failed or rebuilt.
SecondPassInv ==
  (pc \in {"passB", "report"} \/ Returned) =>
    /\ compatible = Service!CompatibleOf(Alone, FailedFirst)
    /\ compatible \subseteq Units
    /\ pc # "done" \/ compatible # {} => programIndex = FoldIndex(Alone, compatible)
    /\ \A u \in FailedFirst : FailedSoFar(u)
    /\ \A u \in Units \ FailedFirst : recorded[u] \in Contents
    /\ Unsettled \subseteq reanalyzed
    /\ reanalyzed = {u \in compatible : /\ pc = "passB" => u < next
                                        /\ GateOpens(Alone[u], programIndex)}
    /\ \A u \in compatible \ reanalyzed : ~failed[u] /\ factsByUnit[u] = Alone[u]
    /\ \A u \in reanalyzed :
         IF u \in Unsettled THEN ~failed[u]
         ELSE \/ FailedSoFar(u)
              \/ /\ ~failed[u]
                 /\ factsByUnit[u] = BuildUnit(recorded[u], programIndex)
    /\ Returned => report = [u \in {v \in compatible : ~failed[v]} |-> factsByUnit[u]]

\* Everything the passes established, at every point.
CoordinatorInv == PoolInv /\ LoadInv /\ FirstPassInv /\ SecondPassInv
==============================================================================
