# Verification of the concurrency analyzer

This directory holds TLA+ models of the analyzer, the TLC configurations that
check them and TLAPS proofs of the theorems that matter most. Two halves are
modelled: the project mode, which runs units through a cache, a thread pool and
a merge; and the analysis of one unit, which is checked against executions of
the unit it analyses.

`PROJECT.json` lists the components, the runs, the source lines behind every
definition, the known disagreements between code and documentation, and the
hazards the properties were chosen for.

## The system

The analyzer compiles C and C++ sources to LLVM bitcode, derives facts from each
translation unit and runs rules on the facts. In project mode
(`--compile-commands`) it does so for a whole program.

| Part | State | Operations | What is hard about it |
|---|---|---|---|
| `analyzeProject` (main.cpp) | the unit source, failed sources | look up, compile, store, add, analyse, exit | half the project may fail; the exit code must say which |
| `IRCache` | three files per key, a depfile, temporary files | `lookupPath`, `store`, `writeFileAtomically` | racing runs, crashes between files, inputs edited meanwhile |
| `ProjectUnitSource` | bytes, or path and digest per unit | `add`, `addFile`, `load` | files change between adding and the two loads |
| `InterTUCoordinator` | `factsByUnit`, `failed`, `failures`, two thread pools | pass A, ABI grouping, index fold, gate, pass B, report | shared vectors without locks, failures in either pass, ordering |
| `LiveUnitGauge` | two atomics | `enter`, `leave`, `peak` | a compare-exchange loop that may fail spuriously |
| `ProgramSymbolIndex` | tables by symbol | `addUnit`, queries | results must not depend on unit order |
| `FactSelection` | flags per rule and channel | `forRules` | a rule alone must see what it sees among all rules |
| `TUFactsBuilder` | facts of a unit | `build` against an index, rounds over the call sites | what the program changes in a unit's conclusions; naming what a callee does in its callers, and ending |
| lock scopes, wrapper summaries, lock orders | locks held at an instruction, at the start of a function | dataflow, summaries, orders instantiated at calls | a lock taken for held hides a race; a lost order hides a deadlock |
| task analysis, completions, contained entries, lifecycles, lifetimes | threads live at an instruction, handles started and joined | rounds until handles, leaks and inherited threads settle | a thread taken for ended hides every race with it |
| places, footprints, bindings, shared accesses | byte regions, objects behind parameters | walks to a root, moves at calls, bindings of spawns | two accesses to one byte must not look apart |
| report builder and merge | diagnostics, keys | sort, number, drop copies, count | losing a finding or reporting it twice |
| the rules (races, lock order, joins, waits, forks, signals, lifetimes, publication) | none between units | run on facts | which pairs may be parallel, bounds on the search |
| command line, compilation database, renderer | options, commands | parse, filter, print | option order, argument filtering |

The analyzer runs one source at a time through the cache or the compiler, adds
each result to the unit source, and calls the coordinator. Pass A builds every
unit's facts on its own. The units of the most frequent ABI are folded into the
index. The gate picks the units whose facts the index would change, and pass B
builds those again. The rules run on the resulting facts; their diagnostics are
numbered per unit, merged and counted for the exit code.

## Modules

The project:

| Module | Models |
|---|---|
| `FactSelection` | rule to fact and rule to channel tables (`fact_selection.hpp`) |
| `ProgramSymbolIndex` | the index, its queries, ABI grouping and the fold |
| `UnitFacts` | every place `TUFactsBuilder::build` reads the index (entries, helpers, the globals and functions behind a thread's argument, forks, handles), the gate `crossTUChangesFacts`, what each rule reads |
| `ProjectAnalysis` | the passes as a whole, run twice side by side to compare two analyses |
| `Coordinator` | the passes as they run: caller, queue, workers, failures, files rewritten |
| `AnalysisService` | the promise of a project analysis, one step from input to answer |
| `LiveUnitGauge` | the gauge, one action per atomic operation |
| `IRCache` | one cache key, several runs of the program, crashes, failing and lost writes, edits |
| `ReportMerge` | numbering, merging, counting and the exit code |

The analysis of a unit:

| Module | Models |
|---|---|
| `InOrder`, `UnitIR` | folds in order; functions as control-flow graphs, call sites, the entries that reach a function |
| `LockStates` | what an instruction, a guard or a call does to locks; wrapper summaries (`lock_effect_application`, `lock_wrapper_summaries`, `synchronization_effects`); locks held on every path, and at every call of a function (`lock_scope_tracker`, `lock_state_propagator`) |
| `LockOrders` | lock orders, their gates, address tests and instantiation at calls (`lock_order_collector`, `tu_facts_builder`) |
| `LockOrderAnalyzer` | the cycle search and the reacquisitions |
| `FactQueries`, `DataRaces` | regions, what is parallel, which accesses conflict, how conflicts are grouped |
| `ThreadSites` | handles and the instructions that start, join, detach and move them; entries, also those handed to a helper as a parameter |
| `RunningThreads` | what a function starts, joins, leaves and inherits, what is live, what overlaps (`task_concurrency_analyzer`) |
| `ThreadCompletions` | joining helpers and joins that certainly waited (`thread_completion_analysis`, `held_member_analysis`) |
| `ContainedEntries` | pairs of entries that are never alive together |
| `ThreadLifecycles`, `ThreadLifetimes` | the missing-join facts; arguments that escape, are freed, thread-locals that expire |
| `CallGraphRules` | waits without a loop, unsafe signal handlers, forks |
| `MemoryPlaces` | the walk from a pointer to a root object, offsets and indexes (`ir_utils`) |
| `ParameterFootprints` | the bytes a function touches behind a parameter |
| `SharedObjectBindings` | which object a spawn hands to its entry |
| `AccessFacts` | shared accesses, their summaries at calls, their copies at call sites |
| `LockedUnit`, `ThreadedUnit` with `ThreadedProgram`, `PlacedUnit` | the three pipelines beside executions of the unit |

Proofs are in the modules named after what they are about: `CoordinatorProofs`
and `CoordinatorServiceProofs`, `LiveUnitGaugeProofs`, `ProjectAnalysisProofs`
and `ProjectIndexProofs`, `IRCacheProofs`, `ReportMergeProofs`, `DataRacesProofs`.
The `MC` modules are instances for TLC.

How state and actions correspond to the code:

- A unit's IR is a record of what its module shows (see the head of `UnitFacts`).
  The facts keep what the program index can change. Whatever no other unit
  influences is left out, and so is how the IR is walked.
- In `Coordinator` the caller's `pc` and `next` are the position in
  `InterTUCoordinator::analyze`. `Take`, `Load`, `Fail`, `Build` and `Leave` are
  the points at which `analyseUnit` touches something shared: the gauge, the
  file, the vectors. `Rewrite` is another process.
- The digest of a unit's file is modelled as its contents, so a collision of the
  64-bit digest is outside the model.
- In `IRCache` a file's contents are the set of values written into it, so an
  empty file, an intact one and a mixture are three different things. A stream
  keeps pointing at the file it opened when the name is renamed or removed. A
  write that fails may leave part of its contents; one that fits the stream's
  buffer may be lost when the stream is closed, after the last test of it
  (`WriteIsLost`).
- `Stamp` concatenates the inputs as the code feeds them to one hash, taken as
  collision free. What is concatenated alike hashes alike.
- A diagnostic's file, line and column are one `place`; its text is a number.
- In the unit modules a function is a graph with one instruction per node. What
  LLVM answers (dominance, reachability, loops) is defined by what it means.
- `LockedUnit`, `ThreadedUnit` and `PlacedUnit` have two kinds of steps. First
  the analyzer runs, one action per collector (`CollectWrappers`,
  `CollectLocks`, `CollectOrders`; `BindThreads`, `CollectFootprints`,
  `AddAccesses`; `DetectSpawns` ... `PropagateLifecycles`) and, for the loops of
  `TUFactsBuilder::build` that iterate to a fixpoint, one per round
  (`FollowCall`, `NextRound`; `FollowCalls`, `ProjectToCalls`); `RunRules` or the
  last phase leaves the report. Then the analysed program runs: its threads take
  their instructions in every interleaving, joins may fail, calls may throw,
  exceptions leave helpers for the frame that catches them, handlers may interrupt. The variables of the program (`threads`, `owner`,
  `held`, `mem`) are not the analyzer's; they are what its claims are about.

Composition: `UnitFacts` extends the selection and the index;
`ProjectAnalysis` and `Coordinator` both extend `UnitFacts`, so the concurrent
and the sequential view share every definition of what a pass computes. `Coordinator` instantiates `AnalysisService`
with those operators. The gauge inside `Coordinator` is one atomic step;
`LiveUnitGauge` shows that the peak read after `pool.wait()` is the same. The
three unit modules share `UnitIR` and `FactQueries`: what runs in parallel is one
definition for the deadlock rule, the race rule and the thread pipeline.

## Runs

Every property has a mutant in `PROJECT.json`: a plausible slip in the code that
the property catches under the same configuration.

| Run | Shows | Bounds |
|---|---|---|
| `MCProject` | the gate is sufficient; unit order and unrelated rules are immaterial; instance counts, forks and global handles are judged by the whole program | five families of projects: entries, helpers and processes with up to 3 units, globals and mixed with up to 2; each unit has up to 2 features of its family; all rules at once, and in the last two families each rule alone beside them |
| `MCCoordinator` | safety of the concurrent passes, refinement of `AnalysisService`, failures are final, `analyze` returns | 3 units of two kinds, 2 workers, some files unreadable from the start, any file rebuilt as another unit at any time (which the digest check treats like a removal) |
| `MCLiveUnitGauge` | exact, monotone peak; `enter` returns | 3 threads entering twice |
| `MCIRCache` | an accepted entry is the bitcode of the inputs; racing runs and lost writes may spoil an entry but never make it stale | 2 runs, 3 starts, any 2 mishaps (an edit, a crash, a lost write, a start beside another run), texts of one or two lines that run together; not continued once an input was edited during a compilation or a store (`Undisturbed`) |
| `MCReportMerge` | nothing lost, ids independent of checker order, honest exit code | 3 units of up to 2 diagnostics, each analysed, failed or skipped, with and without sources that did not compile |
| `MCLockedUnit` | locks said to be held are held; races, deadlocks and reacquisitions that happen are reported; the cycle search is exact or says that it gave up | 1,291 units of 2 threads, 3 locks, 2 symbols, calls 4 deep, 6 orders examined per lock, 2 recursion orders, 2 summary rounds |
| `MCThreadedUnit` | threads that run are live and overlap in the facts; sequenced entries never meet; missing joins, escaping and freed arguments, unsafe handlers, waits and forks are reported | 3,601 units: every short function over 2 handles, and chosen helpers, some of which throw with a thread running; 4 threads, calls 3 deep, handles of 2 steps, 4 occurrences |
| `MCPlacedUnit` | every access through a nameable pointer is a fact over its bytes; races on such bytes are reported; footprints cover; bindings are right; the rounds end | 816 units of 3 threads, calls 5 deep, objects of two or three fields or elements, 2 ranges per footprint, 3 caller rounds |

Why the bounds are enough: every cross-unit channel needs one unit that provides
and one that consumes; a third unit provides a second instance, a second ABI or
a repeated definition. Two workers are enough for each pair of unordered steps,
and three units leave one queued while both work. The cache needs one run that
stores, one that is interrupted and one that reads. A race or a two-lock
deadlock takes two threads; cycles of three locks are in the family `three`. The
caps of the code (orders examined, occurrences, handle steps, ranges, rounds) are
set so low that some units exceed them and others do not: what the analysis may
claim past a cap is part of what is checked. A call chain of three shows a fact
named two calls away from where it was found, which is where naming differs from
a single call. Two mishaps give every pair of an edit, a crash, a lost write and
a race; with three the cache run takes 4,403,168 states and passes too. Symmetry
is used on the runs of the cache only, where no liveness property is checked.
The specifications under `CHECK_DEADLOCK FALSE` are
programs that end, or analysed programs that deadlock by design.

Type invariants of `Coordinator` and `LiveUnitGauge` are proved rather than run.
`LifetimesJudged`, `CallGraphRulesJudged` and `JudgedByProgram` are conjunctions
of three statements each, one per rule; each conjunct has its mutant.

### Disagreements found

Four runs are expected to violate their property. Details and quotations are
in `PROJECT.json`.

| Run | What happens |
|---|---|
| `MCGuardedHelper` | a helper guards the lock it is handed: the guard's constructor names the lock and its destructor does not, so the callers are taken to hold it from the call on |
| `MCHandedLockHeld` | a helper locks what it is handed, and every caller holds that lock: the deadlock is reported by neither the helper nor the calls |
| `MCSequencedLoop` | two entries are taken for sequenced within one round of a loop; the next round starts the first beside the second |
| `MCCalledEntry` | an entry is also called directly: the copy of its access at the call replaces the thread's own, and the race of its threads is missed |

The modules state further properties that comments or tests of the repository
promise and that do not hold. They are not runs; each is reproduced by naming it
as the invariant under the constants given.

| Property | Constants | What happens |
|---|---|---|
| `GateSeesAll` | `Families <- OneElement` or `Families <- Globals` in `MCProject.cfg` | the per-thread element of an object is dropped for a unit's own loop only if the unit happens to be analysed again; under lock orders alone the gate does not ask for the extern globals that name a thread's locks |
| `NarrowSelectionSame` | `Families <- Globals` in `MCProject.cfg` | lock orders alone do not select the extern globals (`fact_selection.hpp:120`), so the locks of a thread handed one are named otherwise than beside other rules |
| `ProjectModeKeepsFindings` | `Families <- OneUnit` in `MCProject.cfg` | in project mode a unit's own join hides a creation it reports alone |
| `FailedInUnitOrder` | `MCCoordinator.cfg` | if all units fail, failures are not in unit order |
| `NeverHalfWritten` | `MCIRCache.cfg` | racing runs share one temporary name, and a flush that fails when the stream closes goes unnoticed |
| `AnyChangeIsAMiss` | `MCIRCache.cfg` | the stamp is taken after the compilation, inputs put back after a crash meet newer bitcode, and a line moved from one input to the next leaves the stamp as it was |
| `SlowNotWrong` | `MCIRCache.cfg` | bitcode whose flush was lost is handed to the analysis |
| `CompleteMeansAll` | `MCReportMerge.cfg` | `complete()` does not look at the units skipped for their ABI |
| `HeaderCopiesDropped` | `MCReportMerge.cfg` | the key that identifies copies contains a per-unit number |
| `HeldLocksAreHeld` | `Families = {"calledLocked"}` in `MCLockedUnit.cfg` | an entry also called directly under a lock is taken to hold it in its own thread |
| `HeldLocksAreHeld` | `Families = {"dropping"}` in `MCLockedUnit.cfg` | a helper that drops its lock on some paths, or past the last summary round, is not summarised: its caller still holds the lock |
| `HeldLocksAreHeld` | `Families = {"backsOff"}` in `MCLockedUnit.cfg` | a try-lock counts as taken also where it failed ("all of them protect the code that follows", `lock_effect_application.hpp:33`) |
| `LiveThreadsAreLive` | `Families = {"moved"}` in `MCThreadedUnit.cfg` | a handle moved into another joins its group, so an earlier join of that other ends its thread too |
| `ThreadsLeftByExceptionsAreLive` | `Families = {"throws"}` in `MCThreadedUnit.cfg` | a thread left running by a function that throws is not live where the exception is caught: what a function leaves is judged at its returns |
| `FootprintsCover` | `Families = {"published"}` in `MCPlacedUnit.cfg` | a local whose own address is stored away still counts as a copy of the parameter (`parameter_footprints.cpp:382`) |

The passing runs state the strongest property that holds around these, and
around limits the code accepts:

- `GateMissesNothing` and `NarrowSelectionAgrees` compare what a rule reads over
  the channels selected (`ReadsOverChannels`), and leave out per-thread elements:
  whether an element survives can depend on an unrelated rule that sends the
  unit through the second pass.
- `JudgedByProgram` asks nothing of a handle that only its creating unit
  resolves; that case is `ProjectModeKeepsFindings`.
- `UnitOrderIrrelevant` asks for one definition per helper. `addUnit` keeps the
  first summary of a symbol (`emplace`), so with two definitions the order
  decides. `ProgramSymbolIndex::addUnit` also adds up the spawn counts of a unit
  listed twice.
- `EveryUnitAccountedOnce` asks for unit order only if one unit loaded, and
  counts units skipped for their ABI apart from the failed ones. Likewise
  `ExitCodeIsHonest` asks for code 1 when a source or a unit failed, and not when
  one was skipped.
- `EntryIsFresh` excepts inputs that run together into the same bytes, since the
  stamp does not separate what it hashes, and entries whose store was cut short
  (`torn`) when the inputs were put back: new bitcode lies under the old stamp.
  It says nothing once an input was edited while a run compiled or stored
  (`disturbed`). `CacheOnlySlows` says the same of the unit a run hands to the
  analysis, if nothing was edited since that run began (`calm`).
- `StoredIsComplete`, and that an accepted entry can be read, are asked of
  runs that never overlapped (`raced` is false) and of files whose flush was not
  `lost`.
- `HeldLocksAreHeld` is run on helpers that take locks, also past the last
  summary round, where the analysis knows less than is held. No order starts
  from a lock taken that deep and the deadlock goes unreported, so the units that
  take one there use one lock only.
- `LiveThreadsAreLive` and `ParallelAccessesKnown` except a thread that an
  exception left behind, for the starter it was left by.
- `LiveThreadsAreLive` and `OverlapsKnown` speak of the threads a thread
  started itself, and `ParallelAccessesKnown` of threads with a common parent or
  of a parent and its child. The analysis does not follow threads that threads
  start any further. Most analyses do not weigh a `std::jthread`, so
  `ParallelAccessesKnown` leaves it out.
- `MissingJoinsReported` speaks of handles in locals, not of fields of objects
  that were handed away. `LifetimesJudged` asks that the thread still lies in
  the handle it was started into: the collector matches joins to creations by
  the handle alone. It reports a free only when the creation is on every path to
  it and the pointer is assigned once.
- `CallGraphRulesJudged` asks for a wait that no function on the stack loops
  around and a first function nothing calls: a caller that loops answers the
  obligation for every caller.
- `AccessesKnown` and `PlacedRacesReported` ask for a pointer the analysis can
  name (`NameOf`). A pointer loaded from memory and then indexed has a name only
  at the access itself.

## Fairness

`Coordinator` assumes weak fairness of the caller and of each worker: nothing in
either waits for anything but the pool, so a thread that can take its next step
eventually does. Other processes get no fairness. `LiveUnitGauge` assumes weak
fairness of a thread inside `enter` and strong fairness of its exchange: a weak
compare-exchange may fail spuriously, but not for ever. The other
specifications are checked for safety only.

## Proofs

The theorems hold for any number of units, workers, threads and runs, and any
set of contents, rules, texts and rewrites. They rest on the assumptions named
in the modules, which TLC evaluates on every instance: `NAssumption`,
`WorkersAssumption` (a finite, non-empty pool), `ContentsAssumption` and
`AbsentAssumption` (the markers for what is not there are no contents),
`RulesAssumption`, `RewritesAssumption`, `ThreadsAssumption`, `FamiliesAssumption` (a unit's IR is
well formed: what it declares, defines and calls fits together), `RuleSetsAssumption`,
`TextsAssumption`, `DiagnosticsAssumption`, and bounds that are natural
numbers.

- `LiveUnitGaugeProofs`: the live count is exact, the peak is exact once no
  thread is inside `enter`, and it never falls. `PeakIsExact` alone is not
  inductive: `PeakInv` adds that a thread inside `enter` carries the maximum
  whenever the peak lags behind it, and that the peak a thread saw is no higher
  than the peak.
- `CoordinatorProofs`: `OneTaskPerUnit`, from `PoolInv`: tasks are queued in unit
  order, so what a worker holds comes before everything queued. That order is
  what excludes a second task on a unit.
- `CoordinatorServiceProofs`: the inductive invariant `CoordinatorInv`, and from
  it `ReadsOnlySettledFacts`, `FailureIsFinal` and the refinement
  `ImplementsService`. The invariant says that a loaded module is the bytes the
  unit was added with (`LoadInv`, the digest check), and what each pass has
  established for each unit: pending, failed without facts, or holding exactly
  the facts of its pass (`FirstPassInv`, `SecondPassInv`). `BuildFacts`,
  grouping, fold and gate stay opaque: the refinement holds whatever they
  compute. The module also has the types and `LiveUnitsBounded`, whose bound
  follows because workers hold different units; and `EveryUnitAccountedOnce`,
  from `ListInv`: the list of failures holds the units that failed and none
  twice, since a worker lists a unit only while its task is pending. That
  sorting it succeeds is shown by ranks: an element goes to the place that
  counts the elements up to it.
- `ProjectAnalysisProofs`: `GateMissesNothing`. The invariant `Inv` only says
  which pass has run and that the twin is about the same project; the argument
  is about the operators. A unit the gate lets go finds in the index nothing for
  its entries, helpers, bindings, forks and handles (one lemma per channel), so
  the facts a rule consults over the selected channels are the same built with
  the index as without it, for all the rules of a run and for one of them.
- `ProjectIndexProofs`: `JudgedByProgram`, `NarrowSelectionAgrees` and
  `UnitOrderIrrelevant`. `IndexKnows` says what the index holds after any number
  of units, as sets and sums over them: the fold is unfolded once, the rest is
  about the units. From there, an entry's instances are the sum over the
  compatible units; two selections that share a rule fold indexes alike in what
  the rule reads; and reversing the units leaves the sums, the sets and (with
  one definition per helper) the summaries as they were.
- `IRCacheProofs`: `TypeOK`, `EntryIsFresh`, `StoredIsComplete` and
  `CacheOnlySlows`, for any texts, edits, crashes, lost writes and races. None is
  inductive. `TypeInv` adds what a run's position says of its record. `StandInv`
  adds, unless `disturbed`, that what a run compiled or is about to write is of
  the inputs as they are, and which bitcode a stamp on disk, or one a run has
  read, can vouch for: bitcode made together with it, or, in an entry that is
  `torn`, any, and then the stamp is of inputs before an edit. `AloneInv` adds, for a run no other raced, that
  each file it renamed is in place unless its flush was lost. That bitcode is
  stale only where texts run together or look as they did before an edit comes
  out of `SameBitcode`: lists of the same texts compile to the same bitcode.
- `ReportMergeProofs`: `NothingLost`, `CheckerOrderIrrelevant` and
  `ExitCodeIsHonest`, from `MergeInv`: when the loop comes to a unit the report
  tells what the units before it told, and `reportedDiagnostics` holds its keys.
  Under it lie facts about the two algorithms. Every list can be put in the
  order of `finalizeReport`, and two ordered lists with as many of each
  diagnostic are one list: at the first difference the earlier diagnostic would
  occur more often in one of them. The loop that drops copies keeps one
  diagnostic of each key. `DiagnosticsAssumption` says that a message belongs to
  one rule and a rule to one severity: the key of a diagnostic names neither.
- `DataRacesProofs`: for every set of facts, whether two accesses conflict does
  not depend on their order (`ConflictSymmetric`), so the order in which
  functions are walked decides nothing but which pair represents a location; on
  known places `MayOverlap` is exactly a shared byte (`OverlapIsSharedByte`);
  and moving two regions of a callee to the caller keeps their overlap
  (`RebasingKeepsOverlap`). They need no assumption and no invariant.

Induction over the units or over a list uses the least counterexample, a set of
natural numbers, in place of the library's induction rules, which take an
operator (`LeastElement`, `UpTo`). `ProjectAnalysisProofs` states the two facts
it needs of this kind as hypotheses, `InductsUpTo` and `MirrorCounts`, and
`ProjectIndexProofs` proves both and discharges them.

Only model-checked:

- Liveness (`Termination`, `EnterReturns`): out of the provers' reach.
- The three pipelines of a unit, whose fixpoints and graph searches are
  recursive. That the rounds of a pipeline end is checked as a bound on their
  number (`SummariesSettle`) or on what they can name (`TypeOK` of
  `ThreadedUnit`).

## Not modelled

- Message text, rendering, the diagnostic catalog and the parser of compiler
  output are formatting. The compilation database and the command line are one
  pass over strings; one order dependence is known there: `--rules` replaces the
  whole options object, so `--max-live-units` given before it is lost
  (`main.cpp:321`).
- The compiler and the recognition of library calls in IR (the classifier) are
  external: the models start from what the IR shows.
- Publication ordering (`publication_analysis`, `publication_ordering_checker`,
  `atomic_operations`) matches patterns of atomics around one flag.
  `DataRaces` reads its marks, but the units carry none.
- In thread completion: the proofs that two loops fill and join the same slots of
  an array, which recognise shapes of LLVM IR. In the task analysis: threads an
  object's constructor starts.
- In the access pipeline: an element per thread, constructed classes, globals
  that alias others, static initialisation, and bindings erased because another
  unit runs the entry (the latter is in `UnitFacts`). Locks in `PlacedUnit` are
  global; locks handed to helpers are in `LockedUnit`. Accesses outside an object
  are undefined and nothing is claimed of them.
- Arithmetic at the ends of the 64-bit range: offsets stay within `MaxOffset`.
- Hash collisions are excluded. Memory use other than the number of live units is
  not modelled.
