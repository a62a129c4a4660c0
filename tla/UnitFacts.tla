------------------------------ MODULE UnitFacts ------------------------------
(***************************************************************************)
(* What TUFactsBuilder::build concludes about one translation unit, seen   *)
(* from the whole program: every place the builder reads the program index *)
(* (src/internal/analysis/tu_facts_builder.cpp), what each rule then reads *)
(* of the facts, and the gate that decides which units deserve a second    *)
(* analysis (inter_tu_coordinator.cpp, crossTUChangesFacts).               *)
(*                                                                         *)
(* A unit's IR is a record of what its module shows:                       *)
(*   abi                        target triple and data layout              *)
(*   defGlobals, declGlobals    shareable globals defined, declared extern *)
(*   defFunctions, declFunctions                                           *)
(*   spawns      entry -> [sites, loop, overlap]: spawn sites naming the   *)
(*               entry, whether one is in a loop, and whether the task     *)
(*               analysis finds that two instances can be alive at once    *)
(*   lockHelpers, joinHelpers   defined helper -> summary                  *)
(*   handles     global handle -> [creates, resolves, onAllPaths, looped]: *)
(*               creations, joins and detaches of the handle, whether every*)
(*               creation is resolved on all paths, whether one is looped  *)
(*   forks, reaps               forks without exec, a wait somewhere       *)
(*   bindings    entry handed an object -> [globals, settledThrough,       *)
(*               perThread]: the global whose address it is, if it is one; *)
(*               the non-local functions the binding relies on; whether    *)
(*               each thread is handed an element of its own               *)
(* The facts keep what the index can change; what a rule reads that no     *)
(* other unit influences is left out.                                      *)
(***************************************************************************)
EXTENDS FactSelection, ProgramSymbolIndex

\* What LLVM and the collectors guarantee of a unit's IR: a function is defined or only
\* declared, an entry is a function of the module, helpers are summarised from their
\* bodies, a global handed to a thread is one of the module, and a handle no thread is
\* created on is left open on no path and by no loop.
IsUnitIR(ir) ==
  /\ ir.defFunctions \cap ir.declFunctions = {}
  /\ DOMAIN ir.spawns \subseteq ir.defFunctions \cup ir.declFunctions
  /\ \A e \in DOMAIN ir.spawns : ir.spawns[e] \in [sites : Nat, loop : BOOLEAN, overlap : BOOLEAN]
  /\ DOMAIN ir.lockHelpers \subseteq ir.defFunctions
  /\ DOMAIN ir.joinHelpers \subseteq ir.defFunctions
  /\ \A h \in DOMAIN ir.handles :
       /\ ir.handles[h] \in [creates : Nat, resolves : Nat, onAllPaths : BOOLEAN, looped : BOOLEAN]
       /\ ir.handles[h].creates = 0 => ir.handles[h].onAllPaths /\ ~ir.handles[h].looped
  /\ \A e \in DOMAIN ir.bindings : ir.bindings[e].globals \subseteq ir.defGlobals \cup ir.declGlobals
  /\ ir.forks \in BOOLEAN /\ ir.reaps \in BOOLEAN

\* collectProgramSymbolFacts; functionSymbols are the keys of functionSymbolsById.
ProgramSymbolFacts(ir) ==
  [abiKey            |-> ir.abi,
   definedGlobals    |-> ir.defGlobals,
   declaredGlobals   |-> ir.declGlobals,
   declaredFunctions |-> ir.declFunctions,
   functionSymbols   |-> ir.defFunctions \cup ir.declFunctions]

\* ThreadSpawnDetector: an entry only declared here counts in project mode alone.
SpawnedEntries(ir, selection, crossTU) ==
  IF SelectsSpawns(selection)
  THEN {entry \in DOMAIN ir.spawns : crossTU \/ entry \in ir.defFunctions}
  ELSE {}

\* The raw site count, replaced by the number of instances that can be alive at
\* once when the task analysis ran.
OwnSpawnCount(ir, selection, entry) ==
  LET spawn == ir.spawns[entry]
  IN IF "threadEntries" \notin selection.facts THEN spawn.sites
     ELSE IF spawn.overlap THEN (IF spawn.sites < 2 THEN 2 ELSE spawn.sites)
     ELSE IF spawn.sites > 1 THEN 1 ELSE spawn.sites

\* Mutant: the program is consulted only for an entry the unit does not start itself.
EntryConcurrencyOwnFirst(ir, selection, crossTU, index) ==
  LET own      == SpawnedEntries(ir, selection, crossTU)
      imported == {f \in ir.defFunctions \ own : crossTU /\ IsThreadEntry(index, f)}
  IN [f \in own \cup imported |->
        IF f \in own
        THEN [staticSpawnCount |-> OwnSpawnCount(ir, selection, f),
              hasSpawnInLoop |-> ir.spawns[f].loop]
        ELSE [staticSpawnCount |-> SpawnCount(index, f),
              hasSpawnInLoop |-> SpawnedInLoop(index, f)]]

\* facts.entryConcurrency: the unit's own spawns, raised to what the program
\* knows for the functions defined here.
EntryConcurrency(ir, selection, crossTU, index) ==
  LET own      == SpawnedEntries(ir, selection, crossTU)
      imported == {f \in ir.defFunctions : crossTU /\ IsThreadEntry(index, f)}
      Count(f) == IF f \in own THEN OwnSpawnCount(ir, selection, f) ELSE 0
      Loop(f)  == f \in own /\ ir.spawns[f].loop
  IN [f \in own \cup imported |->
        [staticSpawnCount |-> IF f \in imported /\ SpawnCount(index, f) > Count(f)
                              THEN SpawnCount(index, f) ELSE Count(f),
         hasSpawnInLoop   |-> \/ Loop(f)
                              \/ f \in imported /\ SpawnedInLoop(index, f)]]

\* The unit's own summaries, and for the functions it only sees declared the
\* ones the program supplies.
LockWrapperSummaries(ir, selection, crossTU, index) ==
  IF ~SelectsLockWrapperSummaries(selection) THEN EmptyFunction
  ELSE Emplace(ir.lockHelpers,
               [f \in {d \in ir.declFunctions : crossTU /\ HasLockSummary(index, d)} |->
                  index.lockSummaries[f]])

\* The joining helpers of other units that end a thread at a call made here.
KnownJoins(ir, selection, crossTU, index) ==
  IF ~ReadsCompletions(selection) \/ "helperJoins" \notin selection.channels
  THEN EmptyFunction
  ELSE [f \in {d \in ir.declFunctions : crossTU /\ HasJoinedParameters(index, d)} |->
          index.joiningHelpers[f]]

\* The objects threads are handed.  A global is named as its owner names it when it is
\* defined, here or by the program, and otherwise as what a pointer leads to.  A binding
\* is dropped when another unit may pass another object, and keeps no per-thread element
\* when the program starts the entry more than once.
Bindings(ir, selection, crossTU, index) ==
  IF ~SelectsLockState(selection) THEN EmptyFunction
  ELSE [entry \in {e \in DOMAIN ir.bindings :
                     ~(crossTU /\ \E f \in ir.bindings[e].settledThrough :
                                    AppearsInSeveralUnits(index, f))} |->
          [byOwner   |-> {g \in ir.bindings[entry].globals :
                            g \in ir.defGlobals \/ (crossTU /\ g \in index.definedGlobals)},
           perThread |-> /\ ir.bindings[entry].perThread
                         /\ ~(crossTU /\ SpawnCount(index, entry) > 1)]]

\* Mutant: the joins of other units are not looked up.
ThreadLifecyclesAlone(ir, selection, crossTU, index) ==
  IF "threadLifecycles" \notin selection.facts THEN EmptyFunction ELSE ir.handles

\* Creations on a global handle the program resolves are erased; what the unit
\* itself joins or detaches is kept.
ThreadLifecycles(ir, selection, crossTU, index) ==
  IF "threadLifecycles" \notin selection.facts THEN EmptyFunction
  ELSE [h \in DOMAIN ir.handles |->
          IF crossTU /\ ResolvesHandleElsewhere(index, h)
          THEN [creates |-> 0, resolves |-> ir.handles[h].resolves,
                onAllPaths |-> TRUE, looped |-> FALSE]
          ELSE ir.handles[h]]

\* MissingJoinDetector's verdict on one handle whose lifecycle stays in one function:
\* more creations than resolutions, unless every creation is resolved on all its
\* paths, or else a path or a loop round that leaves a thread unresolved.
Outstanding(facts, h) ==
  LET handle     == facts.lifecycles[h]
      unbalanced == handle.creates > handle.resolves
  IN /\ h \in DOMAIN facts.lifecycles
     /\ ~(unbalanced /\ handle.onAllPaths /\ ~handle.looped)
     /\ unbalanced \/ (handle.creates # 0 /\ (~handle.onAllPaths \/ handle.looped))

\* Mutant: only the unit's own waits count.
ProcessFactsOwnReaps(ir, selection, crossTU, index) ==
  IF "processLifecycle" \notin selection.facts
  THEN [forks |-> FALSE, reapsChildProcesses |-> FALSE, programCreatesThreads |-> FALSE]
  ELSE [forks |-> ir.forks, reapsChildProcesses |-> ir.reaps,
        programCreatesThreads |-> \/ SpawnedEntries(ir, selection, crossTU) # {}
                                  \/ crossTU /\ ProgramCreatesThreads(index)]

\* Forks, and whether the program around them reaps children and starts threads.
ProcessFacts(ir, selection, crossTU, index) ==
  IF "processLifecycle" \notin selection.facts
  THEN [forks |-> FALSE, reapsChildProcesses |-> FALSE, programCreatesThreads |-> FALSE]
  ELSE [forks |-> ir.forks,
        reapsChildProcesses |-> ir.reaps \/ (crossTU /\ index.reapsChildren),
        programCreatesThreads |-> \/ SpawnedEntries(ir, selection, crossTU) # {}
                                  \/ crossTU /\ ProgramCreatesThreads(index)]

\* TUFactsBuilder::build.  crossTU says whether a program index was passed.
BuildFacts(ir, selection, crossTU, index) ==
  LET program   == ProgramSymbolFacts(ir)
      process   == ProcessFacts(ir, selection, crossTU, index)
  IN [abiKey                |-> program.abiKey,
      definedGlobals        |-> program.definedGlobals,
      declaredGlobals       |-> program.declaredGlobals,
      declaredFunctions     |-> program.declaredFunctions,
      functionSymbols       |-> program.functionSymbols,
      settlingFunctions     |->
        IF SelectsLockState(selection) /\ crossTU
        THEN UNION {ir.bindings[e].settledThrough : e \in DOMAIN ir.bindings}
        ELSE {},
      sharedGlobals         |->
        IF "accesses" \notin selection.facts THEN {}
        ELSE ir.defGlobals
               \cup {g \in ir.declGlobals : crossTU /\ g \in index.definedGlobals},
      entryConcurrency      |-> EntryConcurrency(ir, selection, crossTU, index),
      lockWrapperSummaries  |-> LockWrapperSummaries(ir, selection, crossTU, index),
      joiningHelpers        |->
        IF "helperJoins" \in selection.channels THEN ir.joinHelpers ELSE EmptyFunction,
      knownJoins            |-> KnownJoins(ir, selection, crossTU, index),
      bindings              |-> Bindings(ir, selection, crossTU, index),
      lifecycles            |-> ThreadLifecycles(ir, selection, crossTU, index),
      resolvedGlobalHandles |->
        IF "threadLifecycles" \notin selection.facts THEN {}
        ELSE {h \in DOMAIN ir.handles : ir.handles[h].resolves > 0},
      forks                 |-> process.forks,
      reapsChildProcesses   |-> process.reapsChildProcesses,
      programCreatesThreads |-> process.programCreatesThreads]

(***************************************************************************)
(* crossTUChangesFacts: does the program-wide view contradict a fact this  *)
(* unit concluded alone, through a channel a selected rule reads?          *)
(***************************************************************************)
\* Mutant: a caller of a settling function in another unit goes unnoticed.
EntryChangedUnsettled(facts, index) ==
  \E f \in facts.functionSymbols \ facts.declaredFunctions :
    /\ IsThreadEntry(index, f)
    /\ \/ f \notin DOMAIN facts.entryConcurrency
       \/ SpawnCount(index, f) > facts.entryConcurrency[f].staticSpawnCount
       \/ SpawnedInLoop(index, f) /\ ~facts.entryConcurrency[f].hasSpawnInLoop

EntryChanged(facts, index) ==
  \/ \E f \in facts.settlingFunctions : AppearsInSeveralUnits(index, f)
  \/ \E f \in facts.functionSymbols \ facts.declaredFunctions :
       /\ IsThreadEntry(index, f)
       /\ \/ f \notin DOMAIN facts.entryConcurrency
          \/ SpawnCount(index, f) > facts.entryConcurrency[f].staticSpawnCount
          \/ SpawnedInLoop(index, f) /\ ~facts.entryConcurrency[f].hasSpawnInLoop

ForksChanged(facts, index, selection) ==
  \/ /\ "programThreads" \in selection.channels
     /\ facts.forks /\ ~facts.programCreatesThreads /\ ProgramCreatesThreads(index)
  \/ /\ "programReaps" \in selection.channels
     /\ facts.forks /\ ~facts.reapsChildProcesses /\ index.reapsChildren

HelpersChanged(facts, index, selection) ==
  \/ /\ "helperLockEffects" \in selection.channels
     /\ \E f \in facts.declaredFunctions : HasLockSummary(index, f)
  \/ /\ "helperJoins" \in selection.channels
     /\ \E f \in facts.declaredFunctions : HasJoinedParameters(index, f)

CrossTUChangesFacts(facts, index, selection) ==
  \/ /\ "externGlobals" \in selection.channels
     /\ facts.declaredGlobals \cap index.definedGlobals # {}
  \/ ForksChanged(facts, index, selection)
  \/ /\ "resolvedHandles" \in selection.channels
     /\ \E h \in DOMAIN facts.lifecycles :
          facts.lifecycles[h].creates > 0 /\ ResolvesHandleElsewhere(index, h)
  \/ HelpersChanged(facts, index, selection)
  \/ "entryConcurrency" \in selection.channels /\ EntryChanged(facts, index)

(***************************************************************************)
(* What the checker of a rule reads of the facts modelled here.            *)
(***************************************************************************)
\* The objects threads are handed, by name: the locks and the accesses of a thread are
\* named from the object it was handed.
HandedObjects(facts) == [e \in DOMAIN facts.bindings |-> facts.bindings[e].byOwner]

RuleReads(rule, facts) ==
  CASE rule = "DataRaceGlobal" ->
         <<facts.sharedGlobals, facts.entryConcurrency, facts.lockWrapperSummaries,
           facts.knownJoins, facts.bindings>>
    [] rule = "DeadlockLockOrder" ->
         <<facts.entryConcurrency, facts.lockWrapperSummaries, facts.knownJoins,
           HandedObjects(facts)>>
    [] rule = "MissingJoin" -> <<facts.lifecycles, facts.knownJoins>>
    [] rule = "ForkAfterThreadCreation" -> <<facts.forks /\ facts.programCreatesThreads>>
    [] rule = "UnreapedChildProcess" -> <<facts.forks /\ ~facts.reapsChildProcesses>>
    [] rule \in {"ThreadArgumentEscapesFrame", "ThreadArgumentFreedEarly",
                 "ThreadLocalOutlivesThread"} -> <<facts.knownJoins>>
    [] rule = "WeakPublicationOrdering" ->
         <<facts.sharedGlobals, facts.entryConcurrency, facts.knownJoins, HandedObjects(facts)>>
    [] OTHER -> <<>>
==============================================================================
