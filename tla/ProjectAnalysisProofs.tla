------------------------ MODULE ProjectAnalysisProofs ------------------------
(***************************************************************************)
(* Proofs about ProjectAnalysis, for every project, whatever the number of *)
(* its units and whatever they hold.                                       *)
(***************************************************************************)
EXTENDS ProjectAnalysis, TLAPS

(***************************************************************************)
(* What a selection of rules turns on.                                     *)
(***************************************************************************)
Entries == {"DataRaceGlobal", "DeadlockLockOrder", "WeakPublicationOrdering"}

Shared == {"DataRaceGlobal", "WeakPublicationOrdering"}

Locking == {"DataRaceGlobal", "DeadlockLockOrder"}

Joining == {"DataRaceGlobal", "DeadlockLockOrder", "WeakPublicationOrdering", "MissingJoin",
            "ThreadArgumentEscapesFrame", "ThreadArgumentFreedEarly",
            "ThreadLocalOutlivesThread"}

\* Every rule among the selected ones turns on its own facts and channels.
LEMMA RuleSelected ==
  ASSUME NEW rules \in SUBSET Rules, NEW rule \in rules
  PROVE  /\ RuleFacts[rule] \subseteq ForRules(rules, TRUE).facts
         /\ RuleChannels[rule] \subseteq ForRules(rules, TRUE).channels
BY Zenon DEF ForRules

\* What that means for the rules that read more than their own unit.
LEMMA SelectedFacts ==
  ASSUME NEW rules \in SUBSET Rules, NEW rule \in rules, NEW sel, sel = ForRules(rules, TRUE)
  PROVE  /\ rule \in Entries => /\ "threadEntries" \in sel.facts
                                /\ "entryConcurrency" \in sel.channels
                                /\ SelectsLockState(sel)
         /\ rule \in Shared => "accesses" \in sel.facts /\ "externGlobals" \in sel.channels
         /\ rule \in Locking => /\ SelectsLockState(sel)
                                /\ SelectsLockWrapperSummaries(sel)
                                /\ "helperLockEffects" \in sel.channels
         /\ rule \in Joining => ReadsCompletions(sel) /\ "helperJoins" \in sel.channels
         /\ rule = "MissingJoin" => /\ "threadLifecycles" \in sel.facts
                                    /\ "resolvedHandles" \in sel.channels
         /\ rule = "ForkAfterThreadCreation" => /\ "processLifecycle" \in sel.facts
                                                /\ "programThreads" \in sel.channels
         /\ rule = "UnreapedChildProcess" => /\ "processLifecycle" \in sel.facts
                                             /\ "programReaps" \in sel.channels
<1>1. RuleFacts[rule] \subseteq sel.facts /\ RuleChannels[rule] \subseteq sel.channels
  BY RuleSelected, Zenon
<1>2. rule \in Rules
  OBVIOUS
<1>3. rule = "DataRaceGlobal" =>
        /\ {"accesses", "threadEntries"} \subseteq sel.facts
        /\ {"externGlobals", "helperLockEffects", "entryConcurrency", "helperJoins"}
             \subseteq sel.channels
  BY <1>1, <1>2, Zenon DEF RuleFacts, RuleChannels
<1>4. rule = "DeadlockLockOrder" =>
        /\ {"lockOrders", "threadEntries"} \subseteq sel.facts
        /\ {"helperLockEffects", "entryConcurrency", "helperJoins"} \subseteq sel.channels
  BY <1>1, <1>2, Zenon DEF RuleFacts, RuleChannels
<1>5. rule = "MissingJoin" => /\ "threadLifecycles" \in sel.facts
                              /\ {"resolvedHandles", "helperJoins"} \subseteq sel.channels
  BY <1>1, <1>2, Zenon DEF RuleFacts, RuleChannels
<1>6. rule = "WeakPublicationOrdering" =>
        /\ {"accesses", "threadEntries"} \subseteq sel.facts
        /\ {"externGlobals", "entryConcurrency", "helperJoins"} \subseteq sel.channels
  BY <1>1, <1>2, Zenon DEF RuleFacts, RuleChannels
<1>7. rule = "ForkAfterThreadCreation" => /\ "processLifecycle" \in sel.facts
                                          /\ "programThreads" \in sel.channels
  BY <1>1, <1>2, Zenon DEF RuleFacts, RuleChannels
<1>8. rule = "UnreapedChildProcess" => /\ "processLifecycle" \in sel.facts
                                       /\ "programReaps" \in sel.channels
  BY <1>1, <1>2, Zenon DEF RuleFacts, RuleChannels
<1>9. /\ rule = "ThreadArgumentEscapesFrame" => /\ "threadArgumentEscapes" \in sel.facts
                                                /\ "helperJoins" \in sel.channels
      /\ rule = "ThreadArgumentFreedEarly" => /\ "threadArgumentFrees" \in sel.facts
                                              /\ "helperJoins" \in sel.channels
      /\ rule = "ThreadLocalOutlivesThread" => /\ "expiredThreadLocals" \in sel.facts
                                               /\ "helperJoins" \in sel.channels
  BY <1>1, <1>2, Zenon DEF RuleFacts, RuleChannels
<1>10. rule \in Entries => Selects(sel, {"accesses", "lockOrders"})
  BY <1>3, <1>4, <1>6, Zenon DEF Entries, Selects
<1>11. rule \in Entries => Selects(sel, {"threadEntries", "accesses", "lockOrders"})
  BY <1>3, <1>4, <1>6, Zenon DEF Entries, Selects
<1>12. rule \in Joining \ Entries => Selects(sel, {"threadLifecycles", "threadArgumentEscapes",
                                                  "threadArgumentFrees", "expiredThreadLocals"})
  BY <1>5, <1>9, Zenon DEF Joining, Entries, Selects
<1>13. rule \in Joining => ReadsCompletions(sel) /\ "helperJoins" \in sel.channels
  BY <1>3, <1>4, <1>5, <1>6, <1>9, <1>11, <1>12, Zenon
  DEF Joining, Entries, ReadsCompletions, SelectsTaskConcurrency
<1>14. QED
  BY <1>3, <1>4, <1>5, <1>6, <1>7, <1>8, <1>10, <1>13, Zenon
  DEF Entries, Shared, Locking, SelectsLockState, SelectsLockWrapperSummaries

(***************************************************************************)
(* What a rule reads of two builds of a unit's facts is the same when they *)
(* agree on the fields it reads.                                           *)
(***************************************************************************)
SameForRule(rule, a, b) ==
  /\ rule \in Shared => a.sharedGlobals = b.sharedGlobals
  /\ rule \in Entries => a.entryConcurrency = b.entryConcurrency
  /\ rule \in Locking => a.lockWrapperSummaries = b.lockWrapperSummaries
  /\ rule \in Joining => a.knownJoins = b.knownJoins
  /\ rule = "MissingJoin" => a.lifecycles = b.lifecycles
  /\ rule = "ForkAfterThreadCreation" =>
       (a.forks /\ a.programCreatesThreads) = (b.forks /\ b.programCreatesThreads)
  /\ rule = "UnreapedChildProcess" =>
       (a.forks /\ ~a.reapsChildProcesses) = (b.forks /\ ~b.reapsChildProcesses)

\* They hand their threads the same objects, by the same names if the channels tell them.
SameHanded(rule, channels, a, b) ==
  rule \in Entries =>
    /\ DOMAIN a.bindings = DOMAIN b.bindings
    /\ "externGlobals" \in channels =>
         \A e \in DOMAIN a.bindings : a.bindings[e].byOwner = b.bindings[e].byOwner

ReadsAlike(rule, channels, a, b) ==
  ReadsOverChannels(rule, a, channels) = ReadsOverChannels(rule, b, channels)

\* The fields a build of facts has.
FactFields ==
  {"abiKey", "definedGlobals", "declaredGlobals", "declaredFunctions", "functionSymbols",
   "settlingFunctions", "sharedGlobals", "entryConcurrency", "lockWrapperSummaries",
   "joiningHelpers", "knownJoins", "bindings", "lifecycles", "resolvedGlobalHandles", "forks",
   "reapsChildProcesses", "programCreatesThreads"}

IsFacts(facts) == DOMAIN facts = FactFields

\* Facts alike in what a rule consults over some channels are read alike by it over these.
LEMMA ReadsSame ==
  ASSUME NEW a, IsFacts(a), NEW b, IsFacts(b), NEW rule \in Rules, NEW channels,
         SameForRule(rule, a, b), SameHanded(rule, channels, a, b)
  PROVE  ReadsAlike(rule, channels, a, b)
<1> SUFFICES ReadsOverChannels(rule, a, channels) = ReadsOverChannels(rule, b, channels)
  BY Zenon DEF ReadsAlike
<1> DEFINE Named(binding) == IF "externGlobals" \in channels THEN binding.byOwner ELSE {}
           Names(facts) == [e \in DOMAIN facts.bindings |-> [byOwner |-> Named(facts.bindings[e])]]
           x == [a EXCEPT !.bindings = Names(a)]
           y == [b EXCEPT !.bindings = Names(b)]
<1>1. ASSUME NEW field \in FactFields, field # "bindings"
      PROVE  x[field] = a[field] /\ y[field] = b[field]
  BY <1>1, Zenon DEF IsFacts
<1>2. x.bindings = Names(a) /\ y.bindings = Names(b)
  BY Zenon DEF IsFacts, FactFields
<1>3. /\ x.sharedGlobals = a.sharedGlobals /\ x.entryConcurrency = a.entryConcurrency
      /\ x.lockWrapperSummaries = a.lockWrapperSummaries /\ x.knownJoins = a.knownJoins
      /\ x.lifecycles = a.lifecycles /\ x.forks = a.forks
      /\ x.programCreatesThreads = a.programCreatesThreads
      /\ x.reapsChildProcesses = a.reapsChildProcesses
  BY <1>1, Zenon DEF FactFields
<1>4. /\ y.sharedGlobals = b.sharedGlobals /\ y.entryConcurrency = b.entryConcurrency
      /\ y.lockWrapperSummaries = b.lockWrapperSummaries /\ y.knownJoins = b.knownJoins
      /\ y.lifecycles = b.lifecycles /\ y.forks = b.forks
      /\ y.programCreatesThreads = b.programCreatesThreads
      /\ y.reapsChildProcesses = b.reapsChildProcesses
  BY <1>1, Zenon DEF FactFields
<1>5. /\ ReadsOverChannels(rule, a, channels) = RuleReads(rule, x)
      /\ ReadsOverChannels(rule, b, channels) = RuleReads(rule, y)
  BY Zenon DEF ReadsOverChannels
<1> HIDE DEF x, y
<1>6. rule \in Entries => x.bindings = y.bindings /\ HandedObjects(x) = HandedObjects(y)
  <2> SUFFICES ASSUME rule \in Entries PROVE x.bindings = y.bindings
    BY Zenon DEF HandedObjects
  <2>1. \A e \in DOMAIN a.bindings : Named(a.bindings[e]) = Named(b.bindings[e])
    BY Zenon DEF SameHanded
  <2> HIDE DEF Named
  <2>2. Names(a) = Names(b)
    BY <2>1, Zenon DEF SameHanded
  <2>3. QED
    BY <1>2, <2>2, Zenon
<1> HIDE DEF Names, Named
<1>7. rule \in Rules
  OBVIOUS
<1>8. CASE rule \in {"DataRaceGlobal", "DeadlockLockOrder", "MissingJoin"}
  <2>1. /\ rule \in Shared => x.sharedGlobals = y.sharedGlobals
        /\ rule \in Entries => x.entryConcurrency = y.entryConcurrency
        /\ rule \in Locking => x.lockWrapperSummaries = y.lockWrapperSummaries
        /\ rule \in Joining => x.knownJoins = y.knownJoins
        /\ rule = "MissingJoin" => x.lifecycles = y.lifecycles
    BY <1>3, <1>4, Zenon DEF SameForRule
  <2>2. CASE rule = "DataRaceGlobal"
    BY <1>5, <1>6, <2>1, <2>2, Zenon DEF RuleReads, Shared, Entries, Locking, Joining
  <2>3. CASE rule = "DeadlockLockOrder"
    BY <1>5, <1>6, <2>1, <2>3, Zenon DEF RuleReads, Entries, Locking, Joining
  <2>4. CASE rule = "MissingJoin"
    BY <1>5, <2>1, <2>4, Zenon DEF RuleReads, Joining
  <2>5. QED
    BY <1>8, <2>2, <2>3, <2>4, Zenon
<1>9. CASE rule \in {"ForkAfterThreadCreation", "UnreapedChildProcess"}
  BY <1>3, <1>4, <1>5, <1>9, Zenon DEF RuleReads, SameForRule
<1>10. CASE rule \in {"ThreadArgumentEscapesFrame", "ThreadArgumentFreedEarly",
                      "ThreadLocalOutlivesThread", "WeakPublicationOrdering"}
  BY <1>3, <1>4, <1>5, <1>6, <1>10, Zenon DEF RuleReads, SameForRule, Shared, Entries, Joining
<1>11. CASE rule \in {"ConditionWaitWithoutPredicate", "UnsafeSignalHandler"}
  BY <1>5, <1>11, Zenon DEF RuleReads
<1>12. QED
  BY <1>7, <1>8, <1>9, <1>10, <1>11, Zenon DEF Rules

(***************************************************************************)
(* The facts of a unit, in project mode.                                   *)
(***************************************************************************)
\* What the builder puts into the fields.
Builds(ir, sel, index, facts) ==
  /\ IsFacts(facts)
  /\ facts.abiKey = ir.abi
  /\ facts.definedGlobals = ir.defGlobals
  /\ facts.declaredGlobals = ir.declGlobals
  /\ facts.declaredFunctions = ir.declFunctions
  /\ facts.functionSymbols = ir.defFunctions \cup ir.declFunctions
  /\ facts.settlingFunctions =
       IF SelectsLockState(sel)
       THEN UNION {ir.bindings[e].settledThrough : e \in DOMAIN ir.bindings} ELSE {}
  /\ facts.sharedGlobals =
       IF "accesses" \notin sel.facts THEN {}
       ELSE ir.defGlobals \cup {g \in ir.declGlobals : g \in index.definedGlobals}
  /\ facts.entryConcurrency = EntryConcurrency(ir, sel, TRUE, index)
  /\ facts.lockWrapperSummaries = LockWrapperSummaries(ir, sel, TRUE, index)
  /\ facts.joiningHelpers =
       IF "helperJoins" \in sel.channels THEN ir.joinHelpers ELSE EmptyFunction
  /\ facts.knownJoins = KnownJoins(ir, sel, TRUE, index)
  /\ facts.bindings = Bindings(ir, sel, TRUE, index)
  /\ facts.lifecycles = ThreadLifecycles(ir, sel, TRUE, index)
  /\ facts.resolvedGlobalHandles =
       IF "threadLifecycles" \notin sel.facts THEN {}
       ELSE {h \in DOMAIN ir.handles : ir.handles[h].resolves > 0}

\* What the fields of built facts are: TUFactsBuilder's channels, one by one.
LEMMA BuiltFields ==
  ASSUME NEW ir, NEW sel, NEW index, NEW facts, facts = BuildFacts(ir, sel, TRUE, index)
  PROVE  Builds(ir, sel, index, facts)
<1>1. IsFacts(facts)
  <2>1. facts =
          [abiKey |-> facts.abiKey, definedGlobals |-> facts.definedGlobals,
           declaredGlobals |-> facts.declaredGlobals,
           declaredFunctions |-> facts.declaredFunctions,
           functionSymbols |-> facts.functionSymbols,
           settlingFunctions |-> facts.settlingFunctions,
           sharedGlobals |-> facts.sharedGlobals, entryConcurrency |-> facts.entryConcurrency,
           lockWrapperSummaries |-> facts.lockWrapperSummaries,
           joiningHelpers |-> facts.joiningHelpers, knownJoins |-> facts.knownJoins,
           bindings |-> facts.bindings, lifecycles |-> facts.lifecycles,
           resolvedGlobalHandles |-> facts.resolvedGlobalHandles, forks |-> facts.forks,
           reapsChildProcesses |-> facts.reapsChildProcesses,
           programCreatesThreads |-> facts.programCreatesThreads]
    BY Zenon DEF BuildFacts
  <2>2. QED
    BY <2>1, Zenon DEF IsFacts, FactFields
<1>2. /\ facts.abiKey = ir.abi
      /\ facts.definedGlobals = ir.defGlobals
      /\ facts.declaredGlobals = ir.declGlobals
      /\ facts.declaredFunctions = ir.declFunctions
      /\ facts.functionSymbols = ir.defFunctions \cup ir.declFunctions
  BY Zenon DEF BuildFacts, ProgramSymbolFacts
<1>3. QED
  BY <1>1, <1>2, Zenon DEF BuildFacts, Builds

Processes(ir, sel, index, facts) ==
  /\ "processLifecycle" \in sel.facts =>
       /\ facts.forks = ir.forks
       /\ facts.reapsChildProcesses = (ir.reaps \/ index.reapsChildren)
       /\ facts.programCreatesThreads = (DOMAIN ir.spawns # {} \/ ProgramCreatesThreads(index))
  /\ "processLifecycle" \notin sel.facts =>
       ~facts.forks /\ ~facts.reapsChildProcesses /\ ~facts.programCreatesThreads

\* What the fork and handle facts of a unit are once built.
LEMMA ProcessFields ==
  ASSUME NEW ir, NEW sel, NEW index, NEW facts, facts = BuildFacts(ir, sel, TRUE, index)
  PROVE  Processes(ir, sel, index, facts)
<1> DEFINE process == ProcessFacts(ir, sel, TRUE, index)
<1>1. /\ facts.forks = process.forks
      /\ facts.reapsChildProcesses = process.reapsChildProcesses
      /\ facts.programCreatesThreads = process.programCreatesThreads
  BY Zenon DEF BuildFacts
<1>2. "processLifecycle" \in sel.facts => SpawnedEntries(ir, sel, TRUE) = DOMAIN ir.spawns
  BY Zenon DEF SpawnedEntries, SelectsSpawns, Selects
<1>3. QED
  BY <1>1, <1>2, Zenon DEF ProcessFacts, Processes

\* An empty index knows nothing.
LEMMA EmptyIndexFacts ==
  /\ EmptyIndex.definedGlobals = {} /\ EmptyIndex.resolvedHandles = {}
  /\ EmptyIndex.reapsChildren = FALSE /\ ~ProgramCreatesThreads(EmptyIndex)
  /\ \A s : /\ ~IsThreadEntry(EmptyIndex, s) /\ SpawnCount(EmptyIndex, s) = 0
            /\ ~SpawnedInLoop(EmptyIndex, s) /\ ~AppearsInSeveralUnits(EmptyIndex, s)
            /\ ~HasLockSummary(EmptyIndex, s) /\ ~HasJoinedParameters(EmptyIndex, s)
            /\ ~ResolvesHandleElsewhere(EmptyIndex, s)
BY Zenon DEF EmptyIndex, EmptyFunction, ProgramCreatesThreads, IsThreadEntry, SpawnCount, SpawnedInLoop,
       AppearsInSeveralUnits, HasLockSummary, HasJoinedParameters, ResolvesHandleElsewhere

\* Which objects a unit's threads are handed, and which of them go by their owner's name.
BoundIn(ir, index) ==
  {e \in DOMAIN ir.bindings :
     ~(\E f \in ir.bindings[e].settledThrough : AppearsInSeveralUnits(index, f))}

OwnersIn(ir, index, e) ==
  {g \in ir.bindings[e].globals : g \in ir.defGlobals \/ g \in index.definedGlobals}

LEMMA BoundFields ==
  ASSUME NEW ir, NEW sel, SelectsLockState(sel), NEW index
  PROVE  /\ DOMAIN Bindings(ir, sel, TRUE, index) = BoundIn(ir, index)
         /\ \A e \in BoundIn(ir, index) :
              Bindings(ir, sel, TRUE, index)[e].byOwner = OwnersIn(ir, index, e)
BY Zenon DEF Bindings, BoundIn, OwnersIn

\* The entries a unit names itself, in a selection that needs them.
LEMMA OwnEntries ==
  ASSUME NEW ir, NEW sel, "threadEntries" \in sel.facts
  PROVE  SpawnedEntries(ir, sel, TRUE) = DOMAIN ir.spawns
BY Zenon DEF SpawnedEntries, SelectsSpawns, Selects

(***************************************************************************)
(* The gate.  When it stays shut, each of the fields a selected rule reads *)
(* is the same against the program's index as against the empty one.       *)
(***************************************************************************)
LEMMA GateEntries ==
  ASSUME NEW ir, IsUnitIR(ir), NEW sel, "threadEntries" \in sel.facts, NEW index,
         NEW a, a = BuildFacts(ir, sel, TRUE, EmptyIndex), ~EntryChanged(a, index)
  PROVE  EntryConcurrency(ir, sel, TRUE, EmptyIndex) = EntryConcurrency(ir, sel, TRUE, index)
<1> DEFINE own == DOMAIN ir.spawns
           Count(f) == IF f \in own THEN OwnSpawnCount(ir, sel, f) ELSE 0
           Loop(f)  == f \in own /\ ir.spawns[f].loop
           imported == {f \in ir.defFunctions : IsThreadEntry(index, f)}
<1>0. Builds(ir, sel, EmptyIndex, a)
  BY BuiltFields, Zenon
<1>1. EntryConcurrency(ir, sel, TRUE, EmptyIndex) =
        [f \in own |-> [staticSpawnCount |-> Count(f), hasSpawnInLoop |-> Loop(f)]]
  <2>1. SpawnedEntries(ir, sel, TRUE) = own
    BY OwnEntries, Zenon
  <2>2. {f \in ir.defFunctions : TRUE /\ IsThreadEntry(EmptyIndex, f)} = {}
    BY EmptyIndexFacts, Zenon
  <2>3. QED
    BY <2>1, <2>2, Zenon DEF EntryConcurrency
<1>2. a.functionSymbols \ a.declaredFunctions = ir.defFunctions
  BY <1>0, Zenon DEF IsUnitIR, Builds
<1>3. a.entryConcurrency = [f \in own |-> [staticSpawnCount |-> Count(f), hasSpawnInLoop |-> Loop(f)]]
  BY <1>1, <1>0, Zenon DEF Builds
<1>4. ASSUME NEW f \in imported
      PROVE  f \in own /\ ~(SpawnCount(index, f) > Count(f)) /\ (SpawnedInLoop(index, f) => Loop(f))
  <2>1. f \in DOMAIN a.entryConcurrency
    BY <1>2, Zenon DEF EntryChanged
  <2>2. a.entryConcurrency[f] = [staticSpawnCount |-> Count(f), hasSpawnInLoop |-> Loop(f)]
    BY <1>3, <2>1, Zenon
  <2>3. f \in ir.defFunctions /\ IsThreadEntry(index, f)
    BY <1>4, Zenon
  <2>4. /\ ~(SpawnCount(index, f) > a.entryConcurrency[f].staticSpawnCount)
        /\ ~(SpawnedInLoop(index, f) /\ ~a.entryConcurrency[f].hasSpawnInLoop)
    BY <1>2, <2>3, Zenon DEF EntryChanged
  <2>5. f \in own
    BY <1>3, <2>1, Zenon
  <2> HIDE DEF Count, Loop, own, imported
  <2> DEFINE entry == a.entryConcurrency[f]
  <2>6. /\ entry = [staticSpawnCount |-> Count(f), hasSpawnInLoop |-> Loop(f)]
        /\ ~(SpawnCount(index, f) > entry.staticSpawnCount)
        /\ ~(SpawnedInLoop(index, f) /\ ~entry.hasSpawnInLoop)
    BY <2>2, <2>4, Zenon
  <2> HIDE DEF entry
  <2>7. entry.staticSpawnCount = Count(f)
    BY <2>6, Zenon
  <2>8. entry.hasSpawnInLoop <=> Loop(f)
    BY <2>6, Zenon
  <2>9. QED
    BY <2>5, <2>6, <2>7, <2>8, Zenon
<1>5. EntryConcurrency(ir, sel, TRUE, index) =
        [f \in own \cup imported |->
           [staticSpawnCount |-> IF f \in imported /\ SpawnCount(index, f) > Count(f)
                                 THEN SpawnCount(index, f) ELSE Count(f),
            hasSpawnInLoop   |-> \/ Loop(f)
                                 \/ f \in imported /\ SpawnedInLoop(index, f)]]
  <2>1. SpawnedEntries(ir, sel, TRUE) = own
    BY OwnEntries, Zenon
  <2>2. {f \in ir.defFunctions : TRUE /\ IsThreadEntry(index, f)} = imported
    OBVIOUS
  <2>3. QED
    BY <2>1, <2>2, Zenon DEF EntryConcurrency
<1> HIDE DEF own, Count, Loop, imported
<1>6. own \cup imported = own
  BY <1>4, Zenon
<1>7. \A f \in own : Loop(f) = (Loop(f) \/ (f \in imported /\ SpawnedInLoop(index, f)))
  BY <1>4, Zenon DEF Loop
<1>8. QED
  BY <1>1, <1>4, <1>5, <1>6, <1>7, Zenon

\* When the gate sees no change, each selected rule consults the same facts with the index as
\* without it.
LEMMA GateKeeps ==
  ASSUME NEW ir, IsUnitIR(ir), NEW rules \in SUBSET Rules, NEW rule \in rules,
         NEW sel, sel = ForRules(rules, TRUE), NEW index,
         NEW a, a = BuildFacts(ir, sel, TRUE, EmptyIndex),
         NEW b, b = BuildFacts(ir, sel, TRUE, index),
         ~CrossTUChangesFacts(a, index, sel)
  PROVE  SameForRule(rule, a, b) /\ SameHanded(rule, sel.channels, a, b)
<1>0. Builds(ir, sel, EmptyIndex, a) /\ Builds(ir, sel, index, b)
  BY BuiltFields, Zenon
<1>00. Processes(ir, sel, EmptyIndex, a) /\ Processes(ir, sel, index, b)
  BY ProcessFields, Zenon
<1>1. ASSUME rule \in Shared PROVE a.sharedGlobals = b.sharedGlobals
  <2>1. "accesses" \in sel.facts /\ "externGlobals" \in sel.channels
    BY <1>1, SelectedFacts, Zenon
  <2>2. ir.declGlobals \cap index.definedGlobals = {}
    BY <2>1, <1>0, Zenon DEF CrossTUChangesFacts, Builds
  <2>3. /\ a.sharedGlobals = ir.defGlobals \cup {g \in ir.declGlobals : g \in EmptyIndex.definedGlobals}
        /\ b.sharedGlobals = ir.defGlobals \cup {g \in ir.declGlobals : g \in index.definedGlobals}
    BY <2>1, <1>0, Zenon DEF Builds
  <2>4. QED
    BY <2>2, <2>3, EmptyIndexFacts, Zenon
<1>2. ASSUME rule \in Entries PROVE a.entryConcurrency = b.entryConcurrency
  <2>1. "threadEntries" \in sel.facts /\ ~EntryChanged(a, index)
    BY <1>2, SelectedFacts, Zenon DEF CrossTUChangesFacts
  <2>2. QED
    <3>1. EntryConcurrency(ir, sel, TRUE, EmptyIndex) = EntryConcurrency(ir, sel, TRUE, index)
      BY <2>1, GateEntries, Zenon
    <3>2. QED
      BY <1>0, <3>1, Zenon DEF Builds
<1>3. ASSUME rule \in Locking
      PROVE  a.lockWrapperSummaries = b.lockWrapperSummaries
  <2>1. SelectsLockWrapperSummaries(sel) /\ "helperLockEffects" \in sel.channels
    BY <1>3, SelectedFacts, Zenon
  <2>2. \A f \in ir.declFunctions : ~HasLockSummary(index, f)
    BY <2>1, <1>0, Zenon DEF CrossTUChangesFacts, HelpersChanged, Builds
  <2>3. {d \in ir.declFunctions : TRUE /\ HasLockSummary(index, d)} = {}
    BY <2>2, Zenon
  <2>4. {d \in ir.declFunctions : TRUE /\ HasLockSummary(EmptyIndex, d)} = {}
    BY EmptyIndexFacts, Zenon
  <2>5. LockWrapperSummaries(ir, sel, TRUE, index) = LockWrapperSummaries(ir, sel, TRUE, EmptyIndex)
    BY <2>1, <2>3, <2>4, Zenon DEF LockWrapperSummaries
  <2>6. QED
    BY <2>5, <1>0, Zenon DEF Builds
<1>4. ASSUME rule \in Joining PROVE a.knownJoins = b.knownJoins
  <2>1. "helperJoins" \in sel.channels /\ ReadsCompletions(sel)
    BY <1>4, SelectedFacts, Zenon
  <2>2. \A f \in ir.declFunctions : ~HasJoinedParameters(index, f)
    BY <2>1, <1>0, Zenon DEF CrossTUChangesFacts, HelpersChanged, Builds
  <2>3. {d \in ir.declFunctions : TRUE /\ HasJoinedParameters(index, d)} = {}
    BY <2>2, Zenon
  <2>4. {d \in ir.declFunctions : TRUE /\ HasJoinedParameters(EmptyIndex, d)} = {}
    BY EmptyIndexFacts, Zenon
  <2>5. KnownJoins(ir, sel, TRUE, index) = KnownJoins(ir, sel, TRUE, EmptyIndex)
    BY <2>1, <2>3, <2>4, Zenon DEF KnownJoins
  <2>6. QED
    BY <2>5, <1>0, Zenon DEF Builds
<1>5. ASSUME rule = "MissingJoin" PROVE a.lifecycles = b.lifecycles
  <2>1. "threadLifecycles" \in sel.facts /\ "resolvedHandles" \in sel.channels
    BY <1>5, SelectedFacts, Zenon
  <2>2. /\ a.lifecycles = ThreadLifecycles(ir, sel, TRUE, EmptyIndex)
        /\ b.lifecycles = ThreadLifecycles(ir, sel, TRUE, index)
    BY <1>0, Zenon DEF Builds
  <2>3. a.lifecycles = [h \in DOMAIN ir.handles |-> ir.handles[h]]
    BY <2>1, <2>2, EmptyIndexFacts, Zenon DEF ThreadLifecycles
  <2>4. \A h \in DOMAIN ir.handles : ir.handles[h].creates > 0 => ~ResolvesHandleElsewhere(index, h)
    BY <2>1, <2>3, Zenon DEF CrossTUChangesFacts
  <2>5. ASSUME NEW h \in DOMAIN ir.handles, ResolvesHandleElsewhere(index, h)
        PROVE  ir.handles[h] = [creates |-> 0, resolves |-> ir.handles[h].resolves,
                                onAllPaths |-> TRUE, looped |-> FALSE]
    <3>1. ir.handles[h] \in [creates : Nat, resolves : Nat, onAllPaths : BOOLEAN, looped : BOOLEAN]
      BY Zenon DEF IsUnitIR
    <3>2. ir.handles[h].creates = 0
      BY <2>4, <2>5, <3>1
    <3>3. ir.handles[h].onAllPaths = TRUE /\ ir.handles[h].looped = FALSE
      BY <3>1, <3>2, Zenon DEF IsUnitIR
    <3>4. QED
      BY <3>1, <3>2, <3>3, Zenon
  <2>6. b.lifecycles = [h \in DOMAIN ir.handles |->
                          IF ResolvesHandleElsewhere(index, h)
                          THEN [creates |-> 0, resolves |-> ir.handles[h].resolves,
                                onAllPaths |-> TRUE, looped |-> FALSE]
                          ELSE ir.handles[h]]
    BY <2>1, <2>2, Zenon DEF ThreadLifecycles
  <2>7. QED
    BY <2>3, <2>5, <2>6, Zenon
<1>6. ASSUME rule = "ForkAfterThreadCreation"
      PROVE  (a.forks /\ a.programCreatesThreads) = (b.forks /\ b.programCreatesThreads)
  <2>1. "processLifecycle" \in sel.facts /\ "programThreads" \in sel.channels
    BY <1>6, SelectedFacts, Zenon
  <2>2. ~(a.forks /\ ~a.programCreatesThreads /\ ProgramCreatesThreads(index))
    BY <2>1, Zenon DEF CrossTUChangesFacts, ForksChanged
  <2>3. QED
    BY <2>1, <2>2, <1>00, EmptyIndexFacts, Zenon DEF Processes
<1>7. ASSUME rule = "UnreapedChildProcess"
      PROVE  (a.forks /\ ~a.reapsChildProcesses) = (b.forks /\ ~b.reapsChildProcesses)
  <2>1. "processLifecycle" \in sel.facts /\ "programReaps" \in sel.channels
    BY <1>7, SelectedFacts, Zenon
  <2>2. ~(a.forks /\ ~a.reapsChildProcesses /\ index.reapsChildren)
    BY <2>1, Zenon DEF CrossTUChangesFacts, ForksChanged
  <2>3. QED
    BY <2>1, <2>2, <1>00, EmptyIndexFacts, Zenon DEF Processes
<1>8. ASSUME rule \in Entries PROVE SameHanded(rule, sel.channels, a, b)
  <2>1. SelectsLockState(sel) /\ "entryConcurrency" \in sel.channels
    BY <1>8, SelectedFacts, Zenon
  <2>2. a.settlingFunctions = UNION {ir.bindings[e].settledThrough : e \in DOMAIN ir.bindings}
    BY <2>1, <1>0, Zenon DEF Builds
  <2>3. \A f \in a.settlingFunctions : ~AppearsInSeveralUnits(index, f)
    BY <2>1, Zenon DEF CrossTUChangesFacts, EntryChanged
  <2>4. \A e \in DOMAIN ir.bindings : \A f \in ir.bindings[e].settledThrough :
          ~AppearsInSeveralUnits(index, f)
    BY <2>2, <2>3, Zenon
  <2>5. /\ a.bindings = Bindings(ir, sel, TRUE, EmptyIndex)
        /\ b.bindings = Bindings(ir, sel, TRUE, index)
    BY <1>0, Zenon DEF Builds
  <2>6. /\ DOMAIN a.bindings = BoundIn(ir, EmptyIndex)
        /\ DOMAIN b.bindings = BoundIn(ir, index)
        /\ \A e \in BoundIn(ir, EmptyIndex) : a.bindings[e].byOwner = OwnersIn(ir, EmptyIndex, e)
        /\ \A e \in BoundIn(ir, index) : b.bindings[e].byOwner = OwnersIn(ir, index, e)
    BY <2>1, <2>5, BoundFields, Zenon
  <2>7. /\ BoundIn(ir, index) = DOMAIN ir.bindings
        /\ BoundIn(ir, EmptyIndex) = DOMAIN ir.bindings
    BY <2>4, EmptyIndexFacts, Zenon DEF BoundIn
  <2>8. ASSUME "externGlobals" \in sel.channels, NEW e \in DOMAIN ir.bindings
        PROVE  a.bindings[e].byOwner = b.bindings[e].byOwner
    <3>1. ir.declGlobals \cap index.definedGlobals = {}
      BY <1>0, <2>8, Zenon DEF CrossTUChangesFacts, Builds
    <3>2. ir.bindings[e].globals \subseteq ir.defGlobals \cup ir.declGlobals
      BY Zenon DEF IsUnitIR
    <3>3. OwnersIn(ir, EmptyIndex, e) = OwnersIn(ir, index, e)
      BY <3>1, <3>2, EmptyIndexFacts, Zenon DEF OwnersIn
    <3>4. QED
      BY <2>6, <2>7, <3>3, Zenon
  <2>9. QED
    BY <2>6, <2>7, <2>8, Zenon DEF SameHanded
<1>9. SameForRule(rule, a, b)
  BY <1>1, <1>2, <1>3, <1>4, <1>5, <1>6, <1>7, Zenon DEF SameForRule
<1>10. QED
  BY <1>8, <1>9, Zenon DEF SameHanded

(***************************************************************************)
(* The invariant: what each pass has settled is a function of the project  *)
(* and the rules, and the twin's inputs differ from the base's in one way. *)
(***************************************************************************)
RunFields == {"project", "rules", "variation", "alone", "compatible", "index", "reanalyzed", "facts"}

AloneOf(run) ==
  [u \in DOMAIN run.project |->
     BuildFacts(run.project[u], SelectionOf(run), TRUE, EmptyIndex)]

AbisOf(run) == [u \in DOMAIN run.alone |-> run.alone[u].abiKey]

AgainOf(run) ==
  {u \in run.compatible : CrossTUChangesFacts(run.alone[u], run.index, SelectionOf(run))}

SettledOf(run) ==
  [u \in run.compatible |->
     IF u \in run.reanalyzed
     THEN BuildFacts(run.project[u], SelectionOf(run), TRUE, run.index)
     ELSE run.alone[u]]

RunOK(run, at, irs) ==
  /\ DOMAIN run = RunFields
  /\ run.project \in Seq(irs)
  /\ run.rules \in SUBSET Rules
  /\ at \in {"fold", "passB", "done"} => run.alone = AloneOf(run)
  /\ at \in {"passB", "done"} => /\ run.compatible = CompatibleUnits(AbisOf(run))
                                 /\ run.index = FoldIndex(run.alone, run.compatible)
  /\ at = "done" => run.reanalyzed = AgainOf(run) /\ run.facts = SettledOf(run)

Paired(run, other) ==
  /\ other.variation \in {"same", "reversed", "narrow"}
  /\ other.variation = "same" => other.project = run.project /\ other.rules = run.rules
  /\ other.variation = "reversed" => /\ other.project = Reversed(run.project)
                                     /\ other.rules = run.rules
  /\ other.variation = "narrow" => /\ other.project = run.project
                                   /\ \E rule \in run.rules : other.rules = {rule}

Inv ==
  /\ family \in DOMAIN Families
  /\ stage \in {"adding", "passA", "fold", "passB", "done"}
  /\ RunOK(base, stage, Families[family].irs)
  /\ RunOK(twin, stage, Families[family].irs)
  /\ stage = "adding" => twin = base /\ base.variation = "same"
  /\ stage # "adding" => Paired(base, twin)

\* A pass keeps the inputs of an analysis.
Keeps(run, next) ==
  /\ DOMAIN run = RunFields => DOMAIN next = RunFields
  /\ next.project = run.project /\ next.rules = run.rules /\ next.variation = run.variation

\* Pass A sets a run's facts built alone and nothing else.
LEMMA PassAFields ==
  ASSUME NEW run, DOMAIN run = RunFields
  PROVE  Keeps(run, PassA(run)) /\ PassA(run).alone = AloneOf(run)
BY Zenon DEF PassA, Keeps, AloneOf, RunFields

\* The fold sets the compatible units and the index and nothing else.
LEMMA FoldFields ==
  ASSUME NEW run, DOMAIN run = RunFields
  PROVE  /\ Keeps(run, Fold(run)) /\ Fold(run).alone = run.alone
         /\ Fold(run).compatible = CompatibleUnits(AbisOf(run))
         /\ Fold(run).index = FoldIndex(run.alone, CompatibleUnits(AbisOf(run)))
BY Zenon DEF Fold, Keeps, AbisOf, RunFields

\* Pass B sets the units analysed again and their facts and nothing else.
LEMMA PassBFields ==
  ASSUME NEW run, DOMAIN run = RunFields
  PROVE  /\ Keeps(run, PassB(run)) /\ PassB(run).alone = run.alone
         /\ PassB(run).compatible = run.compatible /\ PassB(run).index = run.index
         /\ PassB(run).reanalyzed = AgainOf(run)
         /\ PassB(run).facts =
              [u \in run.compatible |->
                 IF u \in AgainOf(run)
                 THEN BuildFacts(run.project[u], SelectionOf(run), TRUE, run.index)
                 ELSE run.alone[u]]
BY Zenon DEF PassB, Keeps, AgainOf, RunFields

\* Pass A takes a run ready for it to one ready to be folded.
LEMMA PassAOK ==
  ASSUME NEW irs, NEW run, RunOK(run, "passA", irs)
  PROVE  RunOK(PassA(run), "fold", irs) /\ Keeps(run, PassA(run))
<1> DEFINE next == PassA(run)
<1>1. Keeps(run, next) /\ next.alone = AloneOf(run)
  BY PassAFields, Zenon DEF RunOK
<1> HIDE DEF next
<1>2. AloneOf(next) = AloneOf(run)
  BY <1>1, Zenon DEF AloneOf, SelectionOf, Keeps
<1>3. RunOK(next, "fold", irs)
  BY <1>1, <1>2, Zenon DEF RunOK, Keeps
<1>4. QED
  BY <1>1, <1>3, Zenon DEF next

\* The fold takes a run ready for it to one ready for pass B.
LEMMA FoldOK ==
  ASSUME NEW irs, NEW run, RunOK(run, "fold", irs)
  PROVE  RunOK(Fold(run), "passB", irs) /\ Keeps(run, Fold(run))
<1> DEFINE next == Fold(run)
<1>1. /\ Keeps(run, next) /\ next.alone = run.alone
      /\ next.compatible = CompatibleUnits(AbisOf(run))
      /\ next.index = FoldIndex(run.alone, CompatibleUnits(AbisOf(run)))
  BY FoldFields, Zenon DEF RunOK
<1> HIDE DEF next
<1>2. AloneOf(next) = AloneOf(run) /\ AbisOf(next) = AbisOf(run)
  BY <1>1, Zenon DEF AloneOf, AbisOf, SelectionOf, Keeps
<1>3. RunOK(next, "passB", irs)
  BY <1>1, <1>2, Zenon DEF RunOK, Keeps
<1>4. QED
  BY <1>1, <1>3, Zenon DEF next

\* Pass B takes a run ready for it to a finished one.
LEMMA PassBOK ==
  ASSUME NEW irs, NEW run, RunOK(run, "passB", irs)
  PROVE  RunOK(PassB(run), "done", irs) /\ Keeps(run, PassB(run))
<1> DEFINE next == PassB(run)
<1>1. /\ Keeps(run, next) /\ next.alone = run.alone
      /\ next.compatible = run.compatible /\ next.index = run.index
      /\ next.reanalyzed = AgainOf(run)
      /\ next.facts = [u \in run.compatible |->
                         IF u \in AgainOf(run)
                         THEN BuildFacts(run.project[u], SelectionOf(run), TRUE, run.index)
                         ELSE run.alone[u]]
  BY PassBFields, Zenon DEF RunOK
<1> HIDE DEF next
<1>2. SelectionOf(next) = SelectionOf(run)
  BY <1>1, Zenon DEF SelectionOf, Keeps
<1>3. AloneOf(next) = AloneOf(run) /\ AbisOf(next) = AbisOf(run) /\ AgainOf(next) = AgainOf(run)
  BY <1>1, <1>2, Zenon DEF AloneOf, AbisOf, AgainOf, Keeps
<1>4. next.facts = SettledOf(next)
  BY <1>1, <1>2, <1>3, Zenon DEF SettledOf, Keeps
<1>5. RunOK(next, "done", irs)
  BY <1>1, <1>3, <1>4, Zenon DEF RunOK, Keeps
<1>6. QED
  BY <1>1, <1>5, Zenon DEF next

\* A pass leaves the two runs about the same project, or about its reversal.
LEMMA PairedKeeps ==
  ASSUME NEW run, NEW other, Paired(run, other), NEW run2, Keeps(run, run2),
         NEW other2, Keeps(other, other2)
  PROVE  Paired(run2, other2)
BY Zenon DEF Paired, Keeps

\* The invariant holds before any unit is added.
LEMMA InvInit == Init => Inv
<1> SUFFICES ASSUME Init PROVE Inv
  OBVIOUS
<1>1. PICK rules \in RuleSets : base = Analysis(<<>>, rules)
  BY Zenon DEF Init
<1>2. rules \in SUBSET Rules
  BY RuleSetsAssumption, Zenon
<1>3. /\ base.project = <<>> /\ base.rules = rules /\ base.variation = "same"
      /\ DOMAIN base = RunFields
  BY <1>1, Zenon DEF Analysis, RunFields
<1>4. family \in DOMAIN Families /\ stage = "adding" /\ twin = base
  BY Zenon DEF Init
<1>5. <<>> \in Seq(Families[family].irs)
  OBVIOUS
<1>6. RunOK(base, stage, Families[family].irs)
  BY <1>2, <1>3, <1>4, <1>5, Zenon DEF RunOK
<1>7. QED
  BY <1>3, <1>4, <1>6, Zenon DEF Inv

\* Adding a unit to the project keeps the invariant.
LEMMA InvAdd ==
  ASSUME Inv, NEW ir \in Families[family].irs, Add(ir)
  PROVE  Inv'
<1>1. /\ stage = "adding" /\ stage' = "adding" /\ family' = family
      /\ base' = [base EXCEPT !.project = Append(base.project, ir)] /\ twin' = base'
  BY Zenon DEF Add
<1>2. RunOK(base, "adding", Families[family].irs) /\ base.variation = "same"
  BY <1>1, Zenon DEF Inv
<1>3. /\ base'.project = Append(base.project, ir) /\ base'.rules = base.rules
      /\ base'.variation = base.variation /\ DOMAIN base' = RunFields
  BY <1>1, <1>2, Zenon DEF RunOK, RunFields
<1>4. Append(base.project, ir) \in Seq(Families[family].irs)
  <2>1. base.project \in Seq(Families[family].irs)
    BY <1>2, Zenon DEF RunOK
  <2>2. \A irs : \A project \in Seq(irs), new \in irs : Append(project, new) \in Seq(irs)
    OBVIOUS
  <2>3. QED
    BY <2>1, <2>2, Zenon
<1>5. RunOK(base', "adding", Families[family].irs)
  BY <1>2, <1>3, <1>4, Zenon DEF RunOK
<1>6. QED
  BY <1>1, <1>2, <1>3, <1>5, Zenon DEF Inv

\* Choosing the rules and the twin run keeps the invariant.
LEMMA InvBegin ==
  ASSUME Inv, Begin
  PROVE  Inv'
<1> DEFINE irs == Families[family].irs
<1>1. /\ stage = "adding" /\ stage' = "passA" /\ family' = family /\ base' = base
      /\ twin' \in TwinsOf(base)
  BY Zenon DEF Begin
<1>2. RunOK(base, "adding", irs) /\ base.variation = "same"
  BY <1>1, Zenon DEF Inv
<1>3. /\ DOMAIN base = RunFields /\ base.project \in Seq(irs) /\ base.rules \in SUBSET Rules
  BY <1>2, Zenon DEF RunOK
<1>4. \/ twin' = [base EXCEPT !.variation = "same"]
      \/ twin' = [base EXCEPT !.variation = "reversed", !.project = Reversed(base.project)]
      \/ \E rule \in base.rules : twin' = [base EXCEPT !.variation = "narrow", !.rules = {rule}]
  BY <1>1, Zenon DEF TwinsOf
<1>5. /\ DOMAIN twin' = RunFields /\ twin'.project \in {base.project, Reversed(base.project)}
      /\ twin'.rules \in SUBSET Rules /\ Paired(base, twin')
  <2>1. CASE twin' = [base EXCEPT !.variation = "same"]
    <3>1. /\ DOMAIN twin' = RunFields /\ twin'.project = base.project
          /\ twin'.rules = base.rules /\ twin'.variation = "same"
      BY <1>3, <2>1, Zenon DEF RunFields
    <3>2. QED
      BY <1>3, <3>1, Zenon DEF Paired
  <2>2. CASE twin' = [base EXCEPT !.variation = "reversed", !.project = Reversed(base.project)]
    <3>1. /\ DOMAIN twin' = RunFields /\ twin'.project = Reversed(base.project)
          /\ twin'.rules = base.rules /\ twin'.variation = "reversed"
      BY <1>3, <2>2, Zenon DEF RunFields
    <3>2. QED
      BY <1>3, <3>1, Zenon DEF Paired
  <2>3. ASSUME NEW rule \in base.rules,
               twin' = [base EXCEPT !.variation = "narrow", !.rules = {rule}]
        PROVE  <1>5!:
    <3>1. /\ DOMAIN twin' = RunFields /\ twin'.project = base.project
          /\ twin'.rules = {rule} /\ twin'.variation = "narrow"
      BY <1>3, <2>3, Zenon DEF RunFields
    <3>2. {rule} \in SUBSET Rules
      BY <1>3, Zenon
    <3>3. QED
      BY <3>1, <3>2, Zenon DEF Paired
  <2>4. QED
    BY <1>4, <2>1, <2>2, <2>3, Zenon
<1>6. Reversed(base.project) \in Seq(irs)
  <2>1. /\ DOMAIN base.project = 1..Len(base.project) /\ Len(base.project) \in Nat
        /\ \A u \in 1..Len(base.project) : base.project[u] \in irs
    BY <1>3
  <2>2. \A u \in 1..Len(base.project) : Len(base.project) + 1 - u \in 1..Len(base.project)
    BY <2>1
  <2>3. Reversed(base.project) \in [1..Len(base.project) -> irs]
    BY <2>1, <2>2, Zenon DEF Reversed
  <2>4. QED
    BY <2>1, <2>3
<1>7. RunOK(base, "passA", irs) /\ RunOK(twin', "passA", irs)
  BY <1>2, <1>3, <1>5, <1>6, Zenon DEF RunOK
<1>8. QED
  BY <1>1, <1>5, <1>7, Zenon DEF Inv

\* Every step keeps the invariant.
LEMMA InvStep ==
  ASSUME Inv, [Next]_vars
  PROVE  Inv'
<1>1. CASE UNCHANGED vars
  <2>1. UNCHANGED <<family, stage, base, twin>>
    BY <1>1, Zenon DEF vars
  <2>2. QED
    BY <2>1, Zenon DEF Inv
<1>2. ASSUME NEW ir \in Families[family].irs, Add(ir) PROVE Inv'
  BY <1>2, InvAdd, Zenon
<1>3. CASE Begin
  BY <1>3, InvBegin, Zenon
<1>4. CASE RunPassA
  <2>1. /\ stage = "passA" /\ stage' = "fold" /\ family' = family
        /\ base' = PassA(base) /\ twin' = PassA(twin)
    BY <1>4, Zenon DEF RunPassA, Step
  <2>2. /\ RunOK(PassA(base), "fold", Families[family].irs) /\ Keeps(base, PassA(base))
        /\ RunOK(PassA(twin), "fold", Families[family].irs) /\ Keeps(twin, PassA(twin))
    BY <2>1, PassAOK, Zenon DEF Inv
  <2>3. Paired(base', twin')
    BY <2>1, <2>2, PairedKeeps, Zenon DEF Inv
  <2>4. QED
    BY <2>1, <2>2, <2>3, Zenon DEF Inv
<1>5. CASE RunFold
  <2>1. /\ stage = "fold" /\ stage' = "passB" /\ family' = family
        /\ base' = Fold(base) /\ twin' = Fold(twin)
    BY <1>5, Zenon DEF RunFold, Step
  <2>2. /\ RunOK(Fold(base), "passB", Families[family].irs) /\ Keeps(base, Fold(base))
        /\ RunOK(Fold(twin), "passB", Families[family].irs) /\ Keeps(twin, Fold(twin))
    BY <2>1, FoldOK, Zenon DEF Inv
  <2>3. Paired(base', twin')
    BY <2>1, <2>2, PairedKeeps, Zenon DEF Inv
  <2>4. QED
    BY <2>1, <2>2, <2>3, Zenon DEF Inv
<1>6. CASE RunPassB
  <2>1. /\ stage = "passB" /\ stage' = "done" /\ family' = family
        /\ base' = PassB(base) /\ twin' = PassB(twin)
    BY <1>6, Zenon DEF RunPassB, Step
  <2>2. /\ RunOK(PassB(base), "done", Families[family].irs) /\ Keeps(base, PassB(base))
        /\ RunOK(PassB(twin), "done", Families[family].irs) /\ Keeps(twin, PassB(twin))
    BY <2>1, PassBOK, Zenon DEF Inv
  <2>3. Paired(base', twin')
    BY <2>1, <2>2, PairedKeeps, Zenon DEF Inv
  <2>4. QED
    BY <2>1, <2>2, <2>3, Zenon DEF Inv
<1>7. QED
  BY <1>1, <1>2, <1>3, <1>4, <1>5, <1>6, Zenon DEF Next

\* The invariant of the two runs holds throughout.
LEMMA InvHolds == Spec => []Inv
<1>1. Inv /\ [Next]_vars => Inv'
  BY InvStep, Zenon
<1>2. QED
  BY InvInit, <1>1, PTL DEF Spec

(***************************************************************************)
(* What holds of one analysis once it is done.                             *)
(***************************************************************************)
LEMMA DoneFacts ==
  ASSUME NEW irs, NEW run, RunOK(run, "done", irs), \A ir \in irs : IsUnitIR(ir)
  PROVE  /\ Len(run.project) \in Nat /\ DOMAIN run.project = 1..Len(run.project)
         /\ DOMAIN run.alone = 1..Len(run.project)
         /\ run.compatible \subseteq 1..Len(run.project)
         /\ run.reanalyzed \subseteq run.compatible /\ DOMAIN run.facts = run.compatible
         /\ run.rules \in SUBSET Rules
         /\ \A u \in 1..Len(run.project) :
              /\ IsUnitIR(run.project[u])
              /\ run.alone[u] = BuildFacts(run.project[u], SelectionOf(run), TRUE, EmptyIndex)
         /\ \A u \in run.compatible \ run.reanalyzed :
              /\ ~CrossTUChangesFacts(run.alone[u], run.index, SelectionOf(run))
              /\ run.facts[u] = run.alone[u]
         /\ \A u \in run.reanalyzed : run.facts[u] = Rebuilt(run, u)
<1>1. Len(run.project) \in Nat /\ DOMAIN run.project = 1..Len(run.project)
      /\ \A u \in 1..Len(run.project) : run.project[u] \in irs
  <2>1. run.project \in Seq(irs)
    BY Zenon DEF RunOK
  <2>2. QED
    BY <2>1
<1>2. run.alone = AloneOf(run) /\ run.reanalyzed = AgainOf(run) /\ run.facts = SettledOf(run)
      /\ run.compatible = CompatibleUnits(AbisOf(run)) /\ run.rules \in SUBSET Rules
  BY Zenon DEF RunOK
<1>3. DOMAIN run.alone = 1..Len(run.project)
  BY <1>1, <1>2, Zenon DEF AloneOf
<1>4. \A u \in 1..Len(run.project) :
        run.alone[u] = BuildFacts(run.project[u], SelectionOf(run), TRUE, EmptyIndex)
  BY <1>1, <1>2, Zenon DEF AloneOf
<1>5. run.compatible \subseteq 1..Len(run.project)
  BY <1>2, <1>3, Zenon DEF CompatibleUnits, AbisOf
<1>6. run.reanalyzed \subseteq run.compatible /\ DOMAIN run.facts = run.compatible
  BY <1>2, Zenon DEF AgainOf, SettledOf
<1>7. \A u \in run.compatible \ run.reanalyzed :
        /\ ~CrossTUChangesFacts(run.alone[u], run.index, SelectionOf(run))
        /\ run.facts[u] = run.alone[u]
  BY <1>2, Zenon DEF AgainOf, SettledOf
<1>8. \A u \in run.reanalyzed : run.facts[u] = Rebuilt(run, u)
  BY <1>2, <1>6, Zenon DEF SettledOf, Rebuilt
<1>9. QED
  BY <1>1, <1>2, <1>3, <1>4, <1>5, <1>6, <1>7, <1>8, Zenon

\* What the invariant says of two finished runs.
LEMMA DoneRuns ==
  ASSUME Inv, Done
  PROVE  /\ RunOK(base, "done", Families[family].irs) /\ RunOK(twin, "done", Families[family].irs)
         /\ \A ir \in Families[family].irs : IsUnitIR(ir)
         /\ Paired(base, twin)
BY FamiliesAssumption, Zenon DEF Inv, Done

\* A unit's facts give a rule what a rebuild against the index would give it.
LEMMA SettledSame ==
  ASSUME NEW irs, NEW run, RunOK(run, "done", irs), \A ir \in irs : IsUnitIR(ir),
         NEW u \in run.compatible, NEW rule \in run.rules
  PROVE  /\ SameForRule(rule, run.facts[u], Rebuilt(run, u))
         /\ SameHanded(rule, SelectionOf(run).channels, run.facts[u], Rebuilt(run, u))
<1>1. CASE u \in run.reanalyzed
  <2>1. run.facts[u] = Rebuilt(run, u)
    BY <1>1, DoneFacts, Zenon
  <2>2. QED
    BY <2>1, Zenon DEF SameForRule, SameHanded
<1>2. CASE u \notin run.reanalyzed
  <2>1. /\ u \in 1..Len(run.project) /\ IsUnitIR(run.project[u]) /\ run.rules \in SUBSET Rules
        /\ run.facts[u] = BuildFacts(run.project[u], SelectionOf(run), TRUE, EmptyIndex)
        /\ ~CrossTUChangesFacts(run.facts[u], run.index, SelectionOf(run))
    BY <1>2, DoneFacts, ZenonT(40)
  <2>2. QED
    BY <2>1, GateKeeps, Zenon DEF Rebuilt, SelectionOf
<1>3. QED
  BY <1>1, <1>2, Zenon

\* Read over the channels selected, or fewer, the two are the same.
LEMMA SettledReads ==
  ASSUME NEW irs, NEW run, RunOK(run, "done", irs), \A ir \in irs : IsUnitIR(ir),
         NEW u \in run.compatible, NEW rule \in run.rules,
         NEW channels \in SUBSET SelectionOf(run).channels
  PROVE  ReadsAlike(rule, channels, run.facts[u], Rebuilt(run, u))
<1>1. /\ SameForRule(rule, run.facts[u], Rebuilt(run, u))
      /\ SameHanded(rule, SelectionOf(run).channels, run.facts[u], Rebuilt(run, u))
  BY SettledSame, Zenon
<1>2. SameHanded(rule, channels, run.facts[u], Rebuilt(run, u))
  BY <1>1, Zenon DEF SameHanded
<1>3. run.rules \in SUBSET Rules
  BY DoneFacts, Zenon
<1>4. IsFacts(Rebuilt(run, u))
  BY BuiltFields, Zenon DEF Rebuilt, Builds
<1>5. IsFacts(run.facts[u])
  <2>1. u \notin run.reanalyzed =>
          run.facts[u] = BuildFacts(run.project[u], SelectionOf(run), TRUE, EmptyIndex)
    BY DoneFacts, ZenonT(40)
  <2>2. u \in run.reanalyzed => run.facts[u] = Rebuilt(run, u)
    BY DoneFacts, Zenon
  <2>3. CASE u \notin run.reanalyzed
    <3>1. Builds(run.project[u], SelectionOf(run), EmptyIndex, run.facts[u])
      BY <2>1, <2>3, BuiltFields, Zenon
    <3>2. QED
      BY <3>1, Zenon DEF Builds
  <2>4. QED
    BY <1>4, <2>2, <2>3, Zenon
<1>6. rule \in Rules
  BY <1>3, Zenon
<1>7. QED
  BY <1>1, <1>2, <1>4, <1>5, <1>6, ReadsSame, Zenon

\* The gate before the second pass misses nothing a selected rule reads (crossTUChangesFacts,
\* inter_tu_coordinator.cpp:44): a unit it lets go would give every selected rule the same facts
\* over the selected channels if it were analysed again, in any project and under any selection.
THEOREM GateMisses == Spec => []GateMissesNothing
<1>1. Inv => GateMissesNothing
  <2> SUFFICES ASSUME Inv, Done, NEW run \in {base, twin},
                      NEW u \in run.compatible \ run.reanalyzed, NEW rule \in run.rules
               PROVE  ReadsAlike(rule, SelectionOf(run).channels, run.alone[u], Rebuilt(run, u))
    BY Zenon DEF GateMissesNothing, ReadsAlike
  <2>1. /\ RunOK(run, "done", Families[family].irs)
        /\ \A ir \in Families[family].irs : IsUnitIR(ir)
    BY DoneRuns, Zenon
  <2>2. run.facts[u] = run.alone[u]
    BY <2>1, DoneFacts, Zenon
  <2>3. SelectionOf(run).channels \in SUBSET SelectionOf(run).channels
    OBVIOUS
  <2>4. QED
    BY <2>1, <2>2, <2>3, SettledReads, Zenon
<1>2. QED
  BY <1>1, InvHolds, PTL

(***************************************************************************)
(* Two facts about numbers that the lemmas below take as hypotheses:       *)
(* induction up to a number, and that a set of positions and its mirror    *)
(* image have as many members.  ProjectIndexProofs proves both from the    *)
(* library's well-founded orders and finite sets.                          *)
(***************************************************************************)
InductsUpTo ==
  \A n \in Nat : \A P :
    0 \in P /\ (\A k \in 0..n : k \in P /\ k < n => k + 1 \in P) => 0..n \subseteq P

MirrorCounts ==
  \A n \in Nat : \A S, T \in SUBSET (1..n) :
    (\A u \in 1..n : u \in T <=> n + 1 - u \in S) => Cardinality(T) = Cardinality(S)

(***************************************************************************)
(* The fold of the index is the recursion it is written as.                *)
(***************************************************************************)
Added(index, n, facts, compatible) == IF n \in compatible THEN AddUnit(index, n, facts[n]) ELSE index

\* The indexes the fold goes through: the empty one, then one more unit each time.
LEMMA IndexesUnfold ==
  ASSUME InductsUpTo, NEW facts, Len(facts) \in Nat, NEW compatible
  PROVE  /\ IndexesOf(facts, compatible)[0] = EmptyIndex
         /\ \A n \in 1..Len(facts) :
              IndexesOf(facts, compatible)[n]
                = Added(IndexesOf(facts, compatible)[n - 1], n, facts, compatible)
<1> DEFINE Grows(g, m) == /\ g[0] = EmptyIndex
                          /\ \A k \in 1..m : g[k] = Added(g[k - 1], k, facts, compatible)
           P == {m \in 0..Len(facts) : \E g : Grows(g, m)}
<1>1. 0..Len(facts) \subseteq P
  <2>1. 0 \in P
    <3> DEFINE g == [k \in {0} |-> EmptyIndex]
    <3>1. g[0] = EmptyIndex
      OBVIOUS
    <3>2. Grows(g, 0)
      BY <3>1
    <3> HIDE DEF g
    <3>3. 0 \in 0..Len(facts)
      OBVIOUS
    <3>4. QED
      BY <3>2, <3>3, Zenon
  <2>2. ASSUME NEW m \in 0..Len(facts), m \in P, m < Len(facts) PROVE m + 1 \in P
    <3>1. PICK g : Grows(g, m)
      BY <2>2, Zenon
    <3> DEFINE h == [k \in 0..(m + 1) |-> IF k = m + 1 THEN Added(g[m], m + 1, facts, compatible)
                                          ELSE g[k]]
    <3>2. h[0] = EmptyIndex
      BY <3>1
    <3>3. \A k \in 0..m : h[k] = g[k]
      OBVIOUS
    <3>4. h[m + 1] = Added(g[m], m + 1, facts, compatible)
      OBVIOUS
    <3> HIDE DEF h
    <3>5. \A k \in 1..(m + 1) : h[k] = Added(h[k - 1], k, facts, compatible)
      <4> TAKE k \in 1..(m + 1)
      <4>1. CASE k = m + 1
        <5>1. h[m] = g[m]
          BY <3>3
        <5>2. QED
          BY <3>4, <4>1, <5>1
      <4>2. CASE k # m + 1
        <5>1. k \in 1..m /\ k \in 0..m /\ k - 1 \in 0..m
          BY <4>2
        <5>2. h[k] = g[k] /\ h[k - 1] = g[k - 1]
          BY <3>3, <5>1, Zenon
        <5>3. QED
          BY <3>1, <5>1, <5>2, Zenon
      <4>3. QED
        BY <4>1, <4>2, Zenon
    <3>6. m + 1 \in 0..Len(facts) /\ Grows(h, m + 1)
      BY <2>2, <3>2, <3>5
    <3>7. QED
      BY <3>6, Zenon
  <2>3. QED
    BY <2>1, <2>2, Zenon DEF InductsUpTo
<1>2. PICK g : Grows(g, Len(facts))
  BY <1>1
<1> DEFINE Body(f) == [n \in 0..Len(facts) |->
                         IF n = 0 THEN EmptyIndex
                         ELSE IF n \in compatible THEN AddUnit(f[n - 1], n, facts[n])
                         ELSE f[n - 1]]
<1>3. \E f : f = Body(f)
  <2> DEFINE f == [n \in 0..Len(facts) |-> g[n]]
  <2>1. \A n \in 0..Len(facts) : f[n] = g[n]
    OBVIOUS
  <2>2. \A n \in 1..Len(facts) : f[n] = Added(f[n - 1], n, facts, compatible)
    BY <1>2, <2>1
  <2>3. f[0] = EmptyIndex
    BY <1>2, <2>1
  <2>4. f = [n \in 0..Len(facts) |-> f[n]]
    BY <2>1, Zenon
  <2> HIDE DEF f
  <2>5. \A n \in 0..Len(facts) :
          f[n] = IF n = 0 THEN EmptyIndex
                 ELSE IF n \in compatible THEN AddUnit(f[n - 1], n, facts[n]) ELSE f[n - 1]
    BY <2>2, <2>3 DEF Added
  <2>6. f = Body(f)
    BY <2>4, <2>5, Zenon
  <2>7. QED
    BY <2>6, Zenon
<1>4. IndexesOf(facts, compatible) = CHOOSE f : f = Body(f)
  BY Zenon DEF IndexesOf
<1>5. IndexesOf(facts, compatible) = Body(IndexesOf(facts, compatible))
  BY <1>3, <1>4, Zenon
<1>6. QED
  BY <1>5, SMTT(30) DEF Added

(***************************************************************************)
(* What the index knows once the units of the set V have been added: what  *)
(* they say together, in whatever order they came.                         *)
(***************************************************************************)
SpawnedIn(facts) == DOMAIN facts.entryConcurrency \cap facts.functionSymbols

PublishedBy(facts, table) ==
  {s \in DOMAIN table : s \in facts.functionSymbols /\ s \notin facts.declaredFunctions}

SetsKnown(index, F, V) ==
  /\ index.definedGlobals = UNION {F[v].definedGlobals : v \in V}
  /\ index.resolvedHandles = UNION {F[v].resolvedGlobalHandles : v \in V}
  /\ index.reapsChildren <=> \E v \in V : F[v].reapsChildProcesses

LocksKnown(index, F, V) ==
  /\ \A s : s \in DOMAIN index.lockSummaries
              <=> \E v \in V : s \in PublishedBy(F[v], F[v].lockWrapperSummaries)
  /\ \A s \in DOMAIN index.lockSummaries :
       \E v \in V : /\ s \in PublishedBy(F[v], F[v].lockWrapperSummaries)
                    /\ index.lockSummaries[s] = F[v].lockWrapperSummaries[s]

JoinsKnown(index, F, V) ==
  /\ \A s : s \in DOMAIN index.joiningHelpers
              <=> \E v \in V : s \in PublishedBy(F[v], F[v].joiningHelpers)
  /\ \A s \in DOMAIN index.joiningHelpers :
       \E v \in V : /\ s \in PublishedBy(F[v], F[v].joiningHelpers)
                    /\ index.joiningHelpers[s] = F[v].joiningHelpers[s]

UnitsKnown(index, F, V) ==
  /\ \A s : s \in DOMAIN index.unitsByFunction <=> \E v \in V : s \in F[v].functionSymbols
  /\ \A s \in DOMAIN index.unitsByFunction :
       /\ index.unitsByFunction[s].first \in V
       /\ index.unitsByFunction[s].several
            <=> \E v, w \in V : v # w /\ s \in F[v].functionSymbols /\ s \in F[w].functionSymbols

SpawnsKnown(index, F, V) ==
  /\ \A s : s \in DOMAIN index.spawnSites <=> \E v \in V : s \in SpawnedIn(F[v])
  /\ \A s \in DOMAIN index.spawnSites :
       index.spawnSites[s].insideLoop
         <=> \E v \in V : s \in SpawnedIn(F[v]) /\ F[v].entryConcurrency[s].hasSpawnInLoop

\* What the index's tables are after ProgramSymbolIndex::add.
LEMMA AddedFields ==
  ASSUME NEW index, NEW n, NEW facts, NEW next, next = AddUnit(index, n, facts)
  PROVE  /\ next.definedGlobals = index.definedGlobals \cup facts.definedGlobals
         /\ next.unitsByFunction = UnitsByFunction(index.unitsByFunction, n, facts)
         /\ next.reapsChildren <=> (index.reapsChildren \/ facts.reapsChildProcesses)
         /\ next.resolvedHandles = index.resolvedHandles \cup facts.resolvedGlobalHandles
         /\ next.lockSummaries = Emplace(index.lockSummaries,
                                         DefinedIn(facts, facts.lockWrapperSummaries))
         /\ next.joiningHelpers = Emplace(index.joiningHelpers,
                                          DefinedIn(facts, facts.joiningHelpers))
         /\ next.spawnSites = SpawnSites(index.spawnSites, facts)
BY Zenon DEF AddUnit

\* Adding a unit adds its globals, its handles and its reaping to the index.
LEMMA AddSets ==
  ASSUME NEW index, NEW F, NEW V, NEW n, n \notin V, NEW next, next = AddUnit(index, n, F[n]),
         SetsKnown(index, F, V)
  PROVE  SetsKnown(next, F, V \cup {n})
<1>1. /\ next.definedGlobals = index.definedGlobals \cup F[n].definedGlobals
      /\ next.reapsChildren <=> (index.reapsChildren \/ F[n].reapsChildProcesses)
      /\ next.resolvedHandles = index.resolvedHandles \cup F[n].resolvedGlobalHandles
  BY AddedFields
<1>2. QED
  BY <1>1 DEF SetsKnown

\* emplace keeps the summary a symbol already has and adds the ones that are new.
LEMMA EmplaceFacts ==
  ASSUME NEW facts, NEW old, NEW table, NEW new, new = Emplace(old, DefinedIn(facts, table))
  PROVE  /\ \A s : s \in DOMAIN new <=> s \in DOMAIN old \/ s \in PublishedBy(facts, table)
         /\ \A s \in DOMAIN old : new[s] = old[s]
         /\ \A s \in PublishedBy(facts, table) \ DOMAIN old : new[s] = table[s]
BY Zenon DEF Emplace, DefinedIn, PublishedBy

\* Adding a unit adds the lock and join summaries it publishes.
LEMMA AddHelpers ==
  ASSUME NEW index, NEW F, NEW V, NEW n, n \notin V, NEW next, next = AddUnit(index, n, F[n])
  PROVE  /\ LocksKnown(index, F, V) => LocksKnown(next, F, V \cup {n})
         /\ JoinsKnown(index, F, V) => JoinsKnown(next, F, V \cup {n})
<1>1. /\ next.lockSummaries = Emplace(index.lockSummaries,
                                      DefinedIn(F[n], F[n].lockWrapperSummaries))
      /\ next.joiningHelpers = Emplace(index.joiningHelpers,
                                       DefinedIn(F[n], F[n].joiningHelpers))
  BY AddedFields
<1>2. ASSUME LocksKnown(index, F, V) PROVE LocksKnown(next, F, V \cup {n})
  BY <1>1, <1>2, EmplaceFacts DEF LocksKnown
<1>3. ASSUME JoinsKnown(index, F, V) PROVE JoinsKnown(next, F, V \cup {n})
  BY <1>1, <1>3, EmplaceFacts DEF JoinsKnown
<1>4. QED
  BY <1>2, <1>3, Zenon

\* Adding a unit adds it to the units that define each of its functions.
LEMMA AddUnits ==
  ASSUME NEW index, NEW F, NEW V, NEW n, n \notin V, NEW next, next = AddUnit(index, n, F[n]),
         UnitsKnown(index, F, V)
  PROVE  UnitsKnown(next, F, V \cup {n})
<1> DEFINE old == index.unitsByFunction
           new == next.unitsByFunction
<1>1. new = UnitsByFunction(old, n, F[n])
  BY AddedFields
<1>2. \A s : s \in DOMAIN new <=> s \in DOMAIN old \/ s \in F[n].functionSymbols
  BY <1>1, Zenon DEF UnitsByFunction
<1>3. \A s \in DOMAIN new \ DOMAIN old : new[s] = [first |-> n, several |-> FALSE]
  BY <1>1, Zenon DEF UnitsByFunction
<1>4. \A s \in DOMAIN old :
        new[s] = [first |-> old[s].first,
                  several |-> \/ old[s].several
                              \/ s \in F[n].functionSymbols /\ old[s].first # n]
  BY <1>1, Zenon DEF UnitsByFunction
<1>5. \A s : s \in DOMAIN old <=> \E v \in V : s \in F[v].functionSymbols
  BY Zenon DEF UnitsKnown
<1>6. \A s \in DOMAIN old :
        /\ old[s].first \in V
        /\ old[s].several
             <=> \E v, w \in V : v # w /\ s \in F[v].functionSymbols /\ s \in F[w].functionSymbols
  BY Zenon DEF UnitsKnown
<1> HIDE DEF old, new
<1>7. \A s : s \in DOMAIN new <=> \E v \in V \cup {n} : s \in F[v].functionSymbols
  BY <1>2, <1>5, Zenon
<1>8. ASSUME NEW s \in DOMAIN new
      PROVE  /\ new[s].first \in V \cup {n}
             /\ new[s].several
                  <=> \E v, w \in V \cup {n} :
                        v # w /\ s \in F[v].functionSymbols /\ s \in F[w].functionSymbols
  <2> DEFINE entry == new[s]
  <2>1. CASE s \in DOMAIN old
    <3> DEFINE before == old[s]
    <3>1. entry = [first |-> before.first,
                   several |-> before.several \/ (s \in F[n].functionSymbols /\ before.first # n)]
      BY <1>4, <2>1, Zenon
    <3>2. /\ before.first \in V
          /\ before.several
               <=> \E v, w \in V : v # w /\ s \in F[v].functionSymbols /\ s \in F[w].functionSymbols
          /\ \E v \in V : s \in F[v].functionSymbols
      BY <1>5, <1>6, <2>1, Zenon
    <3> HIDE DEF entry, before
    <3>3. entry.first = before.first
      BY <3>1, Zenon
    <3>4. entry.several <=> (before.several \/ (s \in F[n].functionSymbols /\ before.first # n))
      BY <3>1, Zenon
    <3>5. before.first # n
      BY <3>2, Zenon
    <3>6. entry.several
            <=> \E v, w \in V \cup {n} :
                  v # w /\ s \in F[v].functionSymbols /\ s \in F[w].functionSymbols
      BY <3>2, <3>4, <3>5, Zenon
    <3>7. QED
      BY <3>2, <3>3, <3>6, Zenon DEF entry
  <2>2. CASE s \notin DOMAIN old
    <3>1. entry = [first |-> n, several |-> FALSE]
      BY <1>3, <2>2, Zenon
    <3>2. \A v \in V : s \notin F[v].functionSymbols
      BY <1>5, <2>2, Zenon
    <3> HIDE DEF entry
    <3>3. entry.first = n /\ ~entry.several
      BY <3>1, Zenon
    <3>4. QED
      BY <3>2, <3>3, Zenon DEF entry
  <2>3. QED
    BY <2>1, <2>2, Zenon
<1>9. QED
  BY <1>7, <1>8, Zenon DEF UnitsKnown, new

\* What merging a unit's spawn sites into the table makes of each entry.
LEMMA SpawnTable ==
  ASSUME NEW table, NEW facts, NEW new, new = SpawnSites(table, facts)
  PROVE  /\ \A s : s \in DOMAIN new <=> s \in DOMAIN table \/ s \in SpawnedIn(facts)
         /\ \A s \in DOMAIN table \ SpawnedIn(facts) : new[s] = table[s]
         /\ \A s \in DOMAIN table \cap SpawnedIn(facts) :
              /\ new[s].instanceCount =
                   table[s].instanceCount + facts.entryConcurrency[s].staticSpawnCount
              /\ new[s].insideLoop
                   <=> (table[s].insideLoop \/ facts.entryConcurrency[s].hasSpawnInLoop)
         /\ \A s \in SpawnedIn(facts) \ DOMAIN table :
              /\ new[s].instanceCount = 0 + facts.entryConcurrency[s].staticSpawnCount
              /\ new[s].insideLoop <=> facts.entryConcurrency[s].hasSpawnInLoop
<1>1. \A s : s \in DOMAIN new <=> s \in DOMAIN table \/ s \in SpawnedIn(facts)
  BY Zenon DEF SpawnSites, SpawnedIn
<1>2. \A s \in DOMAIN table \ SpawnedIn(facts) : new[s] = table[s]
  BY Zenon DEF SpawnSites, SpawnedIn
<1>3. ASSUME NEW s \in DOMAIN table \cap SpawnedIn(facts)
      PROVE  /\ new[s].instanceCount =
                  table[s].instanceCount + facts.entryConcurrency[s].staticSpawnCount
             /\ new[s].insideLoop
                  <=> (table[s].insideLoop \/ facts.entryConcurrency[s].hasSpawnInLoop)
  <2> DEFINE entry == new[s]
  <2>1. entry = [instanceCount |-> table[s].instanceCount
                                     + facts.entryConcurrency[s].staticSpawnCount,
                 insideLoop |-> table[s].insideLoop \/ facts.entryConcurrency[s].hasSpawnInLoop]
    BY Zenon DEF SpawnSites, SpawnedIn
  <2> HIDE DEF entry
  <2>2. entry.instanceCount = table[s].instanceCount + facts.entryConcurrency[s].staticSpawnCount
    BY <2>1, Zenon
  <2>3. entry.insideLoop <=> (table[s].insideLoop \/ facts.entryConcurrency[s].hasSpawnInLoop)
    BY <2>1, Zenon
  <2>4. QED
    BY <2>2, <2>3, Zenon DEF entry
<1>4. ASSUME NEW s \in SpawnedIn(facts) \ DOMAIN table
      PROVE  /\ new[s].instanceCount = 0 + facts.entryConcurrency[s].staticSpawnCount
             /\ new[s].insideLoop <=> facts.entryConcurrency[s].hasSpawnInLoop
  <2> DEFINE entry == new[s]
             none == [instanceCount |-> 0, insideLoop |-> FALSE]
  <2>1. entry = [instanceCount |-> none.instanceCount
                                     + facts.entryConcurrency[s].staticSpawnCount,
                 insideLoop |-> none.insideLoop \/ facts.entryConcurrency[s].hasSpawnInLoop]
    BY Zenon DEF SpawnSites, SpawnedIn
  <2>2. none.instanceCount = 0 /\ ~none.insideLoop
    OBVIOUS
  <2> HIDE DEF none, entry
  <2>3. entry.instanceCount = none.instanceCount + facts.entryConcurrency[s].staticSpawnCount
    BY <2>1, Zenon
  <2>4. entry.insideLoop <=> (none.insideLoop \/ facts.entryConcurrency[s].hasSpawnInLoop)
    BY <2>1, Zenon
  <2>5. QED
    BY <2>2, <2>3, <2>4, Zenon DEF entry
<1>5. QED
  BY <1>1, <1>2, <1>3, <1>4, Zenon

\* Adding a unit adds its spawn counts, and its loops and waits, to those of the entries.
LEMMA AddSpawns ==
  ASSUME NEW index, NEW F, NEW V, NEW n, n \notin V, NEW next, next = AddUnit(index, n, F[n]),
         SpawnsKnown(index, F, V)
  PROVE  SpawnsKnown(next, F, V \cup {n})
<1> DEFINE old == index.spawnSites
           new == next.spawnSites
<1>1. new = SpawnSites(old, F[n])
  BY AddedFields
<1>2. \A s : s \in DOMAIN old <=> \E v \in V : s \in SpawnedIn(F[v])
  BY Zenon DEF SpawnsKnown
<1>3. \A s \in DOMAIN old :
        old[s].insideLoop
          <=> \E v \in V : s \in SpawnedIn(F[v]) /\ F[v].entryConcurrency[s].hasSpawnInLoop
  BY Zenon DEF SpawnsKnown
<1> HIDE DEF old, new
<1>4. \A s : s \in DOMAIN new <=> s \in DOMAIN old \/ s \in SpawnedIn(F[n])
  BY <1>1, SpawnTable
<1>5. \A s : s \in DOMAIN new <=> \E v \in V \cup {n} : s \in SpawnedIn(F[v])
  BY <1>2, <1>4, Zenon
<1>6. ASSUME NEW s \in DOMAIN new
      PROVE  new[s].insideLoop
               <=> \E v \in V \cup {n} :
                     s \in SpawnedIn(F[v]) /\ F[v].entryConcurrency[s].hasSpawnInLoop
  <2>1. CASE s \in DOMAIN old \ SpawnedIn(F[n])
    <3>1. new[s] = old[s]
      BY <1>1, <2>1, SpawnTable
    <3>2. QED
      BY <1>3, <2>1, <3>1, Zenon
  <2>2. CASE s \in DOMAIN old \cap SpawnedIn(F[n])
    <3>1. new[s].insideLoop <=> (old[s].insideLoop \/ F[n].entryConcurrency[s].hasSpawnInLoop)
      BY <1>1, <2>2, SpawnTable
    <3>2. old[s].insideLoop
            <=> \E v \in V : s \in SpawnedIn(F[v]) /\ F[v].entryConcurrency[s].hasSpawnInLoop
      BY <1>3, <2>2, Zenon
    <3>3. QED
      BY <2>2, <3>1, <3>2, Zenon
  <2>3. CASE s \in SpawnedIn(F[n]) \ DOMAIN old
    <3>1. new[s].insideLoop <=> F[n].entryConcurrency[s].hasSpawnInLoop
      BY <1>1, <2>3, SpawnTable
    <3>2. \A v \in V : s \notin SpawnedIn(F[v])
      BY <1>2, <2>3, Zenon
    <3>3. QED
      BY <2>3, <3>1, <3>2, Zenon
  <2>4. QED
    BY <1>4, <2>1, <2>2, <2>3, Zenon
<1>7. QED
  BY <1>5, <1>6, Zenon DEF SpawnsKnown, new

IndexKnows(index, F, V) ==
  /\ SetsKnown(index, F, V)
  /\ LocksKnown(index, F, V)
  /\ JoinsKnown(index, F, V)
  /\ UnitsKnown(index, F, V)
  /\ SpawnsKnown(index, F, V)

\* The empty index knows of no unit.
LEMMA NothingKnown == ASSUME NEW F PROVE IndexKnows(EmptyIndex, F, {})
<1>1. /\ EmptyIndex.definedGlobals = {} /\ EmptyIndex.resolvedHandles = {}
      /\ EmptyIndex.reapsChildren = FALSE /\ DOMAIN EmptyIndex.lockSummaries = {}
      /\ DOMAIN EmptyIndex.joiningHelpers = {} /\ DOMAIN EmptyIndex.spawnSites = {}
      /\ DOMAIN EmptyIndex.unitsByFunction = {}
  BY Zenon DEF EmptyIndex, EmptyFunction
<1>2. SetsKnown(EmptyIndex, F, {})
  BY <1>1, Zenon DEF SetsKnown
<1>3. LocksKnown(EmptyIndex, F, {}) /\ JoinsKnown(EmptyIndex, F, {})
  BY <1>1, Zenon DEF LocksKnown, JoinsKnown
<1>4. UnitsKnown(EmptyIndex, F, {}) /\ SpawnsKnown(EmptyIndex, F, {})
  BY <1>1, Zenon DEF UnitsKnown, SpawnsKnown
<1>5. QED
  BY <1>2, <1>3, <1>4, Zenon DEF IndexKnows

\* The index FoldIndex makes of the compatible units knows what they say together.
LEMMA FoldKnows ==
  ASSUME InductsUpTo, NEW F, Len(F) \in Nat, NEW C \in SUBSET (1..Len(F))
  PROVE  IndexKnows(FoldIndex(F, C), F, C)
<1> DEFINE ix == IndexesOf(F, C)
           P == {n \in 0..Len(F) : IndexKnows(ix[n], F, C \cap (1..n))}
<1>1. ix[0] = EmptyIndex /\ \A n \in 1..Len(F) : ix[n] = Added(ix[n - 1], n, F, C)
  BY IndexesUnfold, Zenon
<1> HIDE DEF ix
<1>2. 0 \in P
  <2>1. C \cap (1..0) = {}
    OBVIOUS
  <2>2. QED
    BY <1>1, <2>1, NothingKnown
<1>3. ASSUME NEW n \in 0..Len(F), n \in P, n < Len(F) PROVE n + 1 \in P
  <2>1. n + 1 \in 1..Len(F) /\ n + 1 - 1 = n /\ n + 1 \in 0..Len(F)
    BY <1>3
  <2>2. ix[n + 1] = Added(ix[n], n + 1, F, C)
    BY <1>1, <2>1
  <2>3. CASE n + 1 \in C
    <3>1. ix[n + 1] = AddUnit(ix[n], n + 1, F[n + 1])
      BY <2>2, <2>3, Zenon DEF Added
    <3>2. C \cap (1..(n + 1)) = (C \cap (1..n)) \cup {n + 1} /\ n + 1 \notin C \cap (1..n)
      BY <2>3
    <3>3. IndexKnows(ix[n], F, C \cap (1..n))
      BY <1>3, Zenon
    <3>4. IndexKnows(ix[n + 1], F, (C \cap (1..n)) \cup {n + 1})
      BY <3>1, <3>2, <3>3, AddSets, AddHelpers, AddUnits, AddSpawns, Zenon DEF IndexKnows
    <3>5. QED
      BY <2>1, <3>2, <3>4, Zenon
  <2>4. CASE n + 1 \notin C
    <3>1. C \cap (1..(n + 1)) = C \cap (1..n)
      BY <2>4
    <3>2. QED
      BY <1>3, <2>1, <2>2, <2>4, <3>1, Zenon DEF Added
  <2>5. QED
    BY <2>3, <2>4, Zenon
<1>4. Len(F) \in P
  <2> HIDE DEF P
  <2>1. 0..Len(F) \subseteq P
    BY <1>2, <1>3, Zenon DEF InductsUpTo
  <2>2. QED
    BY <2>1
<1>5. C \cap (1..Len(F)) = C
  BY Zenon
<1>6. QED
  BY <1>4, <1>5, Zenon DEF FoldIndex, ix

(***************************************************************************)
(* Sums.                                                                   *)
(***************************************************************************)
LEMMA TotalsUnfold ==
  ASSUME InductsUpTo, NEW counts, Len(counts) \in Nat
  PROVE  /\ TotalsOf(counts)[0] = 0
         /\ \A n \in 1..Len(counts) : TotalsOf(counts)[n] = TotalsOf(counts)[n - 1] + counts[n]
<1> DEFINE Grows(g, m) == g[0] = 0 /\ \A k \in 1..m : g[k] = g[k - 1] + counts[k]
           P == {m \in 0..Len(counts) : \E g : Grows(g, m)}
<1>1. 0..Len(counts) \subseteq P
  <2>1. 0 \in P
    <3> DEFINE g == [k \in {0} |-> 0]
    <3>1. g[0] = 0
      OBVIOUS
    <3>2. Grows(g, 0)
      BY <3>1
    <3> HIDE DEF g
    <3>3. 0 \in 0..Len(counts)
      OBVIOUS
    <3>4. QED
      BY <3>2, <3>3, Zenon
  <2>2. ASSUME NEW m \in 0..Len(counts), m \in P, m < Len(counts) PROVE m + 1 \in P
    <3>1. PICK g : Grows(g, m)
      BY <2>2, Zenon
    <3> DEFINE h == [k \in 0..(m + 1) |-> IF k = m + 1 THEN g[m] + counts[m + 1] ELSE g[k]]
    <3>2. h[0] = 0
      BY <3>1
    <3>3. \A k \in 0..m : h[k] = g[k]
      OBVIOUS
    <3>4. h[m + 1] = g[m] + counts[m + 1]
      OBVIOUS
    <3> HIDE DEF h
    <3>5. \A k \in 1..(m + 1) : h[k] = h[k - 1] + counts[k]
      <4> TAKE k \in 1..(m + 1)
      <4>1. CASE k = m + 1
        <5>1. h[m] = g[m]
          BY <3>3
        <5>2. QED
          BY <3>4, <4>1, <5>1
      <4>2. CASE k # m + 1
        <5>1. k \in 1..m /\ k \in 0..m /\ k - 1 \in 0..m
          BY <4>2
        <5>2. h[k] = g[k] /\ h[k - 1] = g[k - 1]
          BY <3>3, <5>1, Zenon
        <5>3. QED
          BY <3>1, <5>1, <5>2, Zenon
      <4>3. QED
        BY <4>1, <4>2, Zenon
    <3>6. m + 1 \in 0..Len(counts) /\ Grows(h, m + 1)
      BY <2>2, <3>2, <3>5
    <3>7. QED
      BY <3>6, Zenon
  <2>3. QED
    BY <2>1, <2>2, Zenon DEF InductsUpTo
<1>2. PICK g : Grows(g, Len(counts))
  BY <1>1
<1> DEFINE Body(f) == [n \in 0..Len(counts) |-> IF n = 0 THEN 0 ELSE f[n - 1] + counts[n]]
<1>3. \E f : f = Body(f)
  <2> DEFINE f == [n \in 0..Len(counts) |-> g[n]]
  <2>1. \A n \in 0..Len(counts) : f[n] = g[n]
    OBVIOUS
  <2>2. \A n \in 1..Len(counts) : f[n] = f[n - 1] + counts[n]
    BY <1>2, <2>1
  <2>3. f[0] = 0
    BY <1>2, <2>1
  <2>4. f = [n \in 0..Len(counts) |-> f[n]]
    BY <2>1, Zenon
  <2> HIDE DEF f
  <2>5. \A n \in 0..Len(counts) : f[n] = IF n = 0 THEN 0 ELSE f[n - 1] + counts[n]
    BY <2>2, <2>3
  <2>6. f = Body(f)
    BY <2>4, <2>5, Zenon
  <2>7. QED
    BY <2>6, Zenon
<1>4. TotalsOf(counts) = CHOOSE f : f = Body(f)
  BY Zenon DEF TotalsOf
<1>5. TotalsOf(counts) = Body(TotalsOf(counts))
  BY <1>3, <1>4, Zenon
<1>6. QED
  BY <1>5

\* The sums of natural counts are natural, and no count exceeds the sum of them all.
LEMMA TotalsBound ==
  ASSUME InductsUpTo, NEW counts, Len(counts) \in Nat, \A k \in 1..Len(counts) : counts[k] \in Nat
  PROVE  /\ \A n \in 0..Len(counts) : TotalsOf(counts)[n] \in Nat
         /\ \A k \in 1..Len(counts) : counts[k] <= TotalsOf(counts)[Len(counts)]
<1> DEFINE total == TotalsOf(counts)
           P == {n \in 0..Len(counts) : total[n] \in Nat /\ \A k \in 1..n : counts[k] <= total[n]}
<1>1. total[0] = 0 /\ \A n \in 1..Len(counts) : total[n] = total[n - 1] + counts[n]
  BY TotalsUnfold, Zenon
<1> HIDE DEF total
<1>2. 0 \in P
  BY <1>1
<1>3. ASSUME NEW n \in 0..Len(counts), n \in P, n < Len(counts) PROVE n + 1 \in P
  <2>1. n + 1 \in 1..Len(counts) /\ n + 1 - 1 = n
    BY <1>3
  <2>2. total[n + 1] = total[n] + counts[n + 1] /\ total[n] \in Nat /\ counts[n + 1] \in Nat
    BY <1>1, <1>3, <2>1
  <2>3. total[n + 1] \in Nat /\ total[n] <= total[n + 1] /\ counts[n + 1] <= total[n + 1]
    BY <2>2
  <2>4. ASSUME NEW k \in 1..(n + 1) PROVE counts[k] <= total[n + 1]
    <3>1. CASE k = n + 1
      BY <2>3, <3>1, Zenon
    <3>2. CASE k # n + 1
      <4>1. k \in 1..n /\ k \in 1..Len(counts)
        BY <2>1, <3>2
      <4>2. counts[k] <= total[n] /\ counts[k] \in Nat
        BY <1>3, <4>1
      <4>3. QED
        BY <2>2, <2>3, <4>2
    <3>3. QED
      BY <3>1, <3>2, Zenon
  <2>5. QED
    BY <2>1, <2>3, <2>4
<1>4. 0..Len(counts) \subseteq P
  <2> HIDE DEF P
  <2>1. QED
    BY <1>2, <1>3, Zenon DEF InductsUpTo
<1>5. QED
  BY <1>4, SMTT(30) DEF total

\* What a unit adds to the instances of an entry.
Counts(F, C, s) ==
  [v \in 1..Len(F) |-> IF v \in C /\ s \in SpawnedIn(F[v])
                       THEN F[v].entryConcurrency[s].staticSpawnCount ELSE 0]

\* There is one count of an entry's spawns per unit.
LEMMA CountsLen ==
  ASSUME NEW F, Len(F) \in Nat, NEW C, NEW s
  PROVE  Len(Counts(F, C, s)) = Len(F)
<1>1. DOMAIN Counts(F, C, s) = 1..Len(F)
  BY Zenon DEF Counts
<1>2. Counts(F, C, s) \in Seq({Counts(F, C, s)[v] : v \in 1..Len(F)})
  <2>1. Counts(F, C, s) \in [1..Len(F) -> {Counts(F, C, s)[v] : v \in 1..Len(F)}]
    BY Zenon DEF Counts
  <2>2. QED
    BY <2>1
<1>3. QED
  BY <1>1, <1>2

\* The index counts, for an entry, the instances the compatible units start together.
LEMMA FoldCounts ==
  ASSUME InductsUpTo, NEW F, Len(F) \in Nat, NEW C \in SUBSET (1..Len(F)), NEW s,
         \A v \in 1..Len(F) : s \in SpawnedIn(F[v]) => F[v].entryConcurrency[s].staticSpawnCount \in Nat
  PROVE  SpawnCount(FoldIndex(F, C), s) = TotalsOf(Counts(F, C, s))[Len(F)]
<1> DEFINE ix == IndexesOf(F, C)
           counts == Counts(F, C, s)
           total == TotalsOf(counts)
           P == {n \in 0..Len(F) : SpawnCount(ix[n], s) = total[n]}
<1>0. Len(counts) = Len(F) /\ \A v \in 1..Len(F) : counts[v] \in Nat
  BY CountsLen DEF Counts
<1>1. ix[0] = EmptyIndex /\ \A n \in 1..Len(F) : ix[n] = Added(ix[n - 1], n, F, C)
  BY IndexesUnfold, Zenon
<1>2. total[0] = 0 /\ \A n \in 1..Len(F) : total[n] = total[n - 1] + counts[n]
  BY <1>0, TotalsUnfold, Zenon
<1>3. \A n \in 0..Len(F) : total[n] \in Nat
  BY <1>0, TotalsBound, Zenon
<1> HIDE DEF ix, total
<1>4. 0 \in P
  BY <1>1, <1>2, EmptyIndexFacts
<1>5. ASSUME NEW n \in 0..Len(F), n \in P, n < Len(F) PROVE n + 1 \in P
  <2>1. n + 1 \in 1..Len(F) /\ n + 1 - 1 = n /\ n + 1 \in 0..Len(F)
    BY <1>5
  <2>2. /\ ix[n + 1] = Added(ix[n], n + 1, F, C) /\ SpawnCount(ix[n], s) = total[n]
        /\ total[n + 1] = total[n] + counts[n + 1] /\ total[n] \in Nat
    BY <1>1, <1>2, <1>3, <1>5, <2>1
  <2> DEFINE added == F[n + 1].entryConcurrency[s].staticSpawnCount
             old == ix[n].spawnSites
             new == ix[n + 1].spawnSites
  <2>3. CASE n + 1 \in C /\ s \in SpawnedIn(F[n + 1])
    <3>1. counts[n + 1] = added /\ added \in Nat
      BY <2>1, <2>3, Zenon DEF Counts
    <3>2. ix[n + 1] = AddUnit(ix[n], n + 1, F[n + 1])
      BY <2>2, <2>3, Zenon DEF Added
    <3>3. new = SpawnSites(old, F[n + 1])
      BY <3>2, AddedFields
    <3>4. CASE s \in DOMAIN old
      <4>1. s \in DOMAIN new /\ new[s].instanceCount = old[s].instanceCount + added
        BY <2>3, <3>3, <3>4, SpawnTable
      <4>2. SpawnCount(ix[n], s) = old[s].instanceCount
        BY <3>4, Zenon DEF SpawnCount, IsThreadEntry
      <4>3. SpawnCount(ix[n + 1], s) = new[s].instanceCount
        BY <4>1, Zenon DEF SpawnCount, IsThreadEntry
      <4>4. QED
        BY <2>1, <2>2, <3>1, <4>1, <4>2, <4>3, Zenon
    <3>5. CASE s \notin DOMAIN old
      <4>1. s \in DOMAIN new /\ new[s].instanceCount = 0 + added
        BY <2>3, <3>3, <3>5, SpawnTable
      <4>2. SpawnCount(ix[n], s) = 0
        BY <3>5, Zenon DEF SpawnCount, IsThreadEntry
      <4>3. SpawnCount(ix[n + 1], s) = new[s].instanceCount
        BY <4>1, Zenon DEF SpawnCount, IsThreadEntry
      <4>4. QED
        BY <2>1, <2>2, <3>1, <4>1, <4>2, <4>3, Zenon
    <3>6. QED
      BY <3>4, <3>5, Zenon
  <2>4. CASE n + 1 \in C /\ s \notin SpawnedIn(F[n + 1])
    <3>1. counts[n + 1] = 0
      BY <2>1, <2>4, Zenon DEF Counts
    <3>2. ix[n + 1] = AddUnit(ix[n], n + 1, F[n + 1])
      BY <2>2, <2>4, Zenon DEF Added
    <3>3. new = SpawnSites(old, F[n + 1])
      BY <3>2, AddedFields
    <3>4. (s \in DOMAIN new <=> s \in DOMAIN old) /\ (s \in DOMAIN old => new[s] = old[s])
      BY <2>4, <3>3, SpawnTable
    <3>5. SpawnCount(ix[n + 1], s) = SpawnCount(ix[n], s)
      BY <3>4, Zenon DEF SpawnCount, IsThreadEntry
    <3>6. QED
      BY <2>1, <2>2, <3>1, <3>5
  <2>5. CASE n + 1 \notin C
    <3>1. counts[n + 1] = 0 /\ ix[n + 1] = ix[n]
      BY <2>1, <2>2, <2>5, Zenon DEF Counts, Added
    <3>2. QED
      BY <2>1, <2>2, <3>1
  <2>6. QED
    BY <2>3, <2>4, <2>5, Zenon
<1>6. Len(F) \in P
  <2> HIDE DEF P
  <2>1. 0..Len(F) \subseteq P
    BY <1>4, <1>5, Zenon DEF InductsUpTo
  <2>2. QED
    BY <2>1
<1>7. QED
  BY <1>6, Zenon DEF FoldIndex, ix, total

(***************************************************************************)
(* What the program decides about a unit.                                  *)
(***************************************************************************)
LEMMA LenOfDomain ==
  ASSUME NEW f, NEW n \in Nat, f = [i \in 1..n |-> f[i]]
  PROVE  Len(f) = n
<1>1. f \in [1..n -> {f[i] : i \in 1..n}]
  OBVIOUS
<1>2. f \in Seq({f[i] : i \in 1..n})
  BY <1>1
<1>3. QED
  BY <1>1, <1>2

\* What the first pass says of the entries of a unit.
EntriesAlone(ir, sel, a) ==
  /\ SelectsSpawns(sel) => SpawnedIn(a) = DOMAIN ir.spawns
  /\ \A f \in SpawnedIn(a) :
       /\ a.entryConcurrency[f].staticSpawnCount = OwnSpawnCount(ir, sel, f)
       /\ a.entryConcurrency[f].staticSpawnCount \in Nat
       /\ a.entryConcurrency[f].hasSpawnInLoop <=> ir.spawns[f].loop

\* What a unit built alone knows of the entries it starts and defines.
LEMMA AloneEntries ==
  ASSUME NEW ir, IsUnitIR(ir), NEW sel, NEW a, a = BuildFacts(ir, sel, TRUE, EmptyIndex)
  PROVE  EntriesAlone(ir, sel, a)
<1> DEFINE own == SpawnedEntries(ir, sel, TRUE)
           Count(f) == IF f \in own THEN OwnSpawnCount(ir, sel, f) ELSE 0
           Loop(f)  == f \in own /\ ir.spawns[f].loop
<1>1. Builds(ir, sel, EmptyIndex, a)
  BY BuiltFields, Zenon
<1>2. a.functionSymbols = ir.defFunctions \cup ir.declFunctions
  BY <1>1, Zenon DEF Builds
<1>3. a.entryConcurrency = [f \in own |-> [staticSpawnCount |-> Count(f), hasSpawnInLoop |-> Loop(f)]]
  <2>1. {f \in ir.defFunctions : TRUE /\ IsThreadEntry(EmptyIndex, f)} = {}
    BY EmptyIndexFacts, Zenon
  <2>2. EntryConcurrency(ir, sel, TRUE, EmptyIndex) =
          [f \in own |-> [staticSpawnCount |-> Count(f), hasSpawnInLoop |-> Loop(f)]]
    BY <2>1, Zenon DEF EntryConcurrency
  <2>3. QED
    BY <1>1, <2>2, Zenon DEF Builds
<1>4. own \subseteq DOMAIN ir.spawns /\ (SelectsSpawns(sel) => own = DOMAIN ir.spawns)
  BY Zenon DEF SpawnedEntries
<1>5. DOMAIN ir.spawns \subseteq a.functionSymbols
  BY <1>2, Zenon DEF IsUnitIR
<1>6. SpawnedIn(a) = own
  <2>1. DOMAIN a.entryConcurrency = own
    BY <1>3, Zenon
  <2>2. QED
    BY <1>4, <1>5, <2>1, Zenon DEF SpawnedIn
<1>7. ASSUME NEW f \in own
      PROVE  /\ a.entryConcurrency[f].staticSpawnCount = OwnSpawnCount(ir, sel, f)
             /\ a.entryConcurrency[f].staticSpawnCount \in Nat
             /\ a.entryConcurrency[f].hasSpawnInLoop <=> ir.spawns[f].loop
  <2> DEFINE entry == a.entryConcurrency[f]
  <2>1. entry = [staticSpawnCount |-> Count(f), hasSpawnInLoop |-> Loop(f)]
    BY <1>3, Zenon
  <2>2. Count(f) = OwnSpawnCount(ir, sel, f) /\ (Loop(f) <=> ir.spawns[f].loop)
    BY <1>7, Zenon
  <2>3. OwnSpawnCount(ir, sel, f) \in Nat
    <3>1. ir.spawns[f].sites \in Nat
      BY <1>4, Zenon DEF IsUnitIR
    <3>2. QED
      BY <3>1, Zenon DEF OwnSpawnCount
  <2> HIDE DEF entry, Count, Loop, own
  <2>4. entry.staticSpawnCount = Count(f)
    BY <2>1, Zenon
  <2>5. entry.hasSpawnInLoop <=> Loop(f)
    BY <2>1, Zenon
  <2>6. QED
    BY <2>2, <2>3, <2>4, <2>5, Zenon DEF entry
<1>8. QED
  BY <1>4, <1>6, <1>7, Zenon DEF EntriesAlone

\* The index of an analysis that is done, in terms of its units.
LEMMA DoneIndex ==
  ASSUME InductsUpTo, NEW irs, NEW run, RunOK(run, "done", irs), \A ir \in irs : IsUnitIR(ir)
  PROVE  /\ Len(run.alone) = Len(run.project)
         /\ run.index = FoldIndex(run.alone, run.compatible)
         /\ IndexKnows(run.index, run.alone, run.compatible)
<1>1. /\ Len(run.project) \in Nat /\ DOMAIN run.project = 1..Len(run.project)
      /\ run.compatible \subseteq 1..Len(run.project)
  BY DoneFacts, Zenon
<1>2. run.alone = AloneOf(run) /\ run.index = FoldIndex(run.alone, run.compatible)
  BY Zenon DEF RunOK
<1>3. run.alone = [u \in 1..Len(run.project) |-> run.alone[u]]
  BY <1>1, <1>2, Zenon DEF AloneOf
<1>4. Len(run.alone) = Len(run.project)
  BY <1>1, <1>3, LenOfDomain, Zenon
<1>5. QED
  BY <1>1, <1>2, <1>4, FoldKnows, Zenon

\* The instances of an entry that the index counts, and whether it saw a loop, for a selection
\* that builds the entries.
LEMMA DoneSpawns ==
  ASSUME InductsUpTo, NEW irs, NEW run, RunOK(run, "done", irs), \A ir \in irs : IsUnitIR(ir),
         SelectsSpawns(SelectionOf(run)), NEW f
  PROVE  /\ IsThreadEntry(run.index, f)
              <=> \E v \in run.compatible : f \in DOMAIN run.project[v].spawns
         /\ SpawnedInLoop(run.index, f)
              <=> \E v \in run.compatible : /\ f \in DOMAIN run.project[v].spawns
                                            /\ run.project[v].spawns[f].loop
         /\ SpawnCount(run.index, f) = InstancesStarted(run, f)
         /\ SpawnCount(run.index, f) \in Nat
         /\ \A v \in run.compatible :
              f \in DOMAIN run.project[v].spawns =>
                /\ OwnSpawnCount(run.project[v], SelectionOf(run), f) \in Nat
                /\ OwnSpawnCount(run.project[v], SelectionOf(run), f) <= SpawnCount(run.index, f)
<1> DEFINE F == run.alone
           C == run.compatible
           sel == SelectionOf(run)
           N == Len(run.project)
<1>1. /\ N \in Nat /\ DOMAIN run.project = 1..N /\ C \subseteq 1..N
      /\ \A v \in 1..N : IsUnitIR(run.project[v]) /\ F[v] = BuildFacts(run.project[v], sel, TRUE, EmptyIndex)
  BY DoneFacts, Zenon
<1>2. Len(F) = N /\ run.index = FoldIndex(F, C) /\ IndexKnows(run.index, F, C)
  BY DoneIndex, Zenon
<1>3. ASSUME NEW v \in 1..N
      PROVE  /\ SpawnedIn(F[v]) = DOMAIN run.project[v].spawns
             /\ \A s \in SpawnedIn(F[v]) :
                  /\ F[v].entryConcurrency[s].staticSpawnCount = OwnSpawnCount(run.project[v], sel, s)
                  /\ F[v].entryConcurrency[s].staticSpawnCount \in Nat
                  /\ F[v].entryConcurrency[s].hasSpawnInLoop <=> run.project[v].spawns[s].loop
  <2>1. EntriesAlone(run.project[v], sel, F[v])
    BY <1>1, AloneEntries, ZenonT(40)
  <2>2. QED
    BY <2>1, Zenon DEF EntriesAlone
<1> HIDE DEF F, C, sel, N
<1>a. N \in Nat /\ C \subseteq 1..N
  BY <1>1, Zenon
<1>b. SpawnsKnown(run.index, F, C)
  BY <1>2, Zenon DEF IndexKnows
<1>c. \A v \in C : /\ v \in 1..N /\ SpawnedIn(F[v]) = DOMAIN run.project[v].spawns
                   /\ \A s \in SpawnedIn(F[v]) :
                        F[v].entryConcurrency[s].hasSpawnInLoop <=> run.project[v].spawns[s].loop
  BY <1>a, <1>3, Zenon
<1>4. IsThreadEntry(run.index, f) <=> \E v \in C : f \in DOMAIN run.project[v].spawns
  BY <1>b, <1>c, Zenon DEF SpawnsKnown, IsThreadEntry
<1>5. SpawnedInLoop(run.index, f) <=> \E v \in C : /\ f \in DOMAIN run.project[v].spawns
                                                   /\ run.project[v].spawns[f].loop
  BY <1>b, <1>c, Zenon DEF SpawnsKnown, SpawnedInLoop, IsThreadEntry
<1>6. SpawnCount(run.index, f) = TotalsOf(Counts(F, C, f))[N]
  <2>1. /\ Len(F) \in Nat /\ C \in SUBSET (1..Len(F))
        /\ \A v \in 1..Len(F) :
             f \in SpawnedIn(F[v]) => F[v].entryConcurrency[f].staticSpawnCount \in Nat
    BY <1>a, <1>2, <1>3, Zenon
  <2>2. QED
    BY <1>2, <2>1, FoldCounts, Zenon
<1>7. Counts(F, C, f) = [u \in 1..N |-> IF u \in C /\ f \in DOMAIN run.project[u].spawns
                                        THEN OwnSpawnCount(run.project[u], sel, f) ELSE 0]
  BY <1>2, <1>3 DEF Counts
<1>8. SpawnCount(run.index, f) = InstancesStarted(run, f)
  BY <1>1, <1>6, <1>7, Zenon DEF InstancesStarted, C, sel, N
<1>9. Len(Counts(F, C, f)) = N /\ \A v \in 1..N : Counts(F, C, f)[v] \in Nat
  <2>1. Len(Counts(F, C, f)) = N
    BY <1>1, <1>2, CountsLen, Zenon
  <2>2. \A v \in 1..N : Counts(F, C, f)[v] \in Nat
    BY <1>2, <1>3, Zenon DEF Counts
  <2>3. QED
    BY <2>1, <2>2, Zenon
<1>10. /\ SpawnCount(run.index, f) \in Nat
       /\ \A v \in 1..N : Counts(F, C, f)[v] <= SpawnCount(run.index, f)
  <2> DEFINE counts == Counts(F, C, f)
  <2> HIDE DEF counts
  <2>1. Len(counts) = N /\ \A v \in 1..N : counts[v] \in Nat
    BY <1>9, Zenon DEF counts
  <2>2. /\ \A n \in 0..N : TotalsOf(counts)[n] \in Nat
        /\ \A v \in 1..N : counts[v] <= TotalsOf(counts)[N]
    BY <1>1, <2>1, TotalsBound, Zenon
  <2>3. N \in 0..N
    BY <1>1
  <2>4. QED
    BY <1>6, <2>2, <2>3, Zenon DEF counts
<1>11. ASSUME NEW v \in C, f \in DOMAIN run.project[v].spawns
       PROVE  /\ OwnSpawnCount(run.project[v], sel, f) \in Nat
              /\ OwnSpawnCount(run.project[v], sel, f) <= SpawnCount(run.index, f)
  <2>1. v \in 1..N /\ Counts(F, C, f)[v] = OwnSpawnCount(run.project[v], sel, f)
    BY <1>1, <1>7, <1>11, Zenon
  <2>2. QED
    BY <1>9, <1>10, <2>1, Zenon
<1>12. QED
  BY <1>4, <1>5, <1>8, <1>10, <1>11, Zenon DEF C, sel

\* The entry channel is open only for a rule that reads entries.
LEMMA SelectsEntries ==
  ASSUME NEW rules \in SUBSET Rules, "entryConcurrency" \in ForRules(rules, TRUE).channels
  PROVE  \E rule \in rules : rule \in Entries
<1>1. PICK rule \in rules : "entryConcurrency" \in RuleChannels[rule]
  BY Zenon DEF ForRules
<1>2. rule \in Rules
  OBVIOUS
<1>3. rule \in Entries
  BY <1>1, <1>2, Zenon DEF RuleChannels, Rules, Entries
<1>4. QED
  BY <1>3, Zenon

\* What EntryConcurrency says of a function the unit defines.
EntryKnown(ir, sel, index, f, known) ==
  /\ f \in DOMAIN known <=> f \in DOMAIN ir.spawns \/ IsThreadEntry(index, f)
  /\ f \in DOMAIN known =>
       /\ known[f].staticSpawnCount =
            IF IsThreadEntry(index, f)
               /\ SpawnCount(index, f)
                    > (IF f \in DOMAIN ir.spawns THEN OwnSpawnCount(ir, sel, f) ELSE 0)
            THEN SpawnCount(index, f)
            ELSE (IF f \in DOMAIN ir.spawns THEN OwnSpawnCount(ir, sel, f) ELSE 0)
       /\ known[f].hasSpawnInLoop
            <=> \/ f \in DOMAIN ir.spawns /\ ir.spawns[f].loop
                \/ IsThreadEntry(index, f) /\ SpawnedInLoop(index, f)

\* What a unit built with the index knows of an entry it defines.
LEMMA KnownEntry ==
  ASSUME NEW ir, NEW sel, SelectsSpawns(sel), NEW index, NEW f \in ir.defFunctions,
         NEW known, known = EntryConcurrency(ir, sel, TRUE, index)
  PROVE  EntryKnown(ir, sel, index, f, known)
<1> DEFINE own == SpawnedEntries(ir, sel, TRUE)
           imported == {g \in ir.defFunctions : TRUE /\ IsThreadEntry(index, g)}
           Count(g) == IF g \in own THEN OwnSpawnCount(ir, sel, g) ELSE 0
           Loop(g)  == g \in own /\ ir.spawns[g].loop
           Most(g) == IF g \in imported /\ SpawnCount(index, g) > Count(g)
                      THEN SpawnCount(index, g) ELSE Count(g)
           Looped(g) == Loop(g) \/ (g \in imported /\ SpawnedInLoop(index, g))
<1>1. known = [g \in own \cup imported |->
                 [staticSpawnCount |-> Most(g), hasSpawnInLoop |-> Looped(g)]]
  BY Zenon DEF EntryConcurrency
<1>2. own = DOMAIN ir.spawns
  BY Zenon DEF SpawnedEntries
<1>3. f \in imported <=> IsThreadEntry(index, f)
  OBVIOUS
<1>4. f \in DOMAIN known <=> f \in own \/ f \in imported
  BY <1>1, Zenon
<1>5. ASSUME f \in DOMAIN known
      PROVE  known[f].staticSpawnCount = Most(f) /\ (known[f].hasSpawnInLoop <=> Looped(f))
  <2> DEFINE entry == known[f]
  <2>1. entry = [staticSpawnCount |-> Most(f), hasSpawnInLoop |-> Looped(f)]
    BY <1>1, <1>5, Zenon
  <2> HIDE DEF entry, Most, Looped, own, imported
  <2>2. entry.staticSpawnCount = Most(f)
    BY <2>1, Zenon
  <2>3. entry.hasSpawnInLoop <=> Looped(f)
    BY <2>1, Zenon
  <2>4. QED
    BY <2>2, <2>3, Zenon DEF entry
<1>6. QED
  BY <1>2, <1>3, <1>4, <1>5, Zenon DEF EntryKnown

\* The instances of an entry in the final facts are those the compatible units start, all together.
LEMMA EntriesKnown ==
  ASSUME InductsUpTo, Inv, Done, "entryConcurrency" \in SelectionOf(base).channels,
         NEW u \in base.compatible, NEW f \in base.project[u].defFunctions,
         NEW known, known = base.facts[u].entryConcurrency
  PROVE  /\ InstancesStarted(base, f)
              = (IF f \in DOMAIN known THEN known[f].staticSpawnCount ELSE 0)
         /\ (\E v \in base.compatible : /\ f \in DOMAIN base.project[v].spawns
                                        /\ base.project[v].spawns[f].loop)
              <=> (f \in DOMAIN known /\ known[f].hasSpawnInLoop)
<1> DEFINE sel == SelectionOf(base)
           ir == base.project[u]
           index == base.index
<1>1. /\ RunOK(base, "done", Families[family].irs)
      /\ \A i \in Families[family].irs : IsUnitIR(i)
  BY DoneRuns, Zenon
<1>2. base.rules \in SUBSET Rules
  BY <1>1, DoneFacts, Zenon
<1>3. PICK rule \in base.rules : rule \in Entries
  BY <1>2, SelectsEntries, Zenon DEF SelectionOf
<1>4. SelectsSpawns(sel)
  <2>1. "threadEntries" \in sel.facts
    BY <1>2, <1>3, SelectedFacts, Zenon DEF SelectionOf
  <2>2. QED
    BY <2>1, Zenon DEF SelectsSpawns, Selects
<1>5. known = EntryConcurrency(ir, sel, TRUE, index)
  <2>1. SameForRule(rule, base.facts[u], Rebuilt(base, u))
    BY <1>1, SettledSame, Zenon
  <2>2. Builds(ir, sel, index, Rebuilt(base, u))
    BY BuiltFields, Zenon DEF Rebuilt
  <2>3. QED
    BY <1>3, <2>1, <2>2, ZenonT(40) DEF SameForRule, Builds
<1>6. /\ IsThreadEntry(index, f) <=> \E v \in base.compatible : f \in DOMAIN base.project[v].spawns
      /\ SpawnedInLoop(index, f) <=> \E v \in base.compatible : /\ f \in DOMAIN base.project[v].spawns
                                                                /\ base.project[v].spawns[f].loop
      /\ SpawnCount(index, f) = InstancesStarted(base, f)
      /\ SpawnCount(index, f) \in Nat
      /\ f \in DOMAIN ir.spawns => /\ OwnSpawnCount(ir, sel, f) \in Nat
                                   /\ OwnSpawnCount(ir, sel, f) <= SpawnCount(index, f)
  BY <1>1, <1>4, DoneSpawns, Zenon
<1> HIDE DEF sel, ir, index
<1>7. f \in DOMAIN ir.spawns => IsThreadEntry(index, f)
  BY <1>6, Zenon DEF ir
<1>8. f \in ir.defFunctions
  BY Zenon DEF ir
<1> DEFINE Count == IF f \in DOMAIN ir.spawns THEN OwnSpawnCount(ir, sel, f) ELSE 0
<1>9. /\ f \in DOMAIN known <=> IsThreadEntry(index, f)
      /\ f \in DOMAIN known =>
           /\ known[f].staticSpawnCount =
                IF IsThreadEntry(index, f) /\ SpawnCount(index, f) > Count
                THEN SpawnCount(index, f) ELSE Count
           /\ known[f].hasSpawnInLoop
                <=> \/ f \in DOMAIN ir.spawns /\ ir.spawns[f].loop
                    \/ IsThreadEntry(index, f) /\ SpawnedInLoop(index, f)
  <2>1. EntryKnown(ir, sel, index, f, known)
    BY <1>4, <1>5, <1>8, KnownEntry, Zenon
  <2>2. QED
    BY <1>7, <2>1, Zenon DEF EntryKnown
<1>10. Count \in Nat /\ Count <= SpawnCount(index, f)
  BY <1>6
<1> HIDE DEF Count
<1>11. f \in DOMAIN known => known[f].staticSpawnCount = SpawnCount(index, f)
  BY <1>6, <1>9, <1>10
<1>12. f \notin DOMAIN known => SpawnCount(index, f) = 0
  BY <1>9, Zenon DEF SpawnCount
<1>13. SpawnedInLoop(index, f) <=> (f \in DOMAIN known /\ known[f].hasSpawnInLoop)
  <2>1. SpawnedInLoop(index, f) => IsThreadEntry(index, f)
    BY Zenon DEF SpawnedInLoop
  <2>2. f \in DOMAIN ir.spawns /\ ir.spawns[f].loop => SpawnedInLoop(index, f)
    BY <1>6, Zenon DEF ir
  <2>3. QED
    BY <1>9, <2>1, <2>2, Zenon
<1>14. InstancesStarted(base, f) = IF f \in DOMAIN known THEN known[f].staticSpawnCount ELSE 0
  BY <1>6, <1>11, <1>12, Zenon
<1>15. QED
  BY <1>6, <1>13, <1>14, Zenon

\* The threads and the waits the index knows of, for a selection that builds the processes.
LEMMA DoneProcesses ==
  ASSUME InductsUpTo, NEW irs, NEW run, RunOK(run, "done", irs), \A ir \in irs : IsUnitIR(ir),
         "processLifecycle" \in SelectionOf(run).facts
  PROVE  /\ ProgramCreatesThreads(run.index)
              <=> \E v \in run.compatible : DOMAIN run.project[v].spawns # {}
         /\ run.index.reapsChildren <=> \E v \in run.compatible : run.project[v].reaps
<1> DEFINE sel == SelectionOf(run)
<1>1. \A v \in run.compatible :
        /\ IsUnitIR(run.project[v])
        /\ run.alone[v] = BuildFacts(run.project[v], sel, TRUE, EmptyIndex)
  BY DoneFacts, Zenon
<1>2. IndexKnows(run.index, run.alone, run.compatible)
  BY DoneIndex, Zenon
<1>3. SelectsSpawns(sel)
  BY Zenon DEF SelectsSpawns, Selects
<1>4. \A v \in run.compatible : SpawnedIn(run.alone[v]) = DOMAIN run.project[v].spawns
  <2>1. \A v \in run.compatible : EntriesAlone(run.project[v], sel, run.alone[v])
    BY <1>1, AloneEntries, Zenon
  <2>2. QED
    BY <1>3, <2>1, Zenon DEF EntriesAlone
<1>5. \A s : s \in DOMAIN run.index.spawnSites
               <=> \E v \in run.compatible : s \in DOMAIN run.project[v].spawns
  BY <1>2, <1>4 DEF IndexKnows, SpawnsKnown
<1>6. \A v \in run.compatible : run.alone[v].reapsChildProcesses <=> run.project[v].reaps
  <2>1. \A v \in run.compatible : Processes(run.project[v], sel, EmptyIndex, run.alone[v])
    BY <1>1, ProcessFields, Zenon
  <2>2. QED
    BY <2>1, EmptyIndexFacts, Zenon DEF Processes
<1>7. run.index.reapsChildren <=> \E v \in run.compatible : run.project[v].reaps
  BY <1>2, <1>6, Zenon DEF IndexKnows, SetsKnown
<1>8. QED
  BY <1>5, <1>7, Zenon DEF ProgramCreatesThreads

\* A fork is judged by the threads and the waits of every compatible unit.
LEMMA ForksJudged ==
  ASSUME InductsUpTo, Inv, Done, NEW u \in base.compatible, base.project[u].forks
  PROVE  /\ "ForkAfterThreadCreation" \in base.rules =>
              (base.facts[u].programCreatesThreads
                 <=> \E v \in base.compatible : DOMAIN base.project[v].spawns # {})
         /\ "UnreapedChildProcess" \in base.rules =>
              (base.facts[u].reapsChildProcesses
                 <=> \E v \in base.compatible : base.project[v].reaps)
<1> DEFINE sel == SelectionOf(base)
           ir == base.project[u]
           facts == base.facts[u]
           index == base.index
           again == Rebuilt(base, u)
<1>1. /\ RunOK(base, "done", Families[family].irs)
      /\ \A i \in Families[family].irs : IsUnitIR(i)
  BY DoneRuns, Zenon
<1>2. /\ base.rules \in SUBSET Rules /\ base.compatible \subseteq 1..Len(base.project)
      /\ \A v \in base.compatible :
           /\ IsUnitIR(base.project[v])
           /\ base.alone[v] = BuildFacts(base.project[v], sel, TRUE, EmptyIndex)
  BY <1>1, DoneFacts, Zenon
<1>4. facts = again \/ facts = base.alone[u]
  BY <1>1, DoneFacts, ZenonT(40)
<1>5. /\ Processes(ir, sel, index, again)
      /\ \A v \in base.compatible : Processes(base.project[v], sel, EmptyIndex, base.alone[v])
  BY <1>2, ProcessFields, Zenon DEF Rebuilt
<1>6. ASSUME "ForkAfterThreadCreation" \in base.rules
      PROVE  facts.programCreatesThreads
               <=> \E v \in base.compatible : DOMAIN base.project[v].spawns # {}
  <2>1. "processLifecycle" \in sel.facts
    BY <1>2, <1>6, SelectedFacts, Zenon DEF SelectionOf
  <2>3. facts.forks /\ again.forks
    BY <1>4, <1>5, <2>1, Zenon DEF Processes
  <2>4. (facts.forks /\ facts.programCreatesThreads) = (again.forks /\ again.programCreatesThreads)
    <3>1. SameForRule("ForkAfterThreadCreation", facts, again)
      BY <1>1, <1>6, SettledSame, Zenon
    <3>2. QED
      BY <3>1, Zenon DEF SameForRule
  <2>5. again.programCreatesThreads = (DOMAIN ir.spawns # {} \/ ProgramCreatesThreads(index))
    BY <1>5, <2>1, Zenon DEF Processes
  <2>6. ProgramCreatesThreads(index) <=> \E v \in base.compatible : DOMAIN base.project[v].spawns # {}
    BY <1>1, <2>1, DoneProcesses, Zenon
  <2> HIDE DEF sel, facts, index, again
  <2>8. facts.programCreatesThreads <=> again.programCreatesThreads
    BY <2>3, <2>4, Zenon
  <2>9. QED
    BY <2>5, <2>6, <2>8, Zenon
<1>7. ASSUME "UnreapedChildProcess" \in base.rules
      PROVE  facts.reapsChildProcesses <=> \E v \in base.compatible : base.project[v].reaps
  <2>1. "processLifecycle" \in sel.facts
    BY <1>2, <1>7, SelectedFacts, Zenon DEF SelectionOf
  <2>2. facts.forks /\ again.forks
    BY <1>4, <1>5, <2>1, Zenon DEF Processes
  <2>3. (facts.forks /\ ~facts.reapsChildProcesses) = (again.forks /\ ~again.reapsChildProcesses)
    <3>1. SameForRule("UnreapedChildProcess", facts, again)
      BY <1>1, <1>7, SettledSame, Zenon
    <3>2. QED
      BY <3>1, Zenon DEF SameForRule
  <2>4. again.reapsChildProcesses = (ir.reaps \/ index.reapsChildren)
    BY <1>5, <2>1, Zenon DEF Processes
  <2>5. index.reapsChildren <=> \E v \in base.compatible : base.project[v].reaps
    BY <1>1, <2>1, DoneProcesses, Zenon
  <2> HIDE DEF sel, facts, index, again
  <2>7. facts.reapsChildProcesses <=> again.reapsChildProcesses
    BY <2>2, <2>3, Zenon
  <2>8. QED
    BY <2>4, <2>5, <2>7, Zenon
<1>8. QED
  BY <1>6, <1>7, Zenon

\* A handle some compatible unit resolves is not outstanding at the end; any other is when it was
\* so alone.
LEMMA HandlesResolved ==
  ASSUME InductsUpTo, Inv, Done, "MissingJoin" \in base.rules,
         NEW u \in base.compatible, NEW h \in DOMAIN base.project[u].handles
  PROVE  /\ ResolversOf(h) # {} => ~Outstanding(base.facts[u], h)
         /\ ResolversOf(h) = {} => (Outstanding(base.facts[u], h) <=> Outstanding(base.alone[u], h))
<1> DEFINE sel == SelectionOf(base)
           ir == base.project[u]
           index == base.index
           after == base.facts[u].lifecycles
           alone == base.alone[u].lifecycles
<1>1. /\ RunOK(base, "done", Families[family].irs)
      /\ \A i \in Families[family].irs : IsUnitIR(i)
  BY DoneRuns, Zenon
<1>2. /\ base.rules \in SUBSET Rules /\ base.compatible \subseteq 1..Len(base.project)
      /\ \A v \in base.compatible :
           /\ IsUnitIR(base.project[v])
           /\ base.alone[v] = BuildFacts(base.project[v], sel, TRUE, EmptyIndex)
  BY <1>1, DoneFacts, Zenon
<1>3. IndexKnows(index, base.alone, base.compatible)
  BY <1>1, DoneIndex, Zenon
<1>4. "threadLifecycles" \in sel.facts
  BY <1>2, SelectedFacts, Zenon DEF SelectionOf
<1>5. /\ Builds(ir, sel, index, Rebuilt(base, u))
      /\ \A v \in base.compatible : Builds(base.project[v], sel, EmptyIndex, base.alone[v])
  BY <1>2, BuiltFields, Zenon DEF Rebuilt
<1>6. after = ThreadLifecycles(ir, sel, TRUE, index)
  <2>1. SameForRule("MissingJoin", base.facts[u], Rebuilt(base, u))
    BY <1>1, SettledSame, Zenon
  <2>2. QED
    BY <1>5, <2>1, Zenon DEF SameForRule, Builds
<1>7. alone = ThreadLifecycles(ir, sel, TRUE, EmptyIndex)
  BY <1>5, ZenonT(40) DEF Builds
<1>8. h \in DOMAIN alone /\ alone[h] = ir.handles[h]
  <2>1. ~ResolvesHandleElsewhere(EmptyIndex, h)
    BY EmptyIndexFacts, Zenon
  <2> HIDE DEF alone, sel, ir
  <2>2. QED
    BY <1>4, <1>7, <2>1, Zenon DEF ThreadLifecycles, ir
<1>9. /\ h \in DOMAIN after
      /\ after[h] = IF ResolvesHandleElsewhere(index, h)
                    THEN [creates |-> 0, resolves |-> ir.handles[h].resolves,
                          onAllPaths |-> TRUE, looped |-> FALSE]
                    ELSE ir.handles[h]
  BY <1>4, <1>6, Zenon DEF ThreadLifecycles
<1>10. \A v \in base.compatible :
         base.alone[v].resolvedGlobalHandles
           = {g \in DOMAIN base.project[v].handles : base.project[v].handles[g].resolves > 0}
  BY <1>4, <1>5, Zenon DEF Builds
<1>11. ResolvesHandleElsewhere(index, h) <=> ResolversOf(h) # {}
  BY <1>3, <1>10 DEF ResolvesHandleElsewhere, IndexKnows, SetsKnown, ResolversOf
<1>12. \A v \in base.compatible :
         h \in DOMAIN base.project[v].handles => base.project[v].handles[h].resolves \in Nat
  BY <1>2, Zenon DEF IsUnitIR
<1> HIDE DEF after, alone, sel, index
<1>14. CASE ResolvesHandleElsewhere(index, h)
  <2>1. ~Outstanding(base.facts[u], h)
    <3> DEFINE handle == after[h]
    <3>1. handle = [creates |-> 0, resolves |-> ir.handles[h].resolves,
                    onAllPaths |-> TRUE, looped |-> FALSE]
      BY <1>9, <1>14, Zenon
    <3>2. ir.handles[h].resolves \in Nat
      BY <1>12, Zenon
    <3> HIDE DEF handle
    <3>3. handle.creates = 0 /\ handle.resolves \in Nat
      BY <3>1, <3>2, Zenon
    <3>4. ~(handle.creates > handle.resolves) /\ ~(handle.creates # 0)
      BY <3>3
    <3>5. QED
      BY <3>4, Zenon DEF Outstanding, handle, after
  <2>2. QED
    BY <1>11, <1>14, <2>1, Zenon
<1>15. CASE ~ResolvesHandleElsewhere(index, h)
  <2>1. after[h] = alone[h]
    BY <1>8, <1>9, <1>15
  <2>2. Outstanding(base.facts[u], h) <=> Outstanding(base.alone[u], h)
    BY <1>8, <1>9, <2>1, Zenon DEF Outstanding, after, alone
  <2>3. QED
    BY <1>11, <1>15, <2>2, Zenon
<1>16. QED
  BY <1>14, <1>15, Zenon


\* A finished run decides entries, forks and handles as the program does.
LEMMA ProgramJudged ==
  ASSUME InductsUpTo, Inv
  PROVE  JudgedByProgram
<1> SUFFICES ASSUME Inv PROVE JudgedByProgram
  OBVIOUS
<1>1. EntriesKnowTheProgram
  BY EntriesKnown, Zenon DEF EntriesKnowTheProgram
<1>2. ForksJudgedByProgram
  BY ForksJudged, Zenon DEF ForksJudgedByProgram
<1>3. HandlesResolvedByProgram
  <2>1. ASSUME Done, "MissingJoin" \in base.rules, NEW u \in base.compatible,
               NEW h \in DOMAIN base.project[u].handles
        PROVE  /\ ResolversOf(h) \ {u} # {} => ~Outstanding(base.facts[u], h)
               /\ ResolversOf(h) = {} =>
                    (Outstanding(base.facts[u], h) <=> Outstanding(base.alone[u], h))
    BY <2>1, HandlesResolved, Zenon
  <2>2. QED
    BY <2>1, Zenon DEF HandlesResolvedByProgram
<1>4. QED
  BY <1>1, <1>2, <1>3, Zenon DEF JudgedByProgram


(***************************************************************************)
(* Two builds of a unit's facts, under two selections and against two      *)
(* indexes that answer alike.                                              *)
(***************************************************************************)
SpawnsAlike(a, b) ==
  \A f : /\ IsThreadEntry(a, f) = IsThreadEntry(b, f)
         /\ SpawnCount(a, f) = SpawnCount(b, f)
         /\ SpawnedInLoop(a, f) = SpawnedInLoop(b, f)

LocksAlike(a, b) ==
  \A f : /\ HasLockSummary(a, f) = HasLockSummary(b, f)
         /\ HasLockSummary(a, f) => a.lockSummaries[f] = b.lockSummaries[f]

JoinsAlike(a, b) ==
  \A f : /\ HasJoinedParameters(a, f) = HasJoinedParameters(b, f)
         /\ HasJoinedParameters(a, f) => a.joiningHelpers[f] = b.joiningHelpers[f]

SeveralAlike(a, b) == \A f : AppearsInSeveralUnits(a, f) = AppearsInSeveralUnits(b, f)

CountsSpawnsAlike(ir, s, t) ==
  /\ SpawnedEntries(ir, s, TRUE) = SpawnedEntries(ir, t, TRUE)
  /\ \A f : OwnSpawnCount(ir, s, f) = OwnSpawnCount(ir, t, f)

SameEntries(ir, s, t, a, b) == EntryConcurrency(ir, s, TRUE, a) = EntryConcurrency(ir, t, TRUE, b)

SameLocks(ir, s, t, a, b) ==
  LockWrapperSummaries(ir, s, TRUE, a) = LockWrapperSummaries(ir, t, TRUE, b)

SameJoins(ir, s, t, a, b) == KnownJoins(ir, s, TRUE, a) = KnownJoins(ir, t, TRUE, b)

SameBound(ir, s, t, a, b) ==
  /\ DOMAIN Bindings(ir, s, TRUE, a) = DOMAIN Bindings(ir, t, TRUE, b)
  /\ \A e \in DOMAIN Bindings(ir, s, TRUE, a) :
       Bindings(ir, s, TRUE, a)[e].byOwner = Bindings(ir, t, TRUE, b)[e].byOwner

ReadsHelperJoins(s) == ReadsCompletions(s) /\ "helperJoins" \in s.channels

\* Indexes with like spawn tables give a unit like entries.
LEMMA EntriesAlike ==
  ASSUME NEW ir, NEW s, NEW t, NEW a, NEW b, SpawnsAlike(a, b), CountsSpawnsAlike(ir, s, t)
  PROVE  SameEntries(ir, s, t, a, b)
<1> DEFINE Own(sel) == SpawnedEntries(ir, sel, TRUE)
           Imported(ix) == {f \in ir.defFunctions : TRUE /\ IsThreadEntry(ix, f)}
           Count(sel, f) == IF f \in Own(sel) THEN OwnSpawnCount(ir, sel, f) ELSE 0
           Loop(sel, f)  == f \in Own(sel) /\ ir.spawns[f].loop
           Most(sel, ix, f) == IF f \in Imported(ix) /\ SpawnCount(ix, f) > Count(sel, f)
                               THEN SpawnCount(ix, f) ELSE Count(sel, f)
           Looped(sel, ix, f) == Loop(sel, f) \/ (f \in Imported(ix) /\ SpawnedInLoop(ix, f))
           Table(sel, ix) ==
             [f \in Own(sel) \cup Imported(ix) |->
                [staticSpawnCount |-> Most(sel, ix, f), hasSpawnInLoop |-> Looped(sel, ix, f)]]
<1>1. /\ EntryConcurrency(ir, s, TRUE, a) = Table(s, a)
      /\ EntryConcurrency(ir, t, TRUE, b) = Table(t, b)
  BY Zenon DEF EntryConcurrency
<1>2. Own(s) = Own(t)
  BY Zenon DEF CountsSpawnsAlike
<1>3. Imported(a) = Imported(b)
  BY Zenon DEF SpawnsAlike
<1> HIDE DEF Own, Imported
<1>4. \A f : Count(s, f) = Count(t, f) /\ Loop(s, f) = Loop(t, f)
  BY <1>2, Zenon DEF CountsSpawnsAlike
<1> HIDE DEF Count, Loop
<1>5. ASSUME NEW f PROVE Most(s, a, f) = Most(t, b, f)
  <2>1. SpawnCount(a, f) = SpawnCount(b, f) /\ Count(s, f) = Count(t, f)
    BY <1>4, Zenon DEF SpawnsAlike
  <2>2. QED
    BY <1>3, <2>1, Zenon
<1>6. \A f : Looped(s, a, f) = Looped(t, b, f)
  BY <1>3, <1>4, Zenon DEF SpawnsAlike
<1> HIDE DEF Most, Looped
<1>7. Table(s, a) = [f \in Own(s) \cup Imported(a) |->
                       [staticSpawnCount |-> Most(t, b, f), hasSpawnInLoop |-> Looped(t, b, f)]]
  BY <1>5, <1>6, Zenon
<1>8. Table(t, b) = [f \in Own(s) \cup Imported(a) |->
                       [staticSpawnCount |-> Most(t, b, f), hasSpawnInLoop |-> Looped(t, b, f)]]
  BY <1>2, <1>3, Zenon
<1>9. QED
  BY <1>1, <1>7, <1>8, Zenon DEF SameEntries

\* Indexes with like helper tables give a unit like lock, join and binding answers.
LEMMA HelpersAlike ==
  ASSUME NEW ir, NEW s, NEW t, NEW a, NEW b
  PROVE  /\ LocksAlike(a, b) /\ SelectsLockWrapperSummaries(s) /\ SelectsLockWrapperSummaries(t)
              => SameLocks(ir, s, t, a, b)
         /\ JoinsAlike(a, b) /\ ReadsHelperJoins(s) /\ ReadsHelperJoins(t)
              => SameJoins(ir, s, t, a, b)
         /\ ( /\ a.definedGlobals = b.definedGlobals /\ SeveralAlike(a, b)
              /\ SelectsLockState(s) /\ SelectsLockState(t) )
              => SameBound(ir, s, t, a, b)
<1>1. ASSUME LocksAlike(a, b)
      PROVE  [f \in {d \in ir.declFunctions : TRUE /\ HasLockSummary(a, d)} |-> a.lockSummaries[f]]
               = [f \in {d \in ir.declFunctions : TRUE /\ HasLockSummary(b, d)} |-> b.lockSummaries[f]]
  BY <1>1, Zenon DEF LocksAlike
<1>2. ASSUME JoinsAlike(a, b)
      PROVE  [f \in {d \in ir.declFunctions : TRUE /\ HasJoinedParameters(a, d)} |-> a.joiningHelpers[f]]
               = [f \in {d \in ir.declFunctions : TRUE /\ HasJoinedParameters(b, d)} |-> b.joiningHelpers[f]]
  BY <1>2, Zenon DEF JoinsAlike
<1>3. ASSUME SeveralAlike(a, b)
      PROVE  BoundIn(ir, a) = BoundIn(ir, b)
  BY <1>3, Zenon DEF SeveralAlike, BoundIn
<1>4. ASSUME a.definedGlobals = b.definedGlobals, SeveralAlike(a, b),
             SelectsLockState(s), SelectsLockState(t)
      PROVE  SameBound(ir, s, t, a, b)
  <2>1. DOMAIN Bindings(ir, s, TRUE, a) = DOMAIN Bindings(ir, t, TRUE, b)
    BY <1>3, <1>4, BoundFields, Zenon
  <2>2. ASSUME NEW e \in DOMAIN Bindings(ir, s, TRUE, a)
        PROVE  Bindings(ir, s, TRUE, a)[e].byOwner = Bindings(ir, t, TRUE, b)[e].byOwner
    <3>1. OwnersIn(ir, a, e) = OwnersIn(ir, b, e)
      BY <1>4, Zenon DEF OwnersIn
    <3>2. e \in BoundIn(ir, a) /\ e \in BoundIn(ir, b)
      BY <1>3, <1>4, BoundFields, Zenon
    <3>3. Bindings(ir, s, TRUE, a)[e].byOwner = OwnersIn(ir, a, e)
      BY <1>4, <3>2, BoundFields, Zenon
    <3>4. Bindings(ir, t, TRUE, b)[e].byOwner = OwnersIn(ir, b, e)
      BY <1>4, <3>2, BoundFields, Zenon
    <3>5. QED
      BY <3>1, <3>3, <3>4, Zenon
  <2>3. QED
    BY <2>1, <2>2, Zenon DEF SameBound
<1>5. ASSUME LocksAlike(a, b), SelectsLockWrapperSummaries(s), SelectsLockWrapperSummaries(t)
      PROVE  SameLocks(ir, s, t, a, b)
  BY <1>1, <1>5, Zenon DEF LockWrapperSummaries, SameLocks
<1>6. ASSUME JoinsAlike(a, b), ReadsHelperJoins(s), ReadsHelperJoins(t)
      PROVE  SameJoins(ir, s, t, a, b)
  BY <1>2, <1>6, Zenon DEF KnownJoins, SameJoins, ReadsHelperJoins
<1>7. QED
  BY <1>4, <1>5, <1>6, Zenon

AlikeFor(rule, a, b) ==
  /\ a.definedGlobals = b.definedGlobals
  /\ rule \in Entries => SpawnsAlike(a, b) /\ SeveralAlike(a, b)
  /\ rule \in Locking => LocksAlike(a, b)
  /\ rule \in Joining => JoinsAlike(a, b)
  /\ rule = "MissingJoin" => a.resolvedHandles = b.resolvedHandles
  /\ rule = "ForkAfterThreadCreation" => (ProgramCreatesThreads(a) <=> ProgramCreatesThreads(b))
  /\ rule = "UnreapedChildProcess" => (a.reapsChildren <=> b.reapsChildren)

\* Two selections with a rule in common build, against indexes that answer alike for the rule,
\* facts the rule cannot tell apart.
LEMMA BuildsAlike ==
  ASSUME NEW ir, NEW rules \in SUBSET Rules, NEW others \in SUBSET Rules, NEW rule,
         rule \in rules, rule \in others, NEW a, NEW b, AlikeFor(rule, a, b),
         NEW s, s = ForRules(rules, TRUE), NEW t, t = ForRules(others, TRUE),
         NEW x, x = BuildFacts(ir, s, TRUE, a), NEW y, y = BuildFacts(ir, t, TRUE, b)
  PROVE  SameForRule(rule, x, y) /\ \A channels : SameHanded(rule, channels, x, y)
<1>1. Builds(ir, s, a, x) /\ Builds(ir, t, b, y)
  BY BuiltFields, Zenon
<1>2. Processes(ir, s, a, x) /\ Processes(ir, t, b, y)
  BY ProcessFields, Zenon
<1>3. ASSUME rule \in Shared PROVE x.sharedGlobals = y.sharedGlobals
  <2>1. "accesses" \in s.facts /\ "accesses" \in t.facts
    BY <1>3, SelectedFacts, Zenon
  <2>2. QED
    BY <1>1, <1>3, <2>1, ZenonT(40) DEF AlikeFor, Builds
<1>4. ASSUME rule \in Entries PROVE x.entryConcurrency = y.entryConcurrency
  <2>1. "threadEntries" \in s.facts /\ "threadEntries" \in t.facts
    BY <1>4, SelectedFacts, Zenon
  <2>2. SpawnedEntries(ir, s, TRUE) = SpawnedEntries(ir, t, TRUE)
    BY <2>1, OwnEntries, Zenon
  <2>3. \A f : OwnSpawnCount(ir, s, f) = OwnSpawnCount(ir, t, f)
    BY <2>1, Zenon DEF OwnSpawnCount
  <2>4. SpawnsAlike(a, b) /\ CountsSpawnsAlike(ir, s, t)
    BY <1>4, <2>2, <2>3, Zenon DEF AlikeFor, CountsSpawnsAlike
  <2>5. SameEntries(ir, s, t, a, b)
    BY <2>4, EntriesAlike, Zenon
  <2>6. QED
    BY <1>1, <2>5, Zenon DEF Builds, SameEntries
<1>5. ASSUME rule \in Locking
      PROVE  x.lockWrapperSummaries = y.lockWrapperSummaries
  <2>1. SelectsLockWrapperSummaries(s) /\ SelectsLockWrapperSummaries(t)
    BY <1>5, SelectedFacts, Zenon
  <2>2. LocksAlike(a, b)
    BY <1>5, Zenon DEF AlikeFor
  <2>3. SameLocks(ir, s, t, a, b)
    BY <2>1, <2>2, HelpersAlike, Zenon
  <2>4. QED
    BY <1>1, <2>3, Zenon DEF Builds, SameLocks
<1>6. ASSUME rule \in Joining PROVE x.knownJoins = y.knownJoins
  <2>1. ReadsHelperJoins(s) /\ ReadsHelperJoins(t)
    BY <1>6, SelectedFacts, Zenon DEF ReadsHelperJoins
  <2>2. JoinsAlike(a, b)
    BY <1>6, Zenon DEF AlikeFor
  <2>3. SameJoins(ir, s, t, a, b)
    BY <2>1, <2>2, HelpersAlike, Zenon
  <2>4. QED
    BY <1>1, <2>3, Zenon DEF Builds, SameJoins
<1>7. ASSUME rule = "MissingJoin" PROVE x.lifecycles = y.lifecycles
  <2>1. "threadLifecycles" \in s.facts /\ "threadLifecycles" \in t.facts
    BY <1>7, SelectedFacts, Zenon
  <2>2. a.resolvedHandles = b.resolvedHandles
    BY <1>7, Zenon DEF AlikeFor
  <2>3. ThreadLifecycles(ir, s, TRUE, a) = ThreadLifecycles(ir, t, TRUE, b)
    BY <2>1, <2>2, Zenon DEF ThreadLifecycles, ResolvesHandleElsewhere
  <2>4. QED
    BY <1>1, <2>3, Zenon DEF Builds
<1>8. ASSUME rule = "ForkAfterThreadCreation"
      PROVE  (x.forks /\ x.programCreatesThreads) = (y.forks /\ y.programCreatesThreads)
  <2>1. "processLifecycle" \in s.facts /\ "processLifecycle" \in t.facts
    BY <1>8, SelectedFacts, Zenon
  <2>2. QED
    BY <1>2, <1>8, <2>1, Zenon DEF Processes, AlikeFor
<1>9. ASSUME rule = "UnreapedChildProcess"
      PROVE  (x.forks /\ ~x.reapsChildProcesses) = (y.forks /\ ~y.reapsChildProcesses)
  <2>1. "processLifecycle" \in s.facts /\ "processLifecycle" \in t.facts
    BY <1>9, SelectedFacts, Zenon
  <2>2. QED
    BY <1>2, <1>9, <2>1, Zenon DEF Processes, AlikeFor
<1>10. ASSUME rule \in Entries, NEW channels PROVE SameHanded(rule, channels, x, y)
  <2>1. SelectsLockState(s) /\ SelectsLockState(t)
    BY <1>10, SelectedFacts, Zenon
  <2>2. a.definedGlobals = b.definedGlobals /\ SeveralAlike(a, b)
    BY <1>10, Zenon DEF AlikeFor
  <2>3. SameBound(ir, s, t, a, b)
    BY <2>1, <2>2, HelpersAlike, Zenon
  <2>4. x.bindings = Bindings(ir, s, TRUE, a) /\ y.bindings = Bindings(ir, t, TRUE, b)
    BY <1>1, Zenon DEF Builds
  <2>5. QED
    BY <2>3, <2>4, Zenon DEF SameHanded, SameBound
<1>11. SameForRule(rule, x, y)
  BY <1>3, <1>4, <1>5, <1>6, <1>7, <1>8, <1>9, Zenon DEF SameForRule
<1>12. QED
  BY <1>10, <1>11, Zenon DEF SameHanded

(***************************************************************************)
(* The indexes of two analyses of the same units, under selections with a  *)
(* rule in common, answer alike for the rule.                              *)
(***************************************************************************)
LEMMA FoldHelpers ==
  ASSUME InductsUpTo, NEW F, NEW G, Len(F) \in Nat, Len(G) = Len(F), NEW C,
         \A v \in 1..Len(F) : /\ F[v].functionSymbols = G[v].functionSymbols
                              /\ F[v].declaredFunctions = G[v].declaredFunctions
  PROVE  /\ (\A v \in 1..Len(F) : F[v].lockWrapperSummaries = G[v].lockWrapperSummaries)
              => FoldIndex(F, C).lockSummaries = FoldIndex(G, C).lockSummaries
         /\ (\A v \in 1..Len(F) : F[v].joiningHelpers = G[v].joiningHelpers)
              => FoldIndex(F, C).joiningHelpers = FoldIndex(G, C).joiningHelpers
<1> DEFINE ix == IndexesOf(F, C)
           iy == IndexesOf(G, C)
           L == \A v \in 1..Len(F) : F[v].lockWrapperSummaries = G[v].lockWrapperSummaries
           J == \A v \in 1..Len(F) : F[v].joiningHelpers = G[v].joiningHelpers
           P == {n \in 0..Len(F) : /\ L => ix[n].lockSummaries = iy[n].lockSummaries
                                   /\ J => ix[n].joiningHelpers = iy[n].joiningHelpers}
<1>1. /\ ix[0] = EmptyIndex /\ \A n \in 1..Len(F) : ix[n] = Added(ix[n - 1], n, F, C)
      /\ iy[0] = EmptyIndex /\ \A n \in 1..Len(F) : iy[n] = Added(iy[n - 1], n, G, C)
  BY IndexesUnfold
<1> HIDE DEF ix, iy
<1>2. 0 \in P
  BY <1>1
<1>3. ASSUME NEW n \in 0..Len(F), n \in P, n < Len(F) PROVE n + 1 \in P
  <2>1. n + 1 \in 1..Len(F) /\ n + 1 - 1 = n /\ n + 1 \in 0..Len(F)
    BY <1>3
  <2>2. ix[n + 1] = Added(ix[n], n + 1, F, C) /\ iy[n + 1] = Added(iy[n], n + 1, G, C)
    BY <1>1, <2>1
  <2>3. CASE n + 1 \in C
    <3>1. /\ ix[n + 1] = AddUnit(ix[n], n + 1, F[n + 1])
          /\ iy[n + 1] = AddUnit(iy[n], n + 1, G[n + 1])
      BY <2>2, <2>3, Zenon DEF Added
    <3>2. \A table : DefinedIn(F[n + 1], table) = DefinedIn(G[n + 1], table)
      BY <2>1, Zenon DEF DefinedIn
    <3>3. /\ ix[n + 1].lockSummaries
               = Emplace(ix[n].lockSummaries, DefinedIn(F[n + 1], F[n + 1].lockWrapperSummaries))
          /\ iy[n + 1].lockSummaries
               = Emplace(iy[n].lockSummaries, DefinedIn(G[n + 1], G[n + 1].lockWrapperSummaries))
          /\ ix[n + 1].joiningHelpers
               = Emplace(ix[n].joiningHelpers, DefinedIn(F[n + 1], F[n + 1].joiningHelpers))
          /\ iy[n + 1].joiningHelpers
               = Emplace(iy[n].joiningHelpers, DefinedIn(G[n + 1], G[n + 1].joiningHelpers))
      BY <3>1, AddedFields
    <3>4. /\ L => F[n + 1].lockWrapperSummaries = G[n + 1].lockWrapperSummaries
          /\ J => F[n + 1].joiningHelpers = G[n + 1].joiningHelpers
      BY <2>1, Zenon
    <3>5. /\ L => ix[n].lockSummaries = iy[n].lockSummaries
          /\ J => ix[n].joiningHelpers = iy[n].joiningHelpers
      BY <1>3, Zenon
    <3> HIDE DEF L, J
    <3>6. QED
      BY <2>1, <3>2, <3>3, <3>4, <3>5, ZenonT(40)
  <2>4. CASE n + 1 \notin C
    <3>1. ix[n + 1] = ix[n] /\ iy[n + 1] = iy[n]
      BY <2>2, <2>4, Zenon DEF Added
    <3> HIDE DEF L, J
    <3>2. QED
      BY <1>3, <2>1, <3>1, Zenon
  <2>5. QED
    BY <2>3, <2>4, Zenon
<1>4. Len(F) \in P
  <2> HIDE DEF P
  <2>1. 0..Len(F) \subseteq P
    BY <1>2, <1>3, Zenon DEF InductsUpTo
  <2>2. QED
    BY <2>1
<1>5. QED
  BY <1>4, Zenon DEF FoldIndex, ix, iy

\* What the first pass says of a unit's helpers and handles.
HelpersAlone(ir, sel, a) ==
  /\ SelectsLockWrapperSummaries(sel) => a.lockWrapperSummaries = Emplace(ir.lockHelpers, EmptyFunction)
  /\ "helperJoins" \in sel.channels => a.joiningHelpers = ir.joinHelpers
  /\ "threadLifecycles" \in sel.facts =>
       a.resolvedGlobalHandles = {h \in DOMAIN ir.handles : ir.handles[h].resolves > 0}

\* A unit built alone knows only the helpers it defines.
LEMMA AloneHelpers ==
  ASSUME NEW ir, NEW sel, NEW a, a = BuildFacts(ir, sel, TRUE, EmptyIndex)
  PROVE  HelpersAlone(ir, sel, a)
<1>1. Builds(ir, sel, EmptyIndex, a)
  BY BuiltFields, Zenon
<1>2. SelectsLockWrapperSummaries(sel) =>
        LockWrapperSummaries(ir, sel, TRUE, EmptyIndex) = Emplace(ir.lockHelpers, EmptyFunction)
  <2>1. {d \in ir.declFunctions : TRUE /\ HasLockSummary(EmptyIndex, d)} = {}
    BY EmptyIndexFacts, Zenon
  <2>2. [f \in {d \in ir.declFunctions : TRUE /\ HasLockSummary(EmptyIndex, d)} |->
           EmptyIndex.lockSummaries[f]] = EmptyFunction
    BY <2>1, Zenon DEF EmptyFunction
  <2>3. QED
    BY <2>2, Zenon DEF LockWrapperSummaries
<1>3. QED
  BY <1>1, <1>2, Zenon DEF Builds, HelpersAlone

\* The compatible units do not depend on the selected rules.
LEMMA CompatibleAlike ==
  ASSUME NEW irs, NEW run, RunOK(run, "done", irs), NEW other, RunOK(other, "done", irs),
         \A ir \in irs : IsUnitIR(ir), other.project = run.project
  PROVE  other.compatible = run.compatible
<1>1. /\ DOMAIN run.alone = 1..Len(run.project) /\ DOMAIN other.alone = 1..Len(run.project)
      /\ \A u \in 1..Len(run.project) :
           /\ run.alone[u] = BuildFacts(run.project[u], SelectionOf(run), TRUE, EmptyIndex)
           /\ other.alone[u] = BuildFacts(run.project[u], SelectionOf(other), TRUE, EmptyIndex)
  BY DoneFacts, Zenon
<1>2. \A u \in 1..Len(run.project) : run.alone[u].abiKey = other.alone[u].abiKey
  <2>1. \A u \in 1..Len(run.project) :
          /\ Builds(run.project[u], SelectionOf(run), EmptyIndex, run.alone[u])
          /\ Builds(run.project[u], SelectionOf(other), EmptyIndex, other.alone[u])
    BY <1>1, BuiltFields, Zenon
  <2>2. QED
    BY <2>1, Zenon DEF Builds
<1>3. AbisOf(run) = AbisOf(other)
  BY <1>1, <1>2, Zenon DEF AbisOf
<1>4. QED
  BY <1>3, Zenon DEF RunOK

\* Folded from one project, the indexes of two selections are alike in what a common rule reads.
LEMMA IndexesAlike ==
  ASSUME InductsUpTo, NEW irs, NEW run, RunOK(run, "done", irs), NEW other, RunOK(other, "done", irs),
         \A ir \in irs : IsUnitIR(ir), other.project = run.project,
         NEW rule, rule \in run.rules, rule \in other.rules
  PROVE  AlikeFor(rule, other.index, run.index)
<1> DEFINE F == run.alone
           G == other.alone
           C == run.compatible
           n == Len(run.project)
           s == SelectionOf(run)
           t == SelectionOf(other)
<1>1. other.compatible = C
  BY CompatibleAlike, Zenon
<1>2. /\ n \in Nat /\ C \subseteq 1..n /\ run.rules \in SUBSET Rules /\ other.rules \in SUBSET Rules
      /\ DOMAIN run.project = 1..n
      /\ \A v \in 1..n : /\ F[v] = BuildFacts(run.project[v], s, TRUE, EmptyIndex)
                         /\ G[v] = BuildFacts(run.project[v], t, TRUE, EmptyIndex)
  BY DoneFacts, Zenon
<1>3. /\ Len(F) = n /\ Len(G) = n
      /\ run.index = FoldIndex(F, C) /\ other.index = FoldIndex(G, C)
      /\ IndexKnows(run.index, F, C) /\ IndexKnows(other.index, G, C)
  BY <1>1, DoneIndex, Zenon
<1>4. \A v \in 1..n : /\ F[v].definedGlobals = G[v].definedGlobals
                      /\ F[v].declaredFunctions = G[v].declaredFunctions
                      /\ F[v].functionSymbols = G[v].functionSymbols
  <2>1. \A v \in 1..n : /\ Builds(run.project[v], s, EmptyIndex, F[v])
                        /\ Builds(run.project[v], t, EmptyIndex, G[v])
    BY <1>2, BuiltFields, Zenon
  <2>2. QED
    BY <2>1, ZenonT(40) DEF Builds
<1>5. \A v \in 1..n : HelpersAlone(run.project[v], s, F[v]) /\ HelpersAlone(run.project[v], t, G[v])
  BY <1>2, AloneHelpers, Zenon
<1>6. other.index.definedGlobals = run.index.definedGlobals
  <2>1. \A v \in C : F[v].definedGlobals = G[v].definedGlobals
    BY <1>2, <1>4, Zenon
  <2>2. UNION {F[v].definedGlobals : v \in C} = UNION {G[v].definedGlobals : v \in C}
    BY <2>1
  <2>3. QED
    BY <1>3, <2>2, Zenon DEF IndexKnows, SetsKnown
<1>7. ASSUME rule \in Entries PROVE SpawnsAlike(other.index, run.index)
  <2>1. "threadEntries" \in s.facts /\ "threadEntries" \in t.facts
    BY <1>2, <1>7, SelectedFacts, Zenon DEF SelectionOf
  <2>2. SelectsSpawns(s) /\ SelectsSpawns(t)
    BY <2>1, Zenon DEF SelectsSpawns, Selects
  <2>3. \A v, f : OwnSpawnCount(run.project[v], s, f) = OwnSpawnCount(run.project[v], t, f)
    BY <2>1, Zenon DEF OwnSpawnCount
  <2>4. \A f : InstancesStarted(run, f) = InstancesStarted(other, f)
    BY <1>1, <2>3, Zenon DEF InstancesStarted
  <2>5. ASSUME NEW f
        PROVE  /\ IsThreadEntry(other.index, f) <=> IsThreadEntry(run.index, f)
               /\ SpawnedInLoop(other.index, f) <=> SpawnedInLoop(run.index, f)
               /\ SpawnCount(other.index, f) = SpawnCount(run.index, f)
    <3>1. /\ IsThreadEntry(run.index, f) <=> \E v \in C : f \in DOMAIN run.project[v].spawns
          /\ SpawnedInLoop(run.index, f)
               <=> \E v \in C : f \in DOMAIN run.project[v].spawns /\ run.project[v].spawns[f].loop
          /\ SpawnCount(run.index, f) = InstancesStarted(run, f)
      BY <2>2, DoneSpawns, Zenon
    <3>2. /\ IsThreadEntry(other.index, f) <=> \E v \in C : f \in DOMAIN run.project[v].spawns
          /\ SpawnedInLoop(other.index, f)
               <=> \E v \in C : f \in DOMAIN run.project[v].spawns /\ run.project[v].spawns[f].loop
          /\ SpawnCount(other.index, f) = InstancesStarted(other, f)
      BY <1>1, <2>2, DoneSpawns, Zenon
    <3>3. QED
      BY <2>4, <3>1, <3>2, Zenon
  <2>6. QED
    BY <2>5, Zenon DEF SpawnsAlike, IsThreadEntry, SpawnedInLoop
<1>8. ASSUME rule \in Locking
      PROVE  LocksAlike(other.index, run.index)
  <2>1. SelectsLockWrapperSummaries(s) /\ SelectsLockWrapperSummaries(t)
    BY <1>2, <1>8, SelectedFacts, Zenon DEF SelectionOf
  <2>2. \A v \in 1..n : F[v].lockWrapperSummaries = G[v].lockWrapperSummaries
    BY <1>5, <2>1, Zenon DEF HelpersAlone
  <2>3. run.index.lockSummaries = other.index.lockSummaries
    <3>1. /\ Len(F) \in Nat /\ Len(G) = Len(F)
          /\ \A v \in 1..Len(F) : /\ F[v].functionSymbols = G[v].functionSymbols
                                 /\ F[v].declaredFunctions = G[v].declaredFunctions
                                 /\ F[v].lockWrapperSummaries = G[v].lockWrapperSummaries
      BY <1>2, <1>3, <1>4, <2>2, Zenon
    <3>2. run.index = FoldIndex(F, C) /\ other.index = FoldIndex(G, C)
      BY <1>3, Zenon
    <3> HIDE DEF F, G, C
    <3>3. FoldIndex(F, C).lockSummaries = FoldIndex(G, C).lockSummaries
      BY <3>1, FoldHelpers
    <3>4. QED
      BY <3>2, <3>3, Zenon
  <2>4. QED
    BY <2>3, Zenon DEF LocksAlike, HasLockSummary
<1>8b. SeveralAlike(other.index, run.index)
  <2>1. \A v \in C : F[v].functionSymbols = G[v].functionSymbols
    BY <1>2, <1>4, Zenon
  <2>2. UnitsKnown(run.index, F, C) /\ UnitsKnown(other.index, G, C)
    BY <1>3, Zenon DEF IndexKnows
  <2> HIDE DEF F, G, C
  <2>3. \A f : f \in DOMAIN run.index.unitsByFunction <=> f \in DOMAIN other.index.unitsByFunction
    BY <2>1, <2>2, Zenon DEF UnitsKnown
  <2>4. ASSUME NEW f \in DOMAIN run.index.unitsByFunction
        PROVE  run.index.unitsByFunction[f].several <=> other.index.unitsByFunction[f].several
    <3>1. run.index.unitsByFunction[f].several
            <=> \E v, w \in C : v # w /\ f \in F[v].functionSymbols /\ f \in F[w].functionSymbols
      BY <2>2, Zenon DEF UnitsKnown
    <3>2. other.index.unitsByFunction[f].several
            <=> \E v, w \in C : v # w /\ f \in G[v].functionSymbols /\ f \in G[w].functionSymbols
      BY <2>2, <2>3, Zenon DEF UnitsKnown
    <3>3. QED
      BY <2>1, <3>1, <3>2, Zenon
  <2>5. QED
    BY <2>3, <2>4, Zenon DEF SeveralAlike, AppearsInSeveralUnits
<1>9. ASSUME rule \in Joining PROVE JoinsAlike(other.index, run.index)
  <2>1. "helperJoins" \in s.channels /\ "helperJoins" \in t.channels
    BY <1>2, <1>9, SelectedFacts, Zenon DEF SelectionOf
  <2>2. \A v \in 1..n : F[v].joiningHelpers = G[v].joiningHelpers
    BY <1>5, <2>1, Zenon DEF HelpersAlone
  <2>3. run.index.joiningHelpers = other.index.joiningHelpers
    <3>1. /\ Len(F) \in Nat /\ Len(G) = Len(F)
          /\ \A v \in 1..Len(F) : /\ F[v].functionSymbols = G[v].functionSymbols
                                 /\ F[v].declaredFunctions = G[v].declaredFunctions
                                 /\ F[v].joiningHelpers = G[v].joiningHelpers
      BY <1>2, <1>3, <1>4, <2>2, Zenon
    <3>2. run.index = FoldIndex(F, C) /\ other.index = FoldIndex(G, C)
      BY <1>3, Zenon
    <3> HIDE DEF F, G, C
    <3>3. FoldIndex(F, C).joiningHelpers = FoldIndex(G, C).joiningHelpers
      BY <3>1, FoldHelpers
    <3>4. QED
      BY <3>2, <3>3, Zenon
  <2>4. QED
    BY <2>3, Zenon DEF JoinsAlike, HasJoinedParameters
<1>10. ASSUME rule = "MissingJoin" PROVE other.index.resolvedHandles = run.index.resolvedHandles
  <2>1. "threadLifecycles" \in s.facts /\ "threadLifecycles" \in t.facts
    BY <1>2, <1>10, SelectedFacts, Zenon DEF SelectionOf
  <2>2. \A v \in C : F[v].resolvedGlobalHandles = G[v].resolvedGlobalHandles
    BY <1>2, <1>5, <2>1, Zenon DEF HelpersAlone
  <2>3. UNION {F[v].resolvedGlobalHandles : v \in C} = UNION {G[v].resolvedGlobalHandles : v \in C}
    BY <2>2
  <2>4. QED
    BY <1>3, <2>3, Zenon DEF IndexKnows, SetsKnown
<1>11. ASSUME "processLifecycle" \in s.facts, "processLifecycle" \in t.facts
       PROVE  /\ ProgramCreatesThreads(other.index) <=> ProgramCreatesThreads(run.index)
              /\ other.index.reapsChildren <=> run.index.reapsChildren
  <2>1. /\ ProgramCreatesThreads(run.index) <=> \E v \in C : DOMAIN run.project[v].spawns # {}
        /\ run.index.reapsChildren <=> \E v \in C : run.project[v].reaps
    BY <1>11, DoneProcesses, Zenon
  <2>2. /\ ProgramCreatesThreads(other.index) <=> \E v \in C : DOMAIN run.project[v].spawns # {}
        /\ other.index.reapsChildren <=> \E v \in C : run.project[v].reaps
    BY <1>1, <1>11, DoneProcesses, Zenon
  <2>3. QED
    BY <2>1, <2>2, Zenon
<1>12. rule \in {"ForkAfterThreadCreation", "UnreapedChildProcess"} =>
         "processLifecycle" \in s.facts /\ "processLifecycle" \in t.facts
  BY <1>2, SelectedFacts, Zenon DEF SelectionOf
<1> HIDE DEF F, G, C, n, s, t
<1>13. QED
  BY <1>6, <1>7, <1>8, <1>8b, <1>9, <1>10, <1>11, <1>12, Zenon DEF AlikeFor


\* Two finished runs that differ in their rules agree on what both were asked.
LEMMA NarrowAgreed ==
  ASSUME InductsUpTo, Inv
  PROVE  NarrowSelectionAgrees
<1> DEFINE channels == SelectionOf(twin).channels
<1> SUFFICES ASSUME Inv, Done, twin.variation = "narrow"
             PROVE  /\ twin.compatible = base.compatible
                    /\ \A rule \in twin.rules, u \in base.compatible :
                         ReadsAlike(rule, channels, twin.facts[u], base.facts[u])
  BY Zenon DEF NarrowSelectionAgrees, ReadsAlike
<1> DEFINE irs == Families[family].irs
<1>1. /\ RunOK(base, "done", irs) /\ RunOK(twin, "done", irs) /\ \A ir \in irs : IsUnitIR(ir)
      /\ Paired(base, twin)
  BY DoneRuns
<1>2. twin.project = base.project /\ twin.rules \subseteq base.rules
  BY <1>1 DEF Paired
<1>3. twin.compatible = base.compatible
  BY <1>1, <1>2, CompatibleAlike, Zenon
<1>4. channels \subseteq SelectionOf(base).channels
  BY <1>2, Zenon DEF SelectionOf, ForRules
<1> HIDE DEF channels
<1>5. ASSUME NEW rule \in twin.rules, NEW u \in base.compatible
      PROVE  ReadsAlike(rule, channels, twin.facts[u], base.facts[u])
  <2>1. rule \in base.rules /\ base.rules \in SUBSET Rules /\ twin.rules \in SUBSET Rules
    BY <1>1, <1>2 DEF RunOK
  <2>2. AlikeFor(rule, twin.index, base.index)
    BY <1>1, <1>2, <2>1, IndexesAlike, Zenon
  <2>3. /\ Rebuilt(twin, u) = BuildFacts(base.project[u], ForRules(twin.rules, TRUE), TRUE, twin.index)
        /\ Rebuilt(base, u) = BuildFacts(base.project[u], ForRules(base.rules, TRUE), TRUE, base.index)
    BY <1>2, Zenon DEF Rebuilt, SelectionOf
  <2>4. /\ SameForRule(rule, Rebuilt(twin, u), Rebuilt(base, u))
        /\ SameHanded(rule, channels, Rebuilt(twin, u), Rebuilt(base, u))
    BY <2>1, <2>2, <2>3, BuildsAlike, Zenon
  <2>5. IsFacts(Rebuilt(twin, u)) /\ IsFacts(Rebuilt(base, u))
    <3>1. /\ Builds(base.project[u], ForRules(twin.rules, TRUE), twin.index, Rebuilt(twin, u))
          /\ Builds(base.project[u], ForRules(base.rules, TRUE), base.index, Rebuilt(base, u))
      BY <2>3, BuiltFields, Zenon
    <3>2. QED
      BY <3>1, Zenon DEF Builds
  <2>6. ReadsAlike(rule, channels, Rebuilt(twin, u), Rebuilt(base, u))
    BY <2>1, <2>4, <2>5, ReadsSame, Zenon
  <2>7. ReadsAlike(rule, channels, base.facts[u], Rebuilt(base, u))
    BY <1>1, <1>4, <2>1, SettledReads, Zenon
  <2>8. ReadsAlike(rule, channels, twin.facts[u], Rebuilt(twin, u))
    <3>1. channels \in SUBSET SelectionOf(twin).channels /\ u \in twin.compatible
      BY <1>3, Zenon DEF channels
    <3>2. QED
      BY <1>1, <3>1, SettledReads, Zenon
  <2>9. QED
    BY <2>6, <2>7, <2>8, Zenon DEF ReadsAlike
<1>6. QED
  BY <1>3, <1>5


(***************************************************************************)
(* An index answers a build and the gate through its queries alone.        *)
(***************************************************************************)
AnswersAlike(a, b) ==
  /\ a.definedGlobals = b.definedGlobals /\ a.resolvedHandles = b.resolvedHandles
  /\ a.reapsChildren <=> b.reapsChildren
  /\ SpawnsAlike(a, b) /\ LocksAlike(a, b) /\ JoinsAlike(a, b) /\ SeveralAlike(a, b)

\* Indexes with like spawn tables agree on whether the program creates threads.
LEMMA ThreadsAlike ==
  ASSUME NEW a, NEW b, SpawnsAlike(a, b)
  PROVE  ProgramCreatesThreads(a) = ProgramCreatesThreads(b)
<1>1. \A f : f \in DOMAIN a.spawnSites <=> f \in DOMAIN b.spawnSites
  BY Zenon DEF SpawnsAlike, IsThreadEntry
<1>2. QED
  BY <1>1, Zenon DEF ProgramCreatesThreads

\* Indexes that answer alike build the same facts.
LEMMA SameBuild ==
  ASSUME NEW ir, NEW s, NEW a, NEW b, AnswersAlike(a, b)
  PROVE  BuildFacts(ir, s, TRUE, a) = BuildFacts(ir, s, TRUE, b)
<1>1. EntryConcurrency(ir, s, TRUE, a) = EntryConcurrency(ir, s, TRUE, b)
  <2>1. SpawnsAlike(a, b) /\ CountsSpawnsAlike(ir, s, s)
    BY Zenon DEF AnswersAlike, CountsSpawnsAlike
  <2>2. SameEntries(ir, s, s, a, b)
    BY <2>1, EntriesAlike, Zenon
  <2>3. QED
    BY <2>2, Zenon DEF SameEntries
<1>2. LockWrapperSummaries(ir, s, TRUE, a) = LockWrapperSummaries(ir, s, TRUE, b)
  <2>1. SelectsLockWrapperSummaries(s) => SameLocks(ir, s, s, a, b)
    BY HelpersAlike, Zenon DEF AnswersAlike
  <2>2. QED
    BY <2>1, Zenon DEF SameLocks, LockWrapperSummaries
<1>3. KnownJoins(ir, s, TRUE, a) = KnownJoins(ir, s, TRUE, b)
  <2>1. ReadsHelperJoins(s) => SameJoins(ir, s, s, a, b)
    BY HelpersAlike, Zenon DEF AnswersAlike
  <2>2. QED
    BY <2>1, Zenon DEF SameJoins, KnownJoins, ReadsHelperJoins
<1>4. Bindings(ir, s, TRUE, a) = Bindings(ir, s, TRUE, b)
  <2> DEFINE Kept(ix) == {e \in DOMAIN ir.bindings :
                            ~(TRUE /\ \E f \in ir.bindings[e].settledThrough :
                                        AppearsInSeveralUnits(ix, f))}
             Own(ix, e) == ir.bindings[e].perThread /\ ~(TRUE /\ SpawnCount(ix, e) > 1)
             Names(ix, e) == {g \in ir.bindings[e].globals :
                                g \in ir.defGlobals \/ (TRUE /\ g \in ix.definedGlobals)}
             Table(ix) == [e \in Kept(ix) |-> [byOwner |-> Names(ix, e), perThread |-> Own(ix, e)]]
  <2>1. Kept(a) = Kept(b)
    BY Zenon DEF AnswersAlike, SeveralAlike
  <2>2. ASSUME NEW e PROVE Own(a, e) = Own(b, e)
    <3>1. SpawnCount(a, e) = SpawnCount(b, e)
      BY Zenon DEF AnswersAlike, SpawnsAlike
    <3>2. QED
      BY <3>1, Zenon
  <2>3. /\ SelectsLockState(s) => Bindings(ir, s, TRUE, a) = Table(a)
        /\ SelectsLockState(s) => Bindings(ir, s, TRUE, b) = Table(b)
        /\ ~SelectsLockState(s) => Bindings(ir, s, TRUE, a) = Bindings(ir, s, TRUE, b)
    BY Zenon DEF Bindings
  <2>3b. \A e : Names(a, e) = Names(b, e)
    BY Zenon DEF AnswersAlike
  <2> HIDE DEF Kept, Own, Names
  <2>4. Table(a) = Table(b)
    BY <2>1, <2>2, <2>3b, Zenon
  <2>5. QED
    BY <2>3, <2>4, Zenon
<1>5. ThreadLifecycles(ir, s, TRUE, a) = ThreadLifecycles(ir, s, TRUE, b)
  <2>1. a.resolvedHandles = b.resolvedHandles
    BY Zenon DEF AnswersAlike
  <2>2. QED
    BY <2>1, Zenon DEF ThreadLifecycles, ResolvesHandleElsewhere
<1>6. ProcessFacts(ir, s, TRUE, a) = ProcessFacts(ir, s, TRUE, b)
  <2>1. ProgramCreatesThreads(a) = ProgramCreatesThreads(b) /\ (a.reapsChildren <=> b.reapsChildren)
    BY ThreadsAlike, Zenon DEF AnswersAlike
  <2>2. (ir.reaps \/ (TRUE /\ a.reapsChildren)) = (ir.reaps \/ (TRUE /\ b.reapsChildren))
    BY <2>1, Zenon
  <2>3. QED
    BY <2>1, <2>2, Zenon DEF ProcessFacts
<1>7. a.definedGlobals = b.definedGlobals
  BY Zenon DEF AnswersAlike
<1>8. QED
  BY <1>1, <1>2, <1>3, <1>4, <1>5, <1>6, <1>7, Zenon DEF BuildFacts

\* Indexes that answer alike take the gate the same way.
LEMMA SameGate ==
  ASSUME NEW facts, NEW s, NEW a, NEW b, AnswersAlike(a, b)
  PROVE  CrossTUChangesFacts(facts, a, s) = CrossTUChangesFacts(facts, b, s)
<1>1. EntryChanged(facts, a) = EntryChanged(facts, b)
  <2> DEFINE Changed(ix, f) ==
               /\ IsThreadEntry(ix, f)
               /\ \/ f \notin DOMAIN facts.entryConcurrency
                  \/ SpawnCount(ix, f) > facts.entryConcurrency[f].staticSpawnCount
                  \/ SpawnedInLoop(ix, f) /\ ~facts.entryConcurrency[f].hasSpawnInLoop
  <2>1. ASSUME NEW f PROVE Changed(a, f) = Changed(b, f)
    <3>1. /\ IsThreadEntry(a, f) = IsThreadEntry(b, f) /\ SpawnCount(a, f) = SpawnCount(b, f)
          /\ SpawnedInLoop(a, f) = SpawnedInLoop(b, f)
      BY Zenon DEF AnswersAlike, SpawnsAlike
    <3>2. QED
      BY <3>1, Zenon
  <2>2. \A f : AppearsInSeveralUnits(a, f) = AppearsInSeveralUnits(b, f)
    BY Zenon DEF AnswersAlike, SeveralAlike
  <2>3. \A ix : EntryChanged(facts, ix) =
          (\/ \E f \in facts.settlingFunctions : AppearsInSeveralUnits(ix, f)
           \/ \E f \in facts.functionSymbols \ facts.declaredFunctions : Changed(ix, f))
    BY Zenon DEF EntryChanged
  <2> HIDE DEF Changed
  <2>4. QED
    BY <2>1, <2>2, <2>3, Zenon
<1>2. ForksChanged(facts, a, s) = ForksChanged(facts, b, s)
  <2>1. ProgramCreatesThreads(a) = ProgramCreatesThreads(b) /\ (a.reapsChildren <=> b.reapsChildren)
    BY ThreadsAlike, Zenon DEF AnswersAlike
  <2>2. QED
    BY <2>1, Zenon DEF ForksChanged
<1>3. HelpersChanged(facts, a, s) = HelpersChanged(facts, b, s)
  BY Zenon DEF AnswersAlike, LocksAlike, JoinsAlike, HelpersChanged
<1>4. a.definedGlobals = b.definedGlobals /\ a.resolvedHandles = b.resolvedHandles
  BY Zenon DEF AnswersAlike
<1>5. QED
  BY <1>1, <1>2, <1>3, <1>4, Zenon DEF CrossTUChangesFacts, ResolvesHandleElsewhere

(***************************************************************************)
(* The same units in the reverse order.                                    *)
(***************************************************************************)
Mirror(n, u) == n + 1 - u

\* Counting the units from the end is a bijection, and its own inverse.
LEMMA MirrorFacts ==
  ASSUME NEW n \in Nat
  PROVE  \A u \in 1..n : /\ Mirror(n, u) \in 1..n /\ Mirror(n, Mirror(n, u)) = u
                         /\ \A v \in 1..n : Mirror(n, u) = Mirror(n, v) => u = v
BY DEF Mirror

\* The dominant ABI does not depend on the order of the units.
LEMMA MirrorAbis ==
  ASSUME MirrorCounts, NEW n \in Nat, NEW A, NEW B, DOMAIN A = 1..n, DOMAIN B = 1..n,
         \A u \in 1..n : B[u] = A[Mirror(n, u)]
  PROVE  \A u \in 1..n : u \in CompatibleUnits(B) <=> Mirror(n, u) \in CompatibleUnits(A)
<1>1. \A key : AbiCount(B, key) = AbiCount(A, key)
  <2> TAKE key
  <2> DEFINE S == {u \in 1..n : A[u] = key}
             T == {u \in 1..n : B[u] = key}
  <2>1. \A u \in 1..n : u \in T <=> Mirror(n, u) \in S
    BY MirrorFacts, Zenon
  <2>2. S \in SUBSET (1..n) /\ T \in SUBSET (1..n)
    OBVIOUS
  <2>3. AbiCount(A, key) = Cardinality(S) /\ AbiCount(B, key) = Cardinality(T)
    BY Zenon DEF AbiCount
  <2> HIDE DEF S, T
  <2>4. QED
    BY <2>1, <2>2, <2>3, ZenonT(40) DEF MirrorCounts, Mirror
<1>2. {A[u] : u \in DOMAIN A} = {B[u] : u \in DOMAIN B}
  <2>1. \A u \in 1..n : A[u] = B[Mirror(n, u)] /\ Mirror(n, u) \in 1..n
    BY MirrorFacts, Zenon
  <2>2. QED
    BY <2>1
<1>3. MostFrequent(A) = MostFrequent(B)
  BY <1>1, <1>2, Zenon DEF MostFrequent
<1>4. DominantAbi(A) = DominantAbi(B)
  BY <1>3, Zenon DEF DominantAbi
<1>5. QED
  BY <1>4, MirrorFacts, Zenon DEF CompatibleUnits

\* A sum does not depend on the order of what it adds up.
LEMMA MirrorTotals ==
  ASSUME InductsUpTo, NEW n \in Nat, NEW c, NEW d, Len(c) = n, Len(d) = n,
         \A k \in 1..n : c[k] \in Nat /\ d[k] = c[Mirror(n, k)]
  PROVE  TotalsOf(d)[n] = TotalsOf(c)[n]
<1> DEFINE S == TotalsOf(c)
           T == TotalsOf(d)
           P == {k \in 0..n : S[n - k] + T[k] = S[n]}
<1>1. /\ S[0] = 0 /\ \A k \in 1..n : S[k] = S[k - 1] + c[k]
      /\ T[0] = 0 /\ \A k \in 1..n : T[k] = T[k - 1] + d[k]
  BY TotalsUnfold, Zenon
<1>2. \A k \in 0..n : S[k] \in Nat /\ T[k] \in Nat
  <2>1. \A k \in 1..n : d[k] \in Nat
    BY MirrorFacts, Zenon
  <2>2. QED
    BY <2>1, TotalsBound, Zenon
<1> HIDE DEF S, T
<1>3. 0 \in P
  <2>1. n - 0 = n /\ S[n] \in Nat
    BY <1>2
  <2>2. QED
    BY <1>1, <2>1
<1>4. ASSUME NEW k \in 0..n, k \in P, k < n PROVE k + 1 \in P
  <2>1. k + 1 \in 1..n /\ k + 1 - 1 = k /\ n - k \in 1..n /\ n - k - 1 = n - (k + 1)
        /\ n - (k + 1) \in 0..n /\ n - k \in 0..n /\ n \in 0..n
    BY <1>4
  <2>2. T[k + 1] = T[k] + d[k + 1] /\ S[n - k] = S[n - (k + 1)] + c[n - k]
    BY <1>1, <2>1
  <2>3. Mirror(n, k + 1) = n - k
    BY <2>1 DEF Mirror
  <2>4. d[k + 1] = c[n - k] /\ c[n - k] \in Nat
    BY <2>1, <2>3, Zenon
  <2>5. S[n - k] + T[k] = S[n]
    BY <1>4, Zenon
  <2>6. S[n - (k + 1)] \in Nat /\ T[k] \in Nat /\ S[n] \in Nat
    BY <1>2, <2>1, Zenon
  <2>7. S[n - (k + 1)] + T[k + 1] = S[n]
    BY <2>2, <2>4, <2>5, <2>6, SMTT(30)
  <2>8. QED
    BY <2>1, <2>7
<1>5. n \in P
  <2> HIDE DEF P
  <2>1. 0..n \subseteq P
    BY <1>3, <1>4, Zenon DEF InductsUpTo
  <2>2. QED
    BY <2>1
<1>6. n - n = 0 /\ T[n] \in Nat
  BY <1>2
<1>7. QED
  BY <1>1, <1>5, <1>6 DEF S, T

\* Any two units that publish a helper publish the same thing.
OneSummary(F, n) ==
  \A v, w \in 1..n : \A s :
    /\ (/\ s \in PublishedBy(F[v], F[v].lockWrapperSummaries)
        /\ s \in PublishedBy(F[w], F[w].lockWrapperSummaries))
         => F[v].lockWrapperSummaries[s] = F[w].lockWrapperSummaries[s]
    /\ (/\ s \in PublishedBy(F[v], F[v].joiningHelpers)
        /\ s \in PublishedBy(F[w], F[w].joiningHelpers))
         => F[v].joiningHelpers[s] = F[w].joiningHelpers[s]

CountsNatural(F, n) ==
  \A v \in 1..n : \A s \in SpawnedIn(F[v]) : F[v].entryConcurrency[s].staticSpawnCount \in Nat

\* Facts and the compatible units among them, in one order and in the other.
Mirrored(n, F, C, G, D) ==
  /\ Len(F) = n /\ Len(G) = n /\ C \in SUBSET (1..n) /\ D \in SUBSET (1..n)
  /\ \A u \in 1..n : (u \in D <=> Mirror(n, u) \in C) /\ G[u] = F[Mirror(n, u)]

\* Each order shows the facts the other one shows.
ShowSame(n, F, C, G, D) ==
  /\ \A v \in C : \E x \in D : G[x] = F[v]
  /\ \A v \in D : \E x \in C : F[x] = G[v]
  /\ \A v, w \in C : v # w => \E x, y \in D : x # y /\ G[x] = F[v] /\ G[y] = F[w]
  /\ \A v, w \in D : v # w => \E x, y \in C : x # y /\ F[x] = G[v] /\ F[y] = G[w]
  /\ C \subseteq 1..n /\ D \subseteq 1..n

\* The units folded in reverse show an index the same sets, units and summaries.
LEMMA MirrorUnits ==
  ASSUME NEW n \in Nat, NEW F, NEW C, NEW G, NEW D, Mirrored(n, F, C, G, D)
  PROVE  ShowSame(n, F, C, G, D)
<1>1. C \subseteq 1..n /\ D \subseteq 1..n
  BY DEF Mirrored
<1>2. \A u \in 1..n : (u \in D <=> Mirror(n, u) \in C) /\ G[u] = F[Mirror(n, u)]
  BY DEF Mirrored
<1>3. \A u \in 1..n : /\ Mirror(n, u) \in 1..n /\ Mirror(n, Mirror(n, u)) = u
                      /\ \A v \in 1..n : Mirror(n, u) = Mirror(n, v) => u = v
  BY MirrorFacts
<1>4. \A v \in C : Mirror(n, v) \in D /\ G[Mirror(n, v)] = F[v]
  BY <1>1, <1>2, <1>3
<1>5. \A v \in D : Mirror(n, v) \in C /\ F[Mirror(n, v)] = G[v]
  BY <1>1, <1>2, <1>3
<1>6. /\ \A v, w \in C : v # w => Mirror(n, v) # Mirror(n, w)
      /\ \A v, w \in D : v # w => Mirror(n, v) # Mirror(n, w)
  BY <1>1, <1>3
<1>7. /\ \A v, w \in C : v # w => \E x, y \in D : x # y /\ G[x] = F[v] /\ G[y] = F[w]
      /\ \A v, w \in D : v # w => \E x, y \in C : x # y /\ F[x] = G[v] /\ F[y] = G[w]
  BY <1>4, <1>5, <1>6
<1>8. QED
  BY <1>1, <1>4, <1>5, <1>7, Zenon DEF ShowSame

\* The spawn counts of the units add up to the same in either order.
LEMMA MirrorSpawns ==
  ASSUME InductsUpTo, NEW n \in Nat, NEW F, NEW C, NEW G, NEW D, Mirrored(n, F, C, G, D), CountsNatural(F, n)
  PROVE  SpawnsAlike(FoldIndex(G, D), FoldIndex(F, C))
<1> DEFINE a == FoldIndex(G, D)
           b == FoldIndex(F, C)
<1>1. /\ Len(F) = n /\ Len(G) = n /\ C \in SUBSET (1..n) /\ D \in SUBSET (1..n)
      /\ \A u \in 1..n : (u \in D <=> Mirror(n, u) \in C) /\ G[u] = F[Mirror(n, u)]
  BY DEF Mirrored
<1>2. SpawnsKnown(a, G, D) /\ SpawnsKnown(b, F, C)
  BY <1>1, FoldKnows DEF IndexKnows
<1>3. /\ \A v \in C : \E x \in D : G[x] = F[v]
      /\ \A v \in D : \E x \in C : F[x] = G[v]
  BY MirrorUnits DEF ShowSame
<1>4. ASSUME NEW s PROVE SpawnCount(a, s) = SpawnCount(b, s)
  <2>1. \A v \in 1..n : s \in SpawnedIn(F[v]) => F[v].entryConcurrency[s].staticSpawnCount \in Nat
    BY Zenon DEF CountsNatural
  <2>2. \A v \in 1..n : s \in SpawnedIn(G[v]) => G[v].entryConcurrency[s].staticSpawnCount \in Nat
    BY <1>1, <2>1, MirrorFacts, Zenon
  <2>3. /\ SpawnCount(a, s) = TotalsOf(Counts(G, D, s))[n]
        /\ SpawnCount(b, s) = TotalsOf(Counts(F, C, s))[n]
    BY <1>1, <2>1, <2>2, FoldCounts
  <2>4. Len(Counts(F, C, s)) = n /\ Len(Counts(G, D, s)) = n
    BY <1>1, CountsLen, Zenon
  <2>5. \A k \in 1..n : Counts(F, C, s)[k] \in Nat
    BY <1>1, <2>1, Zenon DEF Counts
  <2>6. \A k \in 1..n : Counts(G, D, s)[k] = Counts(F, C, s)[Mirror(n, k)]
    BY <1>1, MirrorFacts, Zenon DEF Counts
  <2>7. TotalsOf(Counts(G, D, s))[n] = TotalsOf(Counts(F, C, s))[n]
    BY <2>4, <2>5, <2>6, MirrorTotals, Zenon
  <2>8. QED
    BY <2>3, <2>7, Zenon
<1> HIDE DEF a, b
<1>5. \A s : s \in DOMAIN a.spawnSites <=> s \in DOMAIN b.spawnSites
  BY <1>2, <1>3 DEF SpawnsKnown
<1>6. ASSUME NEW s \in DOMAIN a.spawnSites
      PROVE  a.spawnSites[s].insideLoop <=> b.spawnSites[s].insideLoop
  <2>1. a.spawnSites[s].insideLoop
          <=> \E v \in D : s \in SpawnedIn(G[v]) /\ G[v].entryConcurrency[s].hasSpawnInLoop
    BY <1>2, Zenon DEF SpawnsKnown
  <2>2. b.spawnSites[s].insideLoop
          <=> \E v \in C : s \in SpawnedIn(F[v]) /\ F[v].entryConcurrency[s].hasSpawnInLoop
    BY <1>2, <1>5, Zenon DEF SpawnsKnown
  <2>3. QED
    BY <1>3, <2>1, <2>2
<1>7. \A s : /\ IsThreadEntry(a, s) = IsThreadEntry(b, s)
             /\ SpawnedInLoop(a, s) = SpawnedInLoop(b, s)
  BY <1>5, <1>6, Zenon DEF IsThreadEntry, SpawnedInLoop
<1>8. QED
  BY <1>4, <1>7, Zenon DEF SpawnsAlike, a, b

\* The index folded in reverse answers every question alike.
LEMMA MirrorIndex ==
  ASSUME InductsUpTo, NEW n \in Nat, NEW F, NEW C, NEW G, NEW D, Mirrored(n, F, C, G, D), CountsNatural(F, n),
         OneSummary(F, n)
  PROVE  AnswersAlike(FoldIndex(G, D), FoldIndex(F, C))
<1> DEFINE a == FoldIndex(G, D)
           b == FoldIndex(F, C)
<1>1. SpawnsAlike(a, b)
  BY MirrorSpawns, Zenon
<1>2. IndexKnows(a, G, D) /\ IndexKnows(b, F, C)
  BY FoldKnows, Zenon DEF Mirrored
<1>3. ShowSame(n, F, C, G, D)
  BY MirrorUnits, Zenon
<1>s. /\ \A v \in C : \E x \in D : G[x] = F[v]
      /\ \A v \in D : \E x \in C : F[x] = G[v]
  BY <1>3, Zenon DEF ShowSame
<1> HIDE DEF a, b
<1>4. a.definedGlobals = b.definedGlobals /\ a.resolvedHandles = b.resolvedHandles
  <2>2. UNION {G[v].definedGlobals : v \in D} = UNION {F[v].definedGlobals : v \in C}
    BY <1>s
  <2>3. UNION {G[v].resolvedGlobalHandles : v \in D} = UNION {F[v].resolvedGlobalHandles : v \in C}
    BY <1>s
  <2>4. QED
    BY <1>2, <2>2, <2>3, Zenon DEF IndexKnows, SetsKnown
<1>5. a.reapsChildren <=> b.reapsChildren
  <2>1. /\ a.reapsChildren <=> \E v \in D : G[v].reapsChildProcesses
        /\ b.reapsChildren <=> \E v \in C : F[v].reapsChildProcesses
    BY <1>2, Zenon DEF IndexKnows, SetsKnown
  <2>2. QED
    BY <1>s, <2>1, Zenon
<1>6. LocksAlike(a, b)
  <2>1. LocksKnown(a, G, D) /\ LocksKnown(b, F, C)
    BY <1>2, Zenon DEF IndexKnows
  <2>2. \A s : s \in DOMAIN a.lockSummaries <=> s \in DOMAIN b.lockSummaries
    <3>2. \A s : s \in DOMAIN a.lockSummaries
                   <=> \E v \in D : s \in PublishedBy(G[v], G[v].lockWrapperSummaries)
      BY <2>1, Zenon DEF LocksKnown
    <3>3. \A s : s \in DOMAIN b.lockSummaries
                   <=> \E v \in C : s \in PublishedBy(F[v], F[v].lockWrapperSummaries)
      BY <2>1, Zenon DEF LocksKnown
    <3>4. QED
      BY <1>s, <3>2, <3>3
  <2>3. ASSUME NEW s \in DOMAIN a.lockSummaries PROVE a.lockSummaries[s] = b.lockSummaries[s]
    <3>1. PICK v \in D : /\ s \in PublishedBy(G[v], G[v].lockWrapperSummaries)
                         /\ a.lockSummaries[s] = G[v].lockWrapperSummaries[s]
      BY <2>1, Zenon DEF LocksKnown
    <3>2. PICK w \in C : /\ s \in PublishedBy(F[w], F[w].lockWrapperSummaries)
                         /\ b.lockSummaries[s] = F[w].lockWrapperSummaries[s]
      BY <2>1, <2>2, Zenon DEF LocksKnown
    <3>3. PICK x \in C : F[x] = G[v] /\ x \in 1..n /\ w \in 1..n
      BY <1>3, Zenon DEF ShowSame
    <3>4. QED
      BY <3>1, <3>2, <3>3 DEF OneSummary
  <2>4. QED
    BY <2>2, <2>3, Zenon DEF LocksAlike, HasLockSummary
<1>7. JoinsAlike(a, b)
  <2>1. JoinsKnown(a, G, D) /\ JoinsKnown(b, F, C)
    BY <1>2, Zenon DEF IndexKnows
  <2>2. \A s : s \in DOMAIN a.joiningHelpers <=> s \in DOMAIN b.joiningHelpers
    <3>2. \A s : s \in DOMAIN a.joiningHelpers
                   <=> \E v \in D : s \in PublishedBy(G[v], G[v].joiningHelpers)
      BY <2>1, Zenon DEF JoinsKnown
    <3>3. \A s : s \in DOMAIN b.joiningHelpers
                   <=> \E v \in C : s \in PublishedBy(F[v], F[v].joiningHelpers)
      BY <2>1, ZenonT(40) DEF JoinsKnown
    <3>4. QED
      BY <1>s, <3>2, <3>3
  <2>3. ASSUME NEW s \in DOMAIN a.joiningHelpers PROVE a.joiningHelpers[s] = b.joiningHelpers[s]
    <3>1. PICK v \in D : /\ s \in PublishedBy(G[v], G[v].joiningHelpers)
                         /\ a.joiningHelpers[s] = G[v].joiningHelpers[s]
      BY <2>1, Zenon DEF JoinsKnown
    <3>2. PICK w \in C : /\ s \in PublishedBy(F[w], F[w].joiningHelpers)
                         /\ b.joiningHelpers[s] = F[w].joiningHelpers[s]
      BY <2>1, <2>2, Zenon DEF JoinsKnown
    <3>3. PICK x \in C : F[x] = G[v] /\ x \in 1..n /\ w \in 1..n
      BY <1>3, Zenon DEF ShowSame
    <3>4. QED
      BY <3>1, <3>2, <3>3 DEF OneSummary
  <2>4. QED
    BY <2>2, <2>3, Zenon DEF JoinsAlike, HasJoinedParameters
<1>8. SeveralAlike(a, b)
  <2>1. UnitsKnown(a, G, D) /\ UnitsKnown(b, F, C)
    BY <1>2, Zenon DEF IndexKnows
  <2>2. \A s : s \in DOMAIN a.unitsByFunction <=> s \in DOMAIN b.unitsByFunction
    <3>1. /\ \A s : s \in DOMAIN a.unitsByFunction <=> \E v \in D : s \in G[v].functionSymbols
          /\ \A s : s \in DOMAIN b.unitsByFunction <=> \E v \in C : s \in F[v].functionSymbols
      BY <2>1, Zenon DEF UnitsKnown
    <3>2. QED
      BY <1>s, <3>1
  <2>3. ASSUME NEW s
        PROVE  (\E v, w \in D : v # w /\ s \in G[v].functionSymbols /\ s \in G[w].functionSymbols)
                 <=> (\E v, w \in C : v # w /\ s \in F[v].functionSymbols /\ s \in F[w].functionSymbols)
    <3>1. ASSUME NEW v \in D, NEW w \in D, v # w, s \in G[v].functionSymbols, s \in G[w].functionSymbols
          PROVE  \E x, y \in C : x # y /\ s \in F[x].functionSymbols /\ s \in F[y].functionSymbols
      <4>1. PICK x \in C, y \in C : x # y /\ F[x] = G[v] /\ F[y] = G[w]
        BY <1>3, <3>1, Zenon DEF ShowSame
      <4>2. QED
        BY <3>1, <4>1, Zenon
    <3>2. ASSUME NEW v \in C, NEW w \in C, v # w, s \in F[v].functionSymbols, s \in F[w].functionSymbols
          PROVE  \E x, y \in D : x # y /\ s \in G[x].functionSymbols /\ s \in G[y].functionSymbols
      <4>1. PICK x \in D, y \in D : x # y /\ G[x] = F[v] /\ G[y] = F[w]
        BY <1>3, <3>2, Zenon DEF ShowSame
      <4>2. QED
        BY <3>2, <4>1, Zenon
    <3>3. QED
      BY <3>1, <3>2, Zenon
  <2>4. ASSUME NEW s \in DOMAIN a.unitsByFunction
        PROVE  a.unitsByFunction[s].several <=> b.unitsByFunction[s].several
    <3>1. a.unitsByFunction[s].several
            <=> \E v, w \in D : v # w /\ s \in G[v].functionSymbols /\ s \in G[w].functionSymbols
      BY <2>1, Zenon DEF UnitsKnown
    <3>2. b.unitsByFunction[s].several
            <=> \E v, w \in C : v # w /\ s \in F[v].functionSymbols /\ s \in F[w].functionSymbols
      BY <2>1, <2>2, Zenon DEF UnitsKnown
    <3>3. QED
      BY <2>3, <3>1, <3>2, Zenon
  <2>5. QED
    BY <2>2, <2>4, Zenon DEF SeveralAlike, AppearsInSeveralUnits
<1>9. QED
  BY <1>1, <1>4, <1>5, <1>6, <1>7, <1>8, Zenon DEF AnswersAlike, a, b

\* A unit publishes, of the helpers it defines, its own summaries.
PublishesOwn(ir, a) ==
  /\ \A s \in PublishedBy(a, a.lockWrapperSummaries) :
       s \in DOMAIN ir.lockHelpers \cap ir.defFunctions /\ a.lockWrapperSummaries[s] = ir.lockHelpers[s]
  /\ \A s \in PublishedBy(a, a.joiningHelpers) :
       s \in DOMAIN ir.joinHelpers \cap ir.defFunctions /\ a.joiningHelpers[s] = ir.joinHelpers[s]

\* The summaries a unit publishes when built alone are those of the helpers it defines.
LEMMA AlonePublishes ==
  ASSUME NEW ir, IsUnitIR(ir), NEW sel, NEW a, a = BuildFacts(ir, sel, TRUE, EmptyIndex)
  PROVE  PublishesOwn(ir, a)
<1>1. Builds(ir, sel, EmptyIndex, a) /\ HelpersAlone(ir, sel, a)
  BY BuiltFields, AloneHelpers, Zenon
<1>2. /\ a.declaredFunctions = ir.declFunctions
      /\ a.functionSymbols = ir.defFunctions \cup ir.declFunctions
      /\ a.lockWrapperSummaries = LockWrapperSummaries(ir, sel, TRUE, EmptyIndex)
      /\ a.joiningHelpers = IF "helperJoins" \in sel.channels THEN ir.joinHelpers ELSE EmptyFunction
  BY <1>1, Zenon DEF Builds
<1>3. \A table : \A s \in PublishedBy(a, table) : s \in DOMAIN table /\ s \in ir.defFunctions
  BY <1>2, Zenon DEF PublishedBy
<1>4. DOMAIN EmptyFunction = {}
  BY Zenon DEF EmptyFunction
<1>5. ASSUME NEW s \in PublishedBy(a, a.lockWrapperSummaries)
      PROVE  s \in DOMAIN ir.lockHelpers /\ a.lockWrapperSummaries[s] = ir.lockHelpers[s]
  <2>1. s \in DOMAIN a.lockWrapperSummaries
    BY <1>3, Zenon
  <2>2. SelectsLockWrapperSummaries(sel)
    BY <1>2, <1>4, <2>1, Zenon DEF LockWrapperSummaries
  <2>3. a.lockWrapperSummaries = Emplace(ir.lockHelpers, EmptyFunction)
    BY <1>1, <2>2, Zenon DEF HelpersAlone
  <2>4. QED
    BY <1>4, <2>1, <2>3, Zenon DEF Emplace
<1>6. ASSUME NEW s \in PublishedBy(a, a.joiningHelpers)
      PROVE  s \in DOMAIN ir.joinHelpers /\ a.joiningHelpers[s] = ir.joinHelpers[s]
  <2>1. s \in DOMAIN a.joiningHelpers
    BY <1>3, Zenon
  <2>2. a.joiningHelpers = ir.joinHelpers
    BY <1>2, <1>4, <2>1, Zenon
  <2>3. QED
    BY <2>1, <2>2, Zenon
<1>7. QED
  BY <1>3, <1>5, <1>6, Zenon DEF PublishesOwn

\* When a helper has one definition, no two units publish different summaries of it.
LEMMA OneSummaryEach ==
  ASSUME NEW n \in Nat, NEW project, DOMAIN project = 1..n, OneDefinition(project), NEW F,
         \A v \in 1..n : PublishesOwn(project[v], F[v])
  PROVE  OneSummary(F, n)
<1>1. ASSUME NEW v \in 1..n, NEW w \in 1..n, NEW s,
             s \in PublishedBy(F[v], F[v].lockWrapperSummaries),
             s \in PublishedBy(F[w], F[w].lockWrapperSummaries)
      PROVE  F[v].lockWrapperSummaries[s] = F[w].lockWrapperSummaries[s]
  <2>1. /\ s \in DOMAIN project[v].lockHelpers
        /\ F[v].lockWrapperSummaries[s] = project[v].lockHelpers[s]
        /\ s \in project[w].defFunctions
        /\ F[w].lockWrapperSummaries[s] = project[w].lockHelpers[s]
    BY <1>1, Zenon DEF PublishesOwn
  <2>2. project[v].lockHelpers[s] = project[w].lockHelpers[s]
    BY <2>1 DEF OneDefinition
  <2>3. QED
    BY <2>1, <2>2, Zenon
<1>2. ASSUME NEW v \in 1..n, NEW w \in 1..n, NEW s,
             s \in PublishedBy(F[v], F[v].joiningHelpers),
             s \in PublishedBy(F[w], F[w].joiningHelpers)
      PROVE  F[v].joiningHelpers[s] = F[w].joiningHelpers[s]
  <2>1. /\ s \in DOMAIN project[v].joinHelpers
        /\ F[v].joiningHelpers[s] = project[v].joinHelpers[s]
        /\ s \in project[w].defFunctions
        /\ F[w].joiningHelpers[s] = project[w].joinHelpers[s]
    BY <1>2, Zenon DEF PublishesOwn
  <2>2. project[v].joinHelpers[s] = project[w].joinHelpers[s]
    BY <2>1 DEF OneDefinition
  <2>3. QED
    BY <2>1, <2>2, Zenon
<1>3. QED
  BY <1>1, <1>2 DEF OneSummary

\* The units, the facts of the first pass and the compatible units of two analyses of the same
\* units in opposite orders.
RunsMirrored(run, other, n) ==
  /\ n \in Nat /\ Mirrored(n, run.alone, run.compatible, other.alone, other.compatible)
  /\ \A u \in 1..n : other.project[u] = run.project[Mirror(n, u)]

\* Two finished runs of a project and of its reversal have mirrored facts from pass A and
\* mirrored compatible units.
LEMMA ReversedRuns ==
  ASSUME InductsUpTo, MirrorCounts,
         NEW irs, NEW run, RunOK(run, "done", irs), NEW other, RunOK(other, "done", irs),
         \A ir \in irs : IsUnitIR(ir), other.project = Reversed(run.project),
         other.rules = run.rules, NEW n, n = Len(run.project)
  PROVE  RunsMirrored(run, other, n)
<1>1. /\ n \in Nat /\ DOMAIN run.project = 1..n /\ DOMAIN run.alone = 1..n
      /\ run.compatible \subseteq 1..n
      /\ \A u \in 1..n : run.alone[u] = BuildFacts(run.project[u], SelectionOf(run), TRUE, EmptyIndex)
  BY DoneFacts, Zenon
<1>2. other.project = [u \in 1..n |-> run.project[Mirror(n, u)]]
  BY <1>1, Zenon DEF Reversed, Mirror
<1>3. Len(other.project) = n
  BY <1>1, <1>2, LenOfDomain
<1>4. /\ DOMAIN other.alone = 1..n /\ other.compatible \subseteq 1..n
      /\ \A u \in 1..n :
           other.alone[u] = BuildFacts(other.project[u], SelectionOf(other), TRUE, EmptyIndex)
  BY <1>3, DoneFacts, Zenon
<1>5. SelectionOf(other) = SelectionOf(run)
  BY Zenon DEF SelectionOf
<1>6. \A u \in 1..n : other.project[u] = run.project[Mirror(n, u)]
  BY <1>2, Zenon
<1>7. \A u \in 1..n : other.alone[u] = run.alone[Mirror(n, u)]
  <2> TAKE u \in 1..n
  <2>1. Mirror(n, u) \in 1..n
    BY <1>1, MirrorFacts
  <2>2. QED
    BY <1>1, <1>4, <1>5, <1>6, <2>1, ZenonT(40)
<1>8. \A u \in 1..n : u \in other.compatible <=> Mirror(n, u) \in run.compatible
  <2>1. DOMAIN AbisOf(run) = 1..n /\ DOMAIN AbisOf(other) = 1..n
    BY <1>1, <1>4, Zenon DEF AbisOf
  <2>2. \A u \in 1..n : AbisOf(run)[u] = run.alone[u].abiKey /\ AbisOf(other)[u] = other.alone[u].abiKey
    BY <1>1, <1>4, Zenon DEF AbisOf
  <2>3. \A u \in 1..n : AbisOf(other)[u] = AbisOf(run)[Mirror(n, u)]
    <3>1. n \in Nat
      BY <1>1, Zenon
    <3>2. \A u \in 1..n : Mirror(n, u) \in 1..n
      BY <3>1, MirrorFacts, Zenon
    <3>3. ASSUME NEW u \in 1..n PROVE AbisOf(other)[u] = AbisOf(run)[Mirror(n, u)]
      <4>1. Mirror(n, u) \in 1..n
        BY <3>2, Zenon
      <4>2. QED
        BY <1>7, <2>2, <4>1, Zenon
    <3>4. QED
      BY <3>3, Zenon
  <2>4. run.compatible = CompatibleUnits(AbisOf(run)) /\ other.compatible = CompatibleUnits(AbisOf(other))
    BY Zenon DEF RunOK
  <2>5. n \in Nat
    BY <1>1, Zenon
  <2>6. \A u \in 1..n : u \in CompatibleUnits(AbisOf(other)) <=> Mirror(n, u) \in CompatibleUnits(AbisOf(run))
    BY <2>1, <2>3, <2>5, MirrorAbis, Zenon
  <2>7. QED
    BY <2>4, <2>6, Zenon
<1>9. Len(run.alone) = n /\ Len(other.alone) = n
  BY <1>3, DoneIndex, Zenon
<1>10. QED
  BY <1>1, <1>4, <1>6, <1>7, <1>8, <1>9 DEF Mirrored, RunsMirrored

\* Where reversing the units leads, once both analyses are done.
EndsMirrored(run, other, n) ==
  /\ other.compatible = {Mirror(n, u) : u \in run.compatible}
  /\ other.reanalyzed = {Mirror(n, u) : u \in run.reanalyzed}
  /\ \A u \in run.compatible : other.facts[Mirror(n, u)] = run.facts[u]

\* Two finished runs of a project and of its reversal have mirrored results.
LEMMA ReversedDone ==
  ASSUME InductsUpTo, MirrorCounts,
         NEW irs, NEW run, RunOK(run, "done", irs), NEW other, RunOK(other, "done", irs),
         \A ir \in irs : IsUnitIR(ir), other.project = Reversed(run.project),
         other.rules = run.rules, NEW n, n = Len(run.project), OneDefinition(run.project)
  PROVE  EndsMirrored(run, other, n)
<1> DEFINE F == run.alone
           G == other.alone
           C == run.compatible
           D == other.compatible
           s == SelectionOf(run)
<1>1. /\ n \in Nat /\ Mirrored(n, F, C, G, D)
      /\ \A u \in 1..n : other.project[u] = run.project[Mirror(n, u)]
  <2>1. RunsMirrored(run, other, n)
    BY ReversedRuns, Zenon
  <2>2. QED
    BY <2>1, Zenon DEF RunsMirrored
<1>2. \A u \in 1..n : (u \in D <=> Mirror(n, u) \in C) /\ G[u] = F[Mirror(n, u)]
  BY <1>1, Zenon DEF Mirrored
<1>3. C \subseteq 1..n /\ D \subseteq 1..n
  BY <1>1, Zenon DEF Mirrored
<1>4. n \in Nat
  BY <1>1, Zenon
<1>5. \A u \in 1..n : Mirror(n, u) \in 1..n /\ Mirror(n, Mirror(n, u)) = u
  BY <1>4, MirrorFacts, Zenon
<1>6. AnswersAlike(other.index, run.index)
  <2>1. /\ DOMAIN run.project = 1..n
        /\ \A v \in 1..n : IsUnitIR(run.project[v]) /\ F[v] = BuildFacts(run.project[v], s, TRUE, EmptyIndex)
    BY DoneFacts, Zenon
  <2>2. \A v \in 1..n : PublishesOwn(run.project[v], F[v]) /\ EntriesAlone(run.project[v], s, F[v])
    BY <2>1, AlonePublishes, AloneEntries, Zenon
  <2>3. CountsNatural(F, n)
    BY <2>2, Zenon DEF CountsNatural, EntriesAlone
  <2>4. OneSummary(F, n)
    BY <1>4, <2>1, <2>2, OneSummaryEach, Zenon
  <2>5. AnswersAlike(FoldIndex(G, D), FoldIndex(F, C))
    BY <1>1, <2>3, <2>4, MirrorIndex, Zenon
  <2>6. run.index = FoldIndex(F, C) /\ other.index = FoldIndex(G, D)
    BY DoneIndex, Zenon
  <2>7. QED
    BY <2>5, <2>6, Zenon
<1>7. SelectionOf(other) = s
  BY Zenon DEF SelectionOf
<1>8. /\ run.reanalyzed = AgainOf(run) /\ run.facts = SettledOf(run)
      /\ other.reanalyzed = AgainOf(other) /\ other.facts = SettledOf(other)
  BY Zenon DEF RunOK
<1>9. D = {Mirror(n, u) : u \in C}
  BY <1>2, <1>3, <1>5
<1>10. \A u \in C : Mirror(n, u) \in D /\ G[Mirror(n, u)] = F[u]
  BY <1>2, <1>3, <1>5
<1>11. \A u \in C : Mirror(n, u) \in other.reanalyzed <=> u \in run.reanalyzed
  <2> TAKE u \in C
  <2>1. CrossTUChangesFacts(F[u], other.index, s) = CrossTUChangesFacts(F[u], run.index, s)
    BY <1>6, SameGate, Zenon
  <2>2. u \in run.reanalyzed <=> CrossTUChangesFacts(F[u], run.index, s)
    BY <1>8, Zenon DEF AgainOf
  <2>3. Mirror(n, u) \in other.reanalyzed <=> CrossTUChangesFacts(F[u], other.index, s)
    BY <1>7, <1>8, <1>10, Zenon DEF AgainOf
  <2>4. QED
    BY <2>1, <2>2, <2>3, Zenon
<1>12. other.reanalyzed = {Mirror(n, u) : u \in run.reanalyzed}
  <2>1. run.reanalyzed \subseteq C /\ other.reanalyzed \subseteq D
    BY <1>8, Zenon DEF AgainOf
  <2>2. \A v \in D : \E u \in C : v = Mirror(n, u)
    BY <1>9, Zenon
  <2>3. QED
    BY <1>11, <2>1, <2>2, Zenon
<1>13. ASSUME NEW u \in C PROVE other.facts[Mirror(n, u)] = run.facts[u]
  <2>1. Mirror(n, u) \in D /\ G[Mirror(n, u)] = F[u] /\ other.project[Mirror(n, u)] = run.project[u]
    <3>1. u \in 1..n
      BY <1>3, Zenon
    <3>2. Mirror(n, u) \in 1..n /\ Mirror(n, Mirror(n, u)) = u
      BY <1>5, <3>1, Zenon
    <3>3. QED
      BY <1>1, <1>10, <3>2, Zenon
  <2>2. run.facts[u] = IF u \in run.reanalyzed THEN BuildFacts(run.project[u], s, TRUE, run.index)
                       ELSE F[u]
    BY <1>8, Zenon DEF SettledOf
  <2>3. other.facts[Mirror(n, u)] =
          IF Mirror(n, u) \in other.reanalyzed THEN BuildFacts(run.project[u], s, TRUE, other.index)
          ELSE F[u]
    BY <1>7, <1>8, <2>1, Zenon DEF SettledOf
  <2>4. BuildFacts(run.project[u], s, TRUE, other.index) = BuildFacts(run.project[u], s, TRUE, run.index)
    BY <1>6, SameBuild, ZenonT(40)
  <2>5. QED
    BY <1>11, <2>2, <2>3, <2>4, Zenon
<1>14. QED
  BY <1>9, <1>12, <1>13, Zenon DEF EndsMirrored


\* Two finished runs over the same units in opposite orders agree.
LEMMA OrderAgreed ==
  ASSUME InductsUpTo, MirrorCounts, Inv
  PROVE  UnitOrderIrrelevant
<1> SUFFICES ASSUME Inv, Done, twin.variation = "reversed", OneDefinition(base.project)
             PROVE  ReversedAgrees
  BY Zenon DEF UnitOrderIrrelevant
<1> DEFINE irs == Families[family].irs
           n == Len(base.project)
<1>1. /\ RunOK(base, "done", irs) /\ RunOK(twin, "done", irs) /\ \A ir \in irs : IsUnitIR(ir)
      /\ Paired(base, twin)
  BY DoneRuns, Zenon
<1>2. twin.project = Reversed(base.project) /\ twin.rules = base.rules
  BY <1>1, Zenon DEF Paired
<1>3. /\ twin.compatible = {Mirror(n, u) : u \in base.compatible}
      /\ twin.reanalyzed = {Mirror(n, u) : u \in base.reanalyzed}
      /\ \A u \in base.compatible : twin.facts[Mirror(n, u)] = base.facts[u]
  <2>1. EndsMirrored(base, twin, n)
    BY <1>1, <1>2, ReversedDone, Zenon
  <2>2. QED
    BY <2>1, Zenon DEF EndsMirrored
<1>4. QED
  BY <1>3, Zenon DEF ReversedAgrees, Mirror
=============================================================================
