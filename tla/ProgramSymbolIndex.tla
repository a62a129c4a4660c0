------------------------- MODULE ProgramSymbolIndex -------------------------
(***************************************************************************)
(* The whole-program index the first pass folds and the second pass reads  *)
(* (src/internal/analysis/cross_tu/program_symbol_index.cpp).              *)
(*                                                                         *)
(* Functions, globals and thread handles are named by their program        *)
(* symbol, so the per-unit tables from function id or handle group id to   *)
(* symbol are gone: within a unit those ids and the symbols are in         *)
(* bijection.  The summary of a lock helper and the parameters a joining   *)
(* helper joins are opaque values.                                         *)
(***************************************************************************)
EXTENDS Naturals, Sequences, FiniteSets

EmptyFunction == [symbol \in {} |-> 0]

EmptyIndex ==
  [definedGlobals  |-> {},
   unitsByFunction |-> EmptyFunction,
   reapsChildren   |-> FALSE,
   resolvedHandles |-> {},
   lockSummaries   |-> EmptyFunction,
   joiningHelpers  |-> EmptyFunction,
   spawnSites      |-> EmptyFunction]

\* What emplace leaves behind: the entries of old win over the ones of new.
Emplace(old, new) ==
  [symbol \in DOMAIN old \cup DOMAIN new |->
     IF symbol \in DOMAIN old THEN old[symbol] ELSE new[symbol]]

\* A helper is published only by a unit that defines it: a unit that only
\* declares it may hold a summary another unit gave it.
DefinedIn(facts, table) ==
  [symbol \in {s \in DOMAIN table : s \in facts.functionSymbols
                                    /\ s \notin facts.declaredFunctions} |->
     table[symbol]]

\* The first unit a function was seen in, and whether another one shows it too.
UnitsByFunction(table, unit, facts) ==
  [symbol \in DOMAIN table \cup facts.functionSymbols |->
     IF symbol \notin DOMAIN table THEN [first |-> unit, several |-> FALSE]
     ELSE [first |-> table[symbol].first,
           several |-> \/ table[symbol].several
                       \/ /\ symbol \in facts.functionSymbols
                          /\ table[symbol].first # unit]]

\* Mutant: the unit added last replaces what earlier units said of an entry.
SpawnSitesOfLast(table, facts) ==
  LET spawned == DOMAIN facts.entryConcurrency \cap facts.functionSymbols
  IN [symbol \in DOMAIN table \cup spawned |->
        IF symbol \notin spawned THEN table[symbol]
        ELSE [instanceCount |-> facts.entryConcurrency[symbol].staticSpawnCount,
              insideLoop |-> facts.entryConcurrency[symbol].hasSpawnInLoop]]

\* Instances created by different units add up.
SpawnSites(table, facts) ==
  LET spawned == DOMAIN facts.entryConcurrency \cap facts.functionSymbols
      Old(symbol) == IF symbol \in DOMAIN table THEN table[symbol]
                     ELSE [instanceCount |-> 0, insideLoop |-> FALSE]
  IN [symbol \in DOMAIN table \cup spawned |->
        IF symbol \notin spawned THEN table[symbol]
        ELSE [instanceCount |-> Old(symbol).instanceCount
                                 + facts.entryConcurrency[symbol].staticSpawnCount,
              insideLoop |-> \/ Old(symbol).insideLoop
                             \/ facts.entryConcurrency[symbol].hasSpawnInLoop]]

\* ProgramSymbolIndex::addUnit
AddUnit(index, unit, facts) ==
  [definedGlobals  |-> index.definedGlobals \cup facts.definedGlobals,
   unitsByFunction |-> UnitsByFunction(index.unitsByFunction, unit, facts),
   reapsChildren   |-> index.reapsChildren \/ facts.reapsChildProcesses,
   resolvedHandles |-> index.resolvedHandles \cup facts.resolvedGlobalHandles,
   lockSummaries   |-> Emplace(index.lockSummaries,
                               DefinedIn(facts, facts.lockWrapperSummaries)),
   joiningHelpers  |-> Emplace(index.joiningHelpers,
                               DefinedIn(facts, facts.joiningHelpers)),
   spawnSites      |-> SpawnSites(index.spawnSites, facts)]

(***************************************************************************)
(* Queries.  A null summary is a symbol outside the table's domain.        *)
(***************************************************************************)
IsThreadEntry(index, symbol) == symbol \in DOMAIN index.spawnSites

SpawnCount(index, symbol) ==
  IF IsThreadEntry(index, symbol) THEN index.spawnSites[symbol].instanceCount ELSE 0

SpawnedInLoop(index, symbol) ==
  IsThreadEntry(index, symbol) /\ index.spawnSites[symbol].insideLoop

AppearsInSeveralUnits(index, symbol) ==
  symbol \in DOMAIN index.unitsByFunction /\ index.unitsByFunction[symbol].several

ProgramCreatesThreads(index) == DOMAIN index.spawnSites # {}

HasLockSummary(index, symbol) == symbol \in DOMAIN index.lockSummaries

HasJoinedParameters(index, symbol) == symbol \in DOMAIN index.joiningHelpers

ResolvesHandleElsewhere(index, handle) == handle \in index.resolvedHandles

(***************************************************************************)
(* The steps between the two passes of InterTUCoordinator::analyze that    *)
(* depend on the facts alone: which units share the dominant ABI, and the  *)
(* index folded from them.  Units are numbered from 1, in the order        *)
(* ProjectUnitSource holds them; ABI keys are ordered.                     *)
(***************************************************************************)
\* The most frequent ABI key, ties going to the smallest one (max_element over
\* an ordered map keeps the first maximum).
AbiCount(abis, key) == Cardinality({u \in DOMAIN abis : abis[u] = key})

MostFrequent(abis) ==
  LET keys == {abis[u] : u \in DOMAIN abis}
  IN {key \in keys :
        \A other \in keys :
          \/ AbiCount(abis, other) < AbiCount(abis, key)
          \/ AbiCount(abis, other) = AbiCount(abis, key) /\ key <= other}

DominantAbi(abis) == CHOOSE key \in MostFrequent(abis) : TRUE

CompatibleUnits(abis) == {u \in DOMAIN abis : abis[u] = DominantAbi(abis)}

\* The index once the first n units have been looked at: the compatible ones among them
\* are added, in unit order.
IndexesOf(facts, compatible) ==
  LET folded[n \in 0..Len(facts)] ==
        IF n = 0 THEN EmptyIndex
        ELSE IF n \in compatible THEN AddUnit(folded[n - 1], n, facts[n])
        ELSE folded[n - 1]
  IN folded

\* programIndex
FoldIndex(facts, compatible) == IndexesOf(facts, compatible)[Len(facts)]
==============================================================================
