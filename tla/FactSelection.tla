---------------------------- MODULE FactSelection ----------------------------
(***************************************************************************)
(* Which facts a unit analysis builds, and which cross-unit channels the   *)
(* whole-program passes carry, for a selection of rules                    *)
(* (src/internal/analysis/fact_selection.hpp).                             *)
(*                                                                         *)
(* A FactSelection of the code is a struct of flags; here it is the pair   *)
(* of the set of facts whose flag is set and the set of channels whose     *)
(* flag is set.                                                            *)
(***************************************************************************)

(***************************************************************************)
(* The rules a user can select.  CompilerDiagnostic selects nothing and is *)
(* not a user-selectable rule.                                             *)
(***************************************************************************)
Rules ==
  {"DataRaceGlobal", "DeadlockLockOrder", "MissingJoin",
   "ConditionWaitWithoutPredicate", "ForkAfterThreadCreation",
   "UnreapedChildProcess", "ThreadArgumentEscapesFrame",
   "ThreadArgumentFreedEarly", "ThreadLocalOutlivesThread",
   "UnsafeSignalHandler", "WeakPublicationOrdering"}

Channels ==
  {"externGlobals", "helperLockEffects", "entryConcurrency", "programThreads",
   "programReaps", "resolvedHandles", "helperJoins"}

\* The facts a rule turns on by itself.
RuleFacts ==
  [rule \in Rules |->
    CASE rule = "DataRaceGlobal" -> {"accesses", "threadEntries"}
      [] rule = "DeadlockLockOrder" ->
           {"lockOrders", "recursiveLockIds", "threadEntries"}
      [] rule = "MissingJoin" -> {"threadLifecycles"}
      [] rule = "ConditionWaitWithoutPredicate" -> {"conditionWaits"}
      [] rule \in {"ForkAfterThreadCreation", "UnreapedChildProcess"} ->
           {"processLifecycle"}
      [] rule = "ThreadArgumentEscapesFrame" -> {"threadArgumentEscapes"}
      [] rule = "ThreadArgumentFreedEarly" -> {"threadArgumentFrees"}
      [] rule = "ThreadLocalOutlivesThread" -> {"expiredThreadLocals"}
      [] rule = "UnsafeSignalHandler" -> {"signalHandlers"}
      [] rule = "WeakPublicationOrdering" ->
           {"accesses", "threadEntries", "weakPublications"}]

\* The cross-unit channels a rule reads in a project analysis.
RuleChannels ==
  [rule \in Rules |->
    CASE rule = "DataRaceGlobal" ->
           {"externGlobals", "helperLockEffects", "entryConcurrency",
            "helperJoins"}
      [] rule = "DeadlockLockOrder" ->
           {"helperLockEffects", "entryConcurrency", "helperJoins"}
      [] rule = "MissingJoin" -> {"resolvedHandles", "helperJoins"}
      [] rule = "ForkAfterThreadCreation" -> {"programThreads"}
      [] rule = "UnreapedChildProcess" -> {"programReaps"}
      [] rule \in {"ThreadArgumentEscapesFrame", "ThreadArgumentFreedEarly",
                   "ThreadLocalOutlivesThread"} -> {"helperJoins"}
      [] rule = "WeakPublicationOrdering" ->
           {"externGlobals", "entryConcurrency", "helperJoins"}
      [] OTHER -> {}]

\* FactSelection::forRules.  A unit-local selection reads no channel; a project
\* selection also builds the facts behind each channel it selected.
ForRules(rules, projectAnalysis) ==
  LET facts    == UNION {RuleFacts[rule] : rule \in rules}
      channels == UNION {RuleChannels[rule] : rule \in rules}
  IN IF projectAnalysis
     THEN [channels |-> channels,
           facts |-> facts \cup {"program"}
                       \cup {"threadEntries" : c \in channels \cap {"entryConcurrency"}}
                       \cup {"threadLifecycles" : c \in channels \cap {"resolvedHandles"}}]
     ELSE [channels |-> {}, facts |-> facts]

\* The prerequisites the outputs share.
Selects(selection, facts) == selection.facts \cap facts # {}

SelectsSpawns(selection) ==
  \/ Selects(selection, {"threadEntries", "processLifecycle"})
  \/ "programThreads" \in selection.channels

SelectsLockWrapperSummaries(selection) ==
  \/ Selects(selection, {"accesses", "lockOrders"})
  \/ "helperLockEffects" \in selection.channels

SelectsLockState(selection) == Selects(selection, {"accesses", "lockOrders"})

SelectsTaskConcurrency(selection) ==
  Selects(selection, {"threadEntries", "accesses", "lockOrders"})

\* Mutant: the lifecycles are forgotten among what reads completions.
ReadsCompletionsButLifecycles(selection) ==
  \/ SelectsTaskConcurrency(selection)
  \/ Selects(selection, {"threadArgumentEscapes", "threadArgumentFrees",
                         "expiredThreadLocals"})

\* TUFactsBuilder::build, readsCompletions.
ReadsCompletions(selection) ==
  \/ SelectsTaskConcurrency(selection)
  \/ Selects(selection, {"threadLifecycles", "threadArgumentEscapes",
                         "threadArgumentFrees", "expiredThreadLocals"})
==============================================================================
