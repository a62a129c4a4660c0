--------------------------- MODULE ProjectAnalysis ---------------------------
(***************************************************************************)
(* What a project analysis means, with no concurrency and no failed unit:  *)
(* the two passes of InterTUCoordinator::analyze, one action per phase.    *)
(* ProjectUnitSource::add builds the project up one unit at a time.        *)
(*                                                                         *)
(* Several claims about the analysis compare two analyses: of the same     *)
(* units in another order, or under fewer rules.  The specification        *)
(* therefore runs two analyses side by side, base and twin, whose inputs   *)
(* differ in exactly one of those ways.                                    *)
(*                                                                         *)
(* Coordinator.tla is the concurrent implementation of these passes.       *)
(***************************************************************************)
EXTENDS UnitFacts

CONSTANTS Families,   \* name -> the translation units a project is drawn from (irs), the
                      \* bound on their number (units), and how the twin's inputs may
                      \* differ from the base's (variations)
          RuleSets    \* the rule selections tried

ASSUME FamiliesAssumption ==
  \A name \in DOMAIN Families :
    /\ \A ir \in Families[name].irs : IsUnitIR(ir)
    /\ Families[name].units \in Nat
    /\ Families[name].variations \subseteq {"same", "reversed", "narrow"}
ASSUME RuleSetsAssumption == RuleSets \subseteq (SUBSET Rules) \ {{}}

VARIABLES family,  \* the kind of project
          stage,   \* "adding", "passA", "fold", "passB", "done"
          base,    \* an analysis: its inputs and what its passes settled so far
          twin     \* the analysis it is compared with

vars == <<family, stage, base, twin>>

(***************************************************************************)
(* The passes of one analysis.                                             *)
(***************************************************************************)
Analysis(project, rules) ==
  [project |-> project, rules |-> rules, variation |-> "same", alone |-> <<>>,
   compatible |-> {}, index |-> EmptyIndex, reanalyzed |-> {}, facts |-> <<>>]

SelectionOf(run) == ForRules(run.rules, TRUE)

\* Pass A: every unit on its own, in project mode, against an empty index.
PassA(run) ==
  [run EXCEPT !.alone =
     [u \in DOMAIN run.project |->
        BuildFacts(run.project[u], SelectionOf(run), TRUE, EmptyIndex)]]

Fold(run) ==
  LET compatible == CompatibleUnits([u \in DOMAIN run.alone |-> run.alone[u].abiKey])
  IN [run EXCEPT !.compatible = compatible, !.index = FoldIndex(run.alone, compatible)]

\* Pass B: only the units whose conclusions the program-wide view changes.
PassB(run) ==
  LET again == {u \in run.compatible :
                  CrossTUChangesFacts(run.alone[u], run.index, SelectionOf(run))}
  IN [run EXCEPT !.reanalyzed = again,
                 !.facts = [u \in run.compatible |->
                              IF u \in again
                              THEN BuildFacts(run.project[u], SelectionOf(run), TRUE, run.index)
                              ELSE run.alone[u]]]

Init ==
  /\ family \in DOMAIN Families
  /\ stage = "adding"
  /\ \E rules \in RuleSets : base = Analysis(<<>>, rules)
  /\ twin = base

\* ProjectUnitSource::add
Add(ir) ==
  /\ stage = "adding" /\ Len(base.project) < Families[family].units
  /\ base' = [base EXCEPT !.project = Append(@, ir)]
  /\ twin' = base'
  /\ UNCHANGED <<family, stage>>

Reversed(project) == [u \in DOMAIN project |-> project[Len(project) + 1 - u]]

\* The inputs the twin may have.
TwinsOf(run) ==
  {[run EXCEPT !.variation = "same"]}
  \cup {[run EXCEPT !.variation = "reversed", !.project = Reversed(@)]}
  \cup {[run EXCEPT !.variation = "narrow", !.rules = {rule}] : rule \in run.rules}

\* InterTUCoordinator::analyze is called.
Begin ==
  /\ stage = "adding" /\ base.project # <<>>
  /\ twin' \in {run \in TwinsOf(base) : run.variation \in Families[family].variations}
  /\ stage' = "passA"
  /\ UNCHANGED <<family, base>>

Step(from, to, Pass(_)) ==
  /\ stage = from
  /\ stage' = to
  /\ base' = Pass(base)
  /\ twin' = Pass(twin)
  /\ UNCHANGED family

RunPassA == Step("passA", "fold", PassA)

RunFold == Step("fold", "passB", Fold)

RunPassB == Step("passB", "done", PassB)

Next ==
  \/ \E ir \in Families[family].irs : Add(ir)
  \/ Begin
  \/ RunPassA
  \/ RunFold
  \/ RunPassB

Spec == Init /\ [][Next]_vars

(***************************************************************************)
(* Properties                                                              *)
(***************************************************************************)
Done == stage = "done"

\* What a rule reads that the channels stand for.  Left out is whether each thread has an
\* element of its own, and, where the extern globals are not selected, by which name a
\* global handed to a thread goes.
ReadsOverChannels(rule, facts, channels) ==
  LET Named(binding) == IF "externGlobals" \in channels THEN binding.byOwner ELSE {}
  IN RuleReads(rule, [facts EXCEPT !.bindings = [e \in DOMAIN facts.bindings |->
                                                   [byOwner |-> Named(facts.bindings[e])]]])

Rebuilt(run, u) == BuildFacts(run.project[u], SelectionOf(run), TRUE, run.index)

\* The gate before the second pass (crossTUChangesFacts) misses nothing a selected
\* rule reads, whether all rules are selected or one: for a unit it lets go, analysing it
\* again against the program index would give the rule the same facts.  There are two
\* exceptions, of which GateSeesAll tells: per-thread elements, and the name of a global
\* handed to a thread when only lock orders are asked for.
GateMissesNothing ==
  Done =>
    \A run \in {base, twin} :
      \A u \in run.compatible \ run.reanalyzed, rule \in run.rules :
        ReadsOverChannels(rule, run.alone[u], SelectionOf(run).channels)
          = ReadsOverChannels(rule, Rebuilt(run, u), SelectionOf(run).channels)

\* The same for all a rule reads: the gate is "True when the program-wide view
\* contradicts a fact this unit concluded alone, through a channel a selected rule
\* reads" (inter_tu_coordinator.cpp:44).
GateSeesAll ==
  Done =>
    \A run \in {base, twin} :
      \A u \in run.compatible \ run.reanalyzed, rule \in run.rules :
        RuleReads(rule, run.alone[u]) = RuleReads(rule, Rebuilt(run, u))

\* A rule selected alone reads, in every unit, what it reads among all the selected
\* rules: fact_selection.hpp leaves out no channel the rule depends on.  The exceptions
\* are those of GateMissesNothing: DeadlockLockOrder does not select the extern globals
\* (fact_selection.hpp:120), yet names a thread's locks from the global it was handed;
\* see NarrowSelectionSame.
NarrowSelectionAgrees ==
  Done /\ twin.variation = "narrow" =>
    /\ twin.compatible = base.compatible
    /\ \A rule \in twin.rules, u \in base.compatible :
         ReadsOverChannels(rule, twin.facts[u], SelectionOf(twin).channels)
           = ReadsOverChannels(rule, base.facts[u], SelectionOf(twin).channels)

\* The same for all a rule reads: a flag of the selection stands for what the rules that
\* set it need, and a rule must not depend on which others are selected.
NarrowSelectionSame ==
  Done /\ twin.variation = "narrow" =>
    \A rule \in twin.rules, u \in base.compatible :
      RuleReads(rule, twin.facts[u]) = RuleReads(rule, base.facts[u])

\* Any two units defining the same helper agree on what it does.
OneDefinition(project) ==
  \A u, v \in DOMAIN project :
    /\ \A f \in DOMAIN project[u].lockHelpers \cap project[v].defFunctions :
         f \in DOMAIN project[v].lockHelpers
           /\ project[u].lockHelpers[f] = project[v].lockHelpers[f]
    /\ \A f \in DOMAIN project[u].joinHelpers \cap project[v].defFunctions :
         f \in DOMAIN project[v].joinHelpers
           /\ project[u].joinHelpers[f] = project[v].joinHelpers[f]

ReversedAgrees ==
  LET Mirror(u) == Len(base.project) + 1 - u
  IN /\ twin.compatible = {Mirror(u) : u \in base.compatible}
     /\ twin.reanalyzed = {Mirror(u) : u \in base.reanalyzed}
     /\ \A u \in base.compatible, rule \in base.rules :
          RuleReads(rule, twin.facts[Mirror(u)]) = RuleReads(rule, base.facts[u])

\* The order of the units does not change which of them are compatible, which are
\* analysed again, nor what any rule reads of them, in a program that defines each
\* helper one way: the ABI choice and the index fold are order-independent.
UnitOrderIrrelevant ==
  Done /\ twin.variation = "reversed" /\ OneDefinition(base.project) => ReversedAgrees

\* The sums of the first n counts.
TotalsOf(counts) ==
  LET total[n \in 0..Len(counts)] == IF n = 0 THEN 0 ELSE total[n - 1] + counts[n]
  IN total

\* The instances of f that the compatible units start.
InstancesStarted(run, f) ==
  LET counts == [u \in DOMAIN run.project |->
                   IF u \in run.compatible /\ f \in DOMAIN run.project[u].spawns
                   THEN OwnSpawnCount(run.project[u], SelectionOf(run), f) ELSE 0]
  IN TotalsOf(counts)[Len(run.project)]

\* Every unit that defines a thread entry ends up counting the instances the whole
\* program starts, wherever the spawn sites are: two threads running the same entry
\* race, and that may only be visible from the unit holding main.
EntriesKnowTheProgram ==
  Done /\ "entryConcurrency" \in SelectionOf(base).channels =>
    \A u \in base.compatible : \A f \in base.project[u].defFunctions :
      LET known == base.facts[u].entryConcurrency
      IN /\ InstancesStarted(base, f)
              = (IF f \in DOMAIN known THEN known[f].staticSpawnCount ELSE 0)
         /\ (\E v \in base.compatible : /\ f \in DOMAIN base.project[v].spawns
                                        /\ base.project[v].spawns[f].loop)
              <=> (f \in DOMAIN known /\ known[f].hasSpawnInLoop)

\* A fork is judged against the whole program: it is unsafe when any compatible unit
\* starts a thread, and its children are collected when any compatible unit waits.
ForksJudgedByProgram ==
  Done =>
    \A u \in base.compatible :
      /\ "ForkAfterThreadCreation" \in base.rules /\ base.project[u].forks =>
           (base.facts[u].programCreatesThreads
              <=> \E v \in base.compatible : DOMAIN base.project[v].spawns # {})
      /\ "UnreapedChildProcess" \in base.rules /\ base.project[u].forks =>
           (base.facts[u].reapsChildProcesses
              <=> \E v \in base.compatible : base.project[v].reaps)

\* The compatible units that join or detach a handle.
ResolversOf(h) ==
  {v \in base.compatible : /\ h \in DOMAIN base.project[v].handles
                           /\ base.project[v].handles[h].resolves > 0}

\* A creation that another unit joins or detaches is not reported, wherever that unit is;
\* one that no unit resolves is reported exactly when the unit alone reports it
\* ("A handle this unit creates on a global that another unit joins is not outstanding",
\* tu_facts_builder.cpp:1594).  A handle that only the creating unit resolves is the
\* subject of ProjectModeKeepsFindings.
HandlesResolvedByProgram ==
  Done /\ "MissingJoin" \in base.rules =>
    \A u \in base.compatible : \A h \in DOMAIN base.project[u].handles :
      /\ ResolversOf(h) \ {u} # {} => ~Outstanding(base.facts[u], h)
      /\ ResolversOf(h) = {} => (Outstanding(base.facts[u], h) <=> Outstanding(base.alone[u], h))

\* What the program decides about a unit it decides the same wherever the evidence is: the
\* instances of its entries, its forks and its handles.
JudgedByProgram == EntriesKnowTheProgram /\ ForksJudgedByProgram /\ HandlesResolvedByProgram

\* A one-unit project keeps what the single-unit analysis reports: "The project mode
\* adds knowledge; it must never subtract any" (test_cross_tu_analysis.cpp:476).
ProjectModeKeepsFindings ==
  Done /\ Len(base.project) = 1 /\ "MissingJoin" \in base.rules =>
    LET alone == BuildFacts(base.project[1], ForRules(base.rules, FALSE), FALSE, EmptyIndex)
    IN \A h \in DOMAIN base.project[1].handles :
         Outstanding(alone, h) => Outstanding(base.facts[1], h)
==============================================================================
