---------------------------- MODULE ReportMerge ----------------------------
(***************************************************************************)
(* From the diagnostics of each unit to the report and the exit code of a  *)
(* project analysis: finalizeReport numbers a unit's diagnostics, the end  *)
(* of InterTUCoordinator::analyze merges the units one after the other,    *)
(* and analyzeProject turns the result into the exit code.                 *)
(*                                                                         *)
(* A diagnostic is [rule, place, message, severity]; places stand for      *)
(* file, line and column.  A unit is what became of it and what its        *)
(* checkers produced, in the order they ran, with the notices they left;   *)
(* a unit that failed to load, or that was skipped because its target ABI  *)
(* differs from the project's, has no report.                              *)
(***************************************************************************)
EXTENDS Naturals, Sequences, FiniteSets, Functions

CONSTANTS Diagnostics,  \* the diagnostics a checker may produce
          Notices,
          MaxPerUnit,   \* bound: diagnostics of one unit
          MaxUnits      \* bound: units that compiled

ASSUME BoundsAssumption == MaxPerUnit \in Nat /\ MaxUnits \in Nat

\* Each rule words its messages in its own way, and no checker sets another severity than
\* the one the catalog has for the rule.
ASSUME DiagnosticsAssumption ==
  /\ Diagnostics \subseteq [rule : Nat, place : Nat, message : Nat,
                           severity : {"info", "warning", "error"}]
  /\ \A d, e \in Diagnostics : d.message = e.message => d.rule = e.rule
  /\ \A d, e \in Diagnostics : d.rule = e.rule => d.severity = e.severity

SeqsUpTo(S, n) == UNION {[1..k -> S] : k \in 0..n}

\* The units the analysis reports on, the failedUnits and the skippedIncompatibleModules.
UnitReports ==
  [fate : {"analysed"}, diagnostics : SeqsUpTo(Diagnostics, MaxPerUnit), notices : SUBSET Notices]
    \cup [fate : {"failed", "skipped"}, diagnostics : {<<>>}, notices : {{}}]

VARIABLES units,          \* the units that compiled, in order
          failedSources,  \* whether some source did not compile
          failOn,         \* --fail-on
          at,          \* the unit the merge loop is at
          reported,    \* reportedDiagnostics: keys
          diagnostics, notices,
          exitCode     \* 3 until analyzeProject returns

vars == <<units, failedSources, failOn, at, reported, diagnostics, notices, exitCode>>
inputs == <<units, failedSources, failOn>>

Init ==
  /\ units \in SeqsUpTo(UnitReports, MaxUnits)
  /\ failedSources \in BOOLEAN
  /\ failOn \in {"none", "error", "warning"}
  /\ at = 1 /\ reported = {}
  /\ diagnostics = <<>> /\ notices = {}
  /\ exitCode = 3

\* Mutant: the message does not take part in the order.
BeforeByPlace(d, e) == d.rule < e.rule \/ (d.rule = e.rule /\ d.place < e.place)

\* The order of finalizeReport.
Before(d, e) ==
  \/ d.rule < e.rule
  \/ d.rule = e.rule /\ d.place < e.place
  \/ d.rule = e.rule /\ d.place = e.place /\ d.message < e.message

Numbered(d, id) ==
  [id |-> id, rule |-> d.rule, place |-> d.place, message |-> d.message,
   severity |-> d.severity]

\* What std::sort leaves: nothing stands behind what it comes before.
Sorts(p, list) ==
  \A i, j \in DOMAIN list : i < j => ~Before(list[p[j]], list[p[i]])

\* finalizeReport: sorted, then numbered by position.
Finalized(list) ==
  LET order == CHOOSE p \in Bijection(DOMAIN list, DOMAIN list) : Sorts(p, list)
  IN [i \in DOMAIN list |-> Numbered(list[order[i]], i)]

\* Mutant: diagnostics are told apart by their place alone.
PlaceKey(d) == d.place

DiagnosticKey(d) == <<d.id, d.place, d.message>>

\* The loop over one unit's diagnostics, after each round: what is already reported is
\* dropped.
KeptOf(list, seen) ==
  LET kept[n \in 0..Len(list)] ==
        IF n = 0 THEN [list |-> <<>>, keys |-> seen]
        ELSE IF DiagnosticKey(list[n]) \in kept[n - 1].keys THEN kept[n - 1]
        ELSE [list |-> Append(kept[n - 1].list, list[n]),
              keys |-> kept[n - 1].keys \cup {DiagnosticKey(list[n])}]
  IN kept

Fresh(list, seen) == KeptOf(list, seen)[Len(list)]

\* One round of the merge loop, which has nothing to merge of a unit without a report.
MergeUnit ==
  /\ at <= Len(units)
  /\ LET fresh == Fresh(Finalized(units[at].diagnostics), reported)
     IN /\ diagnostics' = diagnostics \o fresh.list
        /\ reported' = fresh.keys
  /\ notices' = notices \cup units[at].notices
  /\ at' = at + 1
  /\ UNCHANGED <<inputs, exitCode>>

\* computeSummary
Count(list, severity) == Cardinality({i \in DOMAIN list : list[i].severity = severity})

\* Mutant: warnings are not counted as findings.
GateOnErrors(policy, list) ==
  IF policy # "none" /\ Count(list, "error") > 0 THEN 2 ELSE 0

GateExitCode(policy, list) ==
  CASE policy = "none"    -> 0
    [] policy = "error"   -> IF Count(list, "error") > 0 THEN 2 ELSE 0
    [] policy = "warning" -> IF Count(list, "error") > 0 \/ Count(list, "warning") > 0
                             THEN 2 ELSE 0

\* ProjectAnalysisReport::complete
Complete == \A u \in DOMAIN units : units[u].fate # "failed"

\* analyzeProject stops where no unit compiled, and gates on the findings only where the
\* analysis was not cut short.
CutShort == units = <<>> \/ failedSources \/ ~Complete

Exit ==
  /\ at = Len(units) + 1 /\ exitCode = 3
  /\ exitCode' = IF CutShort THEN 1 ELSE GateExitCode(failOn, diagnostics)
  /\ UNCHANGED <<inputs, at, reported, diagnostics, notices>>

Next == MergeUnit \/ Exit

Spec == Init /\ [][Next]_vars

(***************************************************************************)
(* Properties                                                              *)
(***************************************************************************)
Done == exitCode # 3

Told(d) == <<d.rule, d.place, d.message>>

Contents(list) == {Told(list[i]) : i \in DOMAIN list}

\* Dropping copies never drops a finding: the report tells everything some unit told,
\* and nothing else.
NothingLost ==
  Done => Contents(diagnostics) = UNION {Contents(units[u].diagnostics) : u \in DOMAIN units}

\* Units with the same diagnostics in another order report the same: the checkers walk
\* unordered tables, and finalizeReport sorts before it numbers.
CheckerOrderIrrelevant ==
  Done /\ Len(units) = 2
    /\ Len(units[1].diagnostics) = Len(units[2].diagnostics)
    /\ (\A d \in Diagnostics :
          Cardinality({i \in DOMAIN units[1].diagnostics : units[1].diagnostics[i] = d})
            = Cardinality({i \in DOMAIN units[2].diagnostics : units[2].diagnostics[i] = d}))
    => diagnostics = Finalized(units[1].diagnostics)

\* The exit code tells a finding from an analysis that could not run: 1 exactly when no
\* source compiled, some source did not, or some unit failed to load, whatever was found in
\* the others; otherwise 2 exactly when some unit told of a finding the policy asks for,
\* however many units were merged and copies dropped.  A unit skipped for its target ABI is
\* missing from the report and does not count: a run that skipped one may exit clean.
ExitCodeIsHonest ==
  Done =>
    LET Worth(d) == \/ d.severity = "error" /\ failOn # "none"
                    \/ d.severity = "warning" /\ failOn = "warning"
        found    == \E u \in DOMAIN units : \E i \in DOMAIN units[u].diagnostics :
                      Worth(units[u].diagnostics[i])
        failed   == \/ units = <<>> \/ failedSources
                    \/ \E u \in DOMAIN units : units[u].fate = "failed"
    IN /\ exitCode = 1 <=> failed
       /\ exitCode = 2 <=> ~failed /\ found

\* "True when every unit contributed to the report." (coretrace_concurrency_analysis.hpp:306)
CompleteMeansAll ==
  Done /\ Complete => \A u \in DOMAIN units : units[u].fate = "analysed"

\* "Stable identity of a diagnostic, used to drop the copies produced when several units
\* include the same header and analyse the same inline body"
\* (inter_tu_coordinator.cpp:35): what several units tell is reported once.
HeaderCopiesDropped ==
  Done /\ (\A u \in DOMAIN units : \A i, j \in DOMAIN units[u].diagnostics :
             Told(units[u].diagnostics[i]) = Told(units[u].diagnostics[j]) => i = j)
    => \A i, j \in DOMAIN diagnostics : Told(diagnostics[i]) = Told(diagnostics[j]) => i = j
=============================================================================
