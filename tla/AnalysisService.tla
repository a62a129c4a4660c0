--------------------------- MODULE AnalysisService ---------------------------
(***************************************************************************)
(* What InterTUCoordinator::analyze promises its caller, with no pool, no  *)
(* workers and no order: the call is answered once, and the answer is a    *)
(* function of the bytes each unit was added with and of which units could *)
(* not be loaded in the first and in the second pass.                      *)
(*                                                                         *)
(* What a unit's facts are does not matter here: the analysis of one unit, *)
(* the grouping, the fold and the gate are parameters.  Coordinator.tla    *)
(* implements this specification.                                          *)
(***************************************************************************)
EXTENDS Naturals

CONSTANTS N,                \* how many units the project holds
          Contents,         \* bitcode that parses, as the IR it holds
          Garbage,          \* bitcode that does not parse
          Missing,          \* a file that cannot be read
          NoFacts,          \* the facts of a unit that did not load
          Pending,          \* no answer yet
          Build(_, _),      \* a unit's facts, given its IR and the program index
          NothingKnown,     \* the index the first pass builds against
          Group(_, _),      \* the units analysed together, of those that loaded
          Fold(_, _),       \* the program index of a group
          Changes(_, _)     \* the index contradicts these facts

Units == 1..N

VARIABLES recorded,  \* the bytes each unit was added with; Missing if unreadable then
          inFile,    \* units whose bytes stay in their file
          answered,  \* analyze has returned
          answer

avars == <<recorded, inFile, answered, answer>>

FactsAlone(u) == Build(recorded[u], NothingKnown)

\* The facts after a first pass in which the units of failedA did not load.
FirstPass(failedA) == [u \in Units |-> IF u \in failedA THEN NoFacts ELSE FactsAlone(u)]

CompatibleOf(facts, failedA) ==
  IF failedA = Units THEN {} ELSE Group(facts, Units \ failedA)

\* The answer when the units of failedA did not load in the first pass and those of
\* failedB did not load when they were analysed again.
Outcome(failedA, failedB) ==
  LET alone      == FirstPass(failedA)
      compatible == CompatibleOf(alone, failedA)
      index      == Fold(alone, compatible)
      again      == {u \in compatible : Changes(alone[u], index)}
  IN [failed     |-> failedA \cup failedB,
      skipped    |-> Units \ (failedA \cup compatible),
      reanalyzed |-> again,
      report     |-> [u \in compatible \ failedB |->
                        IF u \in again THEN Build(recorded[u], index) ELSE alone[u]]]

\* Units no load can open, and units a load may fail on: bytes held in memory never
\* change, a file may.
Unloadable == {u \in Units : recorded[u] \notin Contents}

MayFail == Unloadable \cup inFile

Init ==
  /\ recorded \in [Units -> Contents \cup {Garbage, Missing}]
  /\ inFile \in SUBSET Units
  /\ \A u \in Units \ inFile : recorded[u] # Missing
  /\ answered = FALSE /\ answer = Pending

\* A unit that loaded in the first pass can only fail in the second if it is in a file
\* and the second pass loads it.
Answer ==
  /\ ~answered /\ answered'
  /\ \E failedA \in SUBSET MayFail :
       /\ Unloadable \subseteq failedA
       /\ \E failedB \in SUBSET Outcome(failedA, {}).reanalyzed :
            /\ failedB \subseteq inFile
            /\ answer' = Outcome(failedA, failedB)
  /\ UNCHANGED <<recorded, inFile>>

Next == Answer

Spec == Init /\ [][Next]_avars
==============================================================================
