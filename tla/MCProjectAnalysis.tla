-------------------------- MODULE MCProjectAnalysis --------------------------
(***************************************************************************)
(* Small projects for ProjectAnalysis.  A translation unit is a set of     *)
(* features, each one a thing a source file does; a run chooses the        *)
(* features in play and how many of them one unit may combine.             *)
(***************************************************************************)
EXTENDS ProjectAnalysis, FiniteSetsExt

\* Functions and globals a feature defines and the ones it uses.
Defines ==
  [main |-> {}, mainLoop |-> {}, perThread |-> {"worker"}, worker |-> {"worker"},
   hand |-> {"start", "worker"}, handStorage |-> {"worker"}, callStart |-> {},
   storage |-> {}, useStorage |-> {},
   take |-> {"take"}, takeOther |-> {"take"}, useTake |-> {},
   joiner |-> {"joiner"}, useJoiner |-> {}, create |-> {}, createLoop |-> {},
   join |-> {}, fork |-> {}, reap |-> {}, otherAbi |-> {}]

Features == DOMAIN Defines

Uses ==
  [f \in Features |->
    CASE f \in {"main", "mainLoop"} -> {"worker"}
      [] f = "callStart" -> {"start"}
      [] f = "useTake" -> {"take"}
      [] f = "useJoiner" -> {"joiner"}
      [] OTHER -> {}]

When(condition, table) == IF condition THEN table ELSE EmptyFunction

\* The unit with the features F.
UnitOf(F) ==
  LET Has(f)  == f \in F
      defined == UNION {Defines[f] : f \in F}
      sites   == Cardinality(F \cap {"main", "mainLoop", "perThread", "hand", "handStorage"})
      uses    == Has("useStorage") \/ Has("handStorage")
      creates == Cardinality(F \cap {"create", "createLoop"})
  IN [abi |-> IF Has("otherAbi") THEN 2 ELSE 1,
      defGlobals |-> IF Has("storage") THEN {"g"} ELSE {},
      declGlobals |-> IF uses /\ ~Has("storage") THEN {"g"} ELSE {},
      defFunctions |-> defined,
      declFunctions |-> UNION {Uses[f] : f \in F} \ defined,
      spawns |-> When(sites > 0,
                      [e \in {"worker"} |->
                         [sites |-> sites,
                          loop |-> Has("mainLoop") \/ Has("perThread"),
                          overlap |-> sites > 1 \/ Has("mainLoop") \/ Has("perThread")]]),
      lockHelpers |-> When(Has("take") \/ Has("takeOther"),
                           [f \in {"take"} |-> IF Has("take") THEN "acquire" ELSE "release"]),
      joinHelpers |-> When(Has("joiner"), [f \in {"joiner"} |-> "parameter 0"]),
      handles |-> When(creates > 0 \/ Has("join"),
                       [h \in {"handle"} |->
                          [creates |-> creates, resolves |-> IF Has("join") THEN 1 ELSE 0,
                           onAllPaths |-> creates = 0 \/ Has("join"),
                           looped |-> Has("createLoop")]]),
      forks |-> Has("fork"), reaps |-> Has("reap"),
      bindings |-> When((Has("hand") \/ Has("perThread") \/ Has("handStorage")) /\ sites = 1,
                        [e \in {"worker"} |->
                           [globals |-> IF Has("handStorage") THEN {"g"} ELSE {},
                            settledThrough |-> IF Has("hand") THEN {"start", "worker"} ELSE {},
                            perThread |-> Has("perThread")]])]

UnitsWith(features, most) == {UnitOf(F) : F \in UNION {kSubset(n, features) : n \in 0..most}}

EntryIRs   == UnitsWith({"main", "mainLoop", "perThread", "worker", "hand", "callStart"}, 2)
HelperIRs  == UnitsWith({"take", "takeOther", "useTake", "joiner", "useJoiner", "otherAbi"}, 2)
ProcessIRs == UnitsWith({"main", "createLoop", "join", "fork", "reap", "otherAbi"}, 2)
GlobalIRs  == UnitsWith({"main", "hand", "handStorage", "storage", "useStorage", "useTake", "take"}, 2)
MixedIRs   == UnitsWith({"main", "worker", "hand", "callStart", "take", "useTake", "joiner",
                         "useJoiner", "create", "join", "fork", "reap"}, 2)
ElementIRs == UnitsWith({"perThread"}, 1)
HandleIRs  == UnitsWith({"create", "createLoop", "join"}, 2)

\* Thread entries and what they are handed; helpers and a second ABI; handles,
\* forks and waits; and, for each rule alone, pairs of units that define, use and hand over
\* globals, and pairs that mix the others.
Everything ==
  [entries |-> [irs |-> EntryIRs, units |-> 3, variations |-> {"reversed"}],
   helpers |-> [irs |-> HelperIRs, units |-> 3, variations |-> {"reversed"}],
   process |-> [irs |-> ProcessIRs, units |-> 3, variations |-> {"same"}],
   globals |-> [irs |-> GlobalIRs, units |-> 2, variations |-> {"narrow"}],
   mixed   |-> [irs |-> MixedIRs, units |-> 2, variations |-> {"narrow"}]]

\* One unit that creates threads on a global handle and may join it, one that hands each
\* thread an element of its own, and pairs of which one may hand over a global of the other.
OneUnit    == [handles |-> [irs |-> HandleIRs, units |-> 1, variations |-> {"same"}]]
OneElement == [elements |-> [irs |-> ElementIRs, units |-> 1, variations |-> {"same"}]]
Globals    == [globals |-> [irs |-> GlobalIRs, units |-> 2, variations |-> {"narrow"}]]

EveryRule == {Rules}
==============================================================================
