--------------------------- MODULE MCCoordinator ---------------------------
(***************************************************************************)
(* An instance of Coordinator for TLC.  Two units that start one inline    *)
(* worker each change what the other is told of it, so that the second     *)
(* pass has work; alone, such a unit is let go by the gate.  The other     *)
(* kind of unit is compiled for another ABI.                               *)
(***************************************************************************)
EXTENDS Coordinator

Unit(abi, defined, declared, spawns) ==
  [abi |-> abi, defGlobals |-> {}, declGlobals |-> {},
   defFunctions |-> defined, declFunctions |-> declared,
   spawns |-> [e \in spawns |-> [sites |-> 1, loop |-> FALSE, overlap |-> FALSE]],
   lockHelpers |-> EmptyFunction, joinHelpers |-> EmptyFunction,
   handles |-> EmptyFunction, forks |-> FALSE, reaps |-> FALSE,
   bindings |-> EmptyFunction]

StartsWorker == Unit(1, {"work"}, {}, {"work"})
OtherTarget  == Unit(2, {"work"}, {}, {})

TwoKinds == {StartsWorker, OtherTarget}

\* What other processes make of a unit's file: they rebuild it for the other target.
Rebuilt == {OtherTarget}

Racing == {"DataRaceGlobal"}
==============================================================================
