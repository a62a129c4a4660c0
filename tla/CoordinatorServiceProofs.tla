---------------------- MODULE CoordinatorServiceProofs -----------------------
(***************************************************************************)
(* What the second pass ends with (SecondPassInv), and so the inductive    *)
(* invariant CoordinatorInv and the properties that follow from it; the    *)
(* gauge of the units in memory; the coordinator as an implementation of   *)
(* AnalysisService: the schedule of the workers and the moments at which   *)
(* files change decide which units fail and nothing else; and the list of  *)
(* failures that analyze returns.                                          *)
(***************************************************************************)
EXTENDS CoordinatorProofs, FiniteSetTheorems

(***************************************************************************)
(* The second pass once the units are grouped                              *)
(***************************************************************************)
\* The gate reads the first pass's facts of a unit not yet submitted, so the set of
\* units sent through again is the one the folded index decides.
LEMMA GateSecond ==
  ASSUME Typed, PoolInv, SecondPassInv, GateB
  PROVE  SecondPassInv'
<1>1. /\ pc = "passB" /\ next \in Units /\ next' = next + 1
      /\ UNCHANGED <<recorded, inFile, pc, worker, failed, factsByUnit, compatible,
                     programIndex, report>>
  BY NAssumption DEF GateB, Typed, Units, sources, shared, grouped, result
<1>2. FailedFirst' = FailedFirst
  BY <1>1, Zenon DEF FailedFirst
<1>3. /\ Alone' = Alone
      /\ Service!CompatibleOf(Alone, FailedFirst)' = Service!CompatibleOf(Alone, FailedFirst)
  BY <1>1, <1>2, AloneKept, CompatibleKept, Zenon
<1>4. /\ reanalyzed = {u \in compatible : u < next /\ GateOpens(Alone[u], programIndex)}
      /\ compatible \subseteq Units /\ Unsettled \subseteq reanalyzed
      /\ \A u \in compatible \ reanalyzed : ~failed[u] /\ factsByUnit[u] = Alone[u]
  BY <1>1, Zenon DEF SecondPassInv
<1>5. next \in compatible => factsByUnit[next] = Alone[next] /\ next \notin reanalyzed
  BY <1>1, <1>4 DEF Units
<1>6. \A u \in Units : u < next' <=> (u < next \/ u = next)
  BY <1>1 DEF Units
<1>7. /\ reanalyzed' = {u \in compatible' : u < next' /\ GateOpens(Alone[u], programIndex)'}
      /\ Unsettled' \subseteq reanalyzed'
      /\ \A u \in reanalyzed : u \in Unsettled' <=> u \in Unsettled
      /\ \A u \in reanalyzed' : u \in reanalyzed \/ (u \in Unsettled' /\ ~failed'[u])
      /\ reanalyzed \subseteq reanalyzed'
  <2>1. CASE next \in compatible /\ GateOpens(factsByUnit[next], programIndex)
    <3>1. reanalyzed' = reanalyzed \cup {next} /\ queue' = Append(queue, next)
      BY <2>1, Zenon DEF GateB
    <3>2. Unsettled' = Unsettled \cup {next}
      BY <1>1, <3>1, SubmitUnsettled, Zenon
    <3>3. \A u : u \in reanalyzed' <=> u \in compatible /\ u < next' /\ GateOpens(Alone[u], programIndex)
      BY <2>1, <3>1, <1>4, <1>5, <1>6
    <3>4. QED
      BY <1>1, <1>3, <1>4, <1>5, <2>1, <3>1, <3>2, <3>3
  <2>2. CASE ~(next \in compatible /\ GateOpens(factsByUnit[next], programIndex))
    <3>1. reanalyzed' = reanalyzed /\ queue' = queue
      BY <2>2, Zenon DEF GateB
    <3>2. Unsettled' = Unsettled
      BY <1>1, <3>1, SameSettled, Zenon
    <3>3. \A u : u \in reanalyzed <=> u \in compatible /\ u < next' /\ GateOpens(Alone[u], programIndex)
      BY <2>2, <1>4, <1>5, <1>6
    <3>4. QED
      BY <1>1, <1>3, <1>4, <3>1, <3>2, <3>3
  <2>3. QED
    BY <2>1, <2>2, Zenon
<1>8. \A u \in Units : FailedSoFar(u)' <=> FailedSoFar(u)
  BY <1>1, Zenon DEF FailedSoFar
<1>9. \A u \in reanalyzed' :
        IF u \in Unsettled' THEN ~failed'[u]
        ELSE \/ FailedSoFar(u)'
             \/ ~failed'[u] /\ factsByUnit'[u] = BuildUnit(recorded[u], programIndex)'
  BY SMTT(20), <1>1, <1>4, <1>7, <1>8 DEF SecondPassInv
<1>10. \A u \in FailedFirst' : FailedSoFar(u)'
  BY <1>1, <1>2, <1>8, Zenon DEF SecondPassInv, FailedFirst
<1>11. ~Returned'
  BY <1>1, Zenon DEF Returned
<1>12. \A u \in compatible' \ reanalyzed' : ~failed'[u] /\ factsByUnit'[u] = Alone'[u]
  BY <1>1, <1>3, <1>4, <1>7, Zenon
<1>13. /\ compatible' = Service!CompatibleOf(Alone, FailedFirst)'
       /\ programIndex' = FoldIndex(Alone', compatible')
       /\ \A u \in Units \ FailedFirst' : recorded'[u] \in Contents
  BY <1>1, <1>2, <1>3, Zenon DEF SecondPassInv
<1>14. QED
  BY <1>1, <1>4, <1>7, <1>9, <1>10, <1>11, <1>12, <1>13, Zenon DEF SecondPassInv

\* The second pool is gone: every unit it was given has been written.
LEMMA WaitSecond ==
  ASSUME Typed, SecondPassInv, WaitB
  PROVE  SecondPassInv'
<1>1. /\ pc = "passB" /\ pc' = "report" /\ next = N + 1
      /\ UNCHANGED <<recorded, inFile, next, queue, worker, failed, factsByUnit, compatible,
                     programIndex, reanalyzed, report>>
  BY Zenon DEF WaitB, sources, shared, grouped, result
<1>2. FailedFirst' = FailedFirst /\ Unsettled' = Unsettled
  BY <1>1, SameSettled, Zenon DEF FailedFirst
<1>3. /\ Alone' = Alone
      /\ Service!CompatibleOf(Alone, FailedFirst)' = Service!CompatibleOf(Alone, FailedFirst)
  BY <1>1, <1>2, AloneKept, CompatibleKept, Zenon
<1>4. \A u \in compatible : u < next
  BY <1>1, NAssumption DEF SecondPassInv, Units
<1>5. reanalyzed' = {u \in compatible' : GateOpens(Alone[u], programIndex)'}
  BY <1>1, <1>3, <1>4, Zenon DEF SecondPassInv
<1>6. ~Returned'
  BY <1>1, Zenon DEF Returned
<1>7. QED
  BY <1>1, <1>2, <1>3, <1>5, <1>6, Zenon DEF SecondPassInv, FailedSoFar

\* The report is made of the facts the passes left.
LEMMA ReportSecond ==
  ASSUME Typed, SecondPassInv, Report
  PROVE  SecondPassInv'
<1>1. /\ pc = "report" /\ pc' = "done"
      /\ report' = [u \in {v \in compatible : ~failed[v]} |-> factsByUnit[u]]
      /\ UNCHANGED <<recorded, inFile, next, queue, worker, failed, factsByUnit, compatible,
                     programIndex, reanalyzed>>
  BY Zenon DEF Report, sources, shared, grouped
<1>2. FailedFirst' = FailedFirst /\ Unsettled' = Unsettled
  BY <1>1, SameSettled, Zenon DEF FailedFirst
<1>3. /\ Alone' = Alone
      /\ Service!CompatibleOf(Alone, FailedFirst)' = Service!CompatibleOf(Alone, FailedFirst)
  BY Zenon, <1>1, <1>2, AloneKept, CompatibleKept
<1>4. QED
  BY <1>1, <1>2, <1>3, Zenon DEF SecondPassInv, FailedSoFar

\* A worker of the second pass writes the element of a unit sent through again; the
\* units that failed in the first pass stay the same.
LEMMA WriteSecond ==
  ASSUME Typed, PoolInv, LoadInv, SecondPassInv, pc = "passB",
         NEW w \in Workers, Fail(w) \/ Build(w)
  PROVE  SecondPassInv'
<1>0. PICK u \in Units : u = worker[w].unit
  BY Zenon DEF Fail, Build, PoolInv
<1>1. u \in Unsettled /\ Unsettled' = Unsettled \ {u}
  BY <1>0, WriteSettles, Zenon DEF Fail, Build
<1>2. /\ compatible \subseteq Units /\ Unsettled \subseteq reanalyzed /\ reanalyzed \subseteq compatible
      /\ \A v \in compatible \ reanalyzed : ~failed[v] /\ factsByUnit[v] = Alone[v]
  BY Zenon DEF SecondPassInv
<1>3. UNCHANGED <<recorded, inFile, pc, next, compatible, programIndex, reanalyzed, report>>
  BY WorkerFrame DEF Worker
<1>4. \A v \in Units \ {u} : failed'[v] = failed[v] /\ factsByUnit'[v] = factsByUnit[v]
  BY <1>0, Zenon DEF Fail, Build, Typed
<1>5. FailedFirst' = FailedFirst /\ u \notin FailedFirst
  BY <1>1, <1>2, <1>3, <1>4 DEF FailedFirst
<1>6. /\ Alone' = Alone
      /\ Service!CompatibleOf(Alone, FailedFirst)' = Service!CompatibleOf(Alone, FailedFirst)
  BY <1>3, <1>5, AloneKept, CompatibleKept
<1>7. \A v \in Units \ {u} : FailedSoFar(v)' <=> FailedSoFar(v)
  BY <1>3, <1>4, Zenon DEF FailedSoFar
<1>8. \/ FailedSoFar(u)'
      \/ ~failed'[u] /\ factsByUnit'[u] = BuildUnit(recorded[u], programIndex)'
  <2>1. CASE Fail(w)
    <3>1. failed'[u] /\ factsByUnit'[u] = NoFacts
      BY Zenon, <1>0, <2>1 DEF Fail, Typed
    <3>2. recorded[u] \notin Contents \/ u \in inFile
      BY <1>0, <2>1, Zenon DEF Fail, LoadInv
    <3>3. QED
      BY <1>3, <3>1, <3>2 DEF FailedSoFar
  <2>2. CASE Build(w)
    <3>1. worker[w].module = recorded[u]
      BY Zenon, <1>0, <2>2 DEF Build, LoadInv
    <3>2. ~failed[u]
      BY <1>1, <1>2 DEF SecondPassInv
    <3>3. failed' = failed /\ factsByUnit'[u] = BuildUnit(recorded[u], programIndex)
      BY SMTT(20), <1>0, <2>2, <3>1 DEF Build, Program, Typed
    <3>4. QED
      BY <1>3, <3>2, <3>3, Zenon
  <2>3. QED
    BY <2>1, <2>2, Zenon
<1>9. \A v \in reanalyzed' :
        IF v \in Unsettled' THEN ~failed'[v]
        ELSE \/ FailedSoFar(v)'
             \/ ~failed'[v] /\ factsByUnit'[v] = BuildUnit(recorded[v], programIndex)'
  <2>1. TAKE v \in reanalyzed'
  <2>2. v \in reanalyzed /\ v \in Units
    BY <1>2, <1>3
  <2>3. CASE v = u
    BY <1>1, <1>8, <2>3, Zenon
  <2>4. CASE v # u
    <3>1. IF v \in Unsettled THEN ~failed[v]
          ELSE \/ FailedSoFar(v)
               \/ ~failed[v] /\ factsByUnit[v] = BuildUnit(recorded[v], programIndex)
      BY Zenon, <2>2 DEF SecondPassInv
    <3>2. QED
      BY SMTT(20), <1>1, <1>3, <1>4, <1>7, <2>2, <2>4, <3>1
  <2>5. QED
    BY <2>3, <2>4, Zenon
<1>10. \A v \in FailedFirst' : FailedSoFar(v)'
  BY <1>5, <1>7, Zenon DEF SecondPassInv, FailedFirst
<1>11. \A v \in compatible' \ reanalyzed' : ~failed'[v] /\ factsByUnit'[v] = Alone'[v]
  BY SMTT(20), <1>1, <1>2, <1>3, <1>4, <1>6
<1>12. /\ compatible' = Service!CompatibleOf(Alone, FailedFirst)'
       /\ compatible' \subseteq Units
       /\ programIndex' = FoldIndex(Alone', compatible')
       /\ \A v \in Units \ FailedFirst' : recorded'[v] \in Contents
       /\ Unsettled' \subseteq reanalyzed'
  BY SMTT(20), <1>1, <1>2, <1>3, <1>5, <1>6 DEF SecondPassInv
<1>13. reanalyzed' = {v \in compatible' : v < next' /\ GateOpens(Alone[v], programIndex)'}
  BY <1>3, <1>6, Zenon DEF SecondPassInv
<1>14. ~Returned'
  BY <1>3, Zenon DEF Returned
<1>15. QED
  BY SMTT(20), <1>3, <1>9, <1>10, <1>11, <1>12, <1>13, <1>14 DEF SecondPassInv

\* Every step keeps what is known of the second pass.
LEMMA SecondPassStep ==
  ASSUME Typed, PoolInv, LoadInv, FirstPassInv, SecondPassInv, [Next]_vars
  PROVE  SecondPassInv'
<1>1. ASSUME SubmitA \/ WaitA PROVE SecondPassInv'
  <2>1. pc' \in {"passA", "abi"}
    BY <1>1, Zenon DEF SubmitA, WaitA
  <2>2. QED
    BY <2>1, Zenon DEF SecondPassInv, Returned
<1>2. ASSUME NEW w \in Workers, Take(w) \/ Load(w) \/ Leave(w) PROVE SecondPassInv'
  <2>1. UNCHANGED <<failed, factsByUnit>>
    BY <1>2, Zenon DEF Take, Load, Leave, shared
  <2>2. Unsettled' = Unsettled
    BY <1>2, TakeUnsettled, LoadUnsettled, LeaveUnsettled, Zenon
  <2>3. QED
    BY <1>2, <2>1, <2>2, WorkerFrame, SecondPassFrame, Zenon DEF Worker
<1>3. ASSUME NEW w \in Workers, Fail(w) \/ Build(w) PROVE SecondPassInv'
  <2>1. pc \in {"passA", "passB"} /\ pc' = pc
    <3>1. worker[w].at # "idle"
      BY <1>3, Zenon DEF Fail, Build
    <3>2. ~PoolDrained
      BY <3>1, SMTT(30) DEF PoolDrained, Idle
    <3>3. pc' = pc
      BY Zenon, <1>3, WorkerFrame DEF Worker
    <3>4. QED
      BY <3>2, <3>3, Zenon DEF PoolInv
  <2>2. CASE pc = "passA"
    BY <2>1, <2>2, Zenon DEF SecondPassInv, Returned
  <2>3. QED
    BY <1>3, <2>1, <2>2, WriteSecond
<1>4. ASSUME NEW u \in Units, NEW bytes \in Rewrites, Rewrite(u, bytes) PROVE SecondPassInv'
  BY <1>4, RewriteFrame, SameSettled, SecondPassFrame, Zenon
<1>5. ASSUME UNCHANGED vars PROVE SecondPassInv'
  BY <1>5, SameSettled, SecondPassFrame, Zenon DEF vars, sources, shared, grouped, result
<1>6. QED
  BY SMTT(20), <1>1, <1>2, <1>3, <1>4, <1>5, AllFailedSecond, GroupAbiSecond, GateSecond, WaitSecond,
     ReportSecond DEF Next, Caller, Worker

ServiceProofInv == PoolProofInv /\ CoordinatorInv

\* Everything the two passes establish holds in every behaviour of the coordinator.
THEOREM CoordinatorInvariance == Spec => []ServiceProofInv
<1>1. Init => CoordinatorInv
  BY PoolInit, LoadInit, FirstPassInit, SecondPassInit, Zenon DEF CoordinatorInv
<1>2. PoolProofInv /\ CoordinatorInv /\ [Next]_vars => CoordinatorInv'
  BY PoolStep, LoadStep, FirstPassStep, SecondPassStep, Zenon DEF PoolProofInv, CoordinatorInv
<1>3. QED
  BY <1>1, <1>2, PoolInvariance, PTL DEF Spec, ServiceProofInv

\* At every point of the two passes each unit is pending, failed without facts, or holds
\* the facts its pass builds from the bytes it was added with.
THEOREM PassesEstablished == Spec => []CoordinatorInv
<1>1. ServiceProofInv => CoordinatorInv
  BY Zenon DEF ServiceProofInv
<1>2. QED
  BY <1>1, CoordinatorInvariance, PTL

\* The calling thread never reads facts a worker may be writing, in any schedule.
THEOREM FactsReadWhenSettled == Spec => []ReadsOnlySettledFacts
<1>1. ServiceProofInv => ReadsOnlySettledFacts
  <2> SUFFICES ASSUME ServiceProofInv PROVE ReadsOnlySettledFacts
    OBVIOUS
  <2> USE DEF ServiceProofInv, PoolProofInv, CoordinatorInv
  <2>1. pc \in {"abi", "report", "done"} => Unsettled = {}
    BY DrainedSettled, Zenon DEF PoolInv
  <2>2. ASSUME pc = "passB", NEW u \in compatible, u >= next PROVE u \notin Unsettled
    <3>1. Unsettled \subseteq reanalyzed /\ \A v \in reanalyzed : v < next
      BY <2>2, Zenon DEF SecondPassInv
    <3>2. u \in Units /\ next \in Nat
      BY NAssumption DEF Typed
    <3>3. QED
      BY <2>2, <3>1, <3>2, SMTT(30) DEF Units
  <2>3. QED
    BY <2>1, <2>2, Zenon DEF ReadsOnlySettledFacts
<1>2. QED
  BY <1>1, CoordinatorInvariance, PTL

\* A unit that failed has no facts and no task that could give it some.
LEMMA FailedSettled ==
  ASSUME ServiceProofInv, NEW u \in Units, failed[u]
  PROVE  factsByUnit[u] = NoFacts /\ u \notin Unsettled
<1> USE DEF ServiceProofInv, PoolProofInv, CoordinatorInv
<1>1. CASE pc \in {"passA", "abi"}
  BY <1>1, Zenon DEF FirstPassInv, FailedSoFar
<1>2. CASE pc \in {"passB", "report"} \/ Returned
  <2>1. CASE u \in compatible
    BY <1>2, <2>1, Zenon DEF SecondPassInv, FailedSoFar
  <2>2. CASE u \notin compatible
    <3>1. u \in FailedFirst
      BY <2>2, Zenon DEF FailedFirst
    <3>2. FailedSoFar(u) /\ Unsettled \subseteq reanalyzed /\ reanalyzed \subseteq compatible
      BY <1>2, <3>1, Zenon DEF SecondPassInv
    <3>3. QED
      BY <2>2, <3>2, Zenon DEF FailedSoFar
  <2>3. QED
    BY Zenon, <2>1, <2>2
<1>3. QED
  BY <1>1, <1>2, NAssumption DEF Typed, Returned, Units

\* No step gives a failed unit facts again, in either pass and whatever the files hold.
THEOREM FailuresAreFinal == Spec => FailureIsFinal
<1> DEFINE Final == \A u \in Units :
                      failed[u] => failed'[u] /\ factsByUnit[u] = NoFacts /\ factsByUnit'[u] = NoFacts
<1>1. ASSUME ServiceProofInv, [Next]_vars PROVE Final
  <2> SUFFICES ASSUME NEW u \in Units, failed[u]
               PROVE  failed'[u] /\ factsByUnit[u] = NoFacts /\ factsByUnit'[u] = NoFacts
    OBVIOUS
  <2>1. factsByUnit[u] = NoFacts /\ u \notin Unsettled
    BY <1>1, FailedSettled, Zenon
  <2>2. ASSUME UNCHANGED <<failed, factsByUnit>>
        PROVE  failed'[u] /\ factsByUnit'[u] = NoFacts
    BY <2>1, <2>2, Zenon
  <2>3. ASSUME NEW w \in Workers, Fail(w) \/ Build(w)
        PROVE  failed'[u] /\ factsByUnit'[u] = NoFacts
    <3>1. worker[w].unit \in Unsettled
      BY <2>3, Zenon DEF Fail, Build, Unsettled, Writing
    <3>2. worker[w].unit # u
      BY <2>1, <3>1, Zenon
    <3>3. failed'[u] = failed[u] /\ factsByUnit'[u] = factsByUnit[u]
      BY <1>1, <2>3, <3>2, Zenon DEF Fail, Build, ServiceProofInv, PoolProofInv, Typed
    <3>4. QED
      BY <2>1, <3>3, Zenon
  <2>4. ASSUME NEW w \in Workers, Take(w) \/ Load(w) \/ Leave(w)
        PROVE  UNCHANGED <<failed, factsByUnit>>
    BY <2>4, Zenon DEF Take, Load, Leave, shared
  <2>5. QED
    BY <1>1, <2>1, <2>2, <2>3, <2>4, CallerFrame, RewriteFrame, SMTT(30) DEF Next, Worker, vars, shared
<1>2. ServiceProofInv /\ [Next]_vars => [Final]_vars
  BY <1>1, Zenon
<1>3. QED
  BY <1>2, CoordinatorInvariance, PTL DEF Spec, FailureIsFinal

(***************************************************************************)
(* The refinement                                                          *)
(***************************************************************************)
FailedAgain == {u \in compatible : failed[u]}

\* What the coordinator returned is the outcome of the units that failed in each pass,
\* and each of those had a reason to fail.
AnswerIsOutcome ==
  /\ FailedFirst \subseteq Service!MayFail
  /\ Service!Unloadable \subseteq FailedFirst
  /\ FailedAgain \subseteq Service!Outcome(FailedFirst, {}).reanalyzed
  /\ FailedAgain \subseteq inFile
  /\ Answer = Service!Outcome(FailedFirst, FailedAgain)

\* When analyze returns, its answer is the outcome AnalysisService allows.
LEMMA ReturnedOutcome == ServiceProofInv /\ Returned => AnswerIsOutcome
<1> SUFFICES ASSUME ServiceProofInv, Returned PROVE AnswerIsOutcome
  OBVIOUS
<1>1. pc = "done" /\ Unsettled = {} /\ SecondPassInv
  BY DrainedSettled, Zenon DEF ServiceProofInv, PoolProofInv, CoordinatorInv, Returned, PoolInv
<1>2. compatible = Service!CompatibleOf(Alone, FailedFirst) /\ compatible \subseteq Units
  BY <1>1, Zenon DEF SecondPassInv
<1>3. /\ \A u \in FailedFirst : FailedSoFar(u)
      /\ \A u \in Units \ FailedFirst : recorded[u] \in Contents
  BY <1>1, Zenon DEF SecondPassInv
<1> DEFINE index == FoldIndex(Alone, compatible)
           again == {u \in compatible : GateOpens(Alone[u], index)}
<1>4. /\ compatible # {} => programIndex = index
      /\ reanalyzed = {u \in compatible : GateOpens(Alone[u], programIndex)}
  BY <1>1, Zenon DEF SecondPassInv
<1>5. reanalyzed = again
  BY <1>4, Zenon
<1>6. /\ \A u \in compatible \ again : ~failed[u] /\ factsByUnit[u] = Alone[u]
      /\ \A u \in again : \/ FailedSoFar(u)
                          \/ ~failed[u] /\ factsByUnit[u] = BuildUnit(recorded[u], index)
  <2>1. /\ \A u \in compatible \ reanalyzed : ~failed[u] /\ factsByUnit[u] = Alone[u]
        /\ \A u \in reanalyzed :
             \/ FailedSoFar(u)
             \/ ~failed[u] /\ factsByUnit[u] = BuildUnit(recorded[u], programIndex)
    BY <1>1, Zenon DEF SecondPassInv
  <2>2. \A u \in again : programIndex = index
    BY <1>4, Zenon
  <2>3. QED
    BY <1>5, <2>1, <2>2, Zenon
<1>7. report = [u \in {v \in compatible : ~failed[v]} |-> factsByUnit[u]]
  BY <1>1, Zenon DEF SecondPassInv
<1>8. \A S : Service!Outcome(FailedFirst, S) =
        [failed     |-> FailedFirst \cup S,
         skipped    |-> Units \ (FailedFirst \cup compatible),
         reanalyzed |-> again,
         report     |-> [u \in compatible \ S |->
                           IF u \in again THEN BuildUnit(recorded[u], index) ELSE Alone[u]]]
  BY <1>2, Zenon DEF Service!Outcome, Alone, Service!Units, Units
<1>9. again \subseteq compatible
  OBVIOUS
<1> HIDE DEF again, index
<1>10. FailedFirst \subseteq Service!MayFail
  BY <1>3, Zenon DEF FailedFirst, FailedSoFar, Service!MayFail, Service!Unloadable, Service!Units, Units
<1>11. Service!Unloadable \subseteq FailedFirst
  BY <1>3, Zenon DEF Service!Unloadable, Service!Units, Units
<1>12. FailedAgain \subseteq again
  BY <1>6, Zenon DEF FailedAgain
<1>13. FailedAgain \subseteq inFile
  <2> SUFFICES ASSUME NEW u \in FailedAgain PROVE u \in inFile
    OBVIOUS
  <2>1. u \in compatible /\ failed[u] /\ u \in again
    BY <1>12, Zenon DEF FailedAgain
  <2>2. FailedSoFar(u)
    BY <1>6, <2>1, Zenon
  <2>3. recorded[u] \in Contents
    BY <1>2, <1>3, <2>1, Zenon DEF FailedFirst
  <2>4. QED
    BY <2>2, <2>3, Zenon DEF FailedSoFar
<1>14. {u \in Units : failed[u]} = FailedFirst \cup FailedAgain
  <2>1. \A u \in FailedFirst : u \in Units /\ failed[u]
    BY <1>3, Zenon DEF FailedFirst, FailedSoFar
  <2>2. QED
    BY <1>2, <2>1, Zenon DEF FailedFirst, FailedAgain
<1>15. {u \in Units : ~failed[u] /\ u \notin compatible} = Units \ (FailedFirst \cup compatible)
  BY Zenon DEF FailedFirst
<1>16. report = [u \in compatible \ FailedAgain |->
                   IF u \in again THEN BuildUnit(recorded[u], index) ELSE Alone[u]]
  <2>1. {v \in compatible : ~failed[v]} = compatible \ FailedAgain
    BY Zenon DEF FailedAgain
  <2>2. \A u \in compatible \ FailedAgain :
          factsByUnit[u] = IF u \in again THEN BuildUnit(recorded[u], index) ELSE Alone[u]
    BY <1>6, Zenon DEF FailedAgain, FailedSoFar
  <2>3. QED
    BY <1>7, <2>1, <2>2, Zenon
<1>17. Answer = Service!Outcome(FailedFirst, FailedAgain)
  BY <1>5, <1>8, <1>14, <1>15, <1>16, Zenon DEF Answer
<1>18. FailedAgain \subseteq Service!Outcome(FailedFirst, {}).reanalyzed
  <2>1. Service!Outcome(FailedFirst, {}).reanalyzed =
          {u \in Service!CompatibleOf(Alone, FailedFirst) :
             GateOpens(Alone[u], FoldIndex(Alone, Service!CompatibleOf(Alone, FailedFirst)))}
    BY Zenon DEF Service!Outcome, Alone
  <2>2. QED
    BY <1>2, <1>12, <2>1, Zenon DEF again, index
<1>19. QED
  BY <1>10, <1>11, <1>13, <1>17, <1>18 DEF AnswerIsOutcome

\* Only AllFailed and Report return; no step follows the return.
LEMMA ReturnStep ==
  ASSUME ServiceProofInv, [Next]_vars
  PROVE  \/ Returned' /\ ~Returned /\ UNCHANGED <<recorded, inFile>>
         \/ ~Returned' /\ ~Returned /\ UNCHANGED <<recorded, inFile>>
         \/ UNCHANGED vars
<1> USE DEF ServiceProofInv, PoolProofInv, CoordinatorInv
<1>1. [Next]_vars => UNCHANGED <<recorded, inFile>>
  <2>1. ASSUME Caller PROVE UNCHANGED <<recorded, inFile>>
    BY <2>1, Zenon DEF Caller, SubmitA, WaitA, AllFailed, GroupAbi, GateB, WaitB, Report, sources
  <2>2. ASSUME NEW w \in Workers, Worker(w) PROVE UNCHANGED <<recorded, inFile>>
    BY <2>2, Zenon DEF Worker, Take, Load, Fail, Build, Leave, sources
  <2>3. ASSUME NEW u \in Units, NEW b \in Rewrites, Rewrite(u, b)
        PROVE  UNCHANGED <<recorded, inFile>>
    BY <2>3, Zenon DEF Rewrite
  <2>4. QED
    BY <2>1, <2>2, <2>3, Zenon DEF Next, vars, sources
<1>2. CASE UNCHANGED vars
  BY <1>2, Zenon
<1>3. CASE Next /\ Returned
  <2>1. pc = "done" /\ PoolDrained
    BY <1>3, Zenon DEF Returned, PoolInv
  <2>2. ~Caller
    BY <2>1, Zenon DEF Caller, SubmitA, WaitA, AllFailed, GroupAbi, GateB, WaitB, Report
  <2>3. ASSUME NEW w \in Workers PROVE ~Worker(w)
    BY <2>1 DEF Worker, Take, Load, Fail, Build, Leave, PoolDrained, Idle
  <2>4. ASSUME NEW u \in Units, NEW b \in Rewrites PROVE ~Rewrite(u, b)
    BY <2>1, Zenon DEF Rewrite
  <2>5. QED
    BY <1>3, <2>2, <2>3, <2>4, Zenon DEF Next
<1>4. CASE Next /\ ~Returned
  BY <1>1, <1>4, Zenon
<1>5. QED
  BY <1>2, <1>3, <1>4, Zenon

\* What the service answers depends on the recorded contents alone.
LEMMA OutcomeKept ==
  ASSUME NEW failedA, NEW failedB, recorded' = recorded, inFile' = inFile
  PROVE  /\ Service!Outcome(failedA, failedB)' = Service!Outcome(failedA, failedB)
         /\ Service!MayFail' = Service!MayFail /\ Service!Unloadable' = Service!Unloadable
<1>1. Service!FirstPass(failedA)' = Service!FirstPass(failedA)
  BY Zenon DEF Service!FirstPass, Service!FactsAlone, Service!Units
<1>2. Service!CompatibleOf(Service!FirstPass(failedA), failedA)'
        = Service!CompatibleOf(Service!FirstPass(failedA), failedA)
  BY <1>1, Zenon DEF Service!CompatibleOf, Service!Units
<1>3. QED
  BY <1>1, <1>2, Zenon DEF Service!Outcome, Service!Units, Service!MayFail, Service!Unloadable

\* The coordinator, with its pool, its two passes, its gate and files changing under it,
\* implements the service that computes the answer in one step.
THEOREM CoordinatorImplementsService == Spec => ImplementsService
<1>1. Init => Service!Init
  BY NAssumption, Zenon DEF Init, Service!Init, Returned, Bytes, Units, Service!Units
<1>2. ASSUME ServiceProofInv, [Next]_vars, Returned' => AnswerIsOutcome'
      PROVE  [Service!Next]_Service!avars
  <2>1. CASE Returned' /\ ~Returned /\ UNCHANGED <<recorded, inFile>>
    <3>1. PICK failedA, failedB : failedA = FailedFirst' /\ failedB = FailedAgain'
      OBVIOUS
    <3>2. /\ failedA \subseteq Service!MayFail' /\ Service!Unloadable' \subseteq failedA
          /\ failedB \subseteq Service!Outcome(failedA, {})'.reanalyzed
          /\ failedB \subseteq inFile'
          /\ Answer' = Service!Outcome(failedA, failedB)'
      BY <1>2, <2>1, <3>1, Zenon DEF AnswerIsOutcome
    <3>3. /\ failedA \subseteq Service!MayFail /\ Service!Unloadable \subseteq failedA
          /\ failedB \subseteq Service!Outcome(failedA, {}).reanalyzed
          /\ failedB \subseteq inFile
          /\ Answer' = Service!Outcome(failedA, failedB)
      BY <2>1, <3>2, OutcomeKept, Zenon
    <3>4. Service!Answer
      BY <2>1, <3>3, Zenon DEF Service!Answer
    <3>5. QED
      BY <3>4, Zenon DEF Service!Next
  <2>2. CASE ~Returned' /\ ~Returned /\ UNCHANGED <<recorded, inFile>>
    BY <2>2, Zenon DEF Service!avars, Returned
  <2>3. CASE UNCHANGED vars
    BY <2>3, Zenon DEF Service!avars, vars, sources, shared, grouped, result, Returned, Answer
  <2>4. QED
    BY <1>2, <2>1, <2>2, <2>3, ReturnStep
<1>3. ServiceProofInv /\ [Next]_vars /\ ServiceProofInv' => [Service!Next]_Service!avars
  BY <1>2, ReturnedOutcome, PTL
<1>4. QED
  BY <1>1, <1>3, CoordinatorInvariance, PTL DEF Spec, ImplementsService, Service!Spec

(***************************************************************************)
(* The gauge                                                               *)
(***************************************************************************)
GaugeTyped == live \in Nat /\ peak \in Nat

\* The busy workers are at most the pool, and at most the units: no two share a unit.
LEMMA BusyBound ==
  Typed /\ PoolInv =>
    /\ IsFiniteSet(Busy) /\ Cardinality(Busy) \in Nat
    /\ Cardinality(Busy) <= Cardinality(Workers) /\ Cardinality(Workers) \in Nat
    /\ Cardinality(Busy) <= N
<1> SUFFICES ASSUME Typed, PoolInv
             PROVE  /\ IsFiniteSet(Busy) /\ Cardinality(Busy) \in Nat
                    /\ Cardinality(Busy) <= Cardinality(Workers)
                    /\ Cardinality(Workers) \in Nat
                    /\ Cardinality(Busy) <= N
  OBVIOUS
<1>1. Busy \in SUBSET Workers
  BY Zenon DEF Busy
<1>2. /\ IsFiniteSet(Busy) /\ Cardinality(Busy) \in Nat
      /\ Cardinality(Busy) <= Cardinality(Workers) /\ Cardinality(Workers) \in Nat
  BY <1>1, WorkersAssumption, FS_Subset, FS_CardinalityType
<1>3. IsFiniteSet(Units) /\ Cardinality(Units) = N
  BY NAssumption, FS_Interval DEF Units
<1> DEFINE unitOf == [w \in Busy |-> worker[w].unit]
<1>4. unitOf \in Injection(Busy, Units)
  <2>1. \A w \in Busy : worker[w].at # "idle" /\ worker[w].unit \in Units
    BY Zenon DEF Busy, PoolInv
  <2>2. \A v, w \in Busy : worker[v].unit = worker[w].unit => v = w
    BY <2>1, Zenon DEF PoolInv, Busy
  <2>3. QED
    BY <2>1, <2>2, Zenon DEF Injection, IsInjective
<1>5. Cardinality(Busy) <= Cardinality(Units)
  BY <1>3, <1>4, FS_Injection, Zenon
<1>6. QED
  BY <1>2, <1>3, <1>5

\* It starts with no unit in memory and a peak of zero.
LEMMA GaugeInit == Init => LiveUnitsBounded
<1>1. SUFFICES ASSUME Init PROVE LiveUnitsBounded
  OBVIOUS
<1>2. Busy = {}
  BY <1>1, Zenon DEF Init, Busy
<1>3. Cardinality(Workers) \in Nat
  BY WorkersAssumption, FS_CardinalityType, Zenon
<1>4. QED
  BY <1>1, <1>2, <1>3, FS_EmptySet, NAssumption DEF Init, LiveUnitsBounded

\* A worker the gauge counts is busy, so the gauge is not zero.
LEMMA LeavingCounted ==
  ASSUME Typed, PoolInv, LiveUnitsBounded, NEW w \in Workers, worker[w].at # "idle"
  PROVE  live > 0
<1>1. w \in Busy
  BY DEF Busy, Idle
<1>2. Cardinality(Busy) # 0
  BY <1>1, BusyBound, FS_EmptySet, Zenon
<1>3. QED
  BY <1>2, BusyBound DEF LiveUnitsBounded

\* Every step keeps the gauge exact: a take adds one busy worker, a leave removes one.
LEMMA GaugeStep ==
  ASSUME Typed, GaugeTyped, PoolInv, LiveUnitsBounded, Typed', PoolInv', [Next]_vars
  PROVE  LiveUnitsBounded'
<1>0. worker \in [Workers -> WorkerState] /\ \A s \in WorkerState : s = Idle => s.at = "idle"
  BY DEF Typed, Idle
<1>1. /\ IsFiniteSet(Busy) /\ Cardinality(Busy) \in Nat
      /\ Cardinality(Workers) \in Nat
  BY BusyBound, Zenon
<1>2. (Cardinality(Busy) <= Cardinality(Workers) /\ Cardinality(Busy) <= N)'
  BY BusyBound, PTL
<1>3. ASSUME NEW w \in Workers, Take(w) PROVE LiveUnitsBounded'
  <2>1. Busy' = Busy \cup {w} /\ w \notin Busy
    BY <1>0, <1>3, Zenon DEF Take, Busy, Idle
  <2>2. Cardinality(Busy') = Cardinality(Busy) + 1
    BY <1>1, <2>1, FS_AddElement, Zenon
  <2>3. live' = live + 1 /\ peak' = IF live' > peak THEN live' ELSE peak
    BY <1>3, Zenon DEF Take
  <2>4. QED
    BY <1>1, <1>2, <2>2, <2>3, NAssumption DEF LiveUnitsBounded, GaugeTyped
<1>4. ASSUME NEW w \in Workers, Leave(w) PROVE LiveUnitsBounded'
  <2>1. Busy' = Busy \ {w} /\ w \in Busy
    BY <1>0, <1>4, Zenon DEF Leave, Busy, Idle
  <2>2. Cardinality(Busy') = Cardinality(Busy) - 1
    BY <1>1, <2>1, FS_RemoveElement, Zenon
  <2>3. live' = live - 1 /\ peak' = peak
    BY <1>4, Zenon DEF Leave
  <2>4. QED
    BY SMTT(20), <1>1, <2>2, <2>3, NAssumption DEF LiveUnitsBounded, GaugeTyped
<1>5. ASSUME NEW w \in Workers, Load(w) \/ Fail(w) \/ Build(w) PROVE LiveUnitsBounded'
  <2>1. Busy' = Busy
    <3>1. \A v \in Workers \ {w} : worker'[v] = worker[v]
      BY <1>0, <1>5, Zenon DEF Load, Fail, Build
    <3>2. worker[w].at # "idle" /\ worker'[w].at # "idle"
      <4>1. CASE Load(w)
        BY <1>0, <4>1, Zenon DEF Load
      <4>2. CASE Fail(w) \/ Build(w)
        <5>1. /\ worker[w].at # "idle"
              /\ worker' = [worker EXCEPT ![w] = Leaving(worker[w].unit)]
          BY <4>2, Zenon DEF Fail, Build
        <5>2. QED
          BY <1>0, <5>1, Zenon DEF Leaving
      <4>3. QED
        BY <1>5, <4>1, <4>2, Zenon
    <3>3. w \in Busy /\ w \in Busy'
      BY <3>2 DEF Busy, Idle
    <3>4. QED
      BY <3>1, <3>3, Zenon DEF Busy
  <2>2. UNCHANGED <<live, peak>>
    BY <1>5, Zenon DEF Load, Fail, Build, gauge
  <2>3. QED
    BY <2>1, <2>2, Zenon DEF LiveUnitsBounded
<1>6. ASSUME UNCHANGED <<worker, live, peak>> PROVE LiveUnitsBounded'
  BY <1>6, Zenon DEF LiveUnitsBounded, Busy
<1>7. ASSUME Caller PROVE UNCHANGED <<worker, live, peak>>
  <2>1. ASSUME Report PROVE UNCHANGED <<worker, live, peak>>
    BY <2>1, Zenon DEF Report, gauge
  <2>2. QED
    BY <1>7, <2>1, Zenon DEF Caller, SubmitA, WaitA, AllFailed, GroupAbi, GateB, WaitB, gauge
<1>8. ASSUME NEW u \in Units, NEW bytes \in Rewrites, Rewrite(u, bytes)
      PROVE  UNCHANGED <<worker, live, peak>>
  BY <1>8, Zenon DEF Rewrite, gauge
<1>9. ASSUME UNCHANGED vars PROVE UNCHANGED <<worker, live, peak>>
  BY <1>9, Zenon DEF vars, gauge
<1>10. QED
  BY <1>3, <1>4, <1>5, <1>6, <1>7, <1>8, <1>9 DEF Next, Worker
\* The gauge is decremented by a worker it counted.
LEMMA GaugeTypes ==
  ASSUME Typed, GaugeTyped, PoolInv, LiveUnitsBounded, [Next]_vars
  PROVE  GaugeTyped'
<1>1. ASSUME NEW w \in Workers, Take(w) PROVE GaugeTyped'
  BY <1>1 DEF Take, GaugeTyped
<1>2. ASSUME NEW w \in Workers, Leave(w) PROVE GaugeTyped'
  <2>1. live' = live - 1 /\ peak' = peak /\ live > 0
    BY <1>2, LeavingCounted, Zenon DEF Leave
  <2>2. QED
    BY <2>1 DEF GaugeTyped
<1>3. ASSUME UNCHANGED <<live, peak>> PROVE GaugeTyped'
  BY <1>3, Zenon DEF GaugeTyped
<1>4. ASSUME NEW w \in Workers, Load(w) \/ Fail(w) \/ Build(w) PROVE UNCHANGED <<live, peak>>
  BY <1>4, Zenon DEF Load, Fail, Build, gauge
<1>5. ASSUME Caller PROVE UNCHANGED <<live, peak>>
  BY <1>5, Zenon DEF Caller, SubmitA, WaitA, AllFailed, GroupAbi, GateB, WaitB, Report, gauge
<1>6. ASSUME NEW u \in Units, NEW bytes \in Rewrites, Rewrite(u, bytes)
      PROVE  UNCHANGED <<live, peak>>
  BY <1>6, Zenon DEF Rewrite, gauge
<1>7. ASSUME UNCHANGED vars PROVE UNCHANGED <<live, peak>>
  BY <1>7, Zenon DEF vars, gauge
<1>8. QED
  BY <1>1, <1>2, <1>3, <1>4, <1>5, <1>6, <1>7 DEF Next, Worker

GaugeProofInv == GaugeTyped /\ LiveUnitsBounded

\* The gauge keeps its type because it counts the workers that leave.
THEOREM GaugeInvariance == Spec => []GaugeProofInv
<1>1. Init => GaugeProofInv
  BY GaugeInit DEF GaugeProofInv, GaugeTyped, Init
<1>2. PoolProofInv /\ PoolProofInv' /\ GaugeProofInv /\ [Next]_vars => GaugeProofInv'
  BY GaugeStep, GaugeTypes, Zenon DEF PoolProofInv, GaugeProofInv
<1>3. QED
  BY <1>1, <1>2, PoolInvariance, PTL DEF Spec

\* The variables of the coordinator keep their types.
THEOREM CoordinatorTypes == Spec => []TypeOK
<1>1. PoolProofInv /\ GaugeProofInv => TypeOK
  BY Zenon DEF PoolProofInv, Typed, WorkerState, GaugeProofInv, GaugeTyped, TypeOK
<1>2. QED
  BY <1>1, PoolInvariance, GaugeInvariance, PTL

\* --max-live-units bounds the units in memory and the peak reported, for every bound
\* and every number of units.
THEOREM LiveUnitsAreBounded == Spec => []LiveUnitsBounded
<1>1. GaugeProofInv => LiveUnitsBounded
  BY Zenon DEF GaugeProofInv
<1>2. QED
  BY <1>1, GaugeInvariance, PTL

(***************************************************************************)
(* The list of failures                                                    *)
(***************************************************************************)
NoneTwice(list) == \A i, j \in DOMAIN list : list[i] = list[j] => i = j

\* How many elements of a list are up to the one at a place.
Rank(list, j) == Cardinality({k \in DOMAIN list : list[k] <= list[j]})

\* The rank of an element in a list that has none twice tells its place in order.
LEMMA RankFacts ==
  ASSUME NEW n \in Nat, NEW list \in [1..n -> Nat], NoneTwice(list)
  PROVE  /\ \A j \in 1..n : Rank(list, j) \in 1..n
         /\ \A i, j \in 1..n : list[i] < list[j] => Rank(list, i) < Rank(list, j)
<1> DEFINE S(j) == {k \in DOMAIN list : list[k] <= list[j]}
<1>0. DOMAIN list = 1..n /\ \A j \in 1..n : list[j] \in Nat
  OBVIOUS
<1>1. \A j \in 1..n : S(j) \in SUBSET (1..n) /\ j \in S(j)
  BY <1>0
<1>2. IsFiniteSet(1..n) /\ Cardinality(1..n) = n
  BY FS_Interval
<1>3. \A j : Rank(list, j) = Cardinality(S(j))
  BY Zenon DEF Rank
<1>4. ASSUME NEW i \in 1..n, NEW j \in 1..n, list[i] < list[j]
      PROVE  S(i) \in SUBSET S(j) /\ j \in S(j) /\ j \notin S(i)
  BY <1>0, <1>4
<1> HIDE DEF S
<1>5. ASSUME NEW j \in 1..n
      PROVE  /\ IsFiniteSet(S(j)) /\ Cardinality(S(j)) \in Nat
             /\ Cardinality(S(j)) <= n /\ Cardinality(S(j)) # 0
  <2>1. IsFiniteSet(S(j)) /\ Cardinality(S(j)) <= n
    <3>1. IsFiniteSet(S(j)) /\ Cardinality(S(j)) <= Cardinality(1..n)
      BY <1>1, <1>2, FS_Subset, Zenon
    <3>2. QED
      BY <1>2, <3>1
  <2>2. Cardinality(S(j)) \in Nat
    BY <2>1, FS_CardinalityType, Zenon
  <2>3. Cardinality(S(j)) # 0
    BY <1>1, <2>1, FS_EmptySet, Zenon
  <2>4. QED
    BY <2>1, <2>2, <2>3, Zenon
<1>6. \A j \in 1..n : Rank(list, j) \in 1..n
  BY <1>3, <1>5
<1>7. ASSUME NEW i \in 1..n, NEW j \in 1..n, list[i] < list[j]
      PROVE  Rank(list, i) < Rank(list, j)
  <2>1. S(i) # S(j)
    BY <1>4, <1>7, Zenon
  <2>2. Cardinality(S(i)) <= Cardinality(S(j)) /\ Cardinality(S(i)) # Cardinality(S(j))
    BY <1>4, <1>5, <1>7, <2>1, FS_Subset, Zenon
  <2>3. QED
    BY <1>3, <1>5, <2>2
<1>8. QED
  BY <1>6, <1>7, Zenon

\* A list that has none twice can be put in order.
LEMMA OrderExists ==
  ASSUME NEW n \in Nat, NEW list \in [1..n -> Nat], NoneTwice(list)
  PROVE  \E p \in Bijection(1..n, 1..n) : \A i, j \in 1..n : i < j => list[p[i]] <= list[p[j]]
<1> DEFINE r == [j \in 1..n |-> Rank(list, j)]
<1>0. DOMAIN list = 1..n /\ \A j \in 1..n : list[j] \in Nat
  OBVIOUS
<1>1. /\ \A j \in 1..n : Rank(list, j) \in 1..n
      /\ \A i, j \in 1..n : list[i] < list[j] => Rank(list, i) < Rank(list, j)
  BY RankFacts, Zenon
<1>2. r \in [1..n -> 1..n] /\ DOMAIN r = 1..n /\ \A j \in 1..n : r[j] = Rank(list, j) /\ r[j] \in 1..n
  BY <1>1, Zenon
<1> HIDE DEF r
<1>3. \A i, j \in 1..n : list[i] < list[j] => r[i] < r[j]
  BY <1>1, <1>2, Zenon
<1>4. ASSUME NEW i \in 1..n, NEW j \in 1..n
      PROVE  /\ r[i] < r[j] => list[i] <= list[j]
             /\ r[i] = r[j] => list[i] = list[j]
  <2>1. list[i] \in Nat /\ list[j] \in Nat /\ r[i] \in Nat /\ r[j] \in Nat
    BY <1>0, <1>2
  <2>2. /\ list[i] < list[j] => r[i] < r[j]
        /\ list[j] < list[i] => r[j] < r[i]
    BY <1>3, Zenon
  <2>3. QED
    BY <2>1, <2>2
<1>5. \A i, j \in 1..n : r[i] = r[j] => i = j
  BY <1>0, <1>4, Zenon DEF NoneTwice
<1>6. r \in Injection(1..n, 1..n)
  BY <1>2, <1>5, Zenon DEF Injection, IsInjective
<1>7. r \in Surjection(1..n, 1..n)
  <2>1. IsFiniteSet(1..n)
    BY FS_Interval
  <2>2. QED
    BY <1>6, <2>1, FS_Injection, Zenon
<1>8. \A i \in 1..n : \E j \in 1..n : r[j] = i
  BY <1>7, Zenon DEF Surjection
<1> DEFINE p == [i \in 1..n |-> CHOOSE j \in 1..n : r[j] = i]
<1>9. \A i \in 1..n : p[i] \in 1..n /\ r[p[i]] = i
  BY <1>8, Zenon
<1>10. p \in [1..n -> 1..n] /\ DOMAIN p = 1..n
  BY <1>8, Zenon
<1> HIDE DEF p
<1>11. \A i, j \in 1..n : p[i] = p[j] => i = j
  BY <1>9, Zenon
<1>12. \A j \in 1..n : \E i \in 1..n : p[i] = j
  BY <1>2, <1>5, <1>9, Zenon
<1>13. p \in Bijection(1..n, 1..n)
  BY <1>10, <1>11, <1>12, Zenon DEF Bijection, Injection, Surjection, IsInjective
<1>14. ASSUME NEW i \in 1..n, NEW j \in 1..n, i < j
       PROVE  list[p[i]] <= list[p[j]]
  <2>1. p[i] \in 1..n /\ p[j] \in 1..n /\ r[p[i]] < r[p[j]]
    BY <1>9, <1>14, Zenon
  <2>2. QED
    BY <1>4, <2>1, Zenon
<1>15. QED
  BY <1>13, <1>14, Zenon

\* What std::sort makes of the list of failures: the same units, in unit order.
SameInOrder(list, sorted) ==
  /\ sorted \in Seq(Units) /\ NoneTwice(sorted) /\ UnitOrder(sorted)
  /\ \A u : (\E i \in DOMAIN sorted : sorted[i] = u) <=> \E i \in DOMAIN list : list[i] = u

\* std::sort puts a list that has no unit twice in unit order.
LEMMA SortedInOrder ==
  ASSUME NEW list \in Seq(Units), NoneTwice(list)
  PROVE  SameInOrder(list, InUnitOrder(list))
<1> DEFINE n == Len(list)
           order == CHOOSE p \in Bijection(DOMAIN list, DOMAIN list) :
                      \A i, j \in DOMAIN list : i < j => list[p[i]] <= list[p[j]]
           sorted == InUnitOrder(list)
<1>1. n \in Nat /\ DOMAIN list = 1..n /\ \A i \in 1..n : list[i] \in Units
  OBVIOUS
<1>2. Units \subseteq Nat
  BY NAssumption DEF Units
<1>3. list \in [1..n -> Nat]
  <2>1. list = [i \in 1..n |-> list[i]] /\ \A i \in 1..n : list[i] \in Nat
    BY <1>1, <1>2
  <2> HIDE DEF n
  <2>2. QED
    BY <2>1, Zenon
<1>4. sorted = [i \in DOMAIN list |-> list[order[i]]]
  BY Zenon DEF InUnitOrder
<1> HIDE DEF n
<1>5. \E p \in Bijection(1..n, 1..n) : \A i, j \in 1..n : i < j => list[p[i]] <= list[p[j]]
  BY <1>1, <1>3, OrderExists, Zenon
<1>6. /\ order \in Bijection(DOMAIN list, DOMAIN list)
      /\ \A i, j \in DOMAIN list : i < j => list[order[i]] <= list[order[j]]
  <2>1. \E p \in Bijection(DOMAIN list, DOMAIN list) :
          \A i, j \in DOMAIN list : i < j => list[p[i]] <= list[p[j]]
    BY <1>1, <1>5, Zenon
  <2>2. QED
    BY <2>1, Zenon
<1> HIDE DEF order, sorted
<1>7. /\ \A i \in 1..n : order[i] \in 1..n
      /\ \A i, j \in 1..n : order[i] = order[j] => i = j
      /\ \A w \in 1..n : \E i \in 1..n : order[i] = w
  BY <1>1, <1>6, Zenon DEF Bijection, Injection, Surjection, IsInjective
<1>8. DOMAIN sorted = 1..n /\ \A i \in 1..n : sorted[i] = list[order[i]]
  BY <1>1, <1>4, Zenon
<1>9. sorted \in Seq(Units)
  <2>1. sorted \in [1..n -> Units]
    BY <1>1, <1>4, <1>7
  <2>2. QED
    BY <1>1, <2>1
<1>10. NoneTwice(sorted)
  <2> SUFFICES ASSUME NEW i \in 1..n, NEW j \in 1..n, sorted[i] = sorted[j] PROVE i = j
    BY <1>8, Zenon DEF NoneTwice
  <2>1. list[order[i]] = list[order[j]] /\ order[i] \in DOMAIN list /\ order[j] \in DOMAIN list
    BY <1>1, <1>7, <1>8, Zenon
  <2>2. order[i] = order[j]
    BY <2>1, Zenon DEF NoneTwice
  <2>3. QED
    BY <1>7, <2>2, Zenon
<1>11. ASSUME NEW i \in 1..n, NEW j \in 1..n, i < j PROVE sorted[i] < sorted[j]
  <2>1. sorted[i] <= sorted[j]
    <3>1. list[order[i]] <= list[order[j]]
      BY <1>1, <1>6, <1>11, Zenon
    <3>2. sorted[i] = list[order[i]] /\ sorted[j] = list[order[j]]
      BY <1>8, Zenon
    <3>3. QED
      BY <3>1, <3>2, Zenon
  <2>2. sorted[i] # sorted[j]
    <3>1. i # j
      BY <1>11
    <3>2. QED
      BY <1>8, <1>10, <3>1, Zenon DEF NoneTwice
  <2>3. sorted[i] \in Nat /\ sorted[j] \in Nat
    BY <1>1, <1>2, <1>7, <1>8, Zenon
  <2>4. QED
    BY <2>1, <2>2, <2>3
<1>12. UnitOrder(sorted)
  BY <1>8, <1>11, Zenon DEF UnitOrder
<1>13. ASSUME NEW u
       PROVE  (\E i \in DOMAIN sorted : sorted[i] = u) <=> \E i \in DOMAIN list : list[i] = u
  <2>1. ASSUME NEW i \in DOMAIN list, list[i] = u PROVE \E j \in DOMAIN sorted : sorted[j] = u
    <3>1. PICK j \in 1..n : order[j] = i
      BY <1>1, <1>7, <2>1, Zenon
    <3>2. QED
      BY <1>8, <2>1, <3>1, Zenon
  <2>2. ASSUME NEW j \in DOMAIN sorted, sorted[j] = u PROVE \E i \in DOMAIN list : list[i] = u
    BY <1>1, <1>7, <1>8, <2>2, Zenon
  <2>3. QED
    BY <2>1, <2>2, Zenon
<1>14. SameInOrder(list, sorted)
  BY <1>9, <1>10, <1>12, <1>13, Zenon DEF SameInOrder
<1>15. QED
  BY <1>14, Zenon DEF sorted

\* A list of the units that failed, each once.
ListsFailed(list) ==
  /\ list \in Seq(Units) /\ NoneTwice(list)
  /\ \A u \in Units : failed[u] <=> \E i \in DOMAIN list : list[i] = u

\* The workers list a unit when they fail it, and what analyze returns is that list.
ListInv ==
  /\ ListsFailed(failures)
  /\ pc = "done" => /\ ListsFailed(failedUnits)
                    /\ compatible # {} => UnitOrder(failedUnits)
                    /\ compatible \subseteq Units
                    /\ DOMAIN report = {v \in compatible : ~failed[v]}

\* Nothing has failed at the start, and analyze returns at once if there are no units.
LEMMA ListInit == Init => ListInv
<1> SUFFICES ASSUME Init PROVE ListInv
  OBVIOUS
<1>1. <<>> \in Seq(Units) /\ DOMAIN <<>> = {}
  OBVIOUS
<1>2. ListsFailed(<<>>)
  BY <1>1, Zenon DEF ListsFailed, NoneTwice, Init
<1>3. failures = <<>> /\ failedUnits = <<>> /\ compatible = {} /\ report = EmptyFunction
  BY Zenon DEF Init
<1>4. DOMAIN EmptyFunction = {}
  BY Zenon DEF EmptyFunction
<1>5. DOMAIN report = {v \in compatible : ~failed[v]} /\ compatible \subseteq Units
  BY <1>3, <1>4, Zenon
<1>6. QED
  BY <1>2, <1>3, <1>5, Zenon DEF ListInv

\* A step that leaves the failures alone, and what analyze returned.
LEMMA ListFrame ==
  ASSUME ListInv, UNCHANGED <<failed, failures>>,
         pc' # "done" \/ UNCHANGED <<pc, failedUnits, report, compatible>>
  PROVE  ListInv'
<1>1. ListsFailed(failures)'
  BY Zenon DEF ListInv, ListsFailed, NoneTwice
<1>2. CASE pc' # "done"
  BY <1>1, <1>2, Zenon DEF ListInv
<1>3. CASE UNCHANGED <<pc, failedUnits, report, compatible>>
  BY <1>1, <1>3, Zenon DEF ListInv, ListsFailed, NoneTwice, UnitOrder
<1>4. QED
  BY <1>2, <1>3, Zenon

\* A worker lists a unit that is not listed yet: its task is pending, so it has not failed.
LEMMA FailLists ==
  ASSUME ServiceProofInv, ListInv, NEW w \in Workers, Fail(w)
  PROVE  ListInv'
<1> DEFINE u == worker[w].unit
           n == Len(failures)
<1>1. /\ worker[w].at = "fail" /\ pc' = pc
      /\ failed' = [failed EXCEPT ![u] = TRUE] /\ failures' = Append(failures, u)
  BY Zenon DEF Fail
<1>2. Typed /\ PoolInv
  BY Zenon DEF ServiceProofInv, PoolProofInv, CoordinatorInv
<1>3. u \in Units /\ pc # "done"
  BY <1>1, <1>2 DEF PoolInv, PoolDrained, Idle
<1>4. ~failed[u]
  <2>1. u \in Unsettled
    BY <1>1, Zenon DEF Unsettled, Writing
  <2>2. QED
    BY <1>3, <2>1, FailedSettled, Zenon
<1>5. /\ failures \in Seq(Units) /\ NoneTwice(failures)
      /\ \A v \in Units : failed[v] <=> \E i \in DOMAIN failures : failures[i] = v
  BY Zenon DEF ListInv, ListsFailed
<1> HIDE DEF u
<1>6. /\ n \in Nat /\ DOMAIN failures = 1..n /\ DOMAIN failures' = 1..(n + 1)
      /\ \A i \in 1..n : failures'[i] = failures[i]
      /\ failures'[n + 1] = u
  BY <1>1, <1>3, <1>5, AppendFacts
<1>7. failures' \in Seq(Units)
  BY <1>1, <1>3, <1>5
<1> HIDE DEF n
<1>8. \A i \in 1..(n + 1) : i \in 1..n \/ i = n + 1
  BY <1>6
<1>9. \A i \in 1..n : i \in 1..(n + 1) /\ failures[i] # u
  <2>1. \A i \in 1..n : failures[i] # u
    BY <1>3, <1>4, <1>5, <1>6, Zenon
  <2>2. QED
    BY <1>6, <2>1
<1>10. n + 1 \in 1..(n + 1)
  BY <1>6
<1>11. NoneTwice(failures')
  <2>1. SUFFICES ASSUME NEW i \in 1..(n + 1), NEW j \in 1..(n + 1), failures'[i] = failures'[j]
                 PROVE  i = j
    BY <1>6, Zenon DEF NoneTwice
  <2>2. CASE i \in 1..n /\ j \in 1..n
    BY <1>5, <1>6, <2>1, <2>2 DEF NoneTwice
  <2>3. CASE i \in 1..n /\ j = n + 1
    BY <1>6, <1>9, <2>1, <2>3, Zenon
  <2>4. CASE i = n + 1 /\ j \in 1..n
    BY <1>6, <1>9, <2>1, <2>4, Zenon
  <2>5. QED
    BY <1>8, <2>1, <2>2, <2>3, <2>4, Zenon
<1>12. ASSUME NEW v \in Units
       PROVE  failed'[v] <=> \E i \in DOMAIN failures' : failures'[i] = v
  <2>1. CASE v = u
    <3>1. failed'[v]
      BY <1>1, <1>2, <2>1, Zenon DEF Typed
    <3>2. QED
      BY <1>6, <1>10, <2>1, <3>1, Zenon
  <2>2. CASE v # u
    <3>1. failed'[v] = failed[v]
      BY <1>1, <1>2, <2>2, Zenon DEF Typed
    <3>2. (\E i \in 1..(n + 1) : failures'[i] = v) <=> \E i \in 1..n : failures[i] = v
      BY <1>6, <1>8, <1>9, <2>2, Zenon
    <3>3. QED
      BY <1>5, <1>6, <3>1, <3>2, Zenon
  <2>3. QED
    BY <2>1, <2>2, Zenon
<1>13. ListsFailed(failures)'
  BY <1>7, <1>11, <1>12, Zenon DEF ListsFailed, NoneTwice
<1>14. QED
  BY <1>1, <1>3, <1>13, Zenon DEF ListInv

\* When every unit failed, analyze returns the list as it is, and no report.
LEMMA AllFailedLists ==
  ASSUME ServiceProofInv, ListInv, AllFailed
  PROVE  ListInv'
<1>1. /\ pc = "abi" /\ failedUnits' = failures
      /\ UNCHANGED <<failed, failures, compatible, report>>
  BY Zenon DEF AllFailed, shared, grouped
<1>2. compatible = {} /\ report = EmptyFunction
  BY <1>1, Zenon DEF ServiceProofInv, CoordinatorInv, FirstPassInv
<1>3. DOMAIN report' = {} /\ compatible' = {}
  BY <1>1, <1>2, Zenon DEF EmptyFunction
<1>4. ListsFailed(failures)' /\ ListsFailed(failedUnits)'
  BY <1>1, Zenon DEF ListInv, ListsFailed, NoneTwice
<1>5. QED
  BY <1>3, <1>4, Zenon DEF ListInv

\* At the end analyze sorts the list, and reports on the compatible units not in it.
LEMMA ReportLists ==
  ASSUME ServiceProofInv, ListInv, Report
  PROVE  ListInv'
<1>1. /\ failedUnits' = InUnitOrder(failures)
      /\ report' = [u \in {v \in compatible : ~failed[v]} |-> factsByUnit[u]]
      /\ UNCHANGED <<failed, failures, compatible>>
  BY Zenon DEF Report, shared, grouped
<1>2. ListsFailed(failures)
  BY Zenon DEF ListInv
<1>3. SameInOrder(failures, failedUnits')
  BY <1>1, <1>2, SortedInOrder, Zenon DEF ListsFailed
<1>4. ListsFailed(failures)'
  BY <1>1, <1>2, Zenon DEF ListsFailed, NoneTwice
<1>5. ListsFailed(failedUnits)' /\ UnitOrder(failedUnits')
  BY <1>1, <1>2, <1>3, Zenon DEF ListsFailed, SameInOrder, NoneTwice
<1>6. compatible \subseteq Units
  BY Zenon DEF ServiceProofInv, PoolProofInv, Typed
<1>7. DOMAIN report' = {v \in compatible' : ~failed'[v]}
  BY <1>1, Zenon
<1>8. QED
  BY <1>1, <1>4, <1>5, <1>6, <1>7, Zenon DEF ListInv, UnitOrder

\* Every step keeps the list of failures and, once analyze has returned, what it returned.
LEMMA ListStep ==
  ASSUME ServiceProofInv, ListInv, [Next]_vars
  PROVE  ListInv'
<1>1. ASSUME SubmitA \/ WaitA \/ GroupAbi \/ GateB \/ WaitB
      PROVE  ListInv'
  <2>1. pc' # "done" /\ UNCHANGED <<failed, failures>>
    BY <1>1, Zenon DEF SubmitA, WaitA, GroupAbi, GateB, WaitB, shared
  <2>2. QED
    BY <2>1, ListFrame, Zenon
<1>2. ASSUME NEW w \in Workers, Take(w) \/ Load(w) \/ Build(w) \/ Leave(w)
      PROVE  ListInv'
  <2>1. UNCHANGED <<failed, failures, pc, failedUnits, report, compatible>>
    BY <1>2, Zenon DEF Take, Load, Build, Leave, shared, grouped, result
  <2>2. QED
    BY <2>1, ListFrame, Zenon
<1>3. ASSUME NEW u \in Units, NEW bytes \in Rewrites, Rewrite(u, bytes)
      PROVE  ListInv'
  <2>1. UNCHANGED <<failed, failures, pc, failedUnits, report, compatible>>
    BY <1>3, Zenon DEF Rewrite, shared, grouped, result
  <2>2. QED
    BY <2>1, ListFrame, Zenon
<1>4. ASSUME UNCHANGED vars
      PROVE  ListInv'
  <2>1. UNCHANGED <<failed, failures, pc, failedUnits, report, compatible>>
    BY <1>4, Zenon DEF vars, shared, grouped, result
  <2>2. QED
    BY <2>1, ListFrame, Zenon
<1>5. QED
  BY <1>1, <1>2, <1>3, <1>4, FailLists, AllFailedLists, ReportLists, Zenon
     DEF Next, Caller, Worker

\* The list of failures is right in every behaviour of the coordinator.
THEOREM ListInvariance == Spec => []ListInv
<1>1. ServiceProofInv /\ ListInv /\ [Next]_vars => ListInv'
  BY ListStep, Zenon
<1>2. QED
  BY <1>1, ListInit, CoordinatorInvariance, PTL DEF Spec

\* A list that has no unit twice is as long as it lists units.
LEMMA ListLength ==
  ASSUME NEW list \in Seq(Units), NoneTwice(list)
  PROVE  Len(list) = Cardinality({list[i] : i \in DOMAIN list})
<1> DEFINE n == Len(list)
           listed == {list[i] : i \in DOMAIN list}
<1>1. n \in Nat /\ DOMAIN list = 1..n /\ list \in [1..n -> listed]
  OBVIOUS
<1>2. list \in Bijection(1..n, listed)
  BY <1>1 DEF NoneTwice, Bijection, Injection, Surjection, IsInjective
<1>3. IsFiniteSet(1..n) /\ Cardinality(1..n) = n
  BY <1>1, FS_Interval
<1>4. Cardinality(1..n) = Cardinality(listed)
  BY <1>2, <1>3, FS_Bijection, Zenon DEF ExistsBijection
<1>5. QED
  BY <1>3, <1>4, Zenon

\* When analyze returns, each unit has failed, was skipped or is reported on, and only
\* one of these, and the failures are listed once, in order if a unit loaded: for every
\* number of units and workers, and however their steps interleave.
THEOREM UnitsAccountedOnce == Spec => []EveryUnitAccountedOnce
<1>1. ListInv => EveryUnitAccountedOnce
  <2> DEFINE listed  == {failedUnits[i] : i \in DOMAIN failedUnits}
             skipped == {u \in Units : ~failed[u] /\ u \notin compatible}
  <2>1. SUFFICES ASSUME ListInv, pc = "done"
                 PROVE  /\ listed = {u \in Units : failed[u]}
                        /\ Len(failedUnits) = Cardinality(listed)
                        /\ compatible # {} => UnitOrder(failedUnits)
                        /\ listed \cap DOMAIN report = {}
                        /\ Units = listed \cup skipped \cup DOMAIN report
                        /\ skipped \cap DOMAIN report = {}
    BY Zenon DEF EveryUnitAccountedOnce
  <2>2. /\ failedUnits \in Seq(Units) /\ NoneTwice(failedUnits)
        /\ \A u \in Units : failed[u] <=> \E i \in DOMAIN failedUnits : failedUnits[i] = u
        /\ compatible # {} => UnitOrder(failedUnits)
        /\ compatible \subseteq Units
        /\ DOMAIN report = {v \in compatible : ~failed[v]}
    BY <2>1, Zenon DEF ListInv, ListsFailed
  <2>3. \A i \in DOMAIN failedUnits : failedUnits[i] \in Units
    BY <2>2
  <2>4. listed = {u \in Units : failed[u]}
    BY <2>2, <2>3
  <2>5. Len(failedUnits) = Cardinality(listed)
    BY <2>2, ListLength, Zenon
  <2> HIDE DEF listed
  <2>6. QED
    BY <2>2, <2>4, <2>5, Zenon
<1>2. QED
  BY <1>1, ListInvariance, PTL
==============================================================================
