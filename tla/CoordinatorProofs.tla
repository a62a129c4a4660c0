-------------------------- MODULE CoordinatorProofs --------------------------
(***************************************************************************)
(* The coordinator for any number of units, any pool, any rule selection   *)
(* and any sequence of changes to the files: the types and the order of    *)
(* the tasks, what the first pass establishes, and how the second begins.  *)
(* CoordinatorServiceProofs has the rest.                                  *)
(***************************************************************************)
EXTENDS Coordinator, TLAPS

\* What the two operations of the queue do, element by element.
LEMMA AppendFacts ==
  ASSUME NEW S, NEW s \in Seq(S), NEW e \in S
  PROVE  /\ Len(s) \in Nat /\ DOMAIN s = 1..Len(s)
         /\ DOMAIN Append(s, e) = 1..(Len(s) + 1)
         /\ \A i \in 1..Len(s) : Append(s, e)[i] = s[i]
         /\ Append(s, e)[Len(s) + 1] = e
OBVIOUS

\* Removing the head of a sequence, element by element.
LEMMA TailFacts ==
  ASSUME NEW S, NEW s \in Seq(S), s # <<>>
  PROVE  /\ Len(s) \in Nat \ {0} /\ DOMAIN s = 1..Len(s)
         /\ Head(s) = s[1]
         /\ DOMAIN Tail(s) = 1..(Len(s) - 1)
         /\ \A i \in 1..(Len(s) - 1) : Tail(s)[i] = s[i + 1]
OBVIOUS

WorkerState ==
  [at : {"idle", "load", "build", "fail", "leave"}, unit : 0..N, module : Contents \cup {NoUnit}]

\* TypeOK without the gauge, on which nothing else depends.
Typed ==
  /\ recorded \in [Units -> Bytes] /\ disk \in [Units -> Bytes]
  /\ inFile \in SUBSET Units
  /\ pc \in {"passA", "abi", "passB", "report", "done"}
  /\ next \in 1..(N + 1)
  /\ queue \in Seq(Units)
  /\ worker \in [Workers -> WorkerState]
  /\ failed \in [Units -> BOOLEAN]
  /\ failures \in Seq(Units)
  /\ factsByUnit = [u \in Units |-> factsByUnit[u]]
  /\ compatible \in SUBSET Units /\ reanalyzed \in SUBSET Units

\* analyze starts with well-typed state.
LEMMA TypeInit == Init => Typed
BY NAssumption, ContentsAssumption DEF Init, Typed, WorkerState, Units, Bytes, Idle

\* Every step keeps the types.  The queue and the list of failures only ever receive
\* units, and a worker only ever holds one.
LEMMA TypeStep ==
  ASSUME Typed, PoolInv, [Next]_vars
  PROVE  Typed'
<1> USE NAssumption, ContentsAssumption, RewritesAssumption
<1>1. ASSUME SubmitA PROVE Typed'
  <2>1. next \in Units /\ next' \in 1..(N + 1)
    BY <1>1 DEF SubmitA, Typed, Units
  <2>2. queue' \in Seq(Units)
    BY <1>1, <2>1 DEF SubmitA, Typed
  <2>3. QED
    BY <1>1, <2>1, <2>2, Zenon DEF SubmitA, Typed, sources, gauge, shared, grouped, result
<1>2. ASSUME WaitA PROVE Typed'
  BY <1>2, Zenon DEF WaitA, Typed, Units, sources, gauge, shared, grouped, result
<1>3. ASSUME AllFailed PROVE Typed'
  BY <1>3, Zenon DEF AllFailed, Typed, Units, sources, gauge, shared, grouped, result
<1>4. ASSUME GroupAbi PROVE Typed'
  BY <1>4 DEF GroupAbi, CompatibleAmong, CompatibleUnits, Typed, Units, sources, gauge, shared, result
<1>5. ASSUME GateB PROVE Typed'
  <2>1. /\ reanalyzed' \in {reanalyzed, reanalyzed \cup {next}}
        /\ queue' \in {queue, Append(queue, next)}
    BY <1>5, Zenon DEF GateB
  <2>2. next \in Units /\ next' \in 1..(N + 1)
    BY <1>5 DEF GateB, Typed, Units
  <2>3. /\ reanalyzed \in SUBSET Units /\ queue \in Seq(Units)
        /\ Append(queue, next) \in Seq(Units)
    BY <2>2 DEF Typed
  <2>4. UNCHANGED <<sources, pc, worker, gauge, shared, grouped, result>>
    BY <1>5, Zenon DEF GateB
  <2>5. QED
    <3>1. reanalyzed' \in SUBSET Units /\ queue' \in Seq(Units)
      BY <2>1, <2>2, <2>3, Zenon
    <3>2. QED
      BY <3>1, <2>2, <2>4, Zenon DEF Typed, sources, gauge, shared, grouped, result
<1>6. ASSUME WaitB PROVE Typed'
  BY <1>6, Zenon DEF WaitB, Typed, Units, sources, gauge, shared, grouped, result
<1>7. ASSUME Report PROVE Typed'
  <2>1. pc' = "done" /\ UNCHANGED <<sources, next, queue, worker, gauge, shared, grouped,
                                    reanalyzed>>
    BY <1>7, Zenon DEF Report
  <2>2. QED
    BY <2>1, Zenon DEF Typed, sources, gauge, shared, grouped
<1>8. ASSUME NEW w \in Workers, Take(w) PROVE Typed'
  <2>1. queue \in Seq(Units) /\ queue # <<>>
    BY <1>8, Zenon DEF Take, Typed
  <2>2. Head(queue) \in Units /\ Tail(queue) \in Seq(Units)
    BY <2>1
  <2>3. PICK s : s = [at |-> "load", unit |-> Head(queue), module |-> NoUnit]
    BY Zenon
  <2>4. s \in WorkerState /\ worker' = [worker EXCEPT ![w] = s]
    BY <1>8, <2>2, <2>3 DEF Take, Units, WorkerState
  <2>5. worker' \in [Workers -> WorkerState]
    BY <2>4, Zenon DEF Typed
  <2>6. QED
    BY <1>8, <2>2, <2>5, Zenon DEF Take, Typed, sources, shared, grouped, result
<1>9. ASSUME NEW w \in Workers, Load(w) PROVE Typed'
  <2>1. LoadedModule(worker[w].unit) \in Contents \cup {NoUnit}
    BY Zenon DEF LoadedModule
  <2>2. worker[w] \in WorkerState
    BY Zenon DEF Typed
  <2>3. PICK s : s = worker'[w]
    OBVIOUS
  <2>4. s \in WorkerState /\ worker' = [worker EXCEPT ![w] = s]
    BY <1>9, <2>1, <2>2, <2>3, Zenon DEF Load, WorkerState, Typed
  <2>5. worker' \in [Workers -> WorkerState]
    BY <2>4, Zenon DEF Typed
  <2>6. QED
    BY <1>9, <2>5, Zenon DEF Load, Typed, sources, gauge, shared, grouped, result
<1>a. ASSUME NEW w \in Workers, worker' = [worker EXCEPT ![w] = Leaving(worker[w].unit)]
      PROVE  worker' \in [Workers -> WorkerState]
  <2>1. worker[w] \in WorkerState
    BY Zenon DEF Typed
  <2>2. Leaving(worker[w].unit) \in WorkerState
    BY <2>1, Zenon DEF Leaving, WorkerState
  <2>3. QED
    BY <1>a, <2>2, Zenon DEF Typed
<1>10. ASSUME NEW w \in Workers, Fail(w) PROVE Typed'
  <2>1. worker[w].unit \in Units
    BY <1>10, Zenon DEF Fail, PoolInv
  <2>2. /\ failed' \in [Units -> BOOLEAN]
        /\ factsByUnit' = [u \in Units |-> factsByUnit'[u]]
    BY <1>10, <2>1, Zenon DEF Fail, Typed
  <2>3. failures' \in Seq(Units)
    BY <1>10, <2>1 DEF Fail, Typed
  <2>4. worker' \in [Workers -> WorkerState]
    BY <1>10, <1>a, Zenon DEF Fail
  <2>5. QED
    BY <1>10, <2>2, <2>3, <2>4, Zenon DEF Fail, Typed, sources, gauge, grouped, result
<1>11. ASSUME NEW w \in Workers, Build(w) PROVE Typed'
  <2>1. factsByUnit' = [u \in Units |-> factsByUnit'[u]]
    BY <1>11, Zenon DEF Build, Typed
  <2>2. worker' \in [Workers -> WorkerState]
    BY <1>11, <1>a, Zenon DEF Build
  <2>3. QED
    BY <1>11, <2>1, <2>2, Zenon DEF Build, Typed, sources, gauge, grouped, result
<1>12. ASSUME NEW w \in Workers, Leave(w) PROVE Typed'
  <2>1. Idle \in WorkerState
    BY DEF Idle, WorkerState
  <2>2. worker' \in [Workers -> WorkerState]
    BY <1>12, <2>1, Zenon DEF Leave, Typed
  <2>3. QED
    BY <1>12, <2>2, Zenon DEF Leave, Typed, sources, shared, grouped, result
<1>13. ASSUME NEW u \in Units, NEW bytes \in Rewrites, Rewrite(u, bytes) PROVE Typed'
  BY <1>13, Zenon DEF Rewrite, Typed, Bytes, gauge, shared, grouped, result
<1>14. ASSUME UNCHANGED vars PROVE Typed'
  BY <1>14, Zenon DEF vars, Typed, sources, gauge, shared, grouped, result
<1>15. QED
  BY <1>1, <1>2, <1>3, <1>4, <1>5, <1>6, <1>7, <1>8, <1>9, <1>10, <1>11, <1>12, <1>13, <1>14
     DEF Next, Caller, Worker

\* It starts with an empty pool.
LEMMA PoolInit == Init => PoolInv
BY DEF Init, PoolInv, PoolDrained, Idle

\* Submitting a unit behind everything submitted so far keeps the tasks in order.
LEMMA SubmitPool ==
  ASSUME Typed, PoolInv, pc \in {"passA", "passB"}, next \in Units,
         queue' = Append(queue, next), next' = next + 1, UNCHANGED <<pc, worker>>
  PROVE  PoolInv'
<1> DEFINE n == Len(queue)
<1>1. /\ n \in Nat /\ DOMAIN queue = 1..n
      /\ DOMAIN queue' = 1..(n + 1)
      /\ \A i \in 1..n : queue'[i] = queue[i]
      /\ queue'[n + 1] = next
  BY AppendFacts DEF Typed
<1>2. next \in Nat /\ \A i \in 1..n : queue[i] \in Nat
  BY <1>1, NAssumption DEF Typed, Units
<1> HIDE DEF n
<1>3. \A i \in 1..(n + 1) : i \in 1..n \/ i = n + 1
  BY <1>1
<1>4. \A i \in DOMAIN queue' : queue'[i] < next'
  BY <1>1, <1>2, <1>3 DEF PoolInv
<1>5. \A i, j \in DOMAIN queue' : i < j => queue'[i] < queue'[j]
  <2>1. TAKE i, j \in DOMAIN queue'
  <2>2. HAVE i < j
  <2>3. i \in 1..n
    BY <1>1, <2>2
  <2>4. CASE j \in 1..n
    BY <1>1, <2>2, <2>3, <2>4, Zenon DEF PoolInv
  <2>5. CASE j = n + 1
    BY <1>1, <2>3, <2>5 DEF PoolInv
  <2>6. QED
    BY <1>1, <1>3, <2>4, <2>5, Zenon
<1>6. ASSUME NEW w \in Workers, worker[w].at # "idle"
      PROVE  /\ worker[w].unit < next'
             /\ \A i \in DOMAIN queue' : worker[w].unit < queue'[i]
  <2>1. worker[w].unit \in Nat /\ worker[w].unit < next
    BY <1>6, NAssumption DEF PoolInv, Units
  <2>2. QED
    BY <1>1, <1>2, <1>3, <1>6, <2>1 DEF PoolInv
<1>7. QED
  BY <1>4, <1>5, <1>6, Zenon DEF PoolInv, Idle

\* A worker's step that keeps its unit, or lets it go, keeps the order of the tasks.
LEMMA WorkPool ==
  ASSUME Typed, PoolInv, NEW w \in Workers, NEW state,
         worker[w].at # "idle", UNCHANGED <<pc, next, queue>>,
         worker' = [worker EXCEPT ![w] = state],
         state = Idle \/ (state.unit = worker[w].unit /\ state.at # "idle")
  PROVE  PoolInv'
<1>1. /\ pc \in {"passA", "passB"}
      /\ worker[w].unit \in Units /\ worker[w].unit # 0
  BY DEF PoolInv, PoolDrained, Idle, Units
<1>2. /\ worker'[w] = state
      /\ \A v \in Workers \ {w} : worker'[v] = worker[v]
  BY Zenon DEF Typed
<1>3. ASSUME NEW v \in Workers
      PROVE  /\ worker'[v].at = "idle" => worker'[v] = Idle
             /\ worker'[v].at # "idle" =>
                  worker[v].at # "idle" /\ worker'[v].unit = worker[v].unit
  BY <1>2 DEF PoolInv, Idle
<1>4. ASSUME NEW v \in Workers, worker'[v].at # "idle", NEW x \in Workers \ {v}
      PROVE  worker'[x].unit # worker'[v].unit
  <2>1. worker[v].unit \in Units /\ worker'[v].unit = worker[v].unit
    BY <1>3, <1>4, Zenon DEF PoolInv
  <2>2. worker[x].unit # worker[v].unit
    BY <1>3, <1>4, Zenon DEF PoolInv
  <2>3. CASE worker'[x].at = "idle"
    BY <1>3, <2>1, <2>3, NAssumption DEF Idle, Units
  <2>4. CASE worker'[x].at # "idle"
    BY <1>3, <2>1, <2>2, <2>4, Zenon
  <2>5. QED
    BY <2>3, <2>4, Zenon
<1>5. ASSUME NEW v \in Workers, worker'[v].at # "idle"
      PROVE  /\ worker'[v].unit \in Units /\ worker'[v].unit < next'
             /\ \A i \in DOMAIN queue' : worker'[v].unit < queue'[i]
  BY <1>3, <1>5, Zenon DEF PoolInv
<1>6. QED
  BY <1>1, <1>3, <1>4, <1>5, Zenon DEF PoolInv

\* The oldest task goes to a free worker: its unit comes before all that stay queued.
LEMMA TakePool ==
  ASSUME Typed, PoolInv, NEW w \in Workers, Take(w)
  PROVE  PoolInv'
<1> DEFINE n == Len(queue)
<1>1. /\ n \in Nat \ {0} /\ DOMAIN queue = 1..n /\ Head(queue) = queue[1]
      /\ DOMAIN queue' = 1..(n - 1)
      /\ \A i \in 1..(n - 1) : queue'[i] = queue[i + 1]
  BY TailFacts, Zenon DEF Typed, Take
<1> HIDE DEF n
<1>2. /\ worker'[w] = [at |-> "load", unit |-> queue[1], module |-> NoUnit]
      /\ \A v \in Workers \ {w} : worker'[v] = worker[v]
      /\ worker[w].at = "idle"
  BY <1>1 DEF Take, Typed, Idle
<1>3. /\ queue[1] \in Units /\ queue[1] < next
      /\ \A i \in 1..(n - 1) : queue[1] < queue'[i] /\ queue'[i] < next
  <2>1. 1 \in DOMAIN queue /\ \A i \in 1..(n - 1) : i + 1 \in DOMAIN queue /\ 1 < i + 1
    BY <1>1
  <2>2. \A i \in DOMAIN queue : queue[i] \in Units
    BY DEF Typed
  <2>3. /\ \A i, j \in DOMAIN queue : i < j => queue[i] < queue[j]
        /\ \A i \in DOMAIN queue : queue[i] < next
    BY Zenon DEF PoolInv
  <2>4. QED
    BY <1>1, <2>1, <2>2, <2>3, Zenon
<1>4. /\ pc \in {"passA", "passB"} /\ UNCHANGED <<pc, next>>
  BY Zenon DEF Take, PoolInv, PoolDrained
<1>5. \A i, j \in DOMAIN queue' : i < j => queue'[i] < queue'[j]
  <2>1. \A i, j \in 1..(n - 1) : i < j => /\ i + 1 \in DOMAIN queue /\ j + 1 \in DOMAIN queue
                                         /\ i + 1 < j + 1
    BY <1>1
  <2>2. \A i, j \in DOMAIN queue : i < j => queue[i] < queue[j]
    BY Zenon DEF PoolInv
  <2>3. QED
    BY <1>1, <2>1, <2>2, Zenon
<1>6. ASSUME NEW v \in Workers \ {w}
      PROVE  /\ worker[v].unit # queue[1]
             /\ worker[v].at # "idle" => \A i \in DOMAIN queue' : worker[v].unit < queue'[i]
  <2>1. CASE worker[v].at = "idle"
    <3>1. worker[v].unit = 0
      BY <2>1 DEF PoolInv, Idle
    <3>2. QED
      BY <2>1, <3>1, <1>3, NAssumption DEF Units
  <2>2. CASE worker[v].at # "idle"
    <3>1. worker[v].unit \in Units /\ \A i \in DOMAIN queue : worker[v].unit < queue[i]
      BY <2>2, Zenon DEF PoolInv
    <3>2. worker[v].unit < queue[1]
      BY <3>1, <1>1
    <3>3. QED
      BY <3>1, <3>2, <1>1, <1>3, NAssumption, SMTT(30) DEF Units
  <2>3. QED
    BY <2>1, <2>2, Zenon
<1>7. ASSUME NEW v \in Workers
      PROVE  /\ worker'[v].at = "idle" => worker'[v] = Idle
             /\ worker'[v].at # "idle" =>
                  /\ worker'[v].unit \in Units /\ worker'[v].unit < next'
                  /\ \A i \in DOMAIN queue' : worker'[v].unit < queue'[i]
                  /\ \A x \in Workers \ {v} : worker'[x].unit # worker'[v].unit
  <2>1. CASE v = w
    BY <2>1, <1>1, <1>2, <1>3, <1>4, <1>6
  <2>2. CASE v # w
    <3>1. worker'[v] = worker[v] /\ worker'[v].unit # worker'[w].unit
      BY <2>2, <1>2, <1>6
    <3>2. QED
      BY <2>2, <3>1, <1>2, <1>4, <1>6 DEF PoolInv
  <2>3. QED
    BY <2>1, <2>2, Zenon
<1>8. \A i \in DOMAIN queue' : queue'[i] < next'
  BY <1>1, <1>3, <1>4, Zenon
<1>9. QED
  BY <1>4, <1>5, <1>7, <1>8, Zenon DEF PoolInv

\* Every step keeps the order of the tasks.
LEMMA PoolStep ==
  ASSUME Typed, PoolInv, [Next]_vars
  PROVE  PoolInv'
<1> USE NAssumption
<1>1. ASSUME SubmitA PROVE PoolInv'
  <2>1. next \in Units
    BY <1>1 DEF SubmitA, Typed, Units
  <2>2. QED
    BY <1>1, <2>1, SubmitPool, Zenon DEF SubmitA
<1>2. ASSUME WaitA \/ WaitB PROVE PoolInv'
  BY <1>2 DEF WaitA, WaitB, PoolInv, PoolDrained
<1>3. ASSUME AllFailed PROVE PoolInv'
  BY <1>3, Zenon DEF AllFailed, PoolInv, PoolDrained
<1>4. ASSUME GroupAbi PROVE PoolInv'
  BY <1>4 DEF GroupAbi, PoolInv, PoolDrained, Idle
<1>5. ASSUME GateB PROVE PoolInv'
  <2>1. next \in Units /\ next' = next + 1 /\ UNCHANGED <<pc, worker>> /\ pc = "passB"
    BY <1>5 DEF GateB, Typed, Units
  <2>2. CASE queue' = Append(queue, next)
    BY <2>1, <2>2, SubmitPool, Zenon
  <2>3. CASE queue' = queue
    <3>1. \A i \in DOMAIN queue : queue[i] < next'
      BY <2>1 DEF PoolInv, Typed, Units
    <3>2. \A w \in Workers : worker[w].at # "idle" => worker[w].unit < next'
      BY <2>1 DEF PoolInv, Units
    <3>3. QED
      BY <2>1, <2>3, <3>1, <3>2, Zenon DEF PoolInv
  <2>4. QED
    BY <1>5, <2>2, <2>3, Zenon DEF GateB
<1>6. ASSUME Report PROVE PoolInv'
  <2>1. pc = "report" /\ pc' = "done" /\ UNCHANGED <<next, queue, worker>>
    BY <1>6, Zenon DEF Report
  <2>2. QED
    BY <2>1, Zenon DEF PoolInv, PoolDrained
<1>7. ASSUME NEW w \in Workers, Load(w) PROVE PoolInv'
  <2> DEFINE module == LoadedModule(worker[w].unit)
             state  == [at |-> IF module = NoUnit THEN "fail" ELSE "build",
                        unit |-> worker[w].unit, module |-> module]
  <2>1. /\ worker[w].at # "idle" /\ UNCHANGED <<pc, next, queue>>
        /\ worker' = [worker EXCEPT ![w] = state]
    BY <1>7, Zenon DEF Load
  <2>2. state.unit = worker[w].unit /\ state.at # "idle"
    OBVIOUS
  <2> HIDE DEF state
  <2>3. QED
    BY <2>1, <2>2, WorkPool, Zenon
<1>8. ASSUME NEW w \in Workers, Fail(w) \/ Build(w) PROVE PoolInv'
  <2>1. /\ worker[w].at # "idle" /\ UNCHANGED <<pc, next, queue>>
        /\ worker' = [worker EXCEPT ![w] = Leaving(worker[w].unit)]
    BY <1>8, Zenon DEF Fail, Build
  <2>2. Leaving(worker[w].unit).unit = worker[w].unit /\ Leaving(worker[w].unit).at # "idle"
    BY Zenon DEF Leaving
  <2>3. QED
    BY <2>1, <2>2, WorkPool, Zenon
<1>9. ASSUME NEW w \in Workers, Leave(w) PROVE PoolInv'
  <2>1. /\ worker[w].at # "idle" /\ UNCHANGED <<pc, next, queue>>
        /\ worker' = [worker EXCEPT ![w] = Idle]
    BY <1>9, Zenon DEF Leave
  <2>2. QED
    BY <2>1, WorkPool, Zenon
<1>10. ASSUME NEW u \in Units, NEW bytes \in Rewrites, Rewrite(u, bytes) PROVE PoolInv'
  BY <1>10 DEF Rewrite, PoolInv, PoolDrained
<1>11. ASSUME UNCHANGED vars PROVE PoolInv'
  BY <1>11, Zenon DEF vars, PoolInv, PoolDrained
<1>12. QED
  BY <1>1, <1>2, <1>3, <1>4, <1>5, <1>6, <1>7, <1>8, <1>9, <1>10, <1>11, TakePool, Zenon
     DEF Next, Caller, Worker

PoolProofInv == Typed /\ PoolInv

\* Types and the order of the tasks hold together: each needs the other.
THEOREM PoolInvariance == Spec => []PoolProofInv
<1>1. Init => PoolProofInv
  BY TypeInit, PoolInit, Zenon DEF PoolProofInv
<1>2. PoolProofInv /\ [Next]_vars => PoolProofInv'
  BY TypeStep, PoolStep, Zenon DEF PoolProofInv
<1>3. QED
  BY <1>1, <1>2, PTL DEF Spec

\* No two tasks ever share a unit, so each owns its elements of factsByUnit and failed.
THEOREM TasksOwnTheirUnit == Spec => []OneTaskPerUnit
<1>1. PoolProofInv => OneTaskPerUnit
  <2> SUFFICES ASSUME PoolProofInv PROVE OneTaskPerUnit
    OBVIOUS
  <2>1. /\ DOMAIN queue = 1..Len(queue) /\ Len(queue) \in Nat
        /\ \A i \in DOMAIN queue : queue[i] \in Units
    BY DEF PoolProofInv, Typed
  <2>2. \A w \in Busy : worker[w].at # "idle" /\ worker[w].unit \in Units
    BY Zenon DEF PoolProofInv, PoolInv, Busy
  <2>3. \A i, j \in DOMAIN queue : queue[i] = queue[j] => i = j
    <3>1. TAKE i, j \in DOMAIN queue
    <3>2. HAVE queue[i] = queue[j]
    <3>3. ~(i < j) /\ ~(j < i)
      BY <2>1, <3>2, NAssumption DEF PoolProofInv, PoolInv, Units
    <3>4. QED
      BY <2>1, <3>3
  <2>4. \A v, w \in Busy : worker[v].unit = worker[w].unit => v = w
    BY <2>2, Zenon DEF PoolProofInv, PoolInv, Busy
  <2>5. \A w \in Busy, i \in DOMAIN queue : worker[w].unit # queue[i]
    <3>1. TAKE w \in Busy, i \in DOMAIN queue
    <3>2. worker[w].unit < queue[i]
      BY <2>2, Zenon DEF PoolProofInv, PoolInv, Busy
    <3>3. QED
      BY <2>1, <2>2, <3>2, NAssumption DEF Units
  <2>6. QED
    BY <2>3, <2>4, <2>5, Zenon DEF OneTaskPerUnit
<1>2. QED
  BY <1>1, PoolInvariance, PTL

(***************************************************************************)
(* How the set of units with a pending task changes.                       *)
(***************************************************************************)
LEMMA UnsettledBound ==
  ASSUME Typed, PoolInv
  PROVE  \A u \in Unsettled : u \in Units /\ u < next
<1>1. \A u \in Queued : u \in Units /\ u < next
  BY DEF Queued, Typed, PoolInv
<1>2. \A w \in Writing : worker[w].unit \in Units /\ worker[w].unit < next
  BY Zenon DEF Writing, PoolInv
<1>3. QED
  BY <1>1, <1>2, Zenon DEF Unsettled

\* Once pool.wait() returns no unit is pending.
LEMMA DrainedSettled ==
  ASSUME PoolDrained
  PROVE  Unsettled = {}
BY DEF PoolDrained, Unsettled, Queued, Writing, Idle

\* Only the queue and the workers decide which units are pending.
LEMMA SameSettled ==
  ASSUME UNCHANGED <<queue, worker>>
  PROVE  Unsettled' = Unsettled
BY Zenon DEF Unsettled, Queued, Writing

\* Submitting a unit makes that unit pending, and no other.
LEMMA SubmitUnsettled ==
  ASSUME Typed, next \in Units, queue' = Append(queue, next), worker' = worker
  PROVE  Unsettled' = Unsettled \cup {next}
<1> DEFINE n == Len(queue)
<1>1. /\ n \in Nat /\ DOMAIN queue = 1..n
      /\ DOMAIN queue' = 1..(n + 1)
      /\ \A i \in 1..n : queue'[i] = queue[i]
      /\ queue'[n + 1] = next
  BY AppendFacts DEF Typed
<1> HIDE DEF n
<1>2. Queued' = Queued \cup {next}
  <2>1. \A u : u \in Queued <=> \E i \in 1..n : u = queue[i]
    BY <1>1, Zenon DEF Queued
  <2>2. \A u : u \in Queued' <=> \E i \in 1..(n + 1) : u = queue'[i]
    BY <1>1, Zenon DEF Queued
  <2>3. ASSUME NEW u PROVE u \in Queued' => u \in Queued \cup {next}
    BY <1>1, <2>1, <2>2
  <2>4. ASSUME NEW u PROVE u \in Queued \cup {next} => u \in Queued'
    <3>1. ASSUME u \in Queued PROVE u \in Queued'
      BY <1>1, <2>1, <2>2, <3>1
    <3>2. ASSUME u = next PROVE u \in Queued'
      BY <1>1, <2>2, <3>2
    <3>3. QED
      BY <3>1, <3>2, Zenon
  <2>5. QED
    BY <2>3, <2>4, Zenon
<1>3. QED
  BY <1>2, Zenon DEF Unsettled, Writing

\* The task moves from the queue to the worker.
LEMMA TakeUnsettled ==
  ASSUME Typed, NEW w \in Workers, Take(w)
  PROVE  Unsettled' = Unsettled
<1> DEFINE n == Len(queue)
<1>1. /\ n \in Nat \ {0} /\ DOMAIN queue = 1..n /\ Head(queue) = queue[1]
      /\ DOMAIN queue' = 1..(n - 1)
      /\ \A i \in 1..(n - 1) : queue'[i] = queue[i + 1]
  BY TailFacts, Zenon DEF Typed, Take
<1> HIDE DEF n
<1>2. Queued = Queued' \cup {queue[1]}
  <2>1. \A u : u \in Queued <=> \E i \in 1..n : u = queue[i]
    BY <1>1, Zenon DEF Queued
  <2>2. \A u : u \in Queued' <=> \E i \in 1..(n - 1) : u = queue[i + 1]
    BY <1>1, Zenon DEF Queued
  <2>3. ASSUME NEW i \in 1..n PROVE queue[i] \in Queued' \cup {queue[1]}
    <3>1. CASE i = 1
      BY <3>1, Zenon
    <3>2. CASE i # 1
      <4>1. i - 1 \in 1..(n - 1) /\ queue[i] = queue[(i - 1) + 1]
        BY <1>1, <3>2
      <4>2. QED
        BY <2>2, <4>1, Zenon
    <3>3. QED
      BY <3>1, <3>2, Zenon
  <2>4. ASSUME NEW i \in 1..(n - 1) PROVE queue[i + 1] \in Queued
    BY <1>1, <2>1
  <2>5. queue[1] \in Queued
    BY <1>1, <2>1
  <2>6. QED
    BY <2>1, <2>2, <2>3, <2>4, <2>5
<1>3. /\ worker'[w] = [at |-> "load", unit |-> queue[1], module |-> NoUnit]
      /\ \A v \in Workers \ {w} : worker'[v] = worker[v]
      /\ worker[w].at = "idle"
  BY <1>1 DEF Take, Typed, Idle
<1>4. Writing' = Writing \cup {w} /\ w \notin Writing
  BY <1>3 DEF Writing
<1>5. {worker'[v].unit : v \in Writing'} = {worker[v].unit : v \in Writing} \cup {queue[1]}
  <2>1. worker'[w].unit = queue[1] /\ \A v \in Writing : worker'[v].unit = worker[v].unit
    BY <1>3, <1>4 DEF Writing
  <2>2. QED
    BY <2>1, <1>4
<1>6. QED
  BY <1>2, <1>5, Zenon DEF Unsettled

\* A worker that has not yet written keeps its unit unsettled.
LEMMA LoadUnsettled ==
  ASSUME Typed, NEW w \in Workers, Load(w)
  PROVE  Unsettled' = Unsettled
<1>1. /\ worker[w].at = "load" /\ worker'[w].unit = worker[w].unit
      /\ worker'[w].at \in {"fail", "build"}
      /\ \A v \in Workers \ {w} : worker'[v] = worker[v]
      /\ queue' = queue
  BY Zenon DEF Load, Typed
<1>2. Writing' = Writing
  BY <1>1, Zenon DEF Writing
<1>3. \A v \in Workers : worker'[v].unit = worker[v].unit
  BY <1>1, Zenon
<1>4. QED
  BY <1>1, <1>2, <1>3 DEF Unsettled, Queued, Writing

\* Leaving the gauge settles nothing: the facts were written before.
LEMMA LeaveUnsettled ==
  ASSUME Typed, NEW w \in Workers, Leave(w)
  PROVE  Unsettled' = Unsettled
<1>1. /\ worker[w].at = "leave" /\ worker'[w] = Idle
      /\ \A v \in Workers \ {w} : worker'[v] = worker[v]
      /\ queue' = queue
  BY Zenon DEF Leave, Typed
<1>2. Writing' = Writing /\ w \notin Writing
  BY <1>1 DEF Writing, Idle
<1>3. \A v \in Writing : worker'[v].unit = worker[v].unit
  BY <1>1, <1>2, Zenon DEF Writing
<1>4. QED
  BY <1>1, <1>2, <1>3 DEF Unsettled, Queued

\* Writing its element settles the unit, and no other.
LEMMA WriteSettles ==
  ASSUME Typed, PoolInv, NEW w \in Workers,
         worker[w].at \in {"build", "fail"}, queue' = queue,
         worker' = [worker EXCEPT ![w] = Leaving(worker[w].unit)]
  PROVE  /\ worker[w].unit \in Unsettled
         /\ Unsettled' = Unsettled \ {worker[w].unit}
<1>1. /\ worker'[w].at = "leave" /\ w \in Writing
      /\ \A v \in Workers \ {w} : worker'[v] = worker[v]
  BY Zenon DEF Leaving, Typed, Writing
<1>2. Writing' = Writing \ {w}
  BY <1>1, Zenon DEF Writing
<1>3. \A v \in Writing \ {w} : worker[v].unit # worker[w].unit
  BY Zenon DEF PoolInv, Writing
<1>4. worker[w].unit \notin Queued
  <2>1. \A i \in DOMAIN queue : worker[w].unit < queue[i] /\ queue[i] \in Units
    BY DEF PoolInv, Typed
  <2>2. worker[w].unit \in Units
    BY Zenon DEF PoolInv
  <2>3. QED
    BY <2>1, <2>2, NAssumption DEF Queued, Units
<1>5. Queued' = Queued
  BY Zenon DEF Queued
<1>6. \A v \in Writing \ {w} : worker'[v].unit = worker[v].unit
  BY <1>1, Zenon DEF Writing
<1>7. QED
  BY <1>1, <1>2, <1>3, <1>4, <1>5, <1>6 DEF Unsettled

(***************************************************************************)
(* What was added stays what it was, and what a worker loaded is that.     *)
(***************************************************************************)
LEMMA CallerFrame ==
  ASSUME Caller
  PROVE  UNCHANGED <<recorded, inFile, worker, failed, failures, factsByUnit>>
<1>1. ASSUME Report
      PROVE  UNCHANGED <<recorded, inFile, worker, failed, failures, factsByUnit>>
  BY <1>1, Zenon DEF Report, sources, shared
<1>2. QED
  BY <1>1, Zenon DEF Caller, SubmitA, WaitA, AllFailed, GroupAbi, GateB, WaitB, sources, shared

\* A worker never touches the loop of the calling thread, nor the index.
LEMMA WorkerFrame ==
  ASSUME NEW w \in Workers, Worker(w)
  PROVE  UNCHANGED <<recorded, inFile, pc, next, compatible, programIndex, reanalyzed, report>>
BY Zenon DEF Worker, Take, Load, Fail, Build, Leave, sources, grouped, result

\* Another process touches nothing but a file.
LEMMA RewriteFrame ==
  ASSUME NEW u \in Units, NEW bytes \in Rewrites, Rewrite(u, bytes)
  PROVE  UNCHANGED <<recorded, inFile, pc, next, queue, worker, failed, failures, factsByUnit,
                     compatible, programIndex, reanalyzed, report>>
BY Zenon DEF Rewrite, shared, grouped, result

\* No worker holds a module when analyze starts.
LEMMA LoadInit == Init => LoadInv
BY DEF Init, LoadInv, Idle

\* The digest check of load: a module in hand is the one the unit was added with.
LEMMA LoadStep ==
  ASSUME Typed, LoadInv, [Next]_vars
  PROVE  LoadInv'
<1>1. ASSUME UNCHANGED <<recorded, inFile, worker>> PROVE LoadInv'
  BY <1>1, Zenon DEF LoadInv
<1>2. ASSUME NEW w \in Workers, Load(w) PROVE LoadInv'
  <2> DEFINE u == worker[w].unit
             module == LoadedModule(u)
  <2>1. /\ worker'[w].at = (IF module = NoUnit THEN "fail" ELSE "build")
        /\ worker'[w].unit = u /\ worker'[w].module = module
        /\ \A v \in Workers \ {w} : worker'[v] = worker[v]
        /\ UNCHANGED <<recorded, inFile>>
    BY <1>2, Zenon DEF Load, Typed, sources
  <2>2. module # NoUnit => recorded[u] \in Contents /\ module = recorded[u]
    BY Zenon DEF LoadedModule
  <2>3. module = NoUnit => recorded[u] \notin Contents \/ u \in inFile
    BY ContentsAssumption, Zenon DEF LoadedModule
  <2> HIDE DEF module, u
  <2>4. QED
    BY <2>1, <2>2, <2>3 DEF LoadInv
<1>3. ASSUME NEW w \in Workers, Take(w) \/ Fail(w) \/ Build(w) \/ Leave(w) PROVE LoadInv'
  <2>1. /\ \A v \in Workers \ {w} : worker'[v] = worker[v]
        /\ UNCHANGED <<recorded, inFile>>
    BY <1>3, Zenon DEF Take, Fail, Build, Leave, Typed, sources
  <2>2. worker'[w].at \notin {"build", "fail"}
    <3>1. CASE Take(w)
      BY <3>1, Zenon DEF Take, Typed
    <3>2. CASE Leave(w)
      BY <3>2, Zenon DEF Leave, Idle, Typed
    <3>3. CASE Fail(w) \/ Build(w)
      <4>1. worker' = [worker EXCEPT ![w] = Leaving(worker[w].unit)]
        BY <3>3, Zenon DEF Fail, Build
      <4>2. QED
        BY <4>1, Zenon DEF Leaving, Typed
    <3>4. QED
      BY <1>3, <3>1, <3>2, <3>3, Zenon
  <2>3. QED
    BY <2>1, <2>2 DEF LoadInv
<1>4. QED
  BY <1>1, <1>2, <1>3, CallerFrame, RewriteFrame, Zenon DEF Next, Worker, vars, sources

(***************************************************************************)
(* The first pass                                                          *)
(***************************************************************************)
\* Nothing is settled when the first pass starts.
LEMMA FirstPassInit == Init => FirstPassInv
BY DEF Init, FirstPassInv, Units

\* What a step that settles no unit and writes no facts keeps of the first pass.
LEMMA FirstPassFrame ==
  ASSUME FirstPassInv, UNCHANGED <<recorded, inFile, pc, next, failed, factsByUnit,
                                   compatible, reanalyzed, report>>,
         Unsettled' = Unsettled
  PROVE  FirstPassInv'
BY Zenon DEF FirstPassInv, FailedSoFar, Service!FactsAlone

\* The first pass is preserved by every step: a unit is untouched, pending, failed for a
\* reason, or analysed alone from the bytes it was added with.
LEMMA FirstPassStep ==
  ASSUME Typed, PoolInv, LoadInv, FirstPassInv, [Next]_vars
  PROVE  FirstPassInv'
<1> USE NAssumption
<1>1. ASSUME SubmitA PROVE FirstPassInv'
  <2>1. next \in Units /\ next' = next + 1 /\ pc = "passA"
    BY <1>1 DEF SubmitA, Typed, Units
  <2>2. UNCHANGED <<recorded, inFile, pc, failed, factsByUnit, compatible, reanalyzed, report>>
    BY <1>1, Zenon DEF SubmitA, sources, shared, grouped, result
  <2>3. Unsettled' = Unsettled \cup {next}
    BY <1>1, <2>1, SubmitUnsettled, Zenon DEF SubmitA
  <2>4. \A u \in Units : (u >= next' \/ u \in Unsettled') <=> (u >= next \/ u \in Unsettled)
    BY <2>1, <2>3 DEF Units
  <2>5. QED
    BY <2>1, <2>2, <2>4, Zenon DEF FirstPassInv, FailedSoFar, Service!FactsAlone
<1>2. ASSUME WaitA PROVE FirstPassInv'
  <2>1. /\ UNCHANGED <<recorded, inFile, next, failed, factsByUnit, compatible, reanalyzed, report>>
        /\ pc = "passA" /\ pc' = "abi" /\ next = N + 1
    BY <1>2, Zenon DEF WaitA, sources, shared, grouped, result
  <2>2. Unsettled' = Unsettled
    BY <1>2, SameSettled, Zenon DEF WaitA
  <2>3. QED
    BY <2>1, <2>2, Zenon DEF FirstPassInv, FailedSoFar, Service!FactsAlone
<1>3. ASSUME AllFailed \/ GroupAbi \/ GateB \/ WaitB PROVE FirstPassInv'
  BY <1>3, Zenon DEF AllFailed, GroupAbi, GateB, WaitB, FirstPassInv
<1>4. ASSUME Report PROVE FirstPassInv'
  <2>1. pc' = "done"
    BY <1>4, Zenon DEF Report
  <2>2. QED
    BY <2>1, Zenon DEF FirstPassInv
<1>5. ASSUME NEW w \in Workers, Take(w) \/ Load(w) \/ Leave(w) PROVE FirstPassInv'
  <2>1. UNCHANGED <<failed, factsByUnit>>
    BY <1>5, Zenon DEF Take, Load, Leave, shared
  <2>2. Unsettled' = Unsettled
    BY <1>5, TakeUnsettled, LoadUnsettled, LeaveUnsettled, Zenon
  <2>3. QED
    BY <1>5, <2>1, <2>2, WorkerFrame, FirstPassFrame, Zenon DEF Worker
<1>6. ASSUME NEW w \in Workers, Fail(w), pc \in {"passA", "abi"} PROVE FirstPassInv'
  <2>0. PICK u \in Units : u = worker[w].unit
    BY <1>6, Zenon DEF Fail, PoolInv
  <2>1. /\ u \in Unsettled /\ Unsettled' = Unsettled \ {u}
    BY <1>6, <2>0, WriteSettles, Zenon DEF Fail
  <2>2. u \in Units /\ u < next
    BY <2>1, UnsettledBound, Zenon
  <2>3. /\ UNCHANGED <<recorded, inFile, pc, next, compatible, reanalyzed, report>>
    BY <1>6, WorkerFrame, Zenon DEF Worker
  <2>4. /\ failed'[u] /\ factsByUnit'[u] = NoFacts
        /\ \A v \in Units \ {u} : failed'[v] = failed[v] /\ factsByUnit'[v] = factsByUnit[v]
    BY <1>6, <2>0, Zenon DEF Fail, Typed
  <2>5. recorded[u] \notin Contents \/ u \in inFile
    BY <1>6, <2>0, Zenon DEF Fail, LoadInv
  <2>6. FailedSoFar(u)'
    <3>1. failed'[u] /\ factsByUnit'[u] = NoFacts /\ (recorded'[u] \notin Contents \/ u \in inFile')
      BY <2>3, <2>4, <2>5, Zenon
    <3>2. QED
      BY <3>1, Zenon DEF FailedSoFar
  <2>7. ASSUME NEW v \in Units
        PROVE  (IF v >= next \/ v \in Unsettled THEN ~failed[v]
                ELSE \/ FailedSoFar(v)
                     \/ /\ ~failed[v] /\ recorded[v] \in Contents
                        /\ factsByUnit[v] = Service!FactsAlone(v))'
    <3>1. CASE v = u
      <4>1. ~(v >= next') /\ v \notin Unsettled'
        BY <2>1, <2>2, <2>3, <3>1 DEF Typed, Units
      <4>2. QED
        BY <2>6, <3>1, <4>1, Zenon DEF FailedSoFar
    <3>2. CASE v # u
      BY <1>6, <2>1, <2>3, <2>4, <3>2, Zenon DEF FirstPassInv, FailedSoFar, Service!FactsAlone
    <3>3. QED
      BY <3>1, <3>2, Zenon
  <2>8. QED
    BY <1>6, <2>3, <2>7, Zenon DEF FirstPassInv
<1>7. ASSUME NEW w \in Workers, Build(w), pc \in {"passA", "abi"} PROVE FirstPassInv'
  <2>0. PICK u \in Units : u = worker[w].unit
    BY <1>7, Zenon DEF Build, PoolInv
  <2>1. /\ u \in Unsettled /\ Unsettled' = Unsettled \ {u}
    BY <1>7, <2>0, WriteSettles, Zenon DEF Build
  <2>2. u \in Units /\ u < next
    BY <2>1, UnsettledBound, Zenon
  <2>3. UNCHANGED <<recorded, inFile, pc, next, compatible, reanalyzed, report>>
    BY <1>7, WorkerFrame, Zenon DEF Worker
  <2>4. recorded[u] \in Contents /\ worker[w].module = recorded[u]
    BY <1>7, <2>0, Zenon DEF Build, LoadInv
  <2>5. pc = "passA"
    BY <1>7 DEF PoolInv, PoolDrained, Build, Idle
  <2>6. /\ factsByUnit'[u] = Service!FactsAlone(u)
        /\ \A v \in Units \ {u} : factsByUnit'[v] = factsByUnit[v]
        /\ failed' = failed
    BY <1>7, <2>0, <2>4, <2>5, Zenon DEF Build, Program, Service!FactsAlone, Typed
  <2>7. QED
    BY <1>7, <2>1, <2>2, <2>3, <2>4, <2>6, Zenon DEF FirstPassInv, FailedSoFar, Service!FactsAlone, Units
<1>8. ASSUME NEW w \in Workers, Worker(w), pc \notin {"passA", "abi"} PROVE FirstPassInv'
  BY <1>8, WorkerFrame, Zenon DEF FirstPassInv
<1>9. ASSUME NEW u \in Units, NEW bytes \in Rewrites, Rewrite(u, bytes) PROVE FirstPassInv'
  BY <1>9, RewriteFrame, SameSettled, FirstPassFrame, Zenon
<1>10. ASSUME UNCHANGED vars PROVE FirstPassInv'
  BY <1>10, SameSettled, FirstPassFrame, Zenon DEF vars, sources, shared, grouped, result
<1>11. QED
  BY Zenon, <1>1, <1>2, <1>3, <1>4, <1>5, <1>6, <1>7, <1>8, <1>9, <1>10 DEF Next, Caller, Worker

(***************************************************************************)
(* The second pass                                                         *)
(***************************************************************************)
LEMMA AloneKept ==
  ASSUME recorded' = recorded, FailedFirst' = FailedFirst
  PROVE  Alone' = Alone
BY Zenon DEF Alone, Service!FirstPass, Service!FactsAlone, Service!Units

\* The first pass, unit by unit.
LEMMA AloneFacts ==
  ASSUME NEW u \in Units
  PROVE  Alone[u] = IF u \in FailedFirst THEN NoFacts ELSE Service!FactsAlone(u)
BY Zenon DEF Alone, Service!FirstPass, Service!Units, Units

\* The ABI group is a function of the recorded bytes and of the units that failed first.
LEMMA CompatibleKept ==
  ASSUME recorded' = recorded, FailedFirst' = FailedFirst
  PROVE  Service!CompatibleOf(Alone, FailedFirst)' = Service!CompatibleOf(Alone, FailedFirst)
BY AloneKept, Zenon DEF Service!CompatibleOf, Service!Units

\* An analysis of no unit has not returned an answer to speak of.
LEMMA SecondPassInit == Init => SecondPassInv
BY Zenon DEF Init, SecondPassInv, Returned

\* A step that settles no unit, writes no facts and leaves the loop where it is.
LEMMA SecondPassFrame ==
  ASSUME SecondPassInv,
         UNCHANGED <<recorded, inFile, pc, next, failed, factsByUnit, compatible,
                     programIndex, reanalyzed, report>>,
         Unsettled' = Unsettled
  PROVE  SecondPassInv'
<1>1. FailedFirst' = FailedFirst
  BY Zenon DEF FailedFirst
<1>2. /\ Alone' = Alone
      /\ Service!CompatibleOf(Alone, FailedFirst)' = Service!CompatibleOf(Alone, FailedFirst)
  BY <1>1, AloneKept, CompatibleKept, Zenon
<1>3. \A u \in Units : FailedSoFar(u)' <=> FailedSoFar(u)
  BY Zenon DEF FailedSoFar
<1>4. QED
  BY <1>1, <1>2 DEF SecondPassInv, Returned, FailedSoFar

\* The first pass is over: what it left is exactly what the units that loaded give.
LEMMA FirstPassOver ==
  ASSUME Typed, PoolInv, FirstPassInv, pc = "abi"
  PROVE  /\ Unsettled = {}
         /\ \A u \in Units : failed[u] => FailedSoFar(u)
         /\ \A u \in Units : ~failed[u] => /\ recorded[u] \in Contents
                                           /\ factsByUnit[u] = Service!FactsAlone(u)
         /\ factsByUnit = Service!FirstPass({u \in Units : failed[u]})
         /\ compatible = {} /\ reanalyzed = {} /\ report = EmptyFunction
<1>1. Unsettled = {}
  BY DrainedSettled, Zenon DEF PoolInv
<1>2. compatible = {} /\ reanalyzed = {} /\ report = EmptyFunction /\ next = N + 1
  BY Zenon DEF FirstPassInv
<1>3. \A u \in Units : ~(u >= next)
  BY <1>2, NAssumption DEF Units
<1>4. \A u \in Units : \/ FailedSoFar(u)
                       \/ /\ ~failed[u] /\ recorded[u] \in Contents
                          /\ factsByUnit[u] = Service!FactsAlone(u)
  BY <1>1, <1>3, Zenon DEF FirstPassInv
<1>5. \A u \in Units : failed[u] => FailedSoFar(u)
  BY <1>4, Zenon
<1>6. \A u \in Units : ~failed[u] => /\ recorded[u] \in Contents
                                     /\ factsByUnit[u] = Service!FactsAlone(u)
  BY <1>4, Zenon DEF FailedSoFar
<1>7. factsByUnit = Service!FirstPass({u \in Units : failed[u]})
  <2>1. \A u \in Units : factsByUnit[u] = IF u \in {v \in Units : failed[v]} THEN NoFacts
                                          ELSE Service!FactsAlone(u)
    BY <1>5, <1>6, Zenon DEF FailedSoFar
  <2>2. factsByUnit = [u \in Units |-> factsByUnit[u]]
    BY Zenon DEF Typed
  <2>3. QED
    BY <2>1, <2>2, Zenon DEF Service!FirstPass, Service!Units, Units
<1>8. QED
  BY <1>1, <1>2, <1>5, <1>6, <1>7, Zenon

\* Every unit failed: the early return answers with no compatible unit at all.
LEMMA AllFailedSecond ==
  ASSUME Typed, PoolInv, FirstPassInv, AllFailed
  PROVE  SecondPassInv'
<1>1. /\ pc = "abi" /\ pc' = "done" /\ \A u \in Units : failed[u]
      /\ UNCHANGED <<recorded, inFile, queue, worker, failed, factsByUnit, compatible,
                     programIndex, reanalyzed, report>>
  BY Zenon DEF AllFailed, sources, shared, grouped
<1>2. /\ Unsettled = {} /\ \A u \in Units : FailedSoFar(u)
      /\ compatible = {} /\ reanalyzed = {} /\ report = EmptyFunction
  BY <1>1, FirstPassOver, Zenon
<1>3. Unsettled' = {}
  BY <1>1, <1>2, SameSettled, Zenon
<1>4. FailedFirst' = Units
  BY <1>1, <1>2, Zenon DEF FailedFirst
<1>5. Service!CompatibleOf(Alone, FailedFirst)' = {}
  BY <1>4, Zenon DEF Service!CompatibleOf, Service!Units, Units
<1>6. \A u \in Units : FailedSoFar(u)'
  BY <1>1, <1>2, Zenon DEF FailedSoFar
<1>7. report' = [u \in {v \in compatible' : ~failed'[v]} |-> factsByUnit'[u]]
  BY <1>1, <1>2, Zenon DEF EmptyFunction
<1>8. QED
  BY <1>1, <1>2, <1>3, <1>4, <1>5, <1>6, <1>7, Zenon DEF SecondPassInv

\* The units are grouped and the index folded from what the first pass left.
LEMMA GroupAbiSecond ==
  ASSUME Typed, PoolInv, FirstPassInv, GroupAbi
  PROVE  SecondPassInv'
<1> DEFINE F == {u \in Units : failed[u]}
<1>1. /\ pc = "abi" /\ pc' = "passB" /\ next' = 1
      /\ \E u \in Units : ~failed[u]
      /\ compatible' = CompatibleAmong(factsByUnit, {u \in Units : ~failed[u]})
      /\ programIndex' = FoldIndex(factsByUnit, compatible')
      /\ UNCHANGED <<recorded, inFile, queue, worker, failed, factsByUnit, reanalyzed, report>>
  BY Zenon DEF GroupAbi, sources, shared, result
<1>2. /\ Unsettled = {} /\ \A u \in F : FailedSoFar(u)
      /\ \A u \in Units \ F : recorded[u] \in Contents
      /\ factsByUnit = Service!FirstPass(F)
      /\ reanalyzed = {}
  BY <1>1, FirstPassOver, Zenon
<1>3. Unsettled' = {}
  BY <1>1, <1>2, SameSettled, Zenon
<1>4. Units \ F = {u \in Units : ~failed[u]}
  OBVIOUS
<1>5. compatible' \subseteq Units \ F
  BY <1>1, <1>4, Zenon DEF CompatibleAmong, CompatibleUnits
<1>6. FailedFirst' = F
  BY <1>1, <1>5, Zenon DEF FailedFirst
<1>7. Alone' = factsByUnit
  <2>1. Alone' = [u \in Units |-> IF u \in FailedFirst' THEN NoFacts
                                  ELSE BuildUnit(recorded'[u], EmptyIndex)]
    BY Zenon DEF Alone, Service!FirstPass, Service!FactsAlone, Service!Units, Units
  <2>2. factsByUnit = [u \in Units |-> IF u \in F THEN NoFacts
                                       ELSE BuildUnit(recorded[u], EmptyIndex)]
    BY <1>2, Zenon DEF Service!FirstPass, Service!FactsAlone, Service!Units, Units
  <2>3. QED
    BY <2>1, <2>2, <1>1, <1>6, Zenon
<1>8. Service!CompatibleOf(Alone, FailedFirst)' = compatible'
  <2>1. Service!CompatibleOf(Alone, FailedFirst)' = CompatibleAmong(Alone', Units \ FailedFirst')
    BY <1>1, <1>6, Zenon DEF Service!CompatibleOf, Service!Units, Units
  <2>2. QED
    BY <2>1, <1>1, <1>4, <1>6, <1>7, Zenon
<1>9. \A u \in F : FailedSoFar(u)'
  BY <1>1, <1>2, Zenon DEF FailedSoFar
<1>10. /\ compatible' \subseteq Units
       /\ programIndex' = FoldIndex(Alone', compatible')
       /\ \A u \in compatible' : ~failed'[u] /\ factsByUnit'[u] = Alone'[u]
  BY <1>1, <1>5, <1>7, Zenon
<1>11. reanalyzed' = {u \in compatible' : u < next' /\ GateOpens(Alone[u], programIndex)'}
  <2>1. \A u \in compatible' : ~(u < next')
    BY <1>1, <1>5, NAssumption DEF Units
  <2>2. QED
    BY <1>1, <1>2, <2>1, Zenon
<1>12. ~Returned'
  BY <1>1, Zenon DEF Returned
<1> HIDE DEF F
<1>13. QED
  BY <1>1, <1>2, <1>3, <1>6, <1>8, <1>9, <1>10, <1>11, <1>12 DEF SecondPassInv
==============================================================================
