----------------------------- MODULE LockedUnit -----------------------------
(***************************************************************************)
(* The lock pipeline, from the instructions of a unit to the deadlock and  *)
(* data race reports, against executions of that unit.                     *)
(*                                                                         *)
(* A behaviour picks a unit, analyses it, and then lets its threads take    *)
(* their instructions in every interleaving.  The threads, the locks  *)
(* and the branches are the analysed program's, not the analyser's: they   *)
(* give the analysis something to be right or wrong about.                 *)
(***************************************************************************)
EXTENDS LockOrders, LockOrderAnalyzer, DataRaces

CONSTANTS
    Units,          \* the units analysed
    MaxDepth        \* calls deeper than this are not taken

VARIABLES
    unit,           \* the unit
    report,         \* what the analysis says of it
    threads,        \* the call stack of each thread of the execution
    owner,          \* the locks held, each with its thread and how often it took it
    lower           \* the addresses: the object that lies lower, of the two compared

vars == <<unit, report, threads, owner, lower>>

----------------------------------------------------------------------------
(***************************************************************************)
(* The analysis.  Every thread of these units runs from the start, so      *)
(* every entry is live beside the initial thread.                          *)
(***************************************************************************)
Tasks(u) ==
    [live |-> [f \in DOMAIN u.body |-> [n \in Nodes(u.body[f]) |->
                  IF f \in u.root THEN DOMAIN u.entries ELSE {}]],
     started |-> [f \in DOMAIN u.body |-> [n \in Nodes(u.body[f]) |-> {}]],
     root |-> u.root]

\* The access facts: the global, and the locks held around the instruction.
AccessesOf(u, f, locks, tasks) ==
    LET b == u.body[f]
        reachable == Reachable(b)
        nodes == SelectSeq([n \in Nodes(b) |-> n],
                           LAMBDA n : b.ins[n].op \in {"read", "write"} /\ n \in reachable)
    IN [i \in DOMAIN nodes |->
           LET n == nodes[i]
           IN [Access(b.ins[n].to, Region(0, 4), f, b.ins[n].op = "write") EXCEPT
                  !.lowered = <<f, n>>, !.user = <<f, n>>, !.root = f \in tasks.root,
                  !.live = tasks.live[f][n],
                  !.held = LocksForCallee(locks.local[f][n] \cup locks.entry[f])]]

(***************************************************************************)
(* The analysis follows the calls site by site, in rounds, until a round   *)
(* leaves the open orders alone; it then runs the two rules.               *)
(***************************************************************************)
Following == report.stage # "done"

CollectWrappers ==
    /\ report.stage = "wrappers"
    /\ report' = [stage |-> "locks", sites |-> CollectDirectCallSites(unit),
                  summaries |-> CollectLockWrapperSummaries(unit)]

CollectLocks ==
    /\ report.stage = "locks"
    /\ report' = [stage |-> "orders",
                  locks |-> PropagateLocks(unit, report.sites,
                      [f \in DOMAIN unit.body |-> CollectHeldLocks(unit, f, report.summaries)])]
                 @@ report

\* No round has been made: NextRound starts the first.
CollectOrders ==
    /\ report.stage = "orders"
    /\ report' = [stage |-> "calls", site |-> Len(report.sites) + 1, before |-> <<>>,
                  orders |-> CollectOwnOrders(unit, report.sites, report.locks, report.summaries,
                                              Tasks(unit))] @@ report

FollowCall ==
    /\ report.stage = "calls" /\ report.site <= Len(report.sites)
    /\ report' = [report EXCEPT !.site = @ + 1,
          !.orders = AtCallSite(unit, report.sites, report.site, report.locks, report.summaries,
                                Tasks(unit), report.orders)]

NextRound ==
    /\ report.stage = "calls" /\ report.site > Len(report.sites)
    /\ OpenOrders(report.orders) # report.before
    /\ report' = [report EXCEPT !.site = 1, !.before = OpenOrders(report.orders)]

Facts ==
    LET tasks == Tasks(unit)
    IN [reach |-> ReachableThreadEntries(unit),
        concurrency |-> [e \in DOMAIN unit.entries |-> unit.entries[e] >= 2],
        sequenced |-> {},
        orders |-> report.orders.orders,
        recursiveLocks |-> RecursiveLockIds(unit),
        accesses |-> FlattenSeq([i \in DOMAIN unit.order |->
                         AccessesOf(unit, unit.order[i], report.locks, tasks)])]

Judged(q) ==
    [stage |-> "done",
     held |-> [f \in DOMAIN unit.body |-> [n \in Nodes(unit.body[f]) |->
                  report.locks.local[f][n] \cup report.locks.entry[f]]],
     deadlocks |-> RunLockOrderAnalyzer(q),
     races |-> {d.key[1] : d \in RunDataRaceChecker(q)},
     edges |-> DeadlockEdges(q),
     q |-> [q EXCEPT !.orders = <<>>, !.accesses = <<>>]]

RunRules ==
    /\ report.stage = "calls" /\ report.site > Len(report.sites)
    /\ OpenOrders(report.orders) = report.before
    /\ report' = Judged(Facts)

----------------------------------------------------------------------------
(***************************************************************************)
(* Executions.                                                             *)
(***************************************************************************)
Frame(f, args) == [fn |-> f, pc |-> 1, args |-> args, guards |-> <<>>]

Start(u) == [t \in DOMAIN u.threads |-> <<Frame(u.threads[t].fn, u.threads[t].args)>>]

Top(t) == threads[t][Len(threads[t])]
Running(t) == threads[t] # <<>>
At(t) == unit.body[Top(t).fn].ins[Top(t).pc]

\* What an operand is in a frame: a parameter is what the call passed.
ValueIn(frame, operand) ==
    IF IsParameter(operand[1]) THEN LockIdAt(frame.args[ArgumentIndex(operand[1])], operand[2])
    ELSE operand

Operands(t) == {ValueIn(Top(t), At(t).args[i]) : i \in DOMAIN At(t).args}

Free(t, l) ==
    l \in DOMAIN owner => owner[l].thread = t /\ l \in unit.reentrant

Taken(t, ls) ==
    [l \in DOMAIN owner \cup ls |->
        IF l \notin ls THEN owner[l]
        ELSE [thread |-> t, count |-> 1 + IF l \in DOMAIN owner THEN owner[l].count ELSE 0]]

Dropped(t, ls) ==
    LET mine == {l \in ls \cap DOMAIN owner : owner[l].thread = t}
        kept == {l \in DOMAIN owner : l \in mine => owner[l].count > 1}
    IN [l \in kept |-> IF l \in mine THEN [owner[l] EXCEPT !.count = @ - 1] ELSE owner[l]]

\* The thread goes on at one of the nodes `next`.
GoOn(t, frame, next) ==
    \E n \in next : threads' = [threads EXCEPT ![t][Len(threads[t])] = [frame EXCEPT !.pc = n]]

Fall(t) == Succ(unit.body[Top(t).fn], Top(t).pc)

Acquire(t) ==
    /\ At(t).op = "lock"
    /\ \A l \in Operands(t) : Free(t, l)
    /\ owner' = Taken(t, Operands(t))
    /\ GoOn(t, Top(t), Fall(t))

\* A try-lock never waits: it goes on at its first successor with the lock, at its last without.
TryAcquire(t) ==
    /\ At(t).op = "trylock"
    /\ LET arms == unit.body[Top(t).fn].succ[Top(t).pc]
           free == \A l \in Operands(t) : Free(t, l)
       IN \/ free /\ owner' = Taken(t, Operands(t)) /\ GoOn(t, Top(t), {arms[1]})
          \/ ~free /\ UNCHANGED owner /\ GoOn(t, Top(t), {arms[Len(arms)]})

Release(t) ==
    /\ At(t).op = "unlock"
    /\ owner' = Dropped(t, Operands(t))
    /\ GoOn(t, Top(t), Fall(t))

\* A guard takes its locks, or adopts the ones its thread holds, and drops them at its end.
Guard(t) ==
    /\ At(t).op = "guard"
    /\ \/ At(t).flag /\ UNCHANGED owner
       \/ /\ ~At(t).flag
          /\ \A l \in Operands(t) : Free(t, l)
          /\ owner' = Taken(t, Operands(t))
    /\ GoOn(t, [Top(t) EXCEPT !.guards = [g \in DOMAIN @ \cup {At(t).to} |->
                   IF g = At(t).to THEN Operands(t) ELSE @[g]]], Fall(t))

Unguard(t) ==
    /\ At(t).op = "unguard"
    /\ owner' = Dropped(t, IF At(t).to \in DOMAIN Top(t).guards THEN Top(t).guards[At(t).to]
                           ELSE {})
    /\ GoOn(t, Top(t), Fall(t))

Call(t) ==
    /\ At(t).op = "call"
    /\ Len(threads[t]) < MaxDepth
    /\ threads' = [threads EXCEPT ![t] =
           Append(@, Frame(At(t).to, [i \in DOMAIN At(t).args |-> ValueIn(Top(t), At(t).args[i])]))]
    /\ UNCHANGED owner

Return(t) ==
    /\ At(t).op = "ret"
    /\ LET below == SubSeq(threads[t], 1, Len(threads[t]) - 1)
           caller == below[Len(below)]
       IN threads' = [threads EXCEPT ![t] =
              IF below = <<>> THEN <<>>
              ELSE [below EXCEPT ![Len(below)].pc =
                       unit.body[caller.fn].succ[caller.pc][1]]]
    /\ UNCHANGED owner

\* An address comparison takes its first arm when its first object lies lower.
Compare(t) ==
    /\ At(t).op = "cmp"
    /\ LET object == ValueIn(Top(t), At(t).args[1])[1]
           arm == IF object = lower THEN 1 ELSE 2
       IN GoOn(t, Top(t), {unit.body[Top(t).fn].succ[Top(t).pc][arm]})
    /\ UNCHANGED owner

\* Everything else: an access, a branch on a value, an instruction without effect on locks.
Other(t) ==
    /\ At(t).op \in {"read", "write", "br", "nop", "settype", "mutexinit", "atexit"}
    /\ GoOn(t, Top(t), Fall(t))
    /\ UNCHANGED owner

Step(t) ==
    /\ Running(t)
    /\ \/ Acquire(t) \/ TryAcquire(t) \/ Release(t) \/ Guard(t) \/ Unguard(t)
       \/ Call(t) \/ Return(t) \/ Compare(t) \/ Other(t)
    /\ UNCHANGED <<unit, report, lower>>

Init ==
    /\ unit \in Units
    /\ report = [stage |-> "wrappers"]
    /\ threads = Start(unit)
    /\ owner = <<>>
    /\ lower \in unit.compared

Next ==
    \/ /\ CollectWrappers \/ CollectLocks \/ CollectOrders \/ FollowCall \/ NextRound \/ RunRules
       /\ UNCHANGED <<unit, threads, owner, lower>>
    \/ ~Following /\ \E t \in DOMAIN threads : Step(t)

Spec == Init /\ [][Next]_vars

----------------------------------------------------------------------------
(***************************************************************************)
(* Properties.                                                             *)
(***************************************************************************)
\* The stacks stand at instructions of the unit; a finished fact names its locks by objects:
\* no operand the resolver could not name, no parameter and no caller's lock is left in it.
TypeOK ==
    /\ \A t \in DOMAIN threads : \A i \in DOMAIN threads[t] :
          threads[t][i].pc \in Nodes(unit.body[threads[t][i].fn])
    /\ \A l \in DOMAIN owner : owner[l].thread \in DOMAIN threads /\ owner[l].count > 0
    /\ ~Following =>
          /\ \A f \in DOMAIN report.held : \A n \in DOMAIN report.held[f] :
                NoLock \notin report.held[f][n]
          /\ \A o \in ToSet(report.edges) :
                \A l \in {o.first, o.second} \cup o.held : l[1] \notin {"%0", "%1", "%caller", "?"}

(***************************************************************************)
(* A lock the analysis says is held around an access, an acquisition or a  *)
(* call is held by every thread that reaches it, whichever way it came:    *)
(* through wrappers, guards of its own, try-locks that succeeded,          *)
(* branches, loops and calls.  A lock held only in the facts hides a race, *)
(* which lock_wrapper_summaries.cpp calls the failure to avoid.  Four      *)
(* shapes of program break it: a helper that takes what it is handed by a  *)
(* guard, one that drops it without being summarised, code that goes on    *)
(* after a try-lock failed, and an entry also called under a lock.         *)
(***************************************************************************)
HeldLocksAreHeld ==
    ~Following => \A t \in {s \in DOMAIN threads : Running(s) /\ At(s).op \in
                                 {"read", "write", "lock", "trylock", "guard", "call"}} :
        \A l \in report.held[Top(t).fn][Top(t).pc] :
            LET lock == ValueIn(Top(t), l)
            IN lock \in DOMAIN owner /\ owner[lock].thread = t

AtAccess(t, symbol) == Running(t) /\ At(t).op \in {"read", "write"} /\ At(t).to = symbol

(***************************************************************************)
(* Two threads about to make conflicting accesses at the same time are a   *)
(* race the rule reports on that symbol, whatever locks they took and in   *)
(* whichever functions the accesses are.                                   *)
(***************************************************************************)
RacesReported ==
    ~Following => \A t, s \in DOMAIN threads :
        (/\ t # s /\ Running(t) /\ Running(s)
         /\ AtAccess(t, At(t).to) /\ AtAccess(s, At(t).to)
         /\ "write" \in {At(t).op, At(s).op}) => At(t).to \in report.races

\* The lock thread t waits for, held by another thread or, not being recursive, by itself.
WaitsFor(t, l) ==
    /\ Running(t)
    /\ At(t).op = "lock" \/ (At(t).op = "guard" /\ ~At(t).flag)
    /\ l \in Operands(t) /\ ~Free(t, l)

(***************************************************************************)
(* Two threads that wait for each other are a cycle the deadlock rule      *)
(* reports, unless it says that its search was incomplete: no gate, no     *)
(* address order and no call hides a cycle that really closes.             *)
(***************************************************************************)
DeadlocksReported ==
    ~Following => \A t, s \in DOMAIN threads : \A l, m \in DOMAIN owner :
        (t # s /\ WaitsFor(t, l) /\ owner[l].thread = s /\ WaitsFor(s, m) /\ owner[m].thread = t)
            => \/ {<<m, l>>, <<l, m>>} \in report.deadlocks.cycles
               \/ ~report.deadlocks.complete

(***************************************************************************)
(* A thread that waits for a lock it already holds is a reacquisition the  *)
(* rule reports, in a helper handed the lock as well as in plain code.     *)
(***************************************************************************)
ReacquisitionsReported ==
    ~Following => \A t \in DOMAIN threads : \A l \in DOMAIN owner :
        WaitsFor(t, l) /\ owner[l].thread = t => l \in report.deadlocks.reacquired

(***************************************************************************)
(* A complete search reports exactly the cycles some choice of orders      *)
(* closes: pairwise parallel, under no common gate, and not all of them    *)
(* taken lower address first.  This is judged once, before the first step. *)
(***************************************************************************)
Cycles(orders) ==
    {c \in UNION {[1..k -> orders] : k \in 2..3} :
        /\ \A i \in DOMAIN c : c[i].second = c[IF i = Len(c) THEN 1 ELSE i + 1].first
        /\ \A i, j \in DOMAIN c : i # j => c[i].first # c[j].first}

DeadlockingCycles ==
    {CycleKey(c) : c \in {d \in Cycles(ToSet(report.edges)) :
        /\ \A i, j \in DOMAIN d : i # j => MayHappenInParallel(report.q, d[i], d[j])
        /\ ~HasCommonGateLock(d)
        /\ ~IsAddressOrdered(d)}}

CycleSearchExact ==
    (~Following /\ threads = Start(unit))
        => IF report.deadlocks.complete THEN report.deadlocks.cycles = DeadlockingCycles
           ELSE report.deadlocks.cycles \subseteq
                   {CycleKey(c) : c \in Cycles(ToSet(report.edges))}
=============================================================================
