----------------------------- MODULE LockOrders -----------------------------
(***************************************************************************)
(* The lock orders of a unit: lock_order_collector.cpp for those a         *)
(* function takes by itself, tu_facts_builder.cpp for those it leaves open *)
(* for its callers and for the calls that close them.                      *)
(*                                                                         *)
(* `tasks` is what the task analysis says: live and started give, for a    *)
(* function and a node, the thread entries running there and those the     *)
(* function started itself; root is the set of root-task functions.        *)
(***************************************************************************)
EXTENDS LockStates, FactQueries

CONSTANT MaxRecursionOrders    \* kMaxOrdersOnLocksOnlyARecursionNames

Fact(f, first, second, loc, held, root, live, started, lower, recursive) ==
    [fn |-> f, first |-> first, second |-> second, loc |-> loc, held |-> held, root |-> root,
     live |-> live, started |-> started, lowerAddressFirst |-> lower, recursive |-> recursive,
     boundBySpawn |-> FALSE]

\* gatesAmong: a lock named after an object kept for lack of proof is no gate.
GatesAmong(held, object) ==
    {l \in held : object.keptForLackOfProof => l[1] # object.object[1]}

----------------------------------------------------------------------------
(***************************************************************************)
(* LockOrderCollector::collect.                                            *)
(***************************************************************************)
CollectorObject(u, f, spawned) ==
    IF f \in DOMAIN u.binding /\ (spawned \/ ~u.binding[f].runByDirectCalls)
    THEN u.binding[f] ELSE NoObject

\* The facts and their sites after one acquisition taken while `seen.held` is held.
AddSeen(facts, u, f, object, tasks, seen) ==
    LET loc == u.body[f].loc[seen.node]
        new(pair) == Fact(f, pair[1], pair[2], loc, GatesAmong(seen.held, object), FALSE,
                          tasks.live[f][seen.node], tasks.started[f][seen.node], FALSE,
                          pair[2] \in seen.change.recursivelyAcquirable)
        add(st, pair) ==
            LET same == {i \in DOMAIN st : /\ st[i].fact.first = pair[1]
                                           /\ st[i].fact.second = pair[2]
                                           /\ st[i].fact.loc = loc}
            IN IF same = {} THEN Append(st, [fact |-> new(pair), sites |-> {seen.node}])
               ELSE [i \in DOMAIN st |->
                        IF i \in same THEN [st[i] EXCEPT !.sites = @ \cup {seen.node}] ELSE st[i]]
    IN FoldSet(LAMBDA pair, st : add(st, pair), facts, seen.held \X seen.change.orderedAcquired)

\* lockedObject: the object whose lock the site acquires.
LockedObject(b, site, lock, r) ==
    LET args == b.ins[site].args
        naming == {i \in DOMAIN args : LockIdOf(r, args[i]) = lock}
    IN IF naming = {} THEN "?" ELSE args[CHOOSE i \in naming : \A j \in naming : i <= j][1]

AllFollow(b, e, sites) == \A n \in sites : EdgeDominates(b, e, n)

(***************************************************************************)
(* ordersLowerAddressFirst.  A "cmp" node branches on the addresses of two *)
(* objects: its first successor is taken when that of args[1] is lower.    *)
(***************************************************************************)
OrdersLowerAddressFirst(b, lhs, rhs, r) ==
    LET first == LockedObject(b, CHOOSE n \in rhs.sites : TRUE, lhs.fact.first, r)
        second == LockedObject(b, CHOOSE n \in lhs.sites : TRUE, lhs.fact.second, r)
        arms(n) == {i \in 1..2 : /\ b.ins[n].args[i][1] = first
                                 /\ b.ins[n].args[3 - i][1] = second}
    IN /\ first # "?" /\ second # "?"
       /\ \E n \in {m \in Nodes(b) : b.ins[m].op = "cmp"} :
             /\ Cardinality(arms(n)) = 1
             /\ \E i \in arms(n) :
                   /\ AllFollow(b, <<n, b.succ[n][i]>>, lhs.sites)
                   /\ AllFollow(b, <<n, b.succ[n][3 - i]>>, rhs.sites)

\* Two opposite orders are marked when the code takes them by the addresses of the locks.
MarkLowerAddressFirst(b, r, facts) ==
    LET opposite(i, j) == /\ facts[i].fact.first = facts[j].fact.second
                          /\ facts[i].fact.second = facts[j].fact.first
                          /\ i # j
                          /\ LET l == IF i < j THEN i ELSE j
                             IN OrdersLowerAddressFirst(b, facts[l], facts[i + j - l], r)
    IN [i \in DOMAIN facts |->
           [facts[i].fact EXCEPT !.lowerAddressFirst = \E j \in DOMAIN facts : opposite(i, j)]]

OrdersNamedBy(u, f, entryLocks, tasks, object, r) ==
    MarkLowerAddressFirst(u.body[f], r,
        FoldInOrder(LAMBDA st, s : AddSeen(st, u, f, object, tasks, s), <<>>,
                    LockFlow(u.body[f], CollectFunctionLockEffects(u, f, r),
                             entryLocks \cup {CallerLocks}).seen))

CollectLockOrders(u, f, entryLocks, summaries, tasks, spawned) ==
    LET object == CollectorObject(u, f, spawned)
    IN OrdersNamedBy(u, f, entryLocks, tasks, object, Resolver(summaries, object, "field"))

----------------------------------------------------------------------------
(***************************************************************************)
(* Keeping orders, tu_facts_builder.cpp.                                   *)
(***************************************************************************)
\* Mutant: the caller's locks are forgotten, only a parameter leaves an order open.
NamesCallerFrameParameterOnly(lock) == NamesParameter(lock)

NamesCallerFrame(lock) == lock = CallerLocks \/ NamesParameter(lock)

IsOpenLockOrder(o) == NamesCallerFrame(o.first) \/ NamesCallerFrame(o.second)

IsHeldThroughParameter(o) == \E l \in o.held : NamesParameter(l)

LockOrderKey(o) == <<o.fn, o.first, o.second, o.loc, o.lowerAddressFirst, o.boundBySpawn>>

LockOrderIdentity(o) ==
    <<LockOrderKey(o),
      IF o.first = o.second THEN {} ELSE {l \in o.held : ~NamesCallerFrame(l)}>>

\* keepLockOrder: one copy per key, beside the threads of every copy.
KeepLockOrder(orders, o) ==
    LET same == {i \in DOMAIN orders : LockOrderKey(orders[i]) = LockOrderKey(o)}
    IN IF same = {} THEN Append(orders, o)
       ELSE [i \in DOMAIN orders |->
                IF i \in same THEN [orders[i] EXCEPT !.live = @ \cup o.live,
                                                     !.started = @ \cup o.started]
                ELSE orders[i]]

AddLockOrder(orders, o) ==
    KeepLockOrder(orders, [o EXCEPT !.held = {l \in @ : ~NamesCallerFrame(l)}])

NoOpenOrders == [orders |-> <<>>, outside |-> {}, throughRecursion |-> 0]

\* addOpenLockOrder: past the bound, a recursion brings no order on locks of its own.
AddOpenLockOrder(open, o, throughRecursion) ==
    LET kept == [open EXCEPT !.orders = KeepLockOrder(open.orders, o)]
    IN CASE ~throughRecursion -> [kept EXCEPT !.outside = @ \cup {o.first, o.second}]
         [] throughRecursion /\ {o.first, o.second} \subseteq open.outside -> kept
         [] throughRecursion /\ ~({o.first, o.second} \subseteq open.outside)
              /\ open.throughRecursion >= MaxRecursionOrders -> open
         [] OTHER -> [kept EXCEPT !.throughRecursion =
                         @ + Len(kept.orders) - Len(open.orders)]

----------------------------------------------------------------------------
(***************************************************************************)
(* The orders each function takes: open ones for its callers, closed ones  *)
(* judged at its calls, and the rest of them judged where they are taken.  *)
(***************************************************************************)
\* takesCalleeLockOrders: all calls but those into the standard library.
Followed(u, sites) == SelectSeq(sites, LAMBDA s : s.callee \notin u.standard)

FunctionsRunOnlyByDirectCalls(u, sites) ==
    {s.callee : s \in ToSet(Followed(u, sites))} \ DOMAIN u.entries

FunctionsCalledUnderDifferentLocks(sites, locks) ==
    {sites[i].callee : i \in {j \in DOMAIN sites :
        \E l \in locks.atCall[j] : ~NamesParameter(l) /\ l \notin locks.entry[sites[j].callee]}}

SpawnedApart(u, f) == f \in DOMAIN u.binding /\ u.binding[f].runByDirectCalls

\* The orders of a function: those of its runs by calls, and those of its spawned thread.
KeepOwnOrders(u, f, sites, locks, tasks, st, mine, spawned) ==
    LET atCalls(o) == /\ f \in FunctionsRunOnlyByDirectCalls(u, sites) \/ SpawnedApart(u, f)
                      /\ o.first # o.second
                      /\ \/ f \in FunctionsCalledUnderDifferentLocks(sites, locks)
                         \/ IsHeldThroughParameter(o)
        add(acc, order) ==
            LET o == [order EXCEPT !.root = f \in tasks.root]
            IN IF IsOpenLockOrder(o)
               THEN [acc EXCEPT !.open[f] = AddOpenLockOrder(acc.open[f], o, FALSE)]
               ELSE IF atCalls(o) THEN [acc EXCEPT !.atCalls[f] = Append(@, o)]
               ELSE [acc EXCEPT !.orders = AddLockOrder(acc.orders, o)]
        shared == {LockOrderIdentity([o EXCEPT !.root = f \in tasks.root]) :
                      o \in {x \in ToSet(mine) : ~IsOpenLockOrder(x) /\ ~atCalls(x)}}
        addSpawned(acc, o) ==
            IF IsOpenLockOrder(o) \/ LockOrderIdentity(o) \in shared THEN acc
            ELSE [acc EXCEPT !.orders = AddLockOrder(acc.orders, [o EXCEPT !.boundBySpawn = TRUE])]
    IN FoldInOrder(addSpawned, FoldInOrder(add, st, mine), spawned)

OwnOrders(u, f, sites, locks, summaries, tasks, st) ==
    KeepOwnOrders(u, f, sites, locks, tasks, st,
                  CollectLockOrders(u, f, locks.entry[f], summaries, tasks, FALSE),
                  IF SpawnedApart(u, f)
                  THEN CollectLockOrders(u, f, locks.entry[f], summaries, tasks, TRUE)
                  ELSE <<>>)

----------------------------------------------------------------------------
(***************************************************************************)
(* The orders a call closes.                                               *)
(***************************************************************************)
\* lockAtCall: the callee's lock as the caller names it.
LockAtCall(lock, site, r) ==
    CASE ~NamesParameter(lock) -> lock
      [] NamesParameter(lock) /\ ArgumentIndex(lock[1]) > Len(site.args) -> NoLock
      [] OTHER -> LET passed == LockIdOf(r, site.args[ArgumentIndex(lock[1])])
                  IN IF passed = NoLock THEN NoLock ELSE LockIdAt(passed, lock[2])

\* Mutant: an order after the caller's locks is passed on, never closed by the call itself.
InstantiateAtCallPassedOn(o, c) ==
    LET second == LockAtCall(o.second, c.site, c.r)
        firsts == {LockAtCall(o.first, c.site, c.r)} \ {NoLock}
    IN IF second = NoLock THEN <<>>
       ELSE FoldSet(LAMBDA first, acc :
                       Append(acc, Fact(c.site.caller, first, second, c.loc, c.held, c.inRoot,
                                        LiveThroughCall(o, c), StartedThroughCall(o, c),
                                        o.lowerAddressFirst, o.recursive)),
                    <<>>, firsts \ {second})

InstantiateAtCall(o, c) ==
    LET second == LockAtCall(o.second, c.site, c.r)
        held == c.held \cup ({LockAtCall(l, c.site, c.r) : l \in o.held \ {CallerLocks}} \ {NoLock})
        firsts == IF o.first = CallerLocks THEN (c.held \ c.calleeEntry) \cup {CallerLocks}
                  ELSE {LockAtCall(o.first, c.site, c.r)} \ {NoLock}
        aliasedByCall == o.first # CallerLocks /\ o.first # o.second
    IN IF second = NoLock THEN <<>>
       ELSE FoldSet(LAMBDA first, acc :
                       Append(acc, Fact(c.site.caller, first, second, c.loc, held, c.inRoot,
                                        LiveThroughCall(o, c), StartedThroughCall(o, c),
                                        o.lowerAddressFirst, o.recursive)),
                    <<>>, {l \in firsts : l = second => ~o.recursive /\ ~aliasedByCall})

\* locksOnSharedObject: the locks of a thread entry, named after the object it was handed.
LocksOnSharedObject(locks, object) ==
    {IF NamesParameter(l) THEN LockIdAt(object.object, l[2]) ELSE l :
        l \in {k \in locks : NamesParameter(k) => k[1] = object.index}}

\* The caller's runs by direct calls, or its only run: the callee's orders become its own.
CallerOrders(st, f, instances, throughRecursion) ==
    FoldInOrder(LAMBDA acc, o :
                IF IsOpenLockOrder(o)
                THEN [acc EXCEPT !.open[f] = AddOpenLockOrder(acc.open[f], o, throughRecursion)]
                ELSE [acc EXCEPT !.orders = AddLockOrder(acc.orders, o)],
             st, instances)

\* The caller's spawned thread, on the object it was handed: no open order is its own.
SpawnedOrders(st, object, shared, instances) ==
    FoldInOrder(LAMBDA acc, order :
                LET o == [order EXCEPT !.held = GatesAmong(@, object)]
                IN IF IsOpenLockOrder(o) \/ LockOrderIdentity(o) \in shared THEN acc
                   ELSE [acc EXCEPT !.orders = AddLockOrder(acc.orders, [o EXCEPT !.boundBySpawn = TRUE])],
             st, instances)

\* What the spawned thread takes beside the caller's other runs is what these do not.
TakeOrders(st, f, object, mine, spawned, throughRecursion) ==
    SpawnedOrders(CallerOrders(st, f, mine, throughRecursion), object,
                  {LockOrderIdentity(o) : o \in {x \in ToSet(mine) : ~IsOpenLockOrder(x)}},
                  spawned)

\* One call site of the instantiation loop.
AtCallSite(u, sites, i, locks, summaries, tasks, st) ==
    LET site == sites[i]
        f == site.caller
        object == IF f \in DOMAIN u.binding THEN u.binding[f] ELSE NoObject
        apart == object.keptForLackOfProof \/ object.runByDirectCalls
        call(r, held, inRoot) ==
            [site |-> site, r |-> r, held |-> held, calleeEntry |-> locks.entry[site.callee],
             live |-> tasks.live[f][site.node], started |-> tasks.started[f][site.node],
             inRoot |-> inRoot, loc |-> u.body[f].loc[site.node]]
        calleeOrders == st.open[site.callee].orders \o st.atCalls[site.callee]
        at(c) == FlattenSeq([k \in DOMAIN calleeOrders |-> InstantiateAtCall(calleeOrders[k], c)])
        mine == IF apart /\ ~object.runByDirectCalls THEN <<>>
                ELSE at(call(Resolver(summaries, IF apart THEN NoObject ELSE object, "field"),
                             locks.atCall[i], f \in tasks.root))
        spawned == IF ~apart THEN <<>>
                   ELSE at(call(Resolver(summaries, object, "field"),
                                LocksOnSharedObject(locks.atCall[i], object), FALSE))
    IN IF site.callee \in u.standard THEN st
       ELSE TakeOrders(st, f, object, mine, spawned, ClosesCycle(Followed(u, sites), site))

\* The orders each function takes by itself, before any call is followed.
CollectOwnOrders(u, sites, locks, summaries, tasks) ==
    FoldInOrder(LAMBDA acc, f : OwnOrders(u, f, sites, locks, summaries, tasks, acc),
             [orders |-> <<>>, open |-> [f \in DOMAIN u.body |-> NoOpenOrders],
              atCalls |-> [f \in DOMAIN u.body |-> <<>>]],
             u.order)

\* What a round of the instantiation loop must leave alone to be the last.
OpenOrders(st) == [f \in DOMAIN st.open |-> st.open[f].orders]

\* Mutant: whichever type the attribute was given.
RecursiveLockIdsAnyType(u) ==
    LET ins == UNION {{u.body[f].ins[n] : n \in Nodes(u.body[f])} : f \in DOMAIN u.body}
    IN u.recursiveTypes
         \cup {i.args[1] : i \in {j \in ins : j.op = "mutexinit" /\ \E k \in ins :
                                              k.op = "settype" /\ k.to = j.to}}

(***************************************************************************)
(* collectRecursiveLockIds: a lock whose type lets its owner take it       *)
(* again, or a mutex initialised with an attribute that does.              *)
(***************************************************************************)
RecursiveLockIds(u) ==
    LET ins == UNION {{u.body[f].ins[n] : n \in Nodes(u.body[f])} : f \in DOMAIN u.body}
        r == Resolver(<<>>, NoObject, "none")
        recursiveAttributes == {i.to : i \in {j \in ins : j.op = "settype" /\ j.flag}}
    IN u.recursiveTypes
         \cup UNION {e.locks : e \in {d \in UNION {Resolve(r, i, u.recursiveTypes) : i \in ins} :
                                          d.recursive}}
         \cup {i.args[1] : i \in {j \in ins : /\ j.op = "mutexinit"
                                              /\ j.to \in recursiveAttributes}}
=============================================================================
