-------------------------- MODULE LockOrderAnalyzer --------------------------
(***************************************************************************)
(* lock_order_analyzer.cpp: the deadlock rule, over the lock orders of the *)
(* facts (q.orders, a sequence) and the locks their owner may take again   *)
(* (q.recursiveLocks).                                                     *)
(***************************************************************************)
EXTENDS FactQueries, Naturals, Sequences, SequencesExt

CONSTANT MaxOrdersExamined     \* kMaxOrdersExaminedPerLock

ParticipatesInConcurrency(q, o) == o.fn \in DOMAIN q.reach \/ o.root

CycleLocks(cycle) == UNION {{o.first, o.second} : o \in ToSet(cycle)}

\* hasCommonGateLock: a lock outside the cycle held at each of its acquisitions.
HasCommonGateLock(cycle) ==
    \E l \in cycle[1].held \ CycleLocks(cycle) : \A i \in DOMAIN cycle : l \in cycle[i].held

IsAddressOrdered(cycle) == \A i \in DOMAIN cycle : cycle[i].lowerAddressFirst

CycleKey(cycle) == {<<o.first, o.second>> : o \in ToSet(cycle)}

MayHappenInParallelWithEach(q, o, taken) ==
    \A i \in DOMAIN taken : MayHappenInParallel(q, taken[i], o)

----------------------------------------------------------------------------
(***************************************************************************)
(* buildLockGraph.  Locks are numbered in the order a depth-first walk     *)
(* first reaches them; graph.next[l] is the sequence of the orders from l, *)
(* those to one lock together, otherwise in the order of collection.       *)
(***************************************************************************)
OrdersFrom(edges, lock) == SelectSeq(edges, LAMBDA o : o.first = lock)

RECURSIVE Number(_, _, _)
Number(edges, numbers, lock) ==
    IF lock \in ToSet(numbers) THEN numbers
    ELSE FoldInOrder(LAMBDA acc, o : Number(edges, acc, o.second), Append(numbers, lock),
                  OrdersFrom(edges, lock))

GroupedByTarget(orders) ==
    LET targets == FoldInOrder(LAMBDA acc, o : IF o.second \in ToSet(acc) THEN acc
                                            ELSE Append(acc, o.second), <<>>, orders)
    IN FlattenSeq([i \in DOMAIN targets |->
                      SelectSeq(orders, LAMBDA o : o.second = targets[i])])

BuildLockGraph(edges) ==
    LET locks == FoldSet(LAMBDA l, acc : Number(edges, acc, l), <<>>,
                         {o.first : o \in ToSet(edges)})
    IN [locks |-> locks,
        next |-> [l \in ToSet(locks) |-> GroupedByTarget(OrdersFrom(edges, l))]]

\* leadsToStart: the locks numbered after the k-th that lead back to it through such locks.
RECURSIVE LeadsTo(_, _, _)
LeadsTo(graph, allowed, reached) ==
    LET more == {l \in allowed \ reached :
                    \E i \in DOMAIN graph.next[l] : graph.next[l][i].second \in reached}
    IN IF more = {} THEN reached ELSE LeadsTo(graph, allowed, reached \cup more)

\* Mutant: the first lock numbered after the start is taken for part of it.
LeadsToStartOffByOne(graph, k) ==
    LeadsTo(graph, {graph.locks[j] : j \in (k + 2)..Len(graph.locks)}, {graph.locks[k]})
        \ {graph.locks[k]}

LeadsToStart(graph, k) ==
    LeadsTo(graph, {graph.locks[j] : j \in (k + 1)..Len(graph.locks)}, {graph.locks[k]})
        \ {graph.locks[k]}

----------------------------------------------------------------------------
(***************************************************************************)
(* reportDeadlockingCycles.  st.emitted holds the cycles reported so far,  *)
(* st.addressOrdered the first address-ordered choice of each other cycle; *)
(* st.within is false once the walk from a lock used up its share.         *)
(***************************************************************************)
EmitOnce(cycles, cycle) ==
    IF \E c \in cycles : CycleKey(c) = CycleKey(cycle) THEN cycles ELSE cycles \cup {cycle}

CloseCycle(st, path) ==
    CASE HasCommonGateLock(path) -> st
      [] ~HasCommonGateLock(path) /\ ~IsAddressOrdered(path) ->
            [st EXCEPT !.emitted = EmitOnce(@, path)]
      [] OTHER -> [st EXCEPT !.addressOrdered = EmitOnce(@, path)]

RECURSIVE Walk(_, _, _, _, _, _, _)
Walk(q, graph, start, leads, lock, path, st) ==
    LET onPath == {path[i].second : i \in DOMAIN path}
        step(acc, o) ==
            IF ~acc.within \/ (o.second # start /\ (o.second \notin leads \/ o.second \in onPath))
            THEN acc
            ELSE IF acc.examined = MaxOrdersExamined THEN [acc EXCEPT !.within = FALSE]
            ELSE LET more == [acc EXCEPT !.examined = @ + 1]
                 IN IF ~MayHappenInParallelWithEach(q, o, path) THEN more
                    ELSE IF o.second = start THEN CloseCycle(more, Append(path, o))
                    ELSE Walk(q, graph, start, leads, o.second, Append(path, o), more)
    IN FoldInOrder(step, st, graph.next[lock])

WalkFrom(q, graph, k, st) ==
    LET walked == Walk(q, graph, graph.locks[k], LeadsToStart(graph, k), graph.locks[k], <<>>,
                       [st EXCEPT !.examined = 0, !.within = TRUE])
    IN [walked EXCEPT !.complete = @ /\ walked.within]

ReportDeadlockingCycles(q, graph) ==
    LET found == FoldInOrder(LAMBDA acc, k : WalkFrom(q, graph, k, acc),
                          [emitted |-> {}, addressOrdered |-> {}, examined |-> 0,
                           within |-> TRUE, complete |-> TRUE],
                          [k \in DOMAIN graph.locks |-> k])
        all == IF found.complete THEN found.emitted
               ELSE FoldSet(LAMBDA c, acc : EmitOnce(acc, c), found.emitted, found.addressOrdered)
    IN [cycles |-> all, complete |-> found.complete]

\* LockOrderAnalyzer::run: reacquisitions, cycles, and whether the search was complete.
DeadlockEdges(q) ==
    SelectSeq(q.orders, LAMBDA o : o.first # o.second /\ ParticipatesInConcurrency(q, o))

RunLockOrderAnalyzer(q) ==
    LET found == ReportDeadlockingCycles(q, BuildLockGraph(DeadlockEdges(q)))
    IN [reacquired |-> {o.second : o \in {x \in ToSet(q.orders) :
                            x.first = x.second /\ x.second \notin q.recursiveLocks}},
        cycles |-> {CycleKey(c) : c \in found.cycles},
        complete |-> found.complete]
=============================================================================
