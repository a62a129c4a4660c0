----------------------------- MODULE AccessFacts -----------------------------
(***************************************************************************)
(* shared_access_collector.cpp and the access pipeline of                  *)
(* tu_facts_builder.cpp: what a unit accesses, in whichever function its   *)
(* object can be named.                                                    *)
(*                                                                         *)
(* An instruction has in `held` the locks its own function holds around    *)
(* it, all of them global.  Where no root resolves, the code asks LLVM's   *)
(* alias analysis; the units have several globals such a pointer may lead  *)
(* to, an answer the code leaves unused.                                   *)
(***************************************************************************)
EXTENDS ParameterFootprints, SharedObjectBindings, DataRaces, LockStates

----------------------------------------------------------------------------
(***************************************************************************)
(* SharedAccessCollector.  scope has the local and the pointed-to objects  *)
(* handed to threads, and the footprints of the unit's parameters.         *)
(***************************************************************************)
OrElse(root, other) == IF root.kind # "None" THEN root ELSE other

ResolveObjectRoot(u, scope, f, p, size) ==
    LET q == Copied(u, f, p)
    IN OrElse(ResolveTrackedRoot(u, q, size), ResolveLocalObjectRoot(u, q, size, scope.locals))

Pending(f, n, root, kind) ==
    [fn |-> f, node |-> n, root |-> root, kind |-> kind, atomic |-> FALSE, coarse |-> FALSE,
     restates |-> FALSE]

\* appendAccess: an access of unknown extent may reach all the pointer designates.
MemoryIntrinsicAccess(f, n, root, kind, size) ==
    IF root.kind = "None" THEN <<>>
    ELSE <<Pending(f, n, IF size = 0 THEN [root EXCEPT !.region = root.designated] ELSE root, kind)>>

InstructionAccess(f, n, ins, root) ==
    IF root.kind = "None" THEN <<>>
    ELSE <<[Pending(f, n, root, KindOf(ins)) EXCEPT !.atomic = ins.atomic]>>

----------------------------------------------------------------------------
(***************************************************************************)
(* appendCallMemoryEffectAccesses: what a call may do to the objects its   *)
(* arguments designate.  What no access of the callee shows comes first.   *)
(***************************************************************************)
\* callEffectKey: the place, without its extent.
PlaceKey(region) == IF region.known THEN <<"at", region.off>> ELSE <<region.owner, 0>>
CallEffectKey(e) == <<e.root.kind, e.root.sym, e.root.arg, PlaceKey(e.root.region), e.kind, e.atomic>>

CallEffect(f, n, root, region, kind, atomic, restates) ==
    [Pending(f, n, [root EXCEPT !.region = region, !.index = NoIndex], kind) EXCEPT
        !.atomic = atomic, !.coarse = TRUE, !.restates = restates]

AppendEffect(effects, e) ==
    IF \E i \in DOMAIN effects : CallEffectKey(effects[i]) = CallEffectKey(e) THEN effects
    ELSE Append(effects, e)

AppendExtent(effects, f, n, root, extent, restates) ==
    LET placed(r) == RebasedOn(Region(r.begin, r.end - r.begin), root.region, root.designated)
        ranges(acc, kind) ==
            FoldSet(LAMBDA r, es : AppendEffect(es, CallEffect(f, n, root, placed(r), kind, r.atomic,
                                                           restates)),
                    acc, extent.ranges[kind])
        add(acc, kind) ==
            IF kind \in extent.whole
            THEN AppendEffect(acc, CallEffect(f, n, root, root.designated, kind, FALSE, restates))
            ELSE ranges(acc, kind)
    IN add(add(effects, "Read"), "Write")

ArgumentEffects(scope, effects, f, n, ins, j, root) ==
    LET fp == scope.footprints[<<ins.to, j>>]
    IN CASE root.kind = "None" -> effects
         [] root.kind # "None" /\ ins.op = "extern" ->
                IF ins.declared = "None" THEN effects
                ELSE AppendEffect(effects, CallEffect(f, n, root, root.designated, ins.declared, FALSE,
                                                  FALSE))
         [] OTHER -> AppendExtent(AppendExtent(effects, f, n, root, fp.unshown, FALSE),
                                  f, n, root, fp.all, TRUE)

CallEffects(u, scope, f, n, ins) ==
    FoldInOrder(LAMBDA acc, j : ArgumentEffects(scope, acc, f, n, ins, j,
                                    ResolveObjectRoot(u, scope, f, ins.args[j].ptr, 0)), <<>>,
                [j \in DOMAIN ins.args |-> j])

AccessesAt(u, scope, f, n) ==
    LET ins == u.body[f].ins[n]
        through(p, kind) == MemoryIntrinsicAccess(f, n, ResolveObjectRoot(u, scope, f, p, ins.size),
                                                  kind, ins.size)
    IN CASE ins.op = "memset" -> through(ins.ptr, "Write")
         [] ins.op = "memcpy" -> through(ins.ptr, "Write") \o through(ins.src, "Read")
         [] ins.op \in {"call", "extern"} -> CallEffects(u, scope, f, n, ins)
         [] ins.op \in {"load", "store", "keep", "rmw", "cmpxchg"} ->
                InstructionAccess(f, n, ins,
                    OrElse(ResolveObjectRoot(u, scope, f, ins.ptr, ins.size),
                           ResolveSharedObjectRoot(ins.ptr, ins.size, scope.behind)))
         [] OTHER -> <<>>

CollectAccesses(u, scope) ==
    FlattenSeq([i \in DOMAIN u.order |->
        FlattenSeq([n \in Nodes(u.body[u.order[i]]) |-> AccessesAt(u, scope, u.order[i], n)])])

----------------------------------------------------------------------------
(***************************************************************************)
(* Facts merge by key: the threads of each are kept.  Whether an access is *)
(* of a shared object follows from its symbol.                             *)
(***************************************************************************)
AccessFactKey(a) ==
    <<a.symbol, RegionIdentity(a.region), a.fn, a.write, a.atomic, a.alias, a.lowered, a.coarse,
      a.guessed, a.root, a.instanceOwner, a.held, a.beforeRelease, a.afterAcquire>>

RootBindingKey(root) ==
    <<IF root.kind = "Global" THEN root.sym ELSE Symbol("Argument", "", root.arg),
      RegionIdentity(root.region), root.index>>

MergeThreads(into, from) ==
    [into EXCEPT !.live = @ \cup from.live, !.started = @ \cup from.started]

\* addConcreteAccess, addParameterizedAccess: an entry has the fact, and its root or whether
\* it may be projected to a call site.
AddConcreteAccess(accesses, c) ==
    LET same == {i \in DOMAIN accesses : AccessFactKey(accesses[i].fact) = AccessFactKey(c.fact)}
    IN IF same = {} THEN Append(accesses, c)
       ELSE [accesses EXCEPT ![CHOOSE i \in same : TRUE].fact =
                MergeThreads(accesses[CHOOSE i \in same : TRUE].fact, c.fact)]

AddParameterizedAccess(summary, p) ==
    LET same == {i \in DOMAIN summary : /\ RootBindingKey(summary[i].root) = RootBindingKey(p.root)
                                        /\ AccessFactKey(summary[i].fact) = AccessFactKey(p.fact)}
    IN IF same = {} THEN Append(summary, p)
       ELSE [summary EXCEPT ![CHOOSE i \in same : TRUE].fact =
                MergeThreads(summary[CHOOSE i \in same : TRUE].fact, p.fact)]

\* addSummary: a global's access waiting on an index stays unplaced where no call gives one.
AddSummary(st, f, p) ==
    IF p.root.kind # "Global" \/ f \in st.called \ DOMAIN st.entries
    THEN [st EXCEPT !.summary[f] = AddParameterizedAccess(st.summary[f], p)]
    ELSE [st EXCEPT !.concrete = AddConcreteAccess(st.concrete,
              [fact |-> [p.fact EXCEPT !.symbol = p.root.sym], project |-> FALSE])]

\* One access of the collector: a fact of its function, or of the calls to it.
AddPending(u, st, p) ==
    LET at == <<u.file[p.fn], p.fn, p.node>>
        fact == [Access(NoSymbol, p.root.region, p.fn, p.kind = "Write") EXCEPT
                    !.lowered = at, !.user = at, !.atomic = p.atomic, !.coarse = p.coarse,
                    !.root = p.fn \in st.root, !.live = IF p.fn \in st.root THEN DOMAIN st.entries ELSE {},
                    !.held = u.body[p.fn].ins[p.node].held \cup st.entryLocks[p.fn]]
    IN IF p.restates THEN st
       ELSE IF p.root.kind = "Global" /\ ~p.root.index.some
       THEN [st EXCEPT !.concrete = AddConcreteAccess(st.concrete,
                 [fact |-> [fact EXCEPT !.symbol = p.root.sym], project |-> FALSE])]
       ELSE AddSummary(st, p.fn, [root |-> p.root, fact |-> fact])

----------------------------------------------------------------------------
(***************************************************************************)
(* buildDirectCallBindings.                                                *)
(***************************************************************************)
\* sharedObjectArgument: only a pointer read out of the slot is the object.
SharedObjectArgument(p, behind) ==
    IF p.how = "loaded" /\ p.kind # "Argument" /\ p.steps = <<>> /\ SlotSymbol(p) \in behind
    THEN [Root("Global", SlotSymbol(p), 0, StartOfWalk, 0) EXCEPT !.index = NoIndex]
    ELSE NoRoot

HandsOnParameter(index) == index.some /\ index.par # 0 /\ index.scale = 1 /\ index.off = 0

\* widenedIndexArgument: the place is lost, the wait for an integer parameter is not.
WidenedIndexArgument(u, caller, ix, position) ==
    LET source == IntegerSourceParameter(ix)
    IN CASE source # 0 -> Linear(source, 0, 0, TRUE)
         [] /\ source = 0 /\ position <= Len(u.params[caller])
            /\ u.params[caller][position] = "int" -> Linear(position, 0, 0, TRUE)
         [] OTHER -> NoIndex

IndexArgument(u, site, ix, position, closesCycle) ==
    LET index == ResolveLinearIndex(ix)
    IN IF closesCycle /\ ~HandsOnParameter(index)
       THEN WidenedIndexArgument(u, site.caller, ix, position) ELSE index

\* Mutant: a pointer moved around a cycle keeps its place.
PlaceAtCallMoving(root, closesCycle) == root

\* Around a cycle, where a pointer the call moves points is left unknown.
PlaceAtCall(root, closesCycle) ==
    LET moves == root.kind = "Argument" /\ (~root.region.known \/ root.region.off # 0)
    IN IF closesCycle /\ moves THEN [root EXCEPT !.region.known = FALSE] ELSE root

ArgumentBinding(u, scope, f, p, closesCycle) ==
    PlaceAtCall(OrElse(ResolveObjectRoot(u, scope, f, p, 0), SharedObjectArgument(p, scope.behind)),
                closesCycle)

CallWith(u, st, site, roots, index) ==
    [caller |-> site.caller, callee |-> site.callee,
     at |-> <<u.file[site.caller], site.caller, site.node>>,
     roots |-> [j \in {k \in DOMAIN roots : roots[k].kind # "None"} |-> roots[j]],
     index |-> [j \in {k \in DOMAIN index : index[k].some} |-> index[j]],
     passesInteger |-> index # <<>>,
     root |-> site.caller \in st.root,
     live |-> IF site.caller \in st.root THEN DOMAIN st.entries ELSE {}, started |-> {},
     held |-> u.body[site.caller].ins[site.node].held \cup st.entryLocks[site.caller]]

CallBinding(u, scope, st, site, closesCycle) ==
    CallWith(u, st, site,
        [j \in {k \in DOMAIN site.args : site.args[k].ptr.name # "none"} |->
            ArgumentBinding(u, scope, site.caller, site.args[j].ptr, closesCycle)],
        [j \in {k \in DOMAIN site.args : site.args[k].ix.kind # "none"} |->
            IndexArgument(u, site, site.args[j].ix, j, closesCycle)])

BuildDirectCallBindings(u, scope, st, sites) ==
    SelectSeq([i \in DOMAIN sites |->
                  CallBinding(u, scope, st, sites[i], ClosesCycle(sites, sites[i]))],
              LAMBDA c : c.roots # <<>> \/ c.passesInteger)

----------------------------------------------------------------------------
(***************************************************************************)
(* A callee's access as the caller sees it.                                *)
(***************************************************************************)
\* The index at the call: settled, waiting on the caller's parameter, or lost.
IndexAtCall(root, call) ==
    IF root.index.some /\ root.index.par \in DOMAIN call.index
    THEN SubstituteLinearIndex(root.index, call.index[root.index.par]) ELSE NoIndex

\* Mutant: the place in the parameter is taken for the place in the object the call passes.
RootAtCallUnmoved(p, call) ==
    CASE p.root.kind = "Global" -> p.root
      [] p.root.kind # "Global" /\ p.root.arg \notin DOMAIN call.roots -> NoRoot
      [] OTHER -> [call.roots[p.root.arg] EXCEPT !.region = p.fact.region, !.index = NoIndex]

PlacedAtCall(p, call, index) ==
    LET waits == index.some /\ index.par # 0
        place == IF index.some /\ ~waits /\ ~index.widened
                 THEN [p.fact.region EXCEPT !.known = TRUE, !.off = index.off] ELSE p.fact.region
        object == call.roots[p.root.arg]
    IN CASE p.root.kind = "Global" ->
                [p.root EXCEPT !.region = place, !.index = IF waits THEN index ELSE NoIndex]
         [] p.root.kind # "Global" /\ p.root.arg \notin DOMAIN call.roots -> NoRoot
         [] OTHER ->
                [object EXCEPT !.region = RebasedOn(place, object.region, object.designated),
                    !.index = IF waits /\ object.region.known
                              THEN SubstituteLinearIndex(Linear(0, 1, object.region.off, FALSE), index)
                              ELSE NoIndex]

RootAtCall(p, call) == PlacedAtCall(p, call, IndexAtCall(p.root, call))

\* shouldRemapAccessToCallsite: only an access of another file is moved to the call.
Remaps(fact, call) == fact.user[1] # call.at[1]

FactAtCall(fact, root, call) ==
    [fact EXCEPT !.fn = call.caller, !.region = root.region,
                 !.symbol = IF root.kind = "Global" /\ ~root.index.some THEN root.sym ELSE @,
                 !.held = @ \cup call.held, !.root = call.root,
                 !.live = LiveThroughCall(fact, call), !.started = StartedThroughCall(fact, call),
                 !.user = IF Remaps(fact, call) THEN call.at ELSE @]

AddInstance(st, p, call, root) ==
    LET fact == FactAtCall(p.fact, root, call)
    IN CASE root.kind = "None" -> st
         [] root.kind = "Global" /\ ~root.index.some ->
                [st EXCEPT !.concrete = AddConcreteAccess(st.concrete,
                     [fact |-> fact, project |-> ~Remaps(p.fact, call)])]
         [] OTHER -> AddSummary(st, call.caller, [root |-> root, fact |-> fact])

InstantiateAccess(st, p, call) == AddInstance(st, p, call, RootAtCall(p, call))

\* One round over the calls of the unit, each reading what the round has left so far.
SummaryRoundOver(st, calls) ==
    FoldInOrder(LAMBDA acc, call : FoldInOrder(LAMBDA a, p : InstantiateAccess(a, p, call), acc,
                                               acc.summary[call.callee]),
                st, calls)

----------------------------------------------------------------------------
(***************************************************************************)
(* The accesses of a thread entry to the object its spawns hand it.        *)
(***************************************************************************)
BindToSpawn(st, bindings, entry) ==
    LET object == bindings[entry].object
        bound(p) == [p.fact EXCEPT !.symbol = object.sym,
                        !.region = RebasedOn(p.root.region, object.region, object.designated),
                        !.root = FALSE, !.boundBySpawn = TRUE]
        add(acc, p) == IF p.root.kind # "Argument" \/ p.root.arg # 1 THEN acc
                       ELSE [acc EXCEPT !.concrete = AddConcreteAccess(acc.concrete,
                                 [fact |-> bound(p), project |-> TRUE])]
    IN FoldInOrder(add, st, st.summary[entry])

BindToSpawns(u, st, bindings) ==
    FoldInOrder(LAMBDA acc, f : IF f \in DOMAIN bindings THEN BindToSpawn(acc, bindings, f) ELSE acc,
                st, u.order)

----------------------------------------------------------------------------
(***************************************************************************)
(* Projection of the named accesses to the calls above them.               *)
(***************************************************************************)
HasDistinctUserLocation(fact) == fact.user # fact.lowered

ShouldProject(c, call) ==
    /\ c.project
    /\ \/ c.fact.user[1] # call.at[1]
       \/ ~HasDistinctUserLocation(c.fact) /\ c.fact.user # call.at

ProjectedTo(c, call) ==
    [fact |-> [c.fact EXCEPT !.fn = call.caller, !.held = @ \cup call.held, !.root = call.root,
                   !.instanceOwner = "", !.live = LiveThroughCall(c.fact, call),
                   !.started = StartedThroughCall(c.fact, call), !.user = call.at],
     project |-> c.project /\ call.at[1] = c.fact.lowered[1]]

ProjectionRound(st, calls) ==
    LET known == st.concrete
        project(acc, call) ==
            FoldInOrder(LAMBDA a, c : IF c.fact.fn = call.callee /\ ShouldProject(c, call)
                                      THEN [a EXCEPT !.concrete =
                                                AddConcreteAccess(a.concrete, ProjectedTo(c, call))]
                                      ELSE a,
                        acc, known)
    IN FoldInOrder(project, st, SelectSeq(calls, LAMBDA c : c.roots # <<>>))

ProjectedAccessPreferenceKey(a) ==
    <<a.symbol, RegionIdentity(a.region), a.write, a.lowered, a.alias, a.held>>

\* filterProjectedConcreteAccesses: a copy shown at a call replaces the access itself.
FilterProjectedConcreteAccesses(accesses) ==
    LET projected == {ProjectedAccessPreferenceKey(a) :
                         a \in {b \in ToSet(accesses) : HasDistinctUserLocation(b)}}
    IN SelectSeq(accesses, LAMBDA a : \/ HasDistinctUserLocation(a)
                                      \/ ProjectedAccessPreferenceKey(a) \notin projected)
=============================================================================
