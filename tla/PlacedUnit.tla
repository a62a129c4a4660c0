----------------------------- MODULE PlacedUnit -----------------------------
(***************************************************************************)
(* The access pipeline, from the instructions of a unit to the data race   *)
(* reports, against executions of that unit that pass pointers and indexes *)
(* down their calls and to their threads.                                  *)
(*                                                                         *)
(* A behaviour analyses a unit, round after round, and then lets its       *)
(* threads take their instructions in every interleaving.                  *)
(***************************************************************************)
EXTENDS AccessFacts

CONSTANTS
    Units,          \* the units analysed
    MaxDepth,       \* calls deeper than this are not taken
    MaxThreads,     \* threads of an execution, the initial one included
    MaxSettleRounds \* rounds the calls of a unit may take to settle

VARIABLES
    unit,           \* the unit
    report,         \* what the analysis has so far, and in the end says of it
    threads,        \* the call stack of each thread
    mem             \* the pointers in memory, by object and offset

vars == <<unit, report, threads, mem>>

----------------------------------------------------------------------------
(***************************************************************************)
(* The analysis.  As every thread may run beside every instruction of the  *)
(* initial thread, every entry is live there.                              *)
(***************************************************************************)
\* The footprints the collector asks for, in the order of the calls.
FootprintsAsked(u, sites, locals) ==
    LET asked(s, j) == ResolveObjectRoot(u, [locals |-> locals], s.caller, s.args[j].ptr, 0).kind # "None"
        all == FlattenSeq([i \in DOMAIN sites |->
                   SelectSeq([j \in DOMAIN sites[i].args |-> <<sites[i].callee, j>>],
                             LAMBDA q : asked(sites[i], q[2]))])
    IN FoldInOrder(LAMBDA st, q : FootprintOf(u, st, q[1], q[2]), NoFootprints, all).cache

BindThreads ==
    /\ report.stage = "bindings"
    /\ LET sites == CollectDirectCallSites(unit)
       IN report' = [stage |-> "footprints", round |-> 0, sites |-> sites,
                     bindings |-> CollectBindings(unit, sites, Spawns(unit))]

CollectFootprints ==
    /\ report.stage = "footprints"
    /\ LET locals == SharedObjectNames(report.bindings, "Local")
       IN report' = [stage |-> "accesses",
                     scope |-> [locals |-> locals,
                                behind |-> SharedObjectNames(report.bindings, "BehindPointer"),
                                footprints |-> FootprintsAsked(unit, report.sites, locals)]]
                    @@ report

\* Nothing is known of any access; the locks at each instruction are what its `held` says.
NoAccesses ==
    LET local == [f \in DOMAIN unit.body |-> [n \in Nodes(unit.body[f]) |-> unit.body[f].ins[n].held]]
    IN [summary |-> [f \in DOMAIN unit.body |-> <<>>], concrete |-> <<>>,
        called |-> {report.sites[i].callee : i \in DOMAIN report.sites}, entries |-> unit.entries,
        root |-> ReachableBy(CallEdges(report.sites), {"main"}),
        entryLocks |-> EntryLocks(unit, report.sites, local)]

AddAccesses ==
    /\ report.stage = "accesses"
    /\ report' = [stage |-> "calls", round |-> 0, scope |-> report.scope, bindings |-> report.bindings,
                  calls |-> BuildDirectCallBindings(unit, report.scope, NoAccesses, report.sites),
                  st |-> FoldInOrder(LAMBDA st, p : AddPending(unit, st, p), NoAccesses,
                                     CollectAccesses(unit, report.scope))]

\* One round of the summaries; the one that changes none is the last.
AfterRound(next) ==
    IF next.summary # report.st.summary THEN [report EXCEPT !.round = @ + 1, !.st = next]
    ELSE [report EXCEPT !.stage = "copies", !.round = 0,
                        !.st = BindToSpawns(unit, next, report.bindings)]

FollowCalls ==
    /\ report.stage = "calls"
    /\ report' = AfterRound(SummaryRoundOver(report.st, report.calls))

\* One round of the copies shown at call sites.
ProjectToCalls ==
    /\ report.stage = "copies"
    /\ LET next == ProjectionRound(report.st, report.calls)
       IN report' = IF next.concrete # report.st.concrete
                    THEN [report EXCEPT !.round = @ + 1, !.st = next]
                    ELSE [report EXCEPT !.stage = "rules"]

Facts(accesses) ==
    [reach |-> ReachableThreadEntries(unit),
     concurrency |-> [e \in DOMAIN unit.entries |-> unit.entries[e] >= 2],
     sequenced |-> {}, accesses |-> accesses]

RunRules ==
    /\ report.stage = "rules"
    /\ LET made == [i \in DOMAIN report.st.concrete |-> report.st.concrete[i].fact]
           q == Facts(FilterProjectedConcreteAccesses(made))
       IN report' = [stage |-> "done", round |-> 0, scope |-> report.scope,
                     bindings |-> report.bindings, q |-> q,
                     races |-> {d.key[1] : d \in RunDataRaceChecker(q)}]

Analysed == report.stage = "done"

----------------------------------------------------------------------------
(***************************************************************************)
(* Executions.  A pointer is an object and an offset in it; `via` has the  *)
(* parameters, by thread, depth and position, it was passed through.       *)
(***************************************************************************)
Object(kind, name, t, d) == <<kind, name, t, d>>
Pointer(object, off, via) == [object |-> object, off |-> off, via |-> via, num |-> 0, fn |-> "none"]
Null == Pointer(Object("none", "", 0, 0), 0, {})

Frame(f, args) == [fn |-> f, pc |-> 1, args |-> args]

FrameAt(t, d) == threads[t][d]
Depth(t) == Len(threads[t])
Top(t) == FrameAt(t, Depth(t))
InsAt(t, d) == unit.body[FrameAt(t, d).fn].ins[FrameAt(t, d).pc]
At(t) == InsAt(t, Depth(t))
Running(t) == threads[t] # <<>>

IndexValue(t, d, ix) ==
    CASE ix.kind \in {"const", "any"} -> ix.k
      [] ix.kind = "par" -> FrameAt(t, d).args[ix.par].num
      [] OTHER -> FrameAt(t, d).args[ix.par].num + ix.k

Moved(t, d, pointer, steps) ==
    FoldInOrder(LAMBDA v, s : [v EXCEPT !.off = @ + s.stride * IndexValue(t, d, s.ix)], pointer, steps)

BaseOf(t, d, p) ==
    CASE p.kind = "Global" -> Pointer(Object("Global", p.name, 0, 0), 0, {})
      [] p.kind = "Local" -> Pointer(Object("Local", p.name, t, d), 0, {})
      [] OTHER -> [FrameAt(t, d).args[p.arg] EXCEPT !.via = @ \cup {<<t, d, p.arg>>}]

Contents(pointer) ==
    LET cell == <<pointer.object, pointer.off>> IN IF cell \in DOMAIN mem THEN mem[cell] ELSE Null

PointerValue(t, d, p) ==
    LET base == BaseOf(t, d, p)
    IN IF p.how = "loaded" THEN Moved(t, d, Contents(Moved(t, d, base, p.cell)), p.steps)
       ELSE Moved(t, d, base, p.steps)

\* What a call passes: a pointer, an integer or a function.
ArgumentValue(t, a) ==
    CASE a.ptr.name # "none" -> PointerValue(t, Depth(t), a.ptr)
      [] a.ix.kind # "none" -> [Null EXCEPT !.num = IndexValue(t, Depth(t), a.ix)]
      [] OTHER -> [Null EXCEPT !.fn = IF a.fn.par = 0 THEN a.fn.fn ELSE Top(t).args[a.fn.par].fn]

\* The accesses the next instruction of a thread makes; a call without a body, and a memory
\* intrinsic of unknown length, touch the byte they are handed.
Touch(ptr, write, ins) ==
    [ptr |-> ptr, write |-> write, size |-> IF ins.size = 0 THEN 1 ELSE ins.size,
     atomic |-> ins.atomic, direct |-> ins.op \notin {"memset", "memcpy", "extern"}]

AccessesMade(t) ==
    LET ins == At(t)
    IN CASE ins.op \in {"load", "store", "keep", "rmw", "cmpxchg", "memset"} ->
                {Touch(ins.ptr, KindOf(ins) = "Write", ins)}
         [] ins.op = "memcpy" -> {Touch(ins.ptr, TRUE, ins), Touch(ins.src, FALSE, ins)}
         [] ins.op = "extern" /\ ins.declared # "None" ->
                {Touch(ins.args[j].ptr, ins.declared = "Write", ins) : j \in DOMAIN ins.args}
         [] OTHER -> {}

SizeOf(object) ==
    CASE object[1] = "Global" -> unit.globals[object[2]].size
      [] object[1] = "Local" -> unit.locals[object[2]]
      [] object[1] = "Heap" -> unit.heap[object[2]]
      [] OTHER -> 0

\* An access outside its object is undefined: nothing is claimed of it.
Accesses(t) ==
    {a \in AccessesMade(t) :
        LET v == PointerValue(t, Depth(t), a.ptr) IN v.off >= 0 /\ v.off + a.size <= SizeOf(v.object)}

HeldIn(stack) == UNION {unit.body[stack[d].fn].ins[stack[d].pc].held : d \in DOMAIN stack}

\* No two threads are inside sections of one lock.
Excluded(stacks) ==
    \A s, t \in DOMAIN stacks : s # t => HeldIn(stacks[s]) \cap HeldIn(stacks[t]) = {}

Advanced(stack) == [stack EXCEPT ![Len(stack)].pc = @ + 1]

MoveTo(t, stack) ==
    /\ threads' = [threads EXCEPT ![t] = stack]
    /\ Excluded(threads')

\* The pointers in memory after a store: the cell keeps the pointer stored, if it is one.
Stored(t, ins) ==
    LET to == PointerValue(t, Depth(t), ins.ptr)
        value == PointerValue(t, Depth(t), ins.src)
        kept == {c \in DOMAIN mem : ~(c[1] = to.object /\ c[2] \in to.off..(to.off + ins.size - 1))}
        cells == IF ins.op = "keep" THEN kept \cup {<<to.object, to.off>>} ELSE kept
    IN [c \in cells |-> IF ins.op = "keep" /\ c = <<to.object, to.off>> THEN value ELSE mem[c]]

Execute(t) ==
    /\ At(t).op \notin {"call", "spawn", "ret"}
    /\ MoveTo(t, Advanced(threads[t]))
    /\ mem' = IF At(t).op \in {"store", "keep", "memset", "memcpy"} THEN Stored(t, At(t)) ELSE mem

Skip(t) ==
    /\ At(t).maybe
    /\ MoveTo(t, Advanced(threads[t]))
    /\ UNCHANGED mem

Call(t) ==
    /\ At(t).op = "call" /\ Depth(t) < MaxDepth
    /\ MoveTo(t, Append(threads[t], Frame(At(t).to,
                    [j \in DOMAIN At(t).args |-> ArgumentValue(t, At(t).args[j])])))
    /\ UNCHANGED mem

\* A frame that returns takes its parameters out of what pointers were passed through.
Forget(pointer, t, d) == [pointer EXCEPT !.via = {v \in @ : ~(v[1] = t /\ v[2] = d)}]

Return(t) ==
    /\ At(t).op = "ret"
    /\ MoveTo(t, IF Depth(t) = 1 THEN <<>> ELSE Advanced(Front(threads[t])))
    /\ mem' = [c \in {b \in DOMAIN mem : ~(b[1][1] = "Local" /\ b[1][3] = t /\ b[1][4] = Depth(t))} |->
                  Forget(mem[c], t, Depth(t))]

Spawn(t) ==
    LET ins == At(t)
        entry == IF ins.entry.par = 0 THEN ins.entry.fn ELSE Top(t).args[ins.entry.par].fn
    IN /\ ins.op = "spawn" /\ Len(threads) < MaxThreads
       /\ threads' = Append([threads EXCEPT ![t] = Advanced(@)],
              <<Frame(entry, <<[PointerValue(t, Depth(t), ins.src) EXCEPT !.via = {}]>>)>>)
       /\ Excluded(threads')
       /\ UNCHANGED mem

Act(t) == Execute(t) \/ Skip(t) \/ Call(t) \/ Return(t) \/ Spawn(t)

Run ==
    /\ Analysed
    /\ \E t \in DOMAIN threads : Running(t) /\ Act(t)
    /\ UNCHANGED <<unit, report>>

Init ==
    /\ unit \in Units
    /\ report = [stage |-> "bindings", round |-> 0]
    /\ threads = <<<<Frame("main", <<>>)>>>>
    /\ mem = unit.mem

Next ==
    \/ /\ \/ BindThreads \/ CollectFootprints \/ AddAccesses
          \/ FollowCalls \/ ProjectToCalls \/ RunRules
       /\ UNCHANGED <<unit, threads, mem>>
    \/ Run

Spec == Init /\ [][Next]_vars

----------------------------------------------------------------------------
(***************************************************************************)
(* Properties.                                                             *)
(***************************************************************************)
\* The name the analysis can give what a pointer of frame d leads to: the chain of pointers
\* that brought it there starts at a global, or at an object a spawn proves its thread holds.
\* A pointer read out of a variable is named by the variable, where it is used as it was read.
RECURSIVE NameOf(_, _, _, _)
NameOf(t, d, pointer, direct) ==
    LET p == Copied(unit, FrameAt(t, d).fn, pointer)
        scope == report.scope
        e == threads[t][1].fn
    IN CASE p.how = "path" /\ p.kind = "Global" ->
                IF ShouldTrackSharedGlobal(unit, p.name) THEN Symbol("Global", p.name, 0) ELSE NoSymbol
         [] p.how = "path" /\ p.kind = "Local" ->
                IF Symbol("Local", p.name, 0) \in scope.locals THEN Symbol("Local", p.name, 0)
                ELSE NoSymbol
         [] p.how = "path" /\ p.kind = "Argument" /\ d > 1 ->
                NameOf(t, d - 1, InsAt(t, d - 1).args[p.arg].ptr, FALSE)
         [] p.how = "path" /\ p.kind = "Argument" /\ d = 1 ->
                IF e \in DOMAIN report.bindings /\ ~report.bindings[e].kept
                THEN report.bindings[e].object.sym ELSE NoSymbol
         [] /\ p.how = "loaded" /\ p.kind # "Argument" /\ (direct \/ p.steps = <<>>)
            /\ SlotSymbol(p) \in scope.behind -> SlotSymbol(p)
         [] OTHER -> NoSymbol

\* Where in the named object an access is.
OffsetOf(t, a) == PointerValue(t, Depth(t), a.ptr).off

Covers(region, off, size) ==
    \/ ~region.known
    \/ region.size = 0
    \/ region.off <= off /\ off + size <= region.off + region.size

InContextOf(t, fact) ==
    IF t = 1 THEN fact.root ELSE threads[t][1].fn \in EntriesFor(report.q, fact)

Shows(fact, t, a) ==
    /\ fact.symbol = NameOf(t, Depth(t), a.ptr, a.direct)
    /\ Covers(fact.region, OffsetOf(t, a), a.size)
    /\ fact.write = a.write /\ (fact.atomic => a.atomic)
    /\ fact.held \subseteq HeldIn(threads[t])
    /\ InContextOf(t, fact)

\* The calls carry every access to where its object has a name: an access of a running thread
\* through such a pointer is one of the facts, over the bytes it touches, in the context of
\* that thread and under no lock the thread does not hold.
AccessesKnown ==
    Analysed => \A t \in DOMAIN threads : Running(t) =>
        \A a \in Accesses(t) :
            NameOf(t, Depth(t), a.ptr, a.direct) # NoSymbol
                => \E i \in DOMAIN report.q.accesses : Shows(report.q.accesses[i], t, a)

\* Two threads at conflicting accesses to bytes of one object, both through pointers the
\* analysis can name and neither of them atomic: the data race rule reports the object.
PlacedRacesReported ==
    Analysed => \A s, t \in DOMAIN threads :
        s < t /\ Running(s) /\ Running(t) =>
            \A a \in Accesses(s), b \in Accesses(t) :
                LET va == PointerValue(s, Depth(s), a.ptr)
                    vb == PointerValue(t, Depth(t), b.ptr)
                    name == NameOf(s, Depth(s), a.ptr, a.direct)
                IN /\ a.write \/ b.write
                   /\ ~a.atomic /\ ~b.atomic
                   /\ va.object = vb.object
                   /\ va.off < vb.off + b.size /\ vb.off < va.off + a.size
                   /\ name # NoSymbol /\ name = NameOf(t, Depth(t), b.ptr, b.direct)
                   => name \in report.races

\* What a function does through a pointer it was passed, itself or in what it calls, lies in
\* the footprint of the parameter, wherever the pointer was kept meanwhile.
FootprintsCover ==
    Analysed => \A t \in DOMAIN threads : Running(t) =>
        \A a \in Accesses(t) :
            LET v == PointerValue(t, Depth(t), a.ptr)
                kind == IF a.write THEN "Write" ELSE "Read"
            IN \A p \in {q \in v.via : q[1] = t} :
                LET frame == FrameAt(t, p[2])
                    key == <<frame.fn, p[3]>>
                    off == v.off - frame.args[p[3]].off
                    extent == report.scope.footprints[key].all
                IN key \in DOMAIN report.scope.footprints =>
                    \/ kind \in extent.whole
                    \/ \E r \in extent.ranges[kind] :
                           r.begin <= off /\ off + a.size <= r.end /\ (r.atomic => a.atomic)

\* A thread whose entry is bound to an object, its identity proved, was handed that object, at
\* the place the binding has.
BoundThreadsHoldTheirObject ==
    Analysed => \A t \in DOMAIN threads \ {1} :
        Running(t) /\ threads[t][1].fn \in DOMAIN report.bindings =>
            LET binding == report.bindings[threads[t][1].fn]
                handed == threads[t][1].args[1]
                sym == binding.object.sym
            IN ~binding.kept =>
                /\ sym[1] \in {"Global", "Local"} => /\ handed.object[1] = sym[1]
                                                    /\ handed.object[2] = sym[2]
                /\ binding.object.region.known => handed.off = binding.object.region.off

\* The rounds over the calls end, however a recursion moves the pointers and indexes it
\* passes on.
SummariesSettle == report.round <= MaxSettleRounds
=============================================================================
