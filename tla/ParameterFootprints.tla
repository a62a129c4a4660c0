------------------------- MODULE ParameterFootprints -------------------------
(***************************************************************************)
(* parameter_footprints.cpp: what a function may do to the object one of   *)
(* its pointer parameters designates, following the calls it makes.        *)
(*                                                                         *)
(* An instruction has the pointer it goes through in ptr; in src the       *)
(* source of a memcpy, the pointer a "keep" stores or the object a "spawn" *)
(* hands over, whose handle is at ptr; in args what a "call" of a function *)
(* of the unit or an "extern" call passes, each argument a pointer, an     *)
(* index or a function as the parameter is one.                            *)
(***************************************************************************)
EXTENDS MemoryPlaces, UnitIR, FiniteSets, FiniteSetsExt

CONSTANT MaxRanges      \* kMaxRangesPerKind

Kinds == {"Read", "Write"}

Range1(begin, end, atomic) == [begin |-> begin, end |-> end, atomic |-> atomic]

NoExtent == [ranges |-> [k \in Kinds |-> {}], whole |-> {}]
NoFootprint == [all |-> NoExtent, unshown |-> NoExtent]

\* escape(): anything, anywhere in the object.
Escape(fp) == [part \in DOMAIN fp |-> [fp[part] EXCEPT !.whole = Kinds]]
WholeObject == Escape(NoFootprint)

Touches(extent, kind) == kind \in extent.whole \/ extent.ranges[kind] # {}

AddRanges(extent, kind, ranges) == [extent EXCEPT !.ranges[kind] = @ \cup ranges]
TouchWhole(extent, kind) == [extent EXCEPT !.whole = @ \cup {kind}]

SpanOf(ranges) ==
    Range1(Min({r.begin : r \in ranges}), Max({r.end : r \in ranges}), \A r \in ranges : r.atomic)

\* mergeRanges: overlapping ranges become one, too many become their span.
MergeRanges(ranges) ==
    LET absorb(r, merged) ==
            LET met == {m \in merged : m.begin < r.end /\ r.begin < m.end}
            IN (merged \ met) \cup {SpanOf(met \cup {r})}
        merged == FoldSet(absorb, {}, ranges)
    IN IF Cardinality(merged) > MaxRanges THEN {SpanOf(merged)} ELSE merged

Finish(fp) ==
    [part \in DOMAIN fp |->
        [fp[part] EXCEPT !.ranges = [k \in Kinds |-> MergeRanges(fp[part].ranges[k])]]]

----------------------------------------------------------------------------
(***************************************************************************)
(* FootprintBuilder.  rootInObject: the place of a pointer relative to     *)
(* parameter i; none for a pointer that is only reached from the object.   *)
(***************************************************************************)
OnParameter(p, i) == p.kind = "Argument" /\ p.arg = i

RootInObject(u, f, p, i, size) ==
    LET q == Copied(u, f, p) IN IF OnParameter(q, i) THEN ResolveTrackedRoot(u, q, size) ELSE NoRoot

\* forwardThroughLocalVariable: the variable carries the pointer on to where it is read.
ForwardsThrough(body, local) == \A n \in DOMAIN body : ~UsedOtherwise(body[n], local)

\* The local variables of f a pointer on parameter i comes to lie in.
Carriers(u, f, i) ==
    LET body == u.body[f].ins
        kept(p) == {body[n].ptr.name : n \in {m \in DOMAIN body :
                       /\ body[m].op = "keep" /\ StoresInto(body[m], body[m].ptr.name)
                       /\ body[m].src = p /\ ForwardsThrough(body, body[m].ptr.name)}}
        sources == {body[n].src : n \in DOMAIN body}
    IN ReachableBy(UNION {{p.name} \X kept(p) : p \in {q \in sources : IsCopy(q)}},
                   UNION {kept(p) : p \in {q \in sources : OnParameter(q, i)}})

LeadsFrom(u, f, p, i) == OnParameter(p, i) \/ (IsCopy(p) /\ p.name \in Carriers(u, f, i))

Placed(region) == region.known /\ region.size # 0

RangeOf(region, atomic) == Range1(region.off, region.off + region.size, atomic)

TouchAt(fp, root, kind, size, atomic) ==
    LET place == IF size # 0 THEN root.region ELSE root.designated
        placedAtCalls == root.kind # "None" /\ root.index.some
        all == TouchWhole(fp.all, kind)
    IN IF root.kind # "None" /\ Placed(place)
       THEN [fp EXCEPT !.all = AddRanges(fp.all, kind, {RangeOf(place, atomic)})]
       ELSE [all |-> all,
             unshown |-> IF placedAtCalls THEN fp.unshown ELSE TouchWhole(fp.unshown, kind)]

TouchOwnAccess(u, f, fp, i, p, kind, size, atomic) ==
    TouchAt(fp, RootInObject(u, f, p, i, size), kind, size, atomic)

TouchDesignated(fp, root, kind) ==
    [fp EXCEPT !.all = IF Placed(root.designated)
                       THEN AddRanges(fp.all, kind, {RangeOf(root.designated, FALSE)})
                       ELSE TouchWhole(fp.all, kind)]

TouchThreadHandle(fp, root) ==
    [part \in DOMAIN fp |->
        IF root.kind # "None" /\ Placed(root.designated)
        THEN AddRanges(fp[part], "Write", {RangeOf(root.designated, FALSE)})
        ELSE TouchWhole(fp[part], "Write")]

\* Mutant: the callee's bytes are taken as the bytes of the caller's parameter.
TouchThroughCalleeUnmoved(fp, root, callee) ==
    LET add(acc, kind) ==
            LET ranged == AddRanges(acc.all, kind, callee.all.ranges[kind])
            IN IF kind \in callee.all.whole THEN TouchDesignated([acc EXCEPT !.all = ranged], root, kind)
               ELSE [acc EXCEPT !.all = ranged]
    IN add(add(fp, "Read"), "Write")

TouchThroughCallee(fp, root, callee) ==
    LET shifted(kind) == {Range1(r.begin + root.region.off, r.end + root.region.off, r.atomic) :
                              r \in callee.all.ranges[kind]}
        unplaced(acc, kind) ==
            IF ~Touches(callee.all, kind) THEN acc
            ELSE [all |-> TouchWhole(acc.all, kind),
                  unshown |-> IF root.kind = "None" THEN TouchWhole(acc.unshown, kind)
                              ELSE acc.unshown]
        carried(acc, kind) ==
            LET ranged == [acc EXCEPT !.all = AddRanges(acc.all, kind, shifted(kind))]
            IN IF kind \in callee.all.whole THEN TouchDesignated(ranged, root, kind) ELSE ranged
        add(acc, kind) == IF root.kind = "None" \/ ~root.region.known THEN unplaced(acc, kind)
                          ELSE carried(acc, kind)
    IN add(add(fp, "Read"), "Write")

TouchThroughDeclaration(fp, root, kind) ==
    IF root.kind = "None" THEN [part \in DOMAIN fp |-> TouchWhole(fp[part], kind)]
    ELSE TouchDesignated(fp, root, kind)

----------------------------------------------------------------------------
(***************************************************************************)
(* ParameterFootprints::of and compute.  st.cache has the footprints known *)
(* so far, st.progress those being computed, st.out the last answer.       *)
(***************************************************************************)
KindOf(ins) == IF ins.op = "load" THEN "Read" ELSE "Write"

\* What the function does itself through the pointers of one instruction.
UsesOfPointer(u, f, fp, i, ins) ==
    CASE ~LeadsFrom(u, f, ins.ptr, i) -> fp
      [] LeadsFrom(u, f, ins.ptr, i) /\ ins.op \in {"load", "store", "keep", "rmw", "cmpxchg",
                                                   "memset", "memcpy"} ->
            TouchOwnAccess(u, f, fp, i, ins.ptr, KindOf(ins), ins.size, ins.atomic)
      [] LeadsFrom(u, f, ins.ptr, i) /\ ins.op = "spawn" ->
            TouchThreadHandle(fp, RootInObject(u, f, ins.ptr, i, 0))
      [] OTHER -> fp

StaysInVariable(u, f, ins) ==
    StoresInto(ins, ins.ptr.name) /\ ForwardsThrough(u.body[f].ins, ins.ptr.name)

UsesOfSource(u, f, fp, i, ins) ==
    CASE LeadsFrom(u, f, ins.src, i) /\ ins.op = "memcpy" ->
            TouchOwnAccess(u, f, fp, i, ins.src, "Read", ins.size, FALSE)
      [] LeadsFrom(u, f, ins.src, i) /\ ins.op = "keep" /\ ~StaysInVariable(u, f, ins) -> Escape(fp)
      [] OTHER -> fp

OwnUses(u, f, fp, i, ins) == UsesOfSource(u, f, UsesOfPointer(u, f, fp, i, ins), i, ins)

\* What a declaration lets a call without a body do through its arguments.
DeclaredUses(u, f, fp, i, ins) ==
    FoldInOrder(LAMBDA acc, a : IF LeadsFrom(u, f, a.ptr, i)
                                THEN TouchThroughDeclaration(acc, RootInObject(u, f, a.ptr, i, 0),
                                                             ins.declared)
                                ELSE acc,
                fp, IF ins.op = "extern" /\ ins.declared # "None" THEN ins.args ELSE <<>>)

HandedOn(u, f, i) ==
    FlattenSeq([n \in DOMAIN u.body[f].ins |->
        LET ins == u.body[f].ins[n]
            js == IF ins.op # "call" THEN <<>>
                  ELSE SelectSeq([j \in DOMAIN ins.args |-> j], LAMBDA j : LeadsFrom(u, f, ins.args[j].ptr, i))
        IN [k \in DOMAIN js |-> [to |-> ins.to, arg |-> js[k], ptr |-> ins.args[js[k]].ptr]]])

OwnFootprint(u, f, i) ==
    FoldInOrder(LAMBDA acc, ins : DeclaredUses(u, f, OwnUses(u, f, acc, i, ins), i, ins),
                NoFootprint, u.body[f].ins)

\* A computed footprint is kept in the cache and answered.
Answer(st, cache, key, out) ==
    [cache |-> [k \in DOMAIN cache \cup {key} |-> IF k = key THEN out ELSE cache[k]],
     progress |-> st.progress, fp |-> st.fp, out |-> out]

Computed(u, st, key, done) ==
    Answer(st, done.cache, key,
           IF u.params[key[1]][key[2]] = "ptr" THEN Finish(done.fp) ELSE NoFootprint)

RECURSIVE FootprintOf(_, _, _, _)
FootprintOf(u, st, f, i) ==
    LET key == <<f, i>>
        follow(acc, h) ==
            LET below == FootprintOf(u, acc, h.to, h.arg)
            IN [below EXCEPT !.fp = TouchThroughCallee(acc.fp, RootInObject(u, f, h.ptr, i, 0),
                                                       below.out)]
    IN IF key \in DOMAIN st.cache THEN [st EXCEPT !.out = st.cache[key]]
       ELSE IF key \in st.progress THEN [st EXCEPT !.out = WholeObject]
       ELSE Computed(u, st, key,
                FoldInOrder(follow, [st EXCEPT !.progress = @ \cup {key},
                                               !.fp = OwnFootprint(u, f, i)], HandedOn(u, f, i)))

NoFootprints == [cache |-> <<>>, progress |-> {}, fp |-> NoFootprint, out |-> NoFootprint]
=============================================================================
