---------------------------- MODULE MemoryPlaces ----------------------------
(***************************************************************************)
(* ir_utils.cpp and facts.hpp: which object a pointer of the unit leads    *)
(* into, and where in it.                                                  *)
(*                                                                         *)
(* A pointer of the program is a base object (a global, a local, what a    *)
(* parameter points to), the indexing steps applied to it, and how they    *)
(* are: "path" on the base itself, "loaded" on a pointer read from the     *)
(* cell that `cell` leads to in the base, "phi" on a choice of pointers.   *)
(* A step "field" names a field of `size` bytes, "elem" an element of an   *)
(* array of `size` bytes, "arith" moves the pointer.  An index is a        *)
(* constant, an integer parameter, one plus a constant, or anything else.  *)
(***************************************************************************)
EXTENDS FactQueries, Sequences, SequencesExt

CONSTANT MaxOffset      \* the widest offset an int64_t holds

Step(kind, stride, size, ix) == [kind |-> kind, stride |-> stride, size |-> size, ix |-> ix]

Fits(n) == n \in (-MaxOffset)..MaxOffset

----------------------------------------------------------------------------
(***************************************************************************)
(* LinearIndex: off + scale * parameter, or off when par is 0.             *)
(***************************************************************************)
Linear(par, scale, off, widened) ==
    [some |-> TRUE, par |-> par, scale |-> scale, off |-> off, widened |-> widened]
NoIndex == [some |-> FALSE, par |-> 0, scale |-> 0, off |-> 0, widened |-> FALSE]

ResolveLinearIndex(ix) ==
    CASE ix.kind = "const" -> IF ix.k < 0 THEN NoIndex ELSE Linear(0, 0, ix.k, FALSE)
      [] ix.kind = "par" -> Linear(ix.par, 1, 0, FALSE)
      [] OTHER -> NoIndex

\* integerSourceParameter: the parameter an integer is computed from, 0 when there is none.
IntegerSourceParameter(ix) == IF ix.kind \in {"par", "sum"} THEN ix.par ELSE 0

SubstituteLinearIndex(outer, inner) ==
    LET shift == outer.scale * inner.off
    IN CASE outer.widened \/ inner.widened -> Linear(inner.par, 0, 0, TRUE)
         [] /\ ~outer.widened /\ ~inner.widened
            /\ Fits(outer.scale * inner.scale) /\ Fits(shift) /\ Fits(outer.off + shift)
            -> Linear(inner.par, outer.scale * inner.scale, outer.off + shift, FALSE)
         [] OTHER -> NoIndex

----------------------------------------------------------------------------
(***************************************************************************)
(* AccessPathWalk, from the last indexing step back to the base.           *)
(***************************************************************************)
StartOfWalk ==
    [known |-> TRUE, off |-> 0, settled |-> FALSE, size |-> 0, displacement |-> 0,
     index |-> Linear(0, 0, 0, FALSE)]

\* settleDesignatedSize: a pointer moved out of the object no longer designates it.
SettleDesignatedSize(walk, size) ==
    [walk EXCEPT !.settled = TRUE,
                 !.size = IF walk.displacement = 0 \/ walk.displacement \in 0..(size - 1)
                          THEN size ELSE 0]

ConstantMove(step) == IF step.ix.kind = "const" THEN step.ix.k * step.stride ELSE 0

\* noteDesignatedObject: the innermost step that names an object settles it.
NoteDesignatedObject(walk, step) ==
    LET moved == [walk EXCEPT !.displacement = @ + ConstantMove(step)]
    IN CASE walk.settled -> walk
         [] ~walk.settled /\ step.kind = "field" -> SettleDesignatedSize(walk, step.size)
         [] ~walk.settled /\ step.kind = "elem" -> SettleDesignatedSize(moved, step.size)
         [] OTHER -> moved

AccumulateGepOffset(walk, step) ==
    CASE ~walk.known -> walk
      [] walk.known /\ step.ix.kind = "const" -> [walk EXCEPT !.off = @ + ConstantMove(step)]
      [] OTHER -> [walk EXCEPT !.known = FALSE]

\* The index after the constant part of a step has moved it to `constant`.
IndexAfter(step, constant) ==
    CASE step.ix.kind = "const" -> constant
      [] step.ix.kind = "par" /\ constant.some /\ constant.par = 0 ->
            SubstituteLinearIndex(Linear(0, step.stride, constant.off, FALSE),
                                  ResolveLinearIndex(step.ix))
      [] OTHER -> NoIndex

\* accumulateGepIndex: the offset stays a function of one parameter, or is lost.
AccumulateGepIndex(walk, step) ==
    IF ~walk.index.some THEN walk
    ELSE [walk EXCEPT !.index =
             IndexAfter(step, SubstituteLinearIndex(Linear(0, 1, ConstantMove(step), FALSE), @))]

WalkStep(walk, step) ==
    AccumulateGepIndex(AccumulateGepOffset(NoteDesignatedObject(walk, step), step), step)

\* At the base: only one with a type settles the size.
SettleAtBase(walk, baseSize) ==
    IF walk.settled \/ baseSize = 0 THEN walk ELSE SettleDesignatedSize(walk, baseSize)

\* resolveCopiedValue.
WalkTo(steps, baseSize) ==
    SettleAtBase(FoldInOrder(WalkStep, StartOfWalk, Reverse(steps)), baseSize)

WalkedRegion(walk, size) == [Region(walk.off, size) EXCEPT !.known = walk.known]
DesignatedRegion(walk) == [Region(walk.off - walk.displacement, walk.size) EXCEPT !.known = walk.known]

----------------------------------------------------------------------------
(***************************************************************************)
(* RootBinding.  A symbol is a name, the kind of object it stands for and, *)
(* for an object behind a pointer, the offset of the cell it is read from. *)
(***************************************************************************)
Symbol(kind, name, off) == <<kind, name, off>>
NoSymbol == Symbol("", "", 0)

Root(kind, sym, arg, walk, size) ==
    [kind |-> kind, sym |-> sym, arg |-> arg, region |-> WalkedRegion(walk, size),
     designated |-> DesignatedRegion(walk),
     index |-> IF walk.index.some /\ walk.index.par # 0 THEN walk.index ELSE NoIndex]
NoRoot == Root("None", NoSymbol, 0, StartOfWalk, 0)

\* shouldTrackSharedGlobal: not constant, not thread-local, and defined somewhere in sight.
ShouldTrackSharedGlobal(u, name) == u.globals[name].tracked

ResolveTrackedRoot(u, p, size) ==
    CASE p.how = "path" /\ p.kind = "Argument" ->
            Root("Argument", NoSymbol, p.arg, WalkTo(p.steps, 0), size)
      [] p.how = "path" /\ p.kind = "Global" /\ ShouldTrackSharedGlobal(u, p.name) ->
            Root("Global", Symbol("Global", p.name, 0), 0,
                 WalkTo(p.steps, u.globals[p.name].size), size)
      [] OTHER -> NoRoot

----------------------------------------------------------------------------
(***************************************************************************)
(* followLocalPointerCopy: a pointer read back from a local variable is    *)
(* the one value stored in it, if the variable is used in no other way.  A *)
(* computed pointer is a value of its own wherever it is computed.         *)
(***************************************************************************)
UsesLocal(p, local) == p.kind = "Local" /\ p.name = local /\ p.how = "path"

ReadBack(p, local) == p.kind = "Local" /\ p.name = local /\ p.how = "loaded"

IsCopy(p) == ReadBack(p, p.name) /\ p.cell = <<>>

StoresInto(ins, local) ==
    ins.op \in {"store", "keep"} /\ UsesLocal(ins.ptr, local) /\ ins.ptr.steps = <<>>

PointersOf(ins) == {ins.ptr, ins.src} \cup {ins.args[j].ptr : j \in DOMAIN ins.args}

\* The local is more than the place of a store, the value of one, or what a load reads.
UsedOtherwise(ins, local) ==
    \/ /\ UsesLocal(ins.ptr, local)
       /\ ins.op \notin {"store", "keep", "load"} \/ ins.ptr.steps # <<>>
    \/ UsesLocal(ins.src, local) /\ (ins.op # "keep" \/ ins.src.steps # <<>>)
    \/ \E j \in DOMAIN ins.args : UsesLocal(ins.args[j].ptr, local)
    \/ \E p \in PointersOf(ins) : ReadBack(p, local) /\ p.cell # <<>>

ValueStored(body, n) ==
    <<IF body[n].src.how = "path" /\ body[n].src.steps = <<>> THEN 0 ELSE n, body[n].src>>

RECURSIVE FollowLocalPointerCopy(_, _, _)
FollowLocalPointerCopy(body, p, seen) ==
    LET values == {ValueStored(body, n) : n \in {m \in DOMAIN body : StoresInto(body[m], p.name)}}
        stored == (CHOOSE v \in values : TRUE)[2]
    IN IF \/ ~IsCopy(p) \/ p.name \in seen \/ Cardinality(values) # 1
          \/ \E n \in DOMAIN body : \/ UsedOtherwise(body[n], p.name)
                                    \/ UsesLocal(body[n].src, p.name)
       THEN p
       ELSE FollowLocalPointerCopy(body, [stored EXCEPT !.steps = @ \o p.steps],
                                   seen \cup {p.name})

Copied(u, f, p) == FollowLocalPointerCopy(u.body[f].ins, p, {})

----------------------------------------------------------------------------
\* resolveLocalStorageRoot: a local named by its storage; its index is not kept.
ResolveLocalStorageRoot(u, p, size) ==
    IF p.how # "path" \/ p.kind # "Local" THEN NoRoot
    ELSE [Root("Global", Symbol("Local", p.name, 0), 0, WalkTo(p.steps, u.locals[p.name]), size)
             EXCEPT !.index = NoIndex]

ResolveLocalObjectRoot(u, p, size, localObjects) ==
    IF p.how = "path" /\ Symbol("Local", p.name, 0) \in localObjects
    THEN ResolveLocalStorageRoot(u, p, size) ELSE NoRoot

\* canonicalStorageGroupId of the variable a pointer is read from.
SlotSymbol(p) == Symbol("BehindPointer", p.name, WalkTo(p.cell, 0).off)

\* resolveSharedObjectRoot: an object named by the variable its pointer is read from.
ResolveSharedObjectRoot(p, size, sharedObjects) ==
    IF p.how = "loaded" /\ p.kind # "Argument" /\ SlotSymbol(p) \in sharedObjects
    THEN [Root("Global", SlotSymbol(p), 0, WalkTo(p.steps, 0), size) EXCEPT !.index = NoIndex]
    ELSE NoRoot
=============================================================================
