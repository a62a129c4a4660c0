----------------------------- MODULE LockStates -----------------------------
(***************************************************************************)
(* What an instruction does to the locks its function holds, and the locks *)
(* held at each instruction and across calls: synchronization_effects.cpp, *)
(* lock_effect_application.cpp, lock_wrapper_summaries.cpp,                *)
(* lock_scope_tracker.cpp and lock_state_propagator.cpp.                   *)
(*                                                                         *)
(* A lock id is <<root, offset>>: the object the lock lies in and the byte *)
(* it starts at, -1 for a place the code cannot tell (the suffix "[*]").   *)
(* The root is a global, a parameter ("%0", "%1": the code's "%argN"), the *)
(* marker CallerLocks, or "?" for an operand the code cannot name at all.  *)
(***************************************************************************)
EXTENDS UnitIR, Integers, TLC

CONSTANT MaxRounds      \* kMaxRounds of collectLockWrapperSummaries

Parameters == <<"%0", "%1">>

IsParameter(root) == root \in ToSet(Parameters)

\* kLocksHeldByCaller: stands, in a function, for every lock its caller holds.
CallerLocks == <<"%caller", 0>>

\* parameterLockPlace: the lock is named after a parameter.
NamesParameter(lock) == IsParameter(lock[1])

\* lockIdAt(object, place): the lock at `place` in the object a lock id names.
LockIdAt(object, place) ==
    <<object[1], IF object[2] = -1 \/ place = -1 THEN -1 ELSE object[2] + place>>

(***************************************************************************)
(* How a resolver names locks: the summaries of the wrappers it knows, the *)
(* object the function's thread was handed (NoObject when it ignores it),  *)
(* and whether it names a parameter's lock by its place ("field"), by the  *)
(* parameter alone ("parameter") or not at all ("none").                   *)
(***************************************************************************)
NoObject == [index |-> "", object |-> <<"?", 0>>, keptForLackOfProof |-> FALSE,
             runByDirectCalls |-> FALSE]

Resolver(summaries, object, naming) ==
    [summaries |-> summaries, object |-> object, naming |-> naming]

NoLock == <<"?", 0>>

\* SynchronizationEffectResolver::lockIdOf.
LockIdOf(r, operand) ==
    CASE ~IsParameter(operand[1]) -> operand
      [] IsParameter(operand[1]) /\ operand[1] = r.object.index ->
            LockIdAt(r.object.object, operand[2])
      [] IsParameter(operand[1]) /\ operand[1] # r.object.index /\ r.naming = "field" -> operand
      [] IsParameter(operand[1]) /\ operand[1] # r.object.index /\ r.naming = "parameter" ->
            <<operand[1], 0>>
      [] OTHER -> NoLock

Effect(kind, locks, guard, adopts, recursive) ==
    [kind |-> kind, locks |-> locks, guard |-> guard, adopts |-> adopts,
     recursive |-> recursive]

NamedLocks(r, operands) ==
    {l \in {LockIdOf(r, operands[i]) : i \in DOMAIN operands} : l # NoLock}

ArgumentIndex(parameter) == CHOOSE i \in DOMAIN Parameters : Parameters[i] = parameter

\* SynchronizationEffectResolver::summarizedEffects.
SummarizedEffects(r, ins, recursiveTypes) ==
    {Effect(IF e.acquires THEN "Acquire" ELSE "Release",
            {LockIdOf(r, ins.args[ArgumentIndex(e.parameter)])}, e.parameter, FALSE,
            e.recursive \/ ins.args[ArgumentIndex(e.parameter)] \in recursiveTypes) :
        e \in {s \in IF ins.to \in DOMAIN r.summaries THEN r.summaries[ins.to] ELSE {} :
                  /\ ArgumentIndex(s.parameter) <= Len(ins.args)
                  /\ LockIdOf(r, ins.args[ArgumentIndex(s.parameter)]) # NoLock}}

(***************************************************************************)
(* SynchronizationEffectResolver::resolve.  A deferred guard binds its     *)
(* mutex without locking it and has no effect; ins.flag says that a guard  *)
(* adopts locks already held.                                              *)
(***************************************************************************)
PlainKinds == [lock |-> "Acquire", trylock |-> "TryAcquire", unlock |-> "Release"]

Resolve(r, ins, recursiveTypes) ==
    LET named == NamedLocks(r, ins.args)
        recursive == \E i \in DOMAIN ins.args : ins.args[i] \in recursiveTypes
    IN CASE ins.op = "call" -> SummarizedEffects(r, ins, recursiveTypes)
         [] ins.op \in DOMAIN PlainKinds /\ named # {} ->
               {Effect(PlainKinds[ins.op], named, "", FALSE, recursive)}
         [] ins.op = "guard" /\ named # {} ->
               {Effect("GuardAcquire", named, ins.to, ins.flag, recursive)}
         [] ins.op = "unguard" -> {Effect("GuardRelease", {}, ins.to, FALSE, FALSE)}
         [] OTHER -> {}

(***************************************************************************)
(* collectFunctionLockEffects: the effects of each instruction, and every  *)
(* lock a guard is ever bound to.                                          *)
(***************************************************************************)
CollectFunctionLockEffects(u, f, r) ==
    LET b == u.body[f]
        at == [n \in Nodes(b) |-> Resolve(r, b.ins[n], u.recursiveTypes)]
    IN [at |-> at,
        bound |-> [g \in {b.ins[n].to : n \in {m \in Nodes(b) : b.ins[m].op = "unguard"}} |->
                      UNION {e.locks : e \in {d \in UNION {at[n] : n \in Nodes(b)} :
                                                 d.kind = "GuardAcquire" /\ d.guard = g}}]]

UnionOf(effects, kinds) == UNION {e.locks : e \in {d \in effects : d.kind \in kinds}}

\* lockStateChangeFor.
LockStateChangeFor(n, fx) ==
    [released |-> UnionOf(fx.at[n], {"Release"})
                    \cup UNION {fx.bound[e.guard] : e \in {d \in fx.at[n] : d.kind = "GuardRelease"}},
     acquired |-> UnionOf(fx.at[n], {"Acquire", "GuardAcquire", "TryAcquire"}),
     orderedAcquired |-> UnionOf({e \in fx.at[n] : ~e.adopts}, {"Acquire", "GuardAcquire"}),
     recursivelyAcquirable |-> UnionOf({e \in fx.at[n] : e.recursive},
                                       {"Acquire", "GuardAcquire", "TryAcquire"})]

\* Mutant: an effect on some path counts as the helper's effect.
NetEffectOnParameterAnyPath(b, p, fx) ==
    LET touching == {<<n, e>> \in UNION {{n} \X fx.at[n] : n \in Nodes(b)} :
                        <<p, 0>> \in e.locks}
    IN IF Cardinality(touching) # 1 THEN {}
       ELSE LET t == CHOOSE x \in touching : TRUE
            IN {[parameter |-> p, acquires |-> t[2].kind # "Release", recursive |-> t[2].recursive]}

(***************************************************************************)
(* netEffectOnParameter: the one effect a function has on the lock a       *)
(* parameter names, when it has exactly one and has it on every path out.  *)
(***************************************************************************)
NetEffectOnParameter(b, p, fx) ==
    LET touching == {<<n, e>> \in UNION {{n} \X fx.at[n] : n \in Nodes(b)} :
                        <<p, 0>> \in e.locks}
    IN IF Cardinality(touching) # 1 THEN {}
       ELSE LET t == CHOOSE x \in touching : TRUE
            IN IF \A n \in Returns(b) : Dominates(b, t[1], n)
               THEN {[parameter |-> p, acquires |-> t[2].kind # "Release",
                      recursive |-> t[2].recursive]}
               ELSE {}

NetEffects(b, pointers, fx) == UNION {NetEffectOnParameter(b, p, fx) : p \in pointers}

OnlyWrappers(found) == [f \in {g \in DOMAIN found : found[g] # {}} |-> found[f]]

\* One round of collectLockWrapperSummaries, read from the previous one.
SummaryRound(u, summaries) ==
    OnlyWrappers([f \in DOMAIN u.body |->
        NetEffects(u.body[f], u.pointers[f],
                   CollectFunctionLockEffects(u, f, Resolver(summaries, NoObject, "parameter")))])

RECURSIVE SummaryRounds(_, _, _)
SummaryRounds(u, summaries, round) ==
    IF round = MaxRounds THEN summaries
    ELSE LET discovered == SummaryRound(u, summaries)
         IN IF discovered = summaries THEN summaries
            ELSE SummaryRounds(u, discovered, round + 1)

CollectLockWrapperSummaries(u) == SummaryRounds(u, <<>>, 0)

----------------------------------------------------------------------------
(***************************************************************************)
(* One data-flow pass over a function.  flow.in and flow.out hold the      *)
(* states computed so far, a node without one being outside their domain.  *)
(* The pass visits the nodes in layout order and reads the states it has   *)
(* itself updated; flow.seen keeps, in the order of the visits, what was   *)
(* held at each acquisition that takes its place in an order.              *)
(***************************************************************************)
StatesBefore(b, n, out) == {out[p] : p \in {m \in DOMAIN out : n \in Succ(b, m)}}

\* meetPredecessorStates: what every predecessor that has a state agrees on.
MeetStates(states) == {l \in UNION states : \A s \in states : l \in s}

LockVisit(b, fx, flow, n) ==
    LET before == StatesBefore(b, n, flow.out)
        held == IF n = 1 THEN flow.in[1] ELSE MeetStates(before)
        change == LockStateChangeFor(n, fx)
        kept == held \ change.released
    IN IF n # 1 /\ before = {} THEN flow
       ELSE [in |-> (n :> held) @@ flow.in,
             out |-> (n :> (kept \cup change.acquired)) @@ flow.out,
             seen |-> IF change.orderedAcquired = {} \/ kept = {} THEN flow.seen
                      ELSE Append(flow.seen, [node |-> n, held |-> kept, change |-> change])]

\* A node no path reaches has no state before it: the visits leave it out by themselves.
LockPass(b, fx, flow) ==
    FoldInOrder(LAMBDA st, n : LockVisit(b, fx, st, n), flow, [n \in Nodes(b) |-> n])

RECURSIVE LockPasses(_, _, _)
LockPasses(b, fx, flow) ==
    LET next == LockPass(b, fx, flow)
    IN IF next.in = flow.in /\ next.out = flow.out THEN next ELSE LockPasses(b, fx, next)

LockFlow(b, fx, entryLocks) ==
    LockPasses(b, fx, [in |-> 1 :> entryLocks, out |-> <<>>, seen |-> <<>>])

\* The object whose locks the tracker names, if it may: proven, and the thread's only run.
TrackedObject(u, f) ==
    IF f \in DOMAIN u.binding /\ ~u.binding[f].keptForLackOfProof
         /\ ~u.binding[f].runByDirectCalls
    THEN u.binding[f] ELSE NoObject

HeldBefore(b, in) == [n \in Nodes(b) |-> IF n \in DOMAIN in THEN in[n] ELSE {}]

\* LockScopeTracker::collectHeldLocks: before the instruction's own change.
CollectHeldLocks(u, f, summaries) ==
    HeldBefore(u.body[f],
               LockFlow(u.body[f],
                        CollectFunctionLockEffects(u, f,
                            Resolver(summaries, TrackedObject(u, f), "field")), {}).in)

(***************************************************************************)
(* LockStatePropagator::collect.  A function starts with the locks every   *)
(* call to it holds.  The rounds start from the empty set and take the     *)
(* callees in turn.                                                        *)
(***************************************************************************)
\* locksForCallee: a lock named after the caller's parameter means nothing below.
LocksForCallee(locks) == {l \in locks : ~NamesParameter(l)}

EffectiveLocks(local, entry, site) == local[site.caller][site.node] \cup entry[site.caller]

MergedEntryLocks(sites, local, entry, callee) ==
    LET incoming == {LocksForCallee(EffectiveLocks(local, entry, sites[i])) :
                        i \in {j \in DOMAIN sites : sites[j].callee = callee}}
    IN {l \in UNION incoming : \A s \in incoming : l \in s}

EntryRound(sites, local, callees, entry) ==
    FoldInOrder(LAMBDA e, f : [e EXCEPT ![f] = MergedEntryLocks(sites, local, e, f)], entry, callees)

RECURSIVE EntryRounds(_, _, _, _)
EntryRounds(sites, local, callees, entry) ==
    LET next == EntryRound(sites, local, callees, entry)
    IN IF next = entry THEN entry ELSE EntryRounds(sites, local, callees, next)

EntryLocks(u, sites, local) ==
    EntryRounds(sites, local,
                SelectSeq(u.order, LAMBDA f : \E i \in DOMAIN sites : sites[i].callee = f),
                [f \in DOMAIN u.body |-> {}])

PropagateLocks(u, sites, local) ==
    LET entry == EntryLocks(u, sites, local)
    IN [local |-> local, entry |-> entry,
        atCall |-> [i \in DOMAIN sites |-> EffectiveLocks(local, entry, sites[i])]]
=============================================================================
