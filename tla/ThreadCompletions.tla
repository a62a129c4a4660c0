-------------------------- MODULE ThreadCompletions --------------------------
(***************************************************************************)
(* Proofs that every thread a creation starts is joined on every path to a *)
(* normal return, for handles held in locals, in place or through helpers  *)
(* that join what they are handed.  Handles in arrays and vectors, filled  *)
(* and joined by loops, are not in this module.                            *)
(*                                                                         *)
(* helpers[f] is the set of the parameters f joins on every normal return: *)
(* index, path into it, whether the thread has then ended, and whether f   *)
(* returns the status of the join.                                         *)
(***************************************************************************)
EXTENDS ThreadSites

CONSTANTS MaxJoinedParameters,   \* kMaxJoinedParameters
          MaxJoinDepth           \* kMaxJoinDepth

\* joinSites: the joins of a function, with the place joined and what proves them.
JoinSites(u, f, helpers) ==
    LET b == u.body[f]
        direct == {[node |-> n, place |-> b.ins[n].args[1], helper |-> FALSE,
                    reports |-> b.ins[n].flag = "pthread",
                    success |-> JoinSuccessOf(b, n, b.ins[n].flag)] :
                       n \in {k \in Nodes(b) : b.ins[k].op = "join"}}
        Site(n, j) == [node |-> n, helper |-> TRUE, reports |-> j.reported,
                       place |-> Place(b.ins[n].args[j.index].base,
                                       b.ins[n].args[j.index].path \o j.path),
                       success |-> IF j.ended THEN {AfterCall(b, n)}
                                   ELSE IF j.reported THEN JoinSuccessOf(b, n, "pthread") ELSE {}]
        Through(n) == {Site(n, j) : j \in {k \in helpers[b.ins[n].to] :
                                              k.index \in DOMAIN b.ins[n].args}}
    IN direct \cup UNION {Through(n) : n \in {k \in Nodes(b) : /\ b.ins[k].op = "call"
                                                               /\ b.ins[k].to \in DOMAIN helpers}}

----------------------------------------------------------------------------
(***************************************************************************)
(* collectJoiningHelpers.  One round over the functions in module order; a *)
(* parameter joined at yet another place is left out once the function has *)
(* MaxJoinedParameters of them.                                            *)
(***************************************************************************)
Joined(b, site) ==
    [index |-> ParameterOf(site.place.base), path |-> site.place.path,
     ended |-> \E e \in site.success : CompletedOnEveryPath(b, 1, {e}),
     reported |-> site.reports /\ ReturnsResultOf(b, site.node)]

AddJoined(known, j) ==
    LET same == {k \in known : k.index = j.index /\ k.path = j.path}
    IN IF same = {} THEN (IF Cardinality(known) >= MaxJoinedParameters THEN known
                          ELSE known \cup {j})
       ELSE (known \ same) \cup {[k EXCEPT !.ended = @ \/ j.ended, !.reported = @ \/ j.reported] :
                                    k \in same}

JoinedParameters(u, f, helpers) ==
    LET b == u.body[f]
        joins == {s \in JoinSites(u, f, helpers) :
                     /\ IsParameter(s.place.base) /\ "*" \notin ToSet(s.place.path)
                     /\ CompletedOnEveryPath(b, 1, {AfterCall(b, s.node)})}
        Of(n) == {s \in joins : s.node = n}
    IN FoldInOrder(LAMBDA known, n : FoldSet(LAMBDA s, k : AddJoined(k, Joined(b, s)),
                                              known, Of(n)),
                   helpers[f], [n \in Nodes(b) |-> n])

HelperRound(u, helpers) ==
    FoldInOrder(LAMBDA known, f : (f :> JoinedParameters(u, f, known)) @@ known,
                helpers, u.order)

----------------------------------------------------------------------------
(***************************************************************************)
(* The call storing the handle of the thread `n` starts: `n`, or the move  *)
(* taking it from the local it starts it into, when nothing else uses that *)
(* local.                                                                  *)
(***************************************************************************)
Lifecycle == {"spawn", "join", "detach", "move"}

\* The operands handed by address to a function without a body; pthread_join is handed a value.
HandedOut(b, n) ==
    IF b.ins[n].op \notin Lifecycle \/ (b.ins[n].op \in {"join", "detach"} /\ b.ins[n].flag = "pthread")
    THEN {} ELSE {b.ins[n].args[i].base : i \in DOMAIN b.ins[n].args}

UsesOf(b, base) ==
    {n \in Nodes(b) : \/ base \in HandedOut(b, n)
                      \/ b.ins[n].op = "call" /\ \E i \in DOMAIN b.ins[n].args :
                                                     b.ins[n].args[i].base = base}

HandleWriter(u, b, n) ==
    LET base == b.ins[n].args[1].base
        others == UsesOf(b, base) \ {n}
        move == CHOOSE m \in others : TRUE
    IN IF /\ IsLocal(u, base) /\ b.ins[n].args[1].path = <<>> /\ Cardinality(others) = 1
          /\ b.ins[move].op = "move"
          /\ b.ins[move].args[2].base = base /\ b.ins[move].args[1].base # base
       THEN move ELSE n

\* The point may run after the writer and before the join.
Between(b, writer, n, join) ==
    n \in After(Edges(b), writer) /\ join \in ReachableBy(Edges(b), {n})

----------------------------------------------------------------------------
(***************************************************************************)
(* What a function may do to the storage it is handed: keep the address of *)
(* what a parameter points to, and write memory it cannot name, which      *)
(* every call to a function without a body may.  One round over the        *)
(* functions; the code repeats it until nothing changes.                   *)
(***************************************************************************)
WritingElsewhere ==
    Lifecycle \cup {"write", "publish", "wait", "fork", "exec", "reap", "install", "unsafe", "free"}

EffectsOf(u, f, effects) ==
    LET b == u.body[f]
        calls == {n \in Nodes(b) : b.ins[n].op = "call"}
        Kept(n) == {b.ins[n].args[i].base :
                       i \in {k \in DOMAIN b.ins[n].args :
                                 ParameterBases[k] \in effects[b.ins[n].to].escapes}}
    IN [elsewhere |-> \/ \E n \in Nodes(b) : b.ins[n].op \in WritingElsewhere
                      \/ \E n \in calls : effects[b.ins[n].to].elsewhere,
        escapes |-> {base \in UNION {HandedOut(b, n) : n \in Nodes(b)}
                               \cup UNION {Kept(n) : n \in calls} : IsParameter(base)}]

EffectRound(u, effects) == [f \in DOMAIN u.body |-> EffectsOf(u, f, effects)]

HandedAt(b, n, base) == {i \in DOMAIN b.ins[n].args : b.ins[n].args[i].base = base}

\* effectOn, for a call of the function handed the storage `base`.
Keeps(b, n, base, effects) ==
    IF b.ins[n].op = "call"
    THEN \E i \in HandedAt(b, n, base) : ParameterBases[i] \in effects[b.ins[n].to].escapes
    ELSE base \in HandedOut(b, n)

Writes(b, n, effects) == b.ins[n].op = "call" => effects[b.ins[n].to].elsewhere

(***************************************************************************)
(* waitsForUnchangedHandle: what a join does to the storage of the thread  *)
(* it waits for.  "changed" is a change past its last join, which refuses  *)
(* only the joins that may follow it.                                      *)
(***************************************************************************)
RECURSIVE JoinsWithoutChanging(_, _, _, _)
JoinsWithoutChanging(x, f, bases, depth) ==
    LET b == x.u.body[f]
        edges == Edges(b)
        Handed(n) == UNION {HandedAt(b, n, base) : base \in bases}
        joins == {s \in JoinSites(x.u, f, x.helpers) : s.place.base \in bases}
        nodes == {s.node : s \in joins}
        Proof(s) == IF ~s.helper THEN "unchanged"
                    ELSE IF depth >= MaxJoinDepth THEN "refused"
                    ELSE JoinsWithoutChanging(x, b.ins[s.node].to,
                             {ParameterBases[i] : i \in Handed(s.node)}, depth + 1)
        changing == {s.node : s \in {k \in joins : Proof(k) = "changed"}}
        others == {n \in UNION {UsesOf(b, base) : base \in bases} \ nodes :
                      \/ Writes(b, n, x.effects)
                      \/ \E base \in bases : Keeps(b, n, base, x.effects)}
        Before(n, m) == m \in ReachableBy(edges, {n})
    IN IF \/ joins = {} \/ \E s \in joins : Proof(s) = "refused"
          \/ \E n \in changing : InLoop(b, n) \/ \E m \in nodes \ {n} : Before(n, m)
          \/ \E n \in others, m \in nodes : Before(n, m)
       THEN "refused"
       ELSE IF changing \cup others # {} THEN "changed" ELSE "unchanged"

(***************************************************************************)
(* arrayStorageUnchanged, for one handle: what `writer` stored in the local *)
(* is still there when the join reads it.  No other creation writes the    *)
(* local past the writer, no call that may write it runs between the two,  *)
(* none that may keep its address runs before the join, and a helper that  *)
(* joins the handle does not change it first.                              *)
(***************************************************************************)
StorageUnchanged(x, b, writer, join) ==
    LET base == b.ins[writer].args[1].base
        edges == Edges(b)
        uses == UsesOf(b, base) \ {writer, join.node}
        judged == {n \in uses : b.ins[n].op \in {"call", "move", "detach"}}
        returning == {n \in Nodes(b) : ReachableBy(edges, {n}) \cap Returns(b) # {}}
    IN /\ IsLocal(x.u, base)
       /\ join.helper =>
             JoinsWithoutChanging(x, b.ins[join.node].to,
                 {ParameterBases[i] : i \in HandedAt(b, join.node, base)}, 1) # "refused"
       /\ \A n \in judged :
             /\ Writes(b, n, x.effects) => ~Between(b, writer, n, join.node)
             /\ Keeps(b, n, base, x.effects) => join.node \notin ReachableBy(edges, {n})
       /\ \A n \in (uses \ judged) \cap returning :
             Dominates(b, n, writer) \/ b.ins[n].op = "join"

(***************************************************************************)
(* collectThreadCompletions for the creations of a function that are in no *)
(* loop: the creations proven, each with the edge past which its thread    *)
(* has ended, if that too is proven.  Of several joins that would do, the  *)
(* first in the function is taken.  x holds the unit x.u, the joining      *)
(* helpers x.helpers and the effects x.effects of its functions.           *)
(***************************************************************************)
CompletesWith(x, b, n, join) ==
    LET writer == HandleWriter(x.u, b, n)
        place == b.ins[writer].args[1]
    IN /\ ~InLoop(b, n)
       /\ join.place = place /\ "*" \notin ToSet(place.path)
       /\ \A m \in Creations(b) \ {n} : b.ins[HandleWriter(x.u, b, m)].args[1] # place
       /\ StorageUnchanged(x, b, writer, join)
       /\ Dominates(b, writer, join.node)
       /\ CompletedOnEveryPath(b, n, {AfterCall(b, join.node)})

CollectThreadCompletions(x, f) ==
    LET b == x.u.body[f]
        joins == JoinSites(x.u, f, x.helpers)
        Matching(n) == {j \in joins : CompletesWith(x, b, n, j)}
        First(n) == CHOOSE j \in Matching(n) : \A k \in Matching(n) : j.node <= k.node
    IN [n \in {k \in Creations(b) : Matching(k) # {}} |->
           {e \in First(n).success : CompletedOnEveryPath(b, n, {e})}]
=============================================================================
