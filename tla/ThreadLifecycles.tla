-------------------------- MODULE ThreadLifecycles --------------------------
(***************************************************************************)
(* The creations, joins, detaches and moves of thread handles, carried     *)
(* from the helpers that make them to the callers whose handles they are   *)
(* made on, and the missing-join rule that counts them.                    *)
(*                                                                         *)
(* A handle group names the storage of a handle in the whole unit: a       *)
(* local or a parameter belongs to its function, a global to none.         *)
(***************************************************************************)
EXTENDS ThreadSites

Group(u, f, p) ==
    [owner |-> IF p.base \in u.globals THEN "" ELSE f, base |-> p.base, path |-> p.path]

IsArgument(g) == IsParameter(g.base)

Fact(kind, action, group, source, f, n) ==
    [kind |-> kind, action |-> action, group |-> group, source |-> source, function |-> f,
     at |-> <<f, n>>, resolved |-> FALSE, insideLoop |-> FALSE, escaped |-> FALSE,
     propagated |-> FALSE]

\* classifyLifecycle; a std::jthread joins itself and has no lifecycle.
LifecycleNodes(b) ==
    {n \in Nodes(b) : b.ins[n].op \in {"spawn", "join", "detach", "move"} /\ b.ins[n].flag # "jthread"}

ActionOf(b, n) == IF b.ins[n].op = "spawn" THEN "create" ELSE b.ins[n].op

\* The joins and detaches of `p` in the function.
ResolutionSites(b, p) ==
    {n \in LifecycleNodes(b) : b.ins[n].op \in {"join", "detach"} /\ b.ins[n].args[1] = p}

(***************************************************************************)
(* The handles handed to anything but a lifecycle operation that keeps     *)
(* them where they are: calls, and moves.                                  *)
(***************************************************************************)
EscapedPlaces(b) ==
    UNION {ToSet(b.ins[n].args) : n \in {k \in Nodes(b) : b.ins[k].op \in {"call", "move"}}}

\* Resolved on some path taken for resolved on all.
IsResolvedOnAnyPath(b, create, sites) == \E s \in sites : s \in ReachableBy(Edges(b), {create})

\* No return is reached from the creation while stepping around one site.
IsResolvedOnAllPaths(b, create, sites) ==
    \E s \in sites : ReachableBy(Without(Edges(b), {s}), {create}) \cap Returns(b) = {}

\* The loop of a node; the bodies analysed nest none.
LoopOf(b, n) == {m \in After(Edges(b), n) : n \in After(Edges(b), m)}

IsCreatedInLoopWithoutInnerResolution(b, create, sites) ==
    InLoop(b, create) /\ sites \cap LoopOf(b, create) = {}

\* The attributes some function of the unit sets to detached.
DetachedAttributes(u) ==
    UNION {{Group(u, f, u.body[f].ins[n].args[1]) :
               n \in {k \in Nodes(u.body[f]) : u.body[f].ins[k].op = "setdetach"}} :
           f \in DOMAIN u.body}

IsDetachedAtCreation(u, f, n) ==
    LET i == u.body[f].ins[n]
    IN i.flag = "pthread" /\ Len(i.args) > 1 /\ Group(u, f, i.args[2]) \in DetachedAttributes(u)

CreateFact(x, f, n) ==
    LET b == x.u.body[f]
        place == b.ins[n].args[1]
        sites == ResolutionSites(b, place)
        detached == IsDetachedAtCreation(x.u, f, n)
        completed == n \in DOMAIN x.completions[f]
    IN [Fact(b.ins[n].flag, "create", Group(x.u, f, place), {}, f, n) EXCEPT
           !.resolved = detached \/ completed \/ IsResolvedOnAllPaths(b, n, sites),
           !.insideLoop = /\ ~detached /\ ~completed
                          /\ IsCreatedInLoopWithoutInnerResolution(b, n, sites),
           !.escaped = place \in EscapedPlaces(b)]

FactsAt(x, f, n) ==
    LET i == x.u.body[f].ins[n]
        source == IF i.op = "move" THEN {Group(x.u, f, i.args[2])} ELSE {}
        fact == Fact(i.flag, ActionOf(x.u.body[f], n), Group(x.u, f, i.args[1]), source, f, n)
    IN IF "?" \in {p.base : p \in ToSet(i.args)} THEN {}
       ELSE IF i.op # "spawn" THEN {fact}
       ELSE {CreateFact(x, f, n)}
            \cup (IF IsDetachedAtCreation(x.u, f, n)
                  THEN {[CreateFact(x, f, n) EXCEPT !.action = "detach", !.resolved = TRUE,
                                                    !.insideLoop = FALSE]} ELSE {})

CollectLifecycles(x) ==
    UNION {UNION {FactsAt(x, f, n) : n \in LifecycleNodes(x.u.body[f])} : f \in DOMAIN x.u.body}

----------------------------------------------------------------------------
(***************************************************************************)
(* One round of the propagation.  A fact about a parameter becomes, at     *)
(* each call, a fact about what the caller passes.  The key of a fact      *)
(* leaves out what the collection found about paths.                       *)
(***************************************************************************)
LifecycleFactKey(fact) ==
    <<fact.kind, fact.action, fact.group, fact.function, fact.source, fact.at>>

\* The group a callee's group is at a call of it, in a set of at most one.
GroupAtCall(u, g, site) ==
    IF g.owner # site.callee \/ ~IsArgument(g) THEN {g}
    ELSE IF ParameterOf(g.base) \notin DOMAIN site.args THEN {g}
    ELSE LET p == site.args[ParameterOf(g.base)]
         IN IF p.base = "?" THEN {} ELSE {Group(u, site.caller, Place(p.base, p.path \o g.path))}

FactsAtCall(u, fact, site) ==
    IF ~IsArgument(fact.group) \/ ParameterOf(fact.group.base) \notin DOMAIN site.args THEN {}
    ELSE LET sources == {GroupAtCall(u, s, site) : s \in fact.source}
         IN IF {} \in sources THEN {}
            ELSE {[fact EXCEPT !.function = site.caller, !.propagated = TRUE, !.group = g,
                               !.source = UNION sources] :
                     g \in GroupAtCall(u, fact.group, site)}

LifecycleRound(u, facts) ==
    LET known == {LifecycleFactKey(fact) : fact \in facts}
        Through(site) == UNION {FactsAtCall(u, fact, site) :
                                   fact \in {k \in facts : k.function = site.callee}}
        new == UNION {Through(site) : site \in ToSet(CollectDirectCallSites(u))}
    IN facts \cup {fact \in new : LifecycleFactKey(fact) \notin known}

----------------------------------------------------------------------------
(***************************************************************************)
(* MissingJoinDetector.  Moves tie groups together; a group is judged with *)
(* all it is tied to, and not at all when nothing but parameters is.       *)
(***************************************************************************)
Tied(facts, g) ==
    LET moves == UNION {{<<fact.group, s>> : s \in fact.source} : fact \in facts}
    IN ReachableBy(moves \cup {<<e[2], e[1]>> : e \in moves}, {g})

Count(facts, action) == Cardinality({fact \in facts : fact.action = action})

Summary(facts, g) ==
    LET tied == Tied(facts, g)
        moves == {fact \in facts : fact.action = "move" /\ fact.group \in tied}
        mine == {fact \in facts : fact.group \in tied} \ moves
        creates == {fact \in mine : fact.action = "create"}
    IN [tied |-> tied,
        created |-> Cardinality(creates),
        resolved |-> Count(mine, "join") + Count(mine, "detach"),
        unresolvedPath |-> \E fact \in creates : ~fact.resolved,
        loopedCreate |-> \E fact \in creates : fact.insideLoop,
        escaped |-> \E fact \in creates : fact.escaped,
        pathAnalysisApplies |-> /\ moves = {} /\ \A fact \in mine : ~fact.propagated
                                /\ Cardinality({fact.function : fact \in mine}) <= 1]

MissingJoin(facts, g) ==
    LET s == Summary(facts, g)
        unbalanced == s.created > s.resolved
    IN /\ \E t \in s.tied : ~IsArgument(t)
       /\ ~s.escaped
       /\ s.created # 0
       /\ unbalanced => s.unresolvedPath \/ s.loopedCreate
       /\ unbalanced \/ (s.pathAnalysisApplies /\ (s.unresolvedPath \/ s.loopedCreate))
=============================================================================
