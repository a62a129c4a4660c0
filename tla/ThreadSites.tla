----------------------------- MODULE ThreadSites -----------------------------
(***************************************************************************)
(* What the thread analyses read from the instructions of one function:    *)
(* the storage a handle lies in, where a join has certainly waited, how    *)
(* far a running thread may run along with the function, and the entries   *)
(* threads are started on.                                                 *)
(*                                                                         *)
(* The storage of a handle is a place: the object it lies in and the steps *)
(* into it.  The object is a global of the unit, a parameter "%0", "%1" of *)
(* the function, a local of it, or "?" when the code cannot name it.  The  *)
(* step "*" is an index the code does not know.                            *)
(***************************************************************************)
EXTENDS UnitIR, TLC

CONSTANT MaxHandleSteps     \* kMaxHandleSteps

Place(base, path) == [base |-> base, path |-> path]

ParameterBases == <<"%0", "%1">>

IsParameter(base) == base \in ToSet(ParameterBases)

ParameterOf(base) == CHOOSE i \in DOMAIN ParameterBases : ParameterBases[i] = base

IsLocal(u, base) == ~IsParameter(base) /\ base \notin u.globals \cup DOMAIN u.body \cup {"?"}

\* Of any length: a recursion into an object would name ever longer handles.
IsNameableHandleAnyLength(p) == "*" \notin ToSet(p.path)

IsNameableHandle(p) ==
    "*" \notin ToSet(p.path) /\ Len(p.path) <= MaxHandleSteps

----------------------------------------------------------------------------
(***************************************************************************)
(* Lifecycle calls.  flag is the kind of handle: "pthread", "std" or       *)
(* "jthread".  A call that may throw has two successors: where it returns  *)
(* and where it unwinds to.                                                *)
(***************************************************************************)
IsInvoke(b, n) == b.ins[n].op \in {"call", "spawn", "join"} /\ Len(b.succ[n]) = 2

\* The operand of an instruction that reads the result of the call at node n.
ResultOf(n) == Place("result", <<n>>)

\* A join has waited once a certain edge is taken: the one past the call, or, when the result
\* of the join is tested for a branch, the arm of that branch that found it zero.
AfterCall(b, n) == <<n, b.succ[n][1]>>

SuccessTestedBy(b, n) ==
    {<<m, b.succ[m][1]>> : m \in {k \in Nodes(b) : /\ b.ins[k].op = "br"
                                                   /\ b.ins[k].flag = "result"
                                                   /\ b.ins[k].args = <<ResultOf(n)>>}}

\* Any other read: the result is returned, or used for something else.
ReadOtherwise(b, n) == \E m \in Nodes(b) : b.ins[m].op \in {"ret", "use"} /\ b.ins[m].args = <<ResultOf(n)>>

\* A join whose result is only handed on, taken to have succeeded.
JoinSuccessOfAssumed(b, n, kind) ==
    IF kind = "std" \/ SuccessTestedBy(b, n) = {} THEN {AfterCall(b, n)}
    ELSE {CHOOSE e \in SuccessTestedBy(b, n) : TRUE}

\* The edge that proves the join, if any: a set of at most one edge.
JoinSuccessOf(b, n, kind) ==
    IF kind = "std" THEN {AfterCall(b, n)}
    ELSE IF SuccessTestedBy(b, n) # {} THEN {CHOOSE e \in SuccessTestedBy(b, n) : TRUE}
    ELSE IF ReadOtherwise(b, n) THEN {} ELSE {AfterCall(b, n)}

ReturnsResultOf(b, n) == \A r \in Returns(b) : b.ins[r].args = <<ResultOf(n)>>

\* JoinSuccess::covers: every path to the point takes the edge.
CoveredBy(b, e, n) == EdgeDominates(b, e, n)

\* No path from `start` reaches `point` without one of the edges `completions`.
PassedOnEveryPath(b, start, completions, point) ==
    point \notin ReachableBy(Edges(b) \ completions, {start})

\* No path from `start` reaches a normal return without one of the edges `completions`.
CompletedOnEveryPath(b, start, completions) ==
    ReachableBy(Edges(b) \ completions, {start}) \cap Returns(b) = {}

----------------------------------------------------------------------------
(***************************************************************************)
(* collectLifecycleSites.  An entry is <<f, 0>> for the function f, and    *)
(* <<f, i>> for whatever the calls of f pass as parameter i.               *)
(***************************************************************************)
OfKind(b, op, kinds) ==
    {n \in Nodes(b) : b.ins[n].op = op /\ b.ins[n].flag \in kinds /\ b.ins[n].args[1].base # "?"}

\* The creations most analyses weigh; a std::jthread is not among them.
Creations(b) == {n \in Nodes(b) : b.ins[n].op = "spawn" /\ b.ins[n].flag \in {"pthread", "std"}}

SpawnEntry(f, to) == IF IsParameter(to) THEN <<f, ParameterOf(to)>> ELSE <<to, 0>>

MovesFrom(b, p) == {n \in OfKind(b, "move", {"std"}) : b.ins[n].args[2] = p}

\* The creations into `p` the function lists, those whose entry cannot be told left out.
SpawnsInto(u, b, p) ==
    {n \in OfKind(b, "spawn", {"pthread", "std", "jthread"}) :
        /\ b.ins[n].args[1] = p
        /\ IsParameter(b.ins[n].to) \/ b.ins[n].to \in DOMAIN u.body}

\* A thread built into a temporary and moved once is held where it was moved to.  Only the
\* first of several creations into that temporary is followed.
MovedOn(u, b, n) ==
    LET p == b.ins[n].args[1]
    IN Cardinality(MovesFrom(b, p)) = 1 /\ \A m \in SpawnsInto(u, b, p) : n <= m

HandleOfSpawn(u, b, n) ==
    LET p == b.ins[n].args[1]
    IN IF MovedOn(u, b, n) THEN b.ins[CHOOSE m \in MovesFrom(b, p) : TRUE].args[1] ELSE p

CollectLifecycleSites(u, f) ==
    LET b == u.body[f]
        spawns == UNION {SpawnsInto(u, b, b.ins[n].args[1]) :
                            n \in {k \in Nodes(b) : b.ins[k].op = "spawn"}}
        followed == UNION {MovesFrom(b, b.ins[n].args[1]) : n \in {k \in spawns : MovedOn(u, b, k)}}
    IN [spawns |-> {[node |-> n, handle |-> HandleOfSpawn(u, b, n),
                     entry |-> SpawnEntry(f, b.ins[n].to)] : n \in spawns},
        joins |-> {[node |-> n, handle |-> b.ins[n].args[1],
                    success |-> JoinSuccessOf(b, n, b.ins[n].flag)] :
                       n \in OfKind(b, "join", {"pthread", "std"})},
        adoptions |-> {[node |-> n, handle |-> b.ins[n].args[1]] :
                          n \in OfKind(b, "move", {"std"}) \ followed}]

----------------------------------------------------------------------------
(***************************************************************************)
(* flood: where a thread may be running.  A point of the flood is a node   *)
(* and whether the handle still holds the thread there: once another       *)
(* thread is started into it (kills.restarts), its joins (kills.byHandle)  *)
(* no longer end this one.  kills.always end it however it is held.        *)
(***************************************************************************)
Leaving(b, kills, point) ==
    LET named == point[2] /\ point[1] \notin kills.restarts
        cut == kills.always \cup (IF named THEN kills.byHandle ELSE {})
    IN {<<m, named>> : m \in {k \in Succ(b, point[1]) : <<point[1], k>> \notin cut}}

\* `start` is 0 for a thread already running when the function is entered.  A start that
\* throws started nothing.
FirstPoints(b, start, kills) ==
    IF start = 0 THEN {<<1, TRUE>>}
    ELSE IF IsInvoke(b, start) THEN {<<b.succ[start][1], TRUE>>}
    ELSE Leaving(b, [kills EXCEPT !.restarts = {}], <<start, TRUE>>)

FloodFrom(b, start, kills) ==
    LET points == Nodes(b) \X BOOLEAN
    IN ReachableBy(UNION {{<<p, q>> : q \in Leaving(b, kills, p)} : p \in points},
                   FirstPoints(b, start, kills))

RunsAt(reach, n) == <<n, TRUE>> \in reach \/ <<n, FALSE>> \in reach

NamedAt(reach, n) == <<n, TRUE>> \in reach /\ <<n, FALSE>> \notin reach

(***************************************************************************)
(* A branch tests a value every evaluation of which is the same: a         *)
(* parameter, or a local stored once, outside any loop, by a store on      *)
(* every path to the branch.  Equal keys are equal conditions.             *)
(***************************************************************************)
InvariantCondition(b, m) ==
    LET v == b.ins[m].to
        stores == {n \in Nodes(b) : b.ins[n].op = "set" /\ b.ins[n].to = v}
    IN IF b.ins[m].flag # "value" THEN {}
       ELSE IF IsParameter(v) THEN {<<v, 0>>}
       ELSE {<<v, n>> : n \in {s \in stores : /\ Cardinality(stores) = 1
                                              /\ Dominates(b, s, m) /\ ~InLoop(b, s)}}

\* Edges a thread started at `start` never sees taken: the branches that led to the start tested
\* an invariant value, and a later branch on the same value goes the same way.
CorrelatedEdges(b, start) ==
    LET branches == {m \in Nodes(b) : b.ins[m].op = "br" /\ InvariantCondition(b, m) # {}}
        known == UNION {{<<InvariantCondition(b, m), arm>> :
                            arm \in {a \in 1..2 : EdgeDominates(b, <<m, b.succ[m][a]>>, start)}} :
                        m \in branches}
    IN UNION {{<<m, b.succ[m][3 - k[2]]>> : k \in {j \in known : j[1] = InvariantCondition(b, m)}} :
              m \in branches}

----------------------------------------------------------------------------
(***************************************************************************)
(* thread_spawn_detector.cpp: the entries the unit starts threads on.  A   *)
(* spawn is concrete (an entry, a place, in a loop or not) or parametric:  *)
(* the entry is a parameter of the function, which its callers settle, a   *)
(* caller in a loop starting the thread in a loop.                         *)
(***************************************************************************)
\* The spawns of the functions themselves, std::jthread not among them.
SpawnsIn(u, f) ==
    LET b == u.body[f]
        nodes == {n \in Reachable(b) : b.ins[n].op = "spawn" /\ b.ins[n].flag \in {"pthread", "std"}}
    IN {[entry |-> b.ins[n].to, at |-> <<f, n>>, insideLoop |-> InLoop(b, n)] : n \in nodes}

OwnSpawns(u) ==
    [concrete |-> UNION {{s \in SpawnsIn(u, f) : s.entry \in DOMAIN u.body} : f \in DOMAIN u.body},
     summary |-> [f \in DOMAIN u.body |-> {s \in SpawnsIn(u, f) : IsParameter(s.entry)}]]

\* What a call makes of a spawn of its callee; nothing when the argument is no function.
AtCallBinding(spawn, site) ==
    {[entry |-> site.args[i].base, at |-> <<site.caller, site.node>>,
      insideLoop |-> spawn.insideLoop \/ site.insideLoop] :
         i \in {k \in DOMAIN site.args : ParameterBases[k] = spawn.entry}}

SpawnRound(u, spawns) ==
    LET Bound(f) == UNION {UNION {AtCallBinding(s, site) : s \in spawns.summary[site.callee]} :
                           site \in ToSet(SitesOf(u, f))}
    IN [concrete |-> spawns.concrete \cup
                     UNION {{s \in Bound(f) : s.entry \in DOMAIN u.body} : f \in DOMAIN u.body},
        summary |-> [f \in DOMAIN u.body |->
                        spawns.summary[f] \cup {s \in Bound(f) : IsParameter(s.entry)}]]

SpawnedEntries(spawns) == {s.entry : s \in spawns.concrete}

\* Loops alone counted.
EntryConcurrencyLooped(spawns, overlapping) ==
    [e \in SpawnedEntries(spawns) |-> \E s \in spawns.concrete : s.entry = e /\ s.insideLoop]

(***************************************************************************)
(* Whether several threads of an entry may run at once: it is started in a *)
(* loop, or the task analysis found two starts that overlap, which         *)
(* replaces the number of places it is started at.                         *)
(***************************************************************************)
EntryConcurrency(spawns, overlapping) ==
    [e \in SpawnedEntries(spawns) |->
        \/ \E s \in spawns.concrete : s.entry = e /\ s.insideLoop
        \/ <<e, 0>> \in overlapping]
=============================================================================
