---------------------------- MODULE RunningThreads ----------------------------
(***************************************************************************)
(* The threads running in each function: started there, left running by a  *)
(* function it calls, or already running where its callers call it.  Each  *)
(* is carried with its handle, named in the frame of the function holding  *)
(* it, so that a join naming the same storage ends it.                     *)
(*                                                                         *)
(* c holds what is settled so far: the unit c.u, the lifecycle sites       *)
(* c.sites and the calls c.calls of each function, the proven completions  *)
(* c.completions, and, settled one after the other, the handle summaries   *)
(* c.summary, what a function leaves running c.leaked, what it is entered  *)
(* with c.inherited and what it starts c.starts.  An optional handle is a  *)
(* set of at most one place.                                               *)
(*                                                                         *)
(* Every while loop of the code repeats a round until nothing changes.     *)
(* What a round adds only grows with what it is given, so that the order   *)
(* in which the code visits the functions in a round does not matter; the  *)
(* operators named ...Round give one round over all functions.             *)
(***************************************************************************)
EXTENDS ThreadSites

CallsOf(u, f) == ToSet(SitesOf(u, f))

\* A handle the callee names, as the caller names it.
HandleAtCaller(u, p, site) ==
    IF p.base \in u.globals THEN {p}
    ELSE IF ~IsParameter(p.base) \/ ParameterOf(p.base) \notin DOMAIN site.args THEN {}
    ELSE LET argument == site.args[ParameterOf(p.base)]
         IN {h \in {Place(argument.base, argument.path \o p.path)} :
                argument.base # "?" /\ IsNameableHandle(h)}

\* A handle the caller names, as the callee names it: through the first argument that hands
\* the storage over.
HandleAtCallee(u, p, site) ==
    IF p.base \in u.globals THEN {p}
    ELSE LET handed == {i \in DOMAIN site.args :
                           /\ site.args[i].base = p.base
                           /\ IsNameableHandle(site.args[i])
                           /\ IsPrefix(site.args[i].path, p.path)}
             first == CHOOSE i \in handed : \A j \in handed : i <= j
         IN IF handed = {} THEN {}
            ELSE {Place(ParameterBases[first],
                        SubSeq(p.path, Len(site.args[first].path) + 1, Len(p.path)))}

AllAtCaller(u, handles, site) == UNION {HandleAtCaller(u, p, site) : p \in handles}
AllAtCallee(u, handles, site) == UNION {HandleAtCallee(u, p, site) : p \in handles}

----------------------------------------------------------------------------
(***************************************************************************)
(* summarizeHandles: the handles a function may start a thread into, those *)
(* it joins on every path to a normal return, and those it joins with the  *)
(* status of the join returned as its own.                                 *)
(***************************************************************************)
NoSummary == [started |-> {}, joined |-> {}, reported |-> {}]

OnEveryPath(b, success) ==
    \E e \in success : \A r \in Returns(b) \cap Reachable(b) : CoveredBy(b, e, r)

SummaryOfFunction(c, f) ==
    LET b == c.u.body[f]
        joins == {j \in c.sites[f].joins : IsNameableHandle(j.handle)}
        calls == c.calls[f]
        Status(s) == JoinSuccessOf(b, s.node, "pthread")
        AtCaller(s, field) == AllAtCaller(c.u, c.summary[s.callee][field], s)
    IN [started |-> {s.handle : s \in c.sites[f].spawns \cup c.sites[f].adoptions}
                    \cup UNION {AtCaller(s, "started") : s \in calls},
        reported |-> {j.handle : j \in {k \in joins : ReturnsResultOf(b, k.node)}}
                     \cup UNION {AtCaller(s, "reported") :
                                    s \in {k \in calls : ReturnsResultOf(b, k.node)}},
        joined |-> {j.handle : j \in {k \in joins : OnEveryPath(b, k.success)}}
                   \cup UNION {AtCaller(s, "reported") :
                                  s \in {k \in calls : OnEveryPath(b, Status(k))}}
                   \cup UNION {AtCaller(s, "joined") :
                                  s \in {k \in calls : OnEveryPath(b, {AfterCall(b, k.node)})}}]

SummaryRound(c) == [f \in DOMAIN c.u.body |-> SummaryOfFunction(c, f)]

(***************************************************************************)
(* The edges past which a join of `handle` has waited, in place or through *)
(* a call, and the nodes that start or move a thread into it.              *)
(***************************************************************************)
JoiningCalls(c, f, handle) ==
    LET b == c.u.body[f]
        Passes(s, field) == handle \in AllAtCaller(c.u, c.summary[s.callee][field], s)
    IN UNION {IF Passes(s, "joined") THEN {AfterCall(b, s.node)}
              ELSE IF Passes(s, "reported") THEN JoinSuccessOf(b, s.node, "pthread") ELSE {} :
              s \in c.calls[f]}

JoinsInPlace(c, f, handle) ==
    UNION {j.success : j \in {k \in c.sites[f].joins : k.handle = handle}}

JoinsOf(c, f, handle) == JoinsInPlace(c, f, handle) \cup JoiningCalls(c, f, handle)

StartSites(c, f, handle) ==
    {s.node : s \in {k \in c.sites[f].spawns \cup c.sites[f].adoptions : k.handle = handle}}
    \cup {s.node : s \in {k \in c.calls[f] :
                             handle \in AllAtCaller(c.u, c.summary[k.callee].started, k)}}

\* The storage receives more than one thread: a join of it ends only the last.
AmbiguousIn(c, f, handle) ==
    LET sites == StartSites(c, f, handle)
    IN Cardinality(sites) > 1 \/ \E n \in sites : InLoop(c.u.body[f], n)

SpawnHandle(c, f, spawn) ==
    {p \in {spawn.handle} : IsNameableHandle(p) /\ ~AmbiguousIn(c, f, p)}

SpawnReach(c, f, spawn) ==
    LET b == c.u.body[f]
        ended == IF spawn.node \in DOMAIN c.completions[f] THEN c.completions[f][spawn.node]
                 ELSE {}
    IN FloodFrom(b, spawn.node,
           [byHandle |-> IF SpawnHandle(c, f, spawn) # {} THEN JoinsOf(c, f, spawn.handle)
                         ELSE JoinsInPlace(c, f, spawn.handle),
            restarts |-> StartSites(c, f, spawn.handle),
            always |-> ended \cup CorrelatedEdges(b, spawn.node)])

\* start = 0: a thread the function is entered with.
HandleReach(c, f, start, handle) ==
    LET b == c.u.body[f]
    IN FloodFrom(b, start,
           [byHandle |-> UNION {JoinsOf(c, f, p) : p \in handle},
            restarts |-> UNION {StartSites(c, f, p) : p \in handle},
            always |-> IF start = 0 THEN {} ELSE CorrelatedEdges(b, start)])

ReachesReturn(b, reach) == \E r \in Returns(b) \cap Reachable(b) : RunsAt(reach, r)

----------------------------------------------------------------------------
(***************************************************************************)
(* A running thread: the entry it runs and the handle that names it.       *)
(***************************************************************************)
Instance(entry, handle) == [entry |-> entry, handle |-> handle]

IsParameterEntry(entry) == entry[2] # 0

\* The entry a callee's thread runs, as the caller names it: what the call passes for a
\* parameter's entry, nothing when that is no function.
EntryAtCaller(u, entry, site) ==
    IF entry[1] # site.callee \/ ~IsParameterEntry(entry) THEN {entry}
    ELSE IF entry[2] \notin DOMAIN site.args THEN {}
    ELSE LET passed == site.args[entry[2]].base
         IN IF passed \in DOMAIN u.body THEN {<<passed, 0>>}
            ELSE IF IsParameter(passed) THEN {<<site.caller, ParameterOf(passed)>>} ELSE {}

EntriesAtCaller(u, entries, site) == UNION {EntryAtCaller(u, e, site) : e \in entries}

AllSites(c) == UNION {c.calls[f] : f \in DOMAIN c.u.body}

\* concreteEntries: a parameter's entry is every entry the calls pass there.
ConcreteEntries(c, entries) ==
    LET parameters == UNION {{<<f, i>> : i \in DOMAIN ParameterBases} : f \in DOMAIN c.u.body}
        passed == UNION {{<<e, p>> : p \in UNION {EntryAtCaller(c.u, e, s) :
                                                     s \in {k \in AllSites(c) : k.callee = e[1]}}} :
                         e \in parameters}
    IN {e \in ReachableBy(passed, entries) : ~IsParameterEntry(e)}

----------------------------------------------------------------------------
(***************************************************************************)
(* leakedFrom, settleLeaks, cacheIntroductions.                            *)
(***************************************************************************)
Unambiguous(c, f, handle) == {p \in handle : ~AmbiguousIn(c, f, p)}

SpawnsLeaked(c, f) ==
    {Instance(s.entry, SpawnHandle(c, f, s)) :
        s \in {k \in c.sites[f].spawns : ReachesReturn(c.u.body[f], SpawnReach(c, f, k))}}

LeakedFrom(c, f) ==
    LET b == c.u.body[f]
        Named(s, i) == Unambiguous(c, f, AllAtCaller(c.u, i.handle, s))
        Running(s, h) == IF h # {} THEN ReachesReturn(b, HandleReach(c, f, s.node, h))
                         ELSE c.sites[f].joins = {}
        FromCall(s) == UNION {{Instance(e, Named(s, i)) : e \in EntryAtCaller(c.u, i.entry, s)} :
                              i \in {k \in c.leaked[s.callee] : Running(s, Named(s, k))}}
    IN SpawnsLeaked(c, f) \cup UNION {FromCall(s) : s \in c.calls[f]}

LeakRound(c) == [f \in DOMAIN c.u.body |-> LeakedFrom(c, f)]

\* The threads each call leaves running in its caller, and the storage that holds them there.
Introductions(c, f) ==
    UNION {UNION {{[node |-> s.node, storage |-> AllAtCaller(c.u, i.handle, s),
                    instance |-> Instance(e, Unambiguous(c, f, AllAtCaller(c.u, i.handle, s)))] :
                       e \in EntryAtCaller(c.u, i.entry, s)} : i \in c.leaked[s.callee]} :
           s \in c.calls[f]}

----------------------------------------------------------------------------
(***************************************************************************)
(* Where the threads run.  c.reach caches, as the code does, the flood of  *)
(* each spawn and of each introduction.                                    *)
(***************************************************************************)
ReachOfStarts(c, f) ==
    {[instance |-> Instance(s.entry, SpawnHandle(c, f, s)), storage |-> {},
      reach |-> SpawnReach(c, f, s)] : s \in c.sites[f].spawns}
    \cup {[instance |-> i.instance, storage |-> i.storage,
           reach |-> HandleReach(c, f, i.node, i.storage)] : i \in Introductions(c, f)}

\* A thread whose storage still holds it on every path is named by that storage, even one
\* filled again elsewhere.
NamedInstance(s, n) ==
    IF s.instance.handle = {} /\ s.storage # {} /\ NamedAt(s.reach, n)
    THEN Instance(s.instance.entry, s.storage) ELSE s.instance

StartedAt(c, f, n) == {NamedInstance(s, n) : s \in {k \in c.reach[f] : RunsAt(k.reach, n)}}

InheritedAt(c, f, n) ==
    {i \in c.inherited[f] : RunsAt(HandleReach(c, f, 0, i.handle), n)}

LiveAt(c, f, n) == StartedAt(c, f, n) \cup InheritedAt(c, f, n)

\* settleInheritance: every call hands its callee what runs where it is made.
InheritanceRound(c) ==
    [f \in DOMAIN c.u.body |-> c.inherited[f] \cup
        UNION {{Instance(i.entry, AllAtCallee(c.u, i.handle, s)) :
                   i \in LiveAt(c, s.caller, s.node)} :
               s \in {k \in AllSites(c) : k.callee = f}}]

\* settleStarts: the entries a function starts before it returns.
StartsRound(c) ==
    [f \in DOMAIN c.u.body |->
        {s.entry : s \in c.sites[f].spawns}
        \cup UNION {EntriesAtCaller(c.u, c.starts[s.callee], s) : s \in c.calls[f]}]

(***************************************************************************)
(* The entries a function starts while a thread it is entered with, held   *)
(* at `handle`, may still run.  A recursion falls back on every entry the  *)
(* function starts.                                                        *)
(***************************************************************************)
RECURSIVE StartedWhileHeld(_, _, _, _)
StartedWhileHeld(c, f, handle, asked) ==
    IF <<f, handle>> \in asked THEN c.starts[f]
    ELSE LET reach == HandleReach(c, f, 0, handle)
             calls == {s \in c.calls[f] : RunsAt(reach, s.node)}
             Inside(s) == StartedWhileHeld(c, s.callee, AllAtCallee(c.u, handle, s),
                                           asked \cup {<<f, handle>>})
         IN {s.entry : s \in {k \in c.sites[f].spawns : RunsAt(reach, k.node)}}
            \cup UNION {EntriesAtCaller(c.u, Inside(s), s) : s \in calls}

StartedWhileRunning(c, f, n, instance) ==
    UNION {EntriesAtCaller(c.u, StartedWhileHeld(c, s.callee,
                                    AllAtCallee(c.u, instance.handle, s), {}), s) :
           s \in {k \in c.calls[f] : k.node = n}}

----------------------------------------------------------------------------
(***************************************************************************)
(* analyze: the entries running at each instruction, and the entries two   *)
(* instances of which may run at once.                                     *)
(***************************************************************************)
SpawnedHere(c, f, n) == {s.entry : s \in {k \in c.sites[f].spawns : k.node = n}}

EntriesOf(instances) == {i.entry : i \in instances}

\* Only the pairs whose second thread the function starts itself.
OverlapsInPlace(c, f) ==
    UNION {{<<f, e, i.entry>> : e \in SpawnedHere(c, f, n), i \in StartedAt(c, f, n)} :
           n \in Reachable(c.u.body[f])}

\* Pairs of entries a function runs together, one started while the other may run.
OverlapsIn(c, f) ==
    UNION {UNION {{<<f, e, i.entry>> :
                      e \in StartedWhileRunning(c, f, n, i) \cup SpawnedHere(c, f, n)} :
                  i \in StartedAt(c, f, n)} : n \in Reachable(c.u.body[f])}

\* A pair naming a parameter's entry is settled by each call to the function.
OverlapsAtCallers(c, o) ==
    IF ~IsParameterEntry(o[2]) /\ ~IsParameterEntry(o[3]) THEN {}
    ELSE UNION {{<<s.caller, e[1], e[2]>> :
                    e \in EntryAtCaller(c.u, o[2], s) \X EntryAtCaller(c.u, o[3], s)} :
                s \in {k \in AllSites(c) : k.callee = o[1]}}

RECURSIVE AllOverlaps(_, _)
AllOverlaps(c, overlaps) ==
    LET next == overlaps \cup UNION {OverlapsAtCallers(c, o) : o \in overlaps}
    IN IF next = overlaps THEN overlaps ELSE AllOverlaps(c, next)

LiveEntriesAt(c, f, n) == ConcreteEntries(c, EntriesOf(LiveAt(c, f, n)))

OverlappingSpawnEntries(c) ==
    UNION {UNION {{e \in SpawnedHere(c, f, n) : e \in LiveEntriesAt(c, f, n)} :
                  n \in Reachable(c.u.body[f])} : f \in DOMAIN c.u.body}
    \cup {o[2] : o \in {k \in AllOverlaps(c, UNION {OverlapsIn(c, f) : f \in DOMAIN c.u.body}) :
                           k[2] = k[3] /\ ~IsParameterEntry(k[2])}}

EntriesLeftRunning(c, f) == ConcreteEntries(c, EntriesOf(c.leaked[f]))

RootTaskFunctions(c) ==
    ReachableBy({<<s.caller, s.callee>> : s \in AllSites(c)}, {"main"} \cap DOMAIN c.u.body)
=============================================================================
