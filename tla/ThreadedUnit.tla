---------------------------- MODULE ThreadedUnit ----------------------------
(***************************************************************************)
(* The thread pipeline, from the instructions of a unit to what runs       *)
(* beside what and to the missing-join reports, against executions of that *)
(* unit.                                                                   *)
(*                                                                         *)
(* A behaviour picks a unit and analyses it, one round of one of the       *)
(* analyser's loops a step; then the program runs.                         *)
(***************************************************************************)
EXTENDS ThreadedProgram, RunningThreads, ThreadCompletions, ContainedEntries,
        CallGraphRules, FactQueries

CONSTANT Units      \* the units analysed

VARIABLES
    phase,          \* the loop the analysis is in, "running" once it is over
    c               \* what it has settled so far

vars == <<program, phase, c>>

----------------------------------------------------------------------------
(***************************************************************************)
(* The analysis, in the order of buildTUFacts and of analyze.              *)
(***************************************************************************)
Everywhere(u, value) == [f \in DOMAIN u.body |-> value]

Start(u) ==
    [u |-> u,
     sites |-> [f \in DOMAIN u.body |-> CollectLifecycleSites(u, f)],
     calls |-> [f \in DOMAIN u.body |-> CallsOf(u, f)],
     spawns |-> OwnSpawns(u),
     helpers |-> Everywhere(u, {}),
     effects |-> Everywhere(u, [elsewhere |-> FALSE, escapes |-> {}]),
     completions |-> Everywhere(u, <<>>),
     summary |-> Everywhere(u, NoSummary),
     leaked |-> Everywhere(u, {}),
     reach |-> Everywhere(u, {}),
     inherited |-> Everywhere(u, {}),
     starts |-> Everywhere(u, {}),
     lifecycles |-> {}]

\* One round of a loop: it goes on until it settles, and `after` is what is settled next.
Settle(here, field, value, next, after) ==
    /\ phase = here
    /\ IF value = c[field] THEN phase' = next /\ c' = after
       ELSE phase' = phase /\ c' = [c EXCEPT ![field] = value]

DetectSpawns == Settle("spawns", "spawns", SpawnRound(unit, c.spawns), "helpers", c)

CollectHelpers == Settle("helpers", "helpers", HelperRound(unit, c.helpers), "effects", c)

SettleEffects ==
    Settle("effects", "effects", EffectRound(unit, c.effects), "summaries",
           [c EXCEPT !.completions =
               [f \in DOMAIN unit.body |-> CollectThreadCompletions(c, f)]])

SummarizeHandles == Settle("summaries", "summary", SummaryRound(c), "leaks", c)

SettleLeaks ==
    Settle("leaks", "leaked", LeakRound(c), "inheritance",
           [c EXCEPT !.reach = [f \in DOMAIN unit.body |-> ReachOfStarts(c, f)]])

SettleInheritance == Settle("inheritance", "inherited", InheritanceRound(c), "starts", c)

SettleStarts ==
    Settle("starts", "starts", StartsRound(c), "lifecycles",
           [c EXCEPT !.lifecycles = CollectLifecycles(c)])

\* What the rules read, once everything is settled.
Facts ==
    LET entries == SpawnedEntries(c.spawns)
        edges == {<<s.caller, s.callee>> : s \in AllSites(c)}
        Reaching(f) == {e \in entries : f \in ReachableBy(edges, {e})}
    IN [live |-> [f \in DOMAIN unit.body |-> [n \in Nodes(unit.body[f]) |->
                     {e[1] : e \in LiveEntriesAt(c, f, n)}]],
        overlapping |-> OverlappingSpawnEntries(c),
        root |-> RootTaskFunctions(c),
        lifecycles |-> c.lifecycles,
        escapes |-> Escapes(c),
        frees |-> Frees(c),
        expired |-> ExpiredThreadLocals(c),
        waits |-> ConditionWaits(unit),
        handlers |-> UnsafeHandlers(unit),
        forks |-> ForksAfterThreads(unit, c.spawns.concrete # {}),
        unreaped |-> UnreapedChildren(unit),
        q |-> [reach |-> [f \in DOMAIN unit.body |-> Reaching(f)],
               concurrency |-> EntryConcurrency(c.spawns, OverlappingSpawnEntries(c)),
               sequenced |-> CollectContainedEntryPairs(unit, c.completions)]]

PropagateLifecycles ==
    Settle("lifecycles", "lifecycles", LifecycleRound(unit, c.lifecycles), "running", Facts)

Analyze ==
    /\ \/ DetectSpawns \/ CollectHelpers \/ SettleEffects \/ SummarizeHandles \/ SettleLeaks
       \/ SettleInheritance \/ SettleStarts \/ PropagateLifecycles
    /\ UNCHANGED program

----------------------------------------------------------------------------
Init ==
    /\ unit \in Units
    /\ phase = "spawns"
    /\ c = Start(unit)
    /\ Started

Step(t) == phase = "running" /\ Run(t) /\ UNCHANGED <<unit, phase, c>>

Next == Analyze \/ \E t \in DOMAIN threads : Step(t)

Spec == Init /\ [][Next]_vars
----------------------------------------------------------------------------
(***************************************************************************)
(* Properties.                                                             *)
(***************************************************************************)
Ran == phase = "running"

\* The stacks stand at instructions of the unit, a handle holds a thread that was started, and
\* no handle the summaries name is longer than the code follows, so that the loops end on a
\* recursion that steps into an object.
TypeOK ==
    /\ \A t \in DOMAIN threads : \A i \in DOMAIN threads[t].stack :
          threads[t].stack[i].pc \in Nodes(unit.body[threads[t].stack[i].fn])
    /\ \A h \in DOMAIN held : held[h] \in DOMAIN threads \ {1}
    /\ ~Ran => \A f \in DOMAIN c.summary : \A p \in c.summary[f].started \cup c.summary[f].joined :
          Len(p.path) <= MaxHandleSteps

\* Threads a thread started itself, and that still run.
ChildrenOf(t) == {s \in DOMAIN threads : threads[s].parent = t /\ Running(s)}

\* The frame of t that was answerable for the thread was left by an exception.
LeftByException(s, t) == threads[s].parent = t /\ threads[s].low = 0

(***************************************************************************)
(* Whatever instruction a thread stands at, the entries of the threads it  *)
(* started and that still run are live there: in the function that started *)
(* them, in its callers once it has returned, and in what they call, until *)
(* a join that certainly waited.  A thread taken for ended hides every     *)
(* race with it.  What a signal handler does is not weighed for races.  A  *)
(* thread an exception left behind is not among them: what a function      *)
(* leaves running is judged at its returns.                                *)
(***************************************************************************)
LiveThreadsAreLive ==
    Ran => \A t \in DOMAIN threads : Running(t) /\ ~Interrupted(t) =>
        \A s \in ChildrenOf(t) :
            LeftByException(s, t) \/ threads[s].entry \in c.live[Top(t).fn][Top(t).pc]

\* "a call whose exception a helper catches does not end its thread"
\* (test_concurrency_analysis.cpp:4719), for what the catching thread itself goes on to do.
ThreadsLeftByExceptionsAreLive ==
    Ran => \A t \in DOMAIN threads : Running(t) =>
        \A s \in ChildrenOf(t) :
            LeftByException(s, t) => threads[s].entry \in c.live[Top(t).fn][Top(t).pc]

(***************************************************************************)
(* Two threads of one entry that a thread has running at once are two      *)
(* instances the analysis knows may overlap, whichever handles, helpers    *)
(* and branches they were started through.                                 *)
(***************************************************************************)
OverlapsKnown ==
    Ran => \A t \in DOMAIN threads : \A s, r \in ChildrenOf(t) :
        s # r /\ threads[s].entry = threads[r].entry
            => <<threads[s].entry, 0>> \in c.overlapping

(***************************************************************************)
(* Threads of two entries the analysis calls sequenced never run at once.  *)
(***************************************************************************)
SequencedNeverTogether ==
    Ran => \A s, r \in {t \in DOMAIN threads : Running(t)} :
        {threads[s].entry, threads[r].entry} \in c.q.sequenced => s = r

AtAccess(t) == Running(t) /\ ~Interrupted(t) /\ At(t).op \in {"read", "write"}

AccessOf(t) == [fn |-> Top(t).fn, root |-> Top(t).fn \in c.root,
                live |-> c.live[Top(t).fn][Top(t).pc]]

\* One started the other, or the same thread started both.
Kin(s, r) == threads[s].parent = r \/ threads[r].parent = s \/ threads[s].parent = threads[r].parent

(***************************************************************************)
(* Two threads that stand at an access at the same time make accesses the  *)
(* rules take to happen in parallel: spawns, instances, live entries and   *)
(* sequenced pairs taken together never rule out what happens.  A thread   *)
(* an exception left behind counts beside the other threads, and not       *)
(* beside its starter.                                                     *)
(***************************************************************************)
ParallelAccessesKnown ==
    Ran => \A s, r \in {t \in DOMAIN threads : AtAccess(t)} :
        (/\ s # r /\ Kin(s, r) /\ "jthread" \notin {threads[s].kind, threads[r].kind}
         /\ ~LeftByException(s, r) /\ ~LeftByException(r, s))
            => MayHappenInParallel(c.q, AccessOf(s), AccessOf(r))

(***************************************************************************)
(* A function about to return while a local of it still holds a thread it  *)
(* started there, on which no join or detach was made, is reported, unless *)
(* the handle was given away.                                              *)
(***************************************************************************)
MissingJoinsReported ==
    Ran => \A t \in DOMAIN threads : Running(t) /\ At(t).op = "ret" =>
        \A h \in Dying(t, Depth(t) - 1) :
            LET s == threads[held[h]]
                group == Group(unit, Top(t).fn, Place(h.base, h.path))
            IN (/\ s.frame = FrameOf(t) /\ s.kind # "jthread" /\ ~s.resolved
                /\ {"a", "b"} \cap ToSet(h.path) = {}
                /\ Place(h.base, h.path) \notin EscapedPlaces(BodyOf(t)))
                   => MissingJoin(c.lifecycles, group)

----------------------------------------------------------------------------
\* The thread still lies in the handle it was started into, in the frame that started it.
StillHeld(t, s) ==
    /\ threads[s].frame = FrameOf(t)
    /\ LET h == Storage(t, BodyOf(t).ins[threads[s].site].args[1])
       IN Holding(h) /\ held[h] = s

\* The running threads the function at the top of t's stack started and still holds.
HeldThreads(t) == {s \in ChildrenOf(t) : StillHeld(t, s)}

(***************************************************************************)
(* A function about to return while a thread it started, and still holds   *)
(* by its handle, runs with a pointer to one of its locals has that        *)
(* creation reported, whichever joins the other paths make.                *)
(***************************************************************************)
EscapesReported ==
    Ran => \A t \in DOMAIN threads : Running(t) /\ At(t).op = "ret" =>
        \A s \in HeldThreads(t) :
            (\E p \in threads[s].points : p.frame = FrameOf(t))
                => <<Top(t).fn, threads[s].site>> \in c.escapes

AssignedOnce(b, p) == Cardinality({n \in Nodes(b) : b.ins[n].op = "assign" /\ b.ins[n].to = p}) = 1

(***************************************************************************)
(* A function about to free the block a thread it started, and still       *)
(* holds, was handed and may read has that creation reported: when every   *)
(* path to the free makes the creation and the block lies in a variable    *)
(* assigned once.                                                          *)
(***************************************************************************)
FreesReported ==
    Ran => \A t \in DOMAIN threads : Running(t) /\ At(t).op = "free" =>
        LET b == BodyOf(t)
            p == At(t).args[1].base
        IN \A s \in HeldThreads(t) :
              (/\ PointedBy(t, p) \cap threads[s].points # {}
               /\ b.ins[threads[s].site].args[3] = Loaded(p)
               /\ AssignedOnce(b, p) /\ ~AddressOfTaken(b, p)
               /\ Dominates(b, threads[s].site, Top(t).pc)
               /\ \E n \in Nodes(unit.body[threads[s].entry]) :
                     unit.body[threads[s].entry].ins[n].op = "deref")
                  => <<Top(t).fn, threads[s].site>> \in c.frees

(***************************************************************************)
(* Where the use of a thread-local is reported as coming after the end of  *)
(* its threads, none of the threads of that entry that the function        *)
(* started and holds is still running.                                     *)
(***************************************************************************)
ExpiredThreadLocalsEnded ==
    Ran => \A t \in DOMAIN threads : Running(t) =>
        \A e \in c.expired : e.function = Top(t).fn /\ e.use = Top(t).pc =>
            \A s \in HeldThreads(t) : threads[s].entry # e.entry

\* The lifetime rules as a whole: what a thread holds a pointer to outlives it, or is reported,
\* and no thread-local is called expired before its thread is.
LifetimesJudged == EscapesReported /\ FreesReported /\ ExpiredThreadLocalsEnded

(***************************************************************************)
(* A handler that is interrupting a thread at a call no handler may make,  *)
(* however deep in what it called, is a handler the rule reports.          *)
(***************************************************************************)
SignalHandlersReported ==
    Ran => \A t \in DOMAIN threads : Running(t) /\ At(t).op = "unsafe" =>
        \A i \in DOMAIN threads[t].stack :
            threads[t].stack[i].signal => threads[t].stack[i].fn \in c.handlers

CalledIn(u) == {s.callee : s \in SitesIn(u)}

(***************************************************************************)
(* A thread waiting on a condition with no loop around it, neither around  *)
(* the wait nor around any of the calls that led to it, has the function   *)
(* it runs reported, when nothing calls that function, and none of the     *)
(* functions between: the obligation to loop reaches the outermost         *)
(* function, and is reported there only.                                   *)
(***************************************************************************)
WaitsReported ==
    Ran => \A t \in DOMAIN threads : Running(t) /\ At(t).op = "wait" =>
        LET stack == threads[t].stack
        IN (/\ \A i \in DOMAIN stack : ~InLoop(unit.body[stack[i].fn], stack[i].pc)
            /\ stack[1].fn \notin CalledIn(unit))
               => {stack[i].fn : i \in DOMAIN stack} \cap c.waits = {stack[1].fn}

(***************************************************************************)
(* A fork made while another thread runs is reported when nothing replaces *)
(* the program; the function that forks is never reported when it, or what *)
(* it called, is about to.                                                 *)
(***************************************************************************)
ForksJudged ==
    Ran => \A t \in DOMAIN threads : Running(t) =>
        /\ (/\ At(t).op = "fork"
            /\ \E s \in DOMAIN threads \ {t} : Running(s) /\ threads[s].kind \in {"pthread", "std"}
            /\ \A f \in DOMAIN unit.body : NodesWith(unit, f, "exec") = {})
               => <<Top(t).fn, Top(t).pc>> \in c.forks
        /\ At(t).op = "exec" => \A i \in DOMAIN threads[t].stack : \A fork \in c.forks \cup c.unreaped :
               fork[1] # threads[t].stack[i].fn

\* The rules that follow the calls of the unit, as a whole: an obligation or a danger in a
\* function is carried to exactly the functions that the calls lead to it from.
CallGraphRulesJudged == SignalHandlersReported /\ WaitsReported /\ ForksJudged
=============================================================================
