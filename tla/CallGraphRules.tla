--------------------------- MODULE CallGraphRules ---------------------------
(***************************************************************************)
(* The rules that follow direct calls only: condition waits nobody loops   *)
(* around, signal handlers that reach an unsafe call, and forks.  The      *)
(* code repeats a pass over the call sites until nothing changes; the      *)
(* functions it ends with are those some chain of calls leads to.          *)
(***************************************************************************)
EXTENDS ThreadSites

NodesWith(u, f, op) == {n \in Nodes(u.body[f]) : u.body[f].ins[n].op = op}

SitesIn(u) == ToSet(CollectDirectCallSites(u))

\* The functions that call one of `from`, directly or not, through sites of the set.
ThoseCalling(from, sites) == ReachableBy({<<s.callee, s.caller>> : s \in sites}, from)

----------------------------------------------------------------------------
\* ConditionWaitCollector: the functions with a wait in no loop of theirs.
UnguardedWaits(u) ==
    {f \in DOMAIN u.body : \E n \in NodesWith(u, f, "wait") \cap Reachable(u.body[f]) :
                              ~InLoop(u.body[f], n)}

\* The obligation to loop travels to the callers that do not.
Obliged(u) == ThoseCalling(UnguardedWaits(u), {s \in SitesIn(u) : ~s.insideLoop})

\* Answered only where every caller loops.
AnsweredByLoops(u) ==
    {s.callee : s \in SitesIn(u)} \ {s.callee : s \in {k \in SitesIn(u) : ~k.insideLoop}}

\* A caller further out carries it, or every caller loops.
AnsweredByACaller(u) ==
    LET obliged == Obliged(u)
        sites == {s \in SitesIn(u) : s.callee \in obliged}
        outside == {s \in sites : ~s.insideLoop}
    IN {s.callee : s \in {k \in outside : k.caller \in obliged}}
       \cup ({s.callee : s \in sites} \ {s.callee : s \in outside})

ConditionWaits(u) == Obliged(u) \ AnsweredByACaller(u)

----------------------------------------------------------------------------
\* SignalHandlerCollector: the unsafety of a call travels back to the handlers that reach it.
InstalledHandlers(u) ==
    UNION {{u.body[f].ins[n].to : n \in NodesWith(u, f, "install")} : f \in DOMAIN u.body}

\* The handlers that make an unsafe call themselves.
UnsafeOwnHandlers(u) == {f \in InstalledHandlers(u) : NodesWith(u, f, "unsafe") # {}}

UnsafeHandlers(u) ==
    InstalledHandlers(u)
    \cap ThoseCalling({f \in DOMAIN u.body : NodesWith(u, f, "unsafe") # {}}, SitesIn(u))

----------------------------------------------------------------------------
\* The functions that replace the program themselves.
ReachingExecItself(u) == {f \in DOMAIN u.body : NodesWith(u, f, "exec") # {}}

\* ProcessLifecycleCollector and its checker: the forks with no exec in reach, reported when
\* the program creates threads, and again when nothing in it reaps children.
ReachingExec(u) ==
    ThoseCalling({f \in DOMAIN u.body : NodesWith(u, f, "exec") # {}}, SitesIn(u))

Forks(u) ==
    UNION {{<<f, n>> : n \in NodesWith(u, f, "fork")} : f \in DOMAIN u.body \ ReachingExec(u)}

ReapsChildren(u) == \E f \in DOMAIN u.body : NodesWith(u, f, "reap") # {}

ForksAfterThreads(u, createsThreads) == IF createsThreads THEN Forks(u) ELSE {}

UnreapedChildren(u) == IF ReapsChildren(u) THEN {} ELSE Forks(u)
=============================================================================
