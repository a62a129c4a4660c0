-------------------------- MODULE ContainedEntries --------------------------
(***************************************************************************)
(* Pairs of thread entries that never run together: every start of one has *)
(* been joined wherever a start of the other is made.  The starts of the   *)
(* program are listed by following calls from the functions no relevant    *)
(* function calls, each start with the calls that led to it.               *)
(***************************************************************************)
EXTENDS ThreadSites

CONSTANT MaxOccurrences     \* kMaxOccurrences

Relevant(u) ==
    LET callers == UNION {{<<s.callee, f>> : s \in ToSet(SitesOf(u, f))} : f \in DOMAIN u.body}
    IN ReachableBy(callers, {f \in DOMAIN u.body : Creations(u.body[f]) # {}})

CalledByRelevant(u, relevant) ==
    UNION {{s.callee : s \in ToSet(SitesOf(u, f))} : f \in relevant}

\* bind: the function a value is, given what the parameters are bound to.
BindFunction(u, value, arguments) ==
    IF value \in DOMAIN u.body THEN value
    ELSE IF IsParameter(value) /\ ParameterOf(value) \in DOMAIN arguments
         THEN arguments[ParameterOf(value)] ELSE "?"

BoundArguments(u, args, arguments) ==
    LET bound == [i \in DOMAIN args |-> BindFunction(u, args[i].base, arguments)]
    IN [i \in {k \in DOMAIN args : bound[k] # "?"} |-> bound[i]]

(***************************************************************************)
(* expand.  An occurrence is an entry and the frames that start it,        *)
(* innermost first: the function, the call in it, and the edges past which *)
(* the thread has ended, none when that is not known.  A call that may     *)
(* throw has completed past the first instruction it returns to.           *)
(***************************************************************************)
OutOf(b, n) == IF IsInvoke(b, n) THEN {AfterCall(b, n)} ELSE {<<n, m>> : m \in Succ(b, n)}

CompletedCall(b, n) == IF IsInvoke(b, n) THEN OutOf(b, b.succ[n][1]) ELSE {AfterCall(b, n)}

Frame(f, n, ended) == [function |-> f, start |-> n, ended |-> ended]

StartOf(x, f, n) ==
    Frame(f, n, IF n \in DOMAIN x.completions[f] THEN x.completions[f][n] ELSE {})

\* A call taken to have ended the threads it starts.
ThroughEnded(x, f, n, occurrence) ==
    [occurrence EXCEPT !.frames =
        Append(occurrence.frames, Frame(f, n, CompletedCall(x.u.body[f], n)))]

Through(x, f, n, occurrence) ==
    LET b == x.u.body[f]
        frame == Last(occurrence.frames)
        contained == /\ frame.ended # {}
                     /\ CompletedOnEveryPath(x.u.body[frame.function], frame.start, frame.ended)
    IN [occurrence EXCEPT !.frames =
           Append(occurrence.frames, Frame(f, n, IF contained THEN CompletedCall(b, n) ELSE {}))]

\* acc: the occurrences listed, the functions visited, and whether nothing was left out.
RECURSIVE Expand(_, _, _, _, _)
Expand(x, f, arguments, active, acc) ==
    LET b == x.u.body[f]
        reachable == Reachable(b)
        Visit(known, n) ==
            IF n \notin reachable THEN known
            ELSE IF n \in Creations(b)
            THEN LET entry == BindFunction(x.u, b.ins[n].to, arguments)
                 IN IF entry = "?" \/ known.count >= MaxOccurrences
                    THEN [known EXCEPT !.complete = FALSE]
                    ELSE [known EXCEPT !.count = known.count + 1,
                             !.listed = Append(known.listed,
                                 [entry |-> entry, frames |-> <<StartOf(x, f, n)>>])]
            ELSE IF b.ins[n].op = "call" /\ b.ins[n].to \in x.relevant
            THEN LET inner == Expand(x, b.ins[n].to, BoundArguments(x.u, b.ins[n].args, arguments),
                                     active \cup {f}, [known EXCEPT !.listed = <<>>])
                     listed == [i \in DOMAIN inner.listed |-> Through(x, f, n, inner.listed[i])]
                 IN [inner EXCEPT !.listed = known.listed \o listed]
            ELSE known
    IN IF ~acc.complete \/ f \in active THEN [acc EXCEPT !.complete = FALSE]
       ELSE FoldInOrder(Visit, [acc EXCEPT !.visited = acc.visited \cup {f}],
                        [n \in Nodes(b) |-> n])

\* Every start of the program, from the relevant functions no relevant function calls.
ExpandRoots(x) ==
    FoldSet(LAMBDA f, acc : Expand(x, f, <<>>, {}, acc),
            [listed |-> <<>>, visited |-> {}, complete |-> TRUE, count |-> 0],
            x.relevant \ CalledByRelevant(x.u, x.relevant))

----------------------------------------------------------------------------
\* The functions a thread may run: the entries, the relevant functions whose address is taken,
\* and what they call.
AddressTaken(u) ==
    UNION {UNION {{b.ins[n].to : n \in {k \in Nodes(b) : b.ins[k].op = "spawn"}}
                  \cup UNION {{b.ins[n].args[i].base : i \in DOMAIN b.ins[n].args} :
                              n \in {k \in Nodes(b) : b.ins[k].op = "call"}} : b \in {u.body[f]}} :
           f \in DOMAIN u.body}

WorkerReachable(x, occurrences) ==
    ReachableBy(UNION {{<<f, s.callee>> : s \in ToSet(SitesOf(x.u, f))} : f \in DOMAIN x.u.body},
                {o.entry : o \in ToSet(occurrences)} \cup (x.relevant \cap AddressTaken(x.u)))

InWorker(o, workerReachable) ==
    \E i \in DOMAIN o.frames : o.frames[i].function \in workerReachable

\* Every path to the point crosses one of the edges.
Covers(b, ended, n) == ended # {} /\ n \notin ReachableBy(Edges(b) \ ended, {1})

\* ordered: past the calls the two have in common, one has ended before the other is started.
Ordered(x, first, second) ==
    LET a == Reverse(first.frames)
        c == Reverse(second.frames)
        Differs(i) == a[i].function # c[i].function \/ a[i].start # c[i].start
        depths == {i \in DOMAIN a \cap DOMAIN c : Differs(i)}
        i == CHOOSE k \in depths : \A j \in depths : k <= j
        b == x.u.body[a[i].function]
    IN /\ depths # {}
       /\ a[i].function = c[i].function
       /\ Covers(b, a[i].ended, c[i].start) \/ Covers(b, c[i].ended, a[i].start)

\* collectContainedEntryPairs.
CollectContainedEntryPairs(u, completions) ==
    LET x == [u |-> u, completions |-> completions, relevant |-> Relevant(u)]
        all == ExpandRoots(x)
        o == all.listed
        workers == WorkerReachable(x, o)
        pairs == {p \in (DOMAIN o) \X (DOMAIN o) : p[1] < p[2] /\ o[p[1]].entry # o[p[2]].entry}
        Proved(p) == /\ ~InWorker(o[p[1]], workers) /\ ~InWorker(o[p[2]], workers)
                     /\ Ordered(x, o[p[1]], o[p[2]])
        EntryPair(p) == {o[p[1]].entry, o[p[2]].entry}
    IN IF ~all.complete \/ (x.relevant \ all.visited) \cap workers # {} THEN {}
       ELSE {EntryPair(p) : p \in {k \in pairs : Proved(k)}}
            \ {EntryPair(p) : p \in {k \in pairs : ~Proved(k)}}
=============================================================================
