------------------------------- MODULE UnitIR -------------------------------
(***************************************************************************)
(* The translation unit the analysis reads, as LLVM shows it to the code:  *)
(* a function is a control-flow graph.  A node is one instruction, so a    *)
(* basic block is a chain of nodes, and the nodes are numbered in layout   *)
(* order.  Node 1 is the entry.  body.succ[n] is the sequence of the       *)
(* successors of n: the arms of a branch in their order, the normal and    *)
(* the unwind destination of an invoke.                                    *)
(*                                                                         *)
(* What LLVM computes for the analysis (reachability, dominance, loops) is *)
(* defined here by what it means, not by LLVM's algorithms.                *)
(***************************************************************************)
EXTENDS Naturals, Sequences, FiniteSets, SequencesExt, InOrder

Instr(op, to, args, flag) == [op |-> op, to |-> to, args |-> args, flag |-> flag]

Nodes(b) == DOMAIN b.ins

Succ(b, n) == ToSet(b.succ[n])

Edges(b) == UNION {{<<n, m>> : m \in Succ(b, n)} : n \in Nodes(b)}

Returns(b) == {n \in Nodes(b) : b.ins[n].op = "ret"}

\* A function without branches: every instruction falls through to the next.
Straight(ins) ==
    [ins |-> ins, succ |-> [n \in DOMAIN ins |-> IF n = Len(ins) THEN <<>> ELSE <<n + 1>>]]

RECURSIVE Flood(_, _, _)
Flood(edges, frontier, seen) ==
    IF frontier = {} THEN seen
    ELSE LET next == {e[2] : e \in {d \in edges : d[1] \in frontier}} \ seen
         IN Flood(edges, next, seen \cup next)

\* The nodes some path of `edges` leads to from `from`, `from` included.
ReachableBy(edges, from) == Flood(edges, from, from)

\* ... by at least one edge.
After(edges, n) ==
    ReachableBy(edges, {e[2] : e \in {d \in edges : d[1] = n}})

\* The edges of paths that never go through the nodes `cut`.
Without(edges, cut) == {e \in edges : e[1] \notin cut /\ e[2] \notin cut}

Reachable(b) == ReachableBy(Edges(b), {1})

Dominates(b, a, n) ==
    \/ a = n
    \/ a = 1
    \/ n \notin ReachableBy(Without(Edges(b), {a}), {1})

\* Every path from the entry to n takes the edge e.
EdgeDominates(b, e, n) == n \notin ReachableBy(Edges(b) \ {e}, {1})

InLoop(b, n) == n \in After(Edges(b), n)

(***************************************************************************)
(* The direct calls of defined functions, in the order the code collects   *)
(* them: function after function, instruction after instruction, leaving   *)
(* out code no path reaches.                                               *)
(***************************************************************************)
SitesOf(u, f) ==
    LET b == u.body[f]
        reachable == Reachable(b)
        calls == SelectSeq([n \in Nodes(b) |-> n],
                           LAMBDA n : /\ b.ins[n].op = "call"
                                      /\ b.ins[n].to \in DOMAIN u.body
                                      /\ n \in reachable)
    IN [i \in DOMAIN calls |->
           [caller |-> f, node |-> calls[i], callee |-> b.ins[calls[i]].to,
            args |-> b.ins[calls[i]].args, insideLoop |-> InLoop(b, calls[i])]]

CollectDirectCallSites(u) == FlattenSeq([i \in DOMAIN u.order |-> SitesOf(u, u.order[i])])

CallEdges(sites) == {<<sites[i].caller, sites[i].callee>> : i \in DOMAIN sites}

(***************************************************************************)
(* callsClosingCycles: the caller and the callee of the site lie in one    *)
(* strongly connected component of the call graph.                         *)
(***************************************************************************)
ClosesCycle(sites, site) == site.caller \in ReachableBy(CallEdges(sites), {site.callee})

(***************************************************************************)
(* thread_context_propagator.cpp: the thread entries whose threads run a   *)
(* function.  An entry reaches what it calls and the thread-exit           *)
(* destructors it registers, an instruction "atexit" naming the destructor.*)
(***************************************************************************)
ContextEdges(u) ==
    CallEdges(CollectDirectCallSites(u))
      \cup UNION {{<<f, u.body[f].ins[n].to>> :
                      n \in {m \in Nodes(u.body[f]) : u.body[f].ins[m].op = "atexit"}} :
                     f \in DOMAIN u.body}

\* Only functions some entry reaches are in the domain.
ReachableThreadEntries(u) ==
    LET edges == ContextEdges(u)
        reached(e) == ReachableBy(edges, {e}) \cap DOMAIN u.body
    IN [f \in UNION {reached(e) : e \in DOMAIN u.entries} |->
           {e \in DOMAIN u.entries : f \in reached(e)}]
=============================================================================
