--------------------------- MODULE ThreadLifetimes ---------------------------
(***************************************************************************)
(* thread_argument_escape_collector.cpp: locals handed to threads that     *)
(* outlive them, memory freed while a thread still reads it, and           *)
(* thread-locals used once their thread has ended.                         *)
(*                                                                         *)
(* A creation carries its handle, its attributes and its argument.  The    *)
(* argument is the address of a local, or what a pointer variable holds:   *)
(* Loaded(p).  For a std::thread it is the object it copies, and what      *)
(* escapes is the local whose address was stored in that object.           *)
(***************************************************************************)
EXTENDS ThreadSites

Loaded(p) == Place(p, <<"load">>)

IsLoaded(operand) == operand.path = <<"load">>

ArgumentsOf(b, n) == {b.ins[n].args[i] : i \in {k \in DOMAIN b.ins[n].args : k > 2}}

\* endsOf: where the thread has certainly ended.
EndsOf(x, f, n) ==
    LET b == x.u.body[f]
        joins == {m \in OfKind(b, "join", {"pthread", "std"}) : b.ins[m].args[1] = b.ins[n].args[1]}
    IN (IF n \in DOMAIN x.completions[f] THEN x.completions[f][n] ELSE {})
       \cup UNION {JoinSuccessOf(b, m, b.ins[m].flag) : m \in joins}

EndedAt(b, creation, point, ends) ==
    /\ point \in ReachableBy(Edges(b), {creation})
    /\ PassedOnEveryPath(b, creation, ends, point)

----------------------------------------------------------------------------
\* localStoredInto.
LocalsStoredInto(u, b, object) ==
    {b.ins[n].args[2].base :
        n \in {k \in Nodes(b) : /\ b.ins[k].op = "store" /\ b.ins[k].args[1].base = object
                                /\ IsLocal(u, b.ins[k].args[2].base)
                                /\ b.ins[k].args[2].base # object}}

EscapingLocals(u, b, n) ==
    LET named == {a.base : a \in {k \in ArgumentsOf(b, n) : ~IsLoaded(k) /\ IsLocal(u, k.base)}}
    IN IF b.ins[n].flag = "pthread" THEN named
       ELSE UNION {LocalsStoredInto(u, b, object) : object \in named}

\* Joined somewhere taken for joined on every way out.
EscapesUnjoined(x) ==
    UNION {{<<f, n>> : n \in {k \in Creations(x.u.body[f]) :
                                 /\ EscapingLocals(x.u, x.u.body[f], k) # {}
                                 /\ EndsOf(x, f, k) = {}}} : f \in DOMAIN x.u.body}

Escapes(x) ==
    UNION {{<<f, n>> : n \in {k \in Creations(x.u.body[f]) :
                                 /\ EscapingLocals(x.u, x.u.body[f], k) # {}
                                 /\ ~CompletedOnEveryPath(x.u.body[f], k, EndsOf(x, f, k))}} :
           f \in DOMAIN x.u.body}

----------------------------------------------------------------------------
\* The entry hands its argument on.
HandsArgumentOn(b) ==
    \E n \in Nodes(b) : /\ b.ins[n].op \in {"call", "spawn", "free"}
                        /\ \E i \in DOMAIN b.ins[n].args : b.ins[n].args[i].base = "%0"

\* ... or reads or writes through it.
UsesArgument(b) == HandsArgumentOn(b) \/ \E n \in Nodes(b) : b.ins[n].op = "deref"

\* Handed to a call, or stored, by address.
AddressOfTaken(b, p) ==
    \E n \in Nodes(b) : /\ b.ins[n].op \in {"call", "spawn", "store"}
                        /\ \E i \in DOMAIN b.ins[n].args :
                              /\ b.ins[n].args[i] = Place(p, <<>>)
                              /\ b.ins[n].op = "store" => i = 2

(***************************************************************************)
(* samePointer: the two operands read one variable, and every write of it  *)
(* comes before the first read or after the release.                       *)
(***************************************************************************)
SamePointer(b, creation, release) ==
    LET first == b.ins[creation].args[3]
        second == b.ins[release].args[1]
        writes == {n \in Nodes(b) : b.ins[n].op = "assign" /\ b.ins[n].to = first.base}
    IN /\ first = second
       /\ IsLoaded(first) => /\ ~AddressOfTaken(b, first.base)
                             /\ \A w \in writes : Dominates(b, w, creation) \/ Dominates(b, release, w)

FreesOf(x, f, n) ==
    LET b == x.u.body[f]
    IN {r \in Nodes(b) : /\ b.ins[r].op = "free" /\ Dominates(b, n, r)
                         /\ ~EndedAt(b, n, r, EndsOf(x, f, n))
                         /\ SamePointer(b, n, r)}

\* The creations whose argument is freed early; of several frees the first is reported.
Frees(x) ==
    UNION {{<<f, n>> : n \in {k \in Creations(x.u.body[f]) :
                                 /\ x.u.body[f].ins[k].flag = "pthread"
                                 /\ Len(x.u.body[f].ins[k].args) > 2
                                 /\ x.u.body[f].ins[k].to \in DOMAIN x.u.body
                                 /\ UsesArgument(x.u.body[x.u.body[f].ins[k].to])
                                 /\ FreesOf(x, f, k) # {}}} : f \in DOMAIN x.u.body}

----------------------------------------------------------------------------
(***************************************************************************)
(* threadLocalPublications: the pointers whose only value but null is the  *)
(* address of a thread-local, stored once in the unit.                     *)
(***************************************************************************)
StoresThreadLocal(u, s) == u.body[s[1]].ins[s[2]].flag = "threadlocal"

StoresTo(u, pointer) ==
    UNION {{<<f, n>> : n \in {k \in Nodes(u.body[f]) : /\ u.body[f].ins[k].op = "publish"
                                                       /\ u.body[f].ins[k].to = pointer
                                                       /\ u.body[f].ins[k].flag # "null"}} :
           f \in DOMAIN u.body}

ThreadLocalPublications(u) ==
    {[pointer |-> p, entry |-> s[1], store |-> s[2]] :
        <<p, s>> \in {<<q, r>> \in UNION {{q} \X StoresTo(u, q) : q \in u.globals} :
                         /\ Cardinality(StoresTo(u, q)) = 1
                         /\ StoresThreadLocal(u, r)}}

OnlyRunsAsThreadEntry(u, f) ==
    \A g \in DOMAIN u.body : \A n \in Nodes(u.body[g]) :
        ~(u.body[g].ins[n].op = "call" /\ u.body[g].ins[n].to = f)

StartsOf(u, entry) ==
    UNION {{<<f, n>> : n \in {k \in Creations(u.body[f]) : u.body[f].ins[k].to = entry}} :
           f \in DOMAIN u.body}

\* The instruction accesses memory through what it read from the pointer.
ReadFrom(b, n, pointer) == b.ins[n].op = "through" /\ b.ins[n].to = pointer

\* Once one of the threads has ended.
EndedOne(x, f, starts, n) == \E s \in starts : EndedAt(x.u.body[f], s[2], n, EndsOf(x, f, s[2]))

\* The uses of a function that come once every thread that could have published has ended; the
\* first one is reported.
EndedAll(x, f, starts, n) == \A s \in starts : EndedAt(x.u.body[f], s[2], n, EndsOf(x, f, s[2]))

ExpiredUses(x, f, publication) ==
    LET b == x.u.body[f]
        starts == StartsOf(x.u, publication.entry)
    IN IF starts = {} \/ (\E s \in starts : s[1] # f) \/ ~OnlyRunsAsThreadEntry(x.u, publication.entry)
       THEN {}
       ELSE {n \in Nodes(b) : ReadFrom(b, n, publication.pointer) /\ EndedAll(x, f, starts, n)}

ExpiredThreadLocals(x) ==
    UNION {UNION {{[function |-> f, entry |-> p.entry, use |-> n] :
                      n \in {k \in ExpiredUses(x, f, p) : \A m \in ExpiredUses(x, f, p) : k <= m}} :
                  p \in ThreadLocalPublications(x.u)} : f \in DOMAIN x.u.body}
=============================================================================
