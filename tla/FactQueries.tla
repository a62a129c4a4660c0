----------------------------- MODULE FactQueries -----------------------------
(***************************************************************************)
(* facts.hpp and fact_queries.hpp: the regions of memory facts are about,  *)
(* and which facts of a unit may happen in parallel.                       *)
(* q.reach gives the thread entries that reach a function, for the         *)
(* functions some entry reaches; q.concurrency, for an entry, whether      *)
(* several instances of it may run at once; q.sequenced the pairs of       *)
(* entries a join keeps apart.                                             *)
(***************************************************************************)
EXTENDS Integers, FiniteSets, InOrder

(***************************************************************************)
(* MemoryRegion of facts.hpp: the bytes an access touches inside a root    *)
(* object.  A size of 0 is an unknown extent.                              *)
(***************************************************************************)
Region(off, size) == [known |-> TRUE, off |-> off, size |-> size, owner |-> "None", entry |-> ""]
UnknownPlace(size) == [known |-> FALSE, off |-> 0, size |-> size, owner |-> "None", entry |-> ""]

MayOverlap(a, b) ==
    /\ ~(a.owner = "AccessingThread" /\ b.owner = "AccessingThread" /\ a.entry = b.entry)
    /\ \/ ~a.known \/ ~b.known
       \/ a.size = 0 \/ b.size = 0
       \/ a.off < b.off + b.size /\ b.off < a.off + a.size

\* rebasedOn: a callee's region, seen from the call that passes `argument`.
RebasedOn(r, argument, designated) ==
    IF r.known /\ r.off = 0 /\ r.size = 0 THEN designated
    ELSE [r EXCEPT !.known = r.known /\ argument.known, !.off = r.off + argument.off]

HeldBySpawningThread(owner) == owner \in {"NotYetHandedOver", "JoinedThisRound"}

OrderedWithElementOwner(a, b) ==
    /\ a.entry = b.entry
    /\ \/ a.owner = "AccessingThread" /\ HeldBySpawningThread(b.owner)
       \/ b.owner = "AccessingThread" /\ HeldBySpawningThread(a.owner)

\* placeInElement: only a region at an unknown offset is placed.
PlaceInElement(r, owner, entry) ==
    IF r.known THEN r ELSE [r EXCEPT !.owner = owner, !.entry = entry]

\* identity(): the part of a region that tells two accesses apart.
RegionIdentity(r) == <<r.known, IF r.known THEN r.off ELSE 0, r.size, r.owner, r.entry>>

----------------------------------------------------------------------------
(***************************************************************************)
(* What runs in parallel.                                                  *)
(***************************************************************************)

EntriesFor(q, fact) == IF fact.fn \in DOMAIN q.reach THEN q.reach[fact.fn] ELSE {}

IsSelfConcurrent(q, entries) ==
    \E e \in entries : e \in DOMAIN q.concurrency /\ q.concurrency[e]

\* Mutant: two instances of one entry are taken to run one after the other.
MayRunConcurrentlyDistinct(q, lhs, rhs) ==
    \E l \in lhs, r \in rhs : l # r /\ {l, r} \notin q.sequenced

MayRunConcurrently(q, lhs, rhs) ==
    \E l \in lhs, r \in rhs :
        IF l # r THEN {l, r} \notin q.sequenced ELSE IsSelfConcurrent(q, {l})

RacesWithRootTask(rootSide, otherEntries) ==
    rootSide.root /\ rootSide.live \cap otherEntries # {}

\* mayHappenInParallel(lhs, lhsEntries, rhs, rhsEntries, facts).
MayHappenInParallel(q, lhs, rhs) ==
    LET l == EntriesFor(q, lhs)
        r == EntriesFor(q, rhs)
    IN \/ RacesWithRootTask(lhs, r)
       \/ RacesWithRootTask(rhs, l)
       \/ MayRunConcurrently(q, l, r)

\* threadsThroughCall: of the threads beside a callee's fact o, those running at the call c
\* or started below.  The first is a mutant, which forgets the threads running at the call.
LiveThroughCallStarted(o, c) == o.live \cap o.started
LiveThroughCall(o, c) == {e \in o.live : e \in o.started \/ e \in c.live}
StartedThroughCall(o, c) == {e \in LiveThroughCall(o, c) : e \in o.started \/ e \in c.started}
=============================================================================
