------------------------------ MODULE DataRaces ------------------------------
(***************************************************************************)
(* data_race_checker.cpp: the data race rule over the access facts         *)
(* q.accesses, a sequence.                                                 *)
(***************************************************************************)
EXTENDS FactQueries, Sequences, SequencesExt

CONSTANT MaxRelatedSites       \* kMaxRelatedConflictSites

----------------------------------------------------------------------------
(***************************************************************************)
(* Access facts, and the conditions two of them conflict under.            *)
(***************************************************************************)
Access(symbol, region, fn, write) ==
    [symbol |-> symbol, region |-> region, fn |-> fn, write |-> write, alias |-> "Direct",
     lowered |-> fn, user |-> fn, atomic |-> FALSE, coarse |-> FALSE, guessed |-> FALSE,
     root |-> FALSE, live |-> {}, started |-> {}, boundBySpawn |-> FALSE, instanceOwner |-> "",
     held |-> {}, beforeRelease |-> {}, afterAcquire |-> {}]

ShareRecognizedLock(l, r) == l.held \cap r.held # {}

OrderedByPublication(l, r) ==
    l.beforeRelease \cap r.afterAcquire # {} \/ r.beforeRelease \cap l.afterAcquire # {}

HasPreciseRegions(l, r) ==
    /\ ~l.coarse /\ ~r.coarse
    /\ l.region.known /\ r.region.known
    /\ l.region.size # 0 /\ r.region.size # 0

InOwnObjectsOfInstances(l, r) == l.instanceOwner # "" /\ l.instanceOwner = r.instanceOwner

RacesWithItself(q, a) ==
    /\ ~a.boundBySpawn
    /\ \/ RacesWithRootTask(a, EntriesFor(q, a))
       \/ \E e, f \in EntriesFor(q, a) : e # f /\ MayRunConcurrently(q, {e}, {f})

Conflict(q, l, r) ==
    /\ l.write \/ r.write
    /\ MayOverlap(l.region, r.region)
    /\ ~OrderedWithElementOwner(l.region, r.region)
    /\ ~(l.atomic /\ r.atomic)
    /\ l.atomic # r.atomic => HasPreciseRegions(l, r)
    /\ MayHappenInParallel(q, l, r)
    /\ ~InOwnObjectsOfInstances(l, r)
    /\ ~ShareRecognizedLock(l, r)
    /\ ~OrderedByPublication(l, r)

----------------------------------------------------------------------------
(***************************************************************************)
(* Grouping conflicts.                                                     *)
(***************************************************************************)
\* conflictLocationKey: the place, and the two contexts in no order.
ConflictLocationKey(q, l, r) ==
    <<l.symbol,
      IF ~l.region.known \/ ~r.region.known THEN -1
      ELSE IF l.region.off < r.region.off THEN l.region.off ELSE r.region.off,
      {EntriesFor(q, l), EntriesFor(q, r)}>>

IsPrecise(l, r) == ~l.coarse /\ ~r.coarse /\ ~l.guessed /\ ~r.guessed

\* inferConfidence: 0 low, 1 medium, 2 high.
InferConfidence(l, r) ==
    IF "MayAlias" \in {l.alias, r.alias} THEN 0
    ELSE IF "MustAlias" \in {l.alias, r.alias} THEN 1 ELSE 2

\* The tuple candidates for a location are ranked by, as one number.
Rank(l, r) ==
    12 * (IF IsPrecise(l, r) THEN 1 ELSE 0) + 6 * (IF l.lowered # l.user THEN 1 ELSE 0)
      + 2 * InferConfidence(l, r) + (IF l.write /\ r.write THEN 1 ELSE 0)

NewSites(sites, l, r) ==
    LET with(acc, site) == IF Len(acc) >= MaxRelatedSites \/ site \in ToSet(acc) THEN acc
                           ELSE Append(acc, site)
    IN with(with(sites, l.user), r.user)

\* One conflicting pair joins the conflicts by location, or is suppressed.
AddConflict(q, st, l, r) ==
    LET key == ConflictLocationKey(q, l, r)
        precise == IsPrecise(l, r)
        known == key \in DOMAIN st.at
        best == ~known \/ Rank(l, r) > Rank(st.at[key].lhs, st.at[key].rhs)
        entry == [lhs |-> IF best THEN l ELSE st.at[key].lhs,
                  rhs |-> IF best THEN r ELSE st.at[key].rhs,
                  more |-> IF known THEN st.at[key].more + 1 ELSE 0,
                  sites |-> NewSites(IF known THEN st.at[key].sites ELSE <<>>, l, r)]
    IN IF ~precise /\ st.precise THEN st
       ELSE [at |-> [k \in DOMAIN st.at \cup {key} |-> IF k = key THEN entry ELSE st.at[k]],
             precise |-> st.precise \/ precise]

PairConflicts(q, accesses) ==
    LET pairs == FlattenSeq([i \in DOMAIN accesses |->
                     [k \in 1..(Len(accesses) - i) |-> <<accesses[i], accesses[i + k]>>]])
    IN FoldInOrder(LAMBDA st, p : IF Conflict(q, p[1], p[2]) THEN AddConflict(q, st, p[1], p[2])
                               ELSE st,
                [at |-> <<>>, precise |-> FALSE], pairs)

\* An access compared with itself adds only a location the pairs leave unreported.
AddSelfConflict(q, st, a) ==
    LET key == ConflictLocationKey(q, a, a)
    IN IF \/ ~a.write \/ a.atomic
          \/ ~RacesWithItself(q, a)
          \/ ShareRecognizedLock(a, a)
          \/ ~IsPrecise(a, a) /\ st.precise
          \/ key \in DOMAIN st.at
       THEN st
       ELSE [st EXCEPT !.at = [k \in DOMAIN @ \cup {key} |->
                 IF k = key THEN [lhs |-> a, rhs |-> a, more |-> 0, sites |-> <<>>] ELSE @[k]]]

\* The last resort: the first write several instances of one entry may make at once.
SelfConcurrentWrites(q, accesses) ==
    SelectSeq(accesses, LAMBDA a : /\ a.write /\ ~a.atomic
                                   /\ IsSelfConcurrent(q, EntriesFor(q, a))
                                   /\ ~InOwnObjectsOfInstances(a, a)
                                   /\ MayOverlap(a.region, a.region)
                                   /\ ~ShareRecognizedLock(a, a))

\* The representative pair carries its own locations: they are not listed again.
RelatedSites(entry) == ToSet(entry.sites) \ {entry.lhs.user, entry.rhs.user}

Diagnostic(key, lhs, rhs, related, more) ==
    [key |-> key, lhs |-> lhs, rhs |-> rhs, related |-> related, more |-> more]

Diagnostics(q, at, selfs) ==
    IF DOMAIN at # {}
    THEN {Diagnostic(k, at[k].lhs, at[k].rhs, RelatedSites(at[k]), at[k].more) : k \in DOMAIN at}
    ELSE IF selfs = <<>> THEN {}
    ELSE {Diagnostic(ConflictLocationKey(q, selfs[1], selfs[1]), selfs[1], selfs[1], {}, 0)}

SymbolDiagnostics(q, accesses) ==
    Diagnostics(q,
                FoldInOrder(LAMBDA st, a : AddSelfConflict(q, st, a), PairConflicts(q, accesses),
                            accesses).at,
                SelfConcurrentWrites(q, accesses))

\* DataRaceChecker::run: only code some task runs is compared.
RunDataRaceChecker(q) ==
    LET compared == SelectSeq(q.accesses, LAMBDA a : a.fn \in DOMAIN q.reach \/ a.root)
    IN UNION {SymbolDiagnostics(q, SelectSeq(compared, LAMBDA a : a.symbol = s)) :
                 s \in {a.symbol : a \in ToSet(compared)}}
=============================================================================
