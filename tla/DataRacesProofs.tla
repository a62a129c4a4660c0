--------------------------- MODULE DataRacesProofs ---------------------------
(***************************************************************************)
(* What the data race rule may rely on, for every set of facts: the        *)
(* decision on a pair of accesses does not depend on which of the two      *)
(* comes first in the facts, and the test on regions never separates two   *)
(* accesses to one byte, before or after a call moves them.                *)
(***************************************************************************)
EXTENDS DataRaces, TLAPS

----------------------------------------------------------------------------
(***************************************************************************)
(* Regions as sets of bytes.                                               *)
(***************************************************************************)
\* The regions of accesses whose place and extent are known.
PreciseRegions == [known : {TRUE}, off : Int, size : Nat \ {0}, owner : STRING, entry : STRING]

Bytes(r) == r.off .. (r.off + r.size - 1)

\* MemoryRegion::mayOverlap on known places, neither of them in an element the accessing
\* thread owns, is exactly whether the two regions share a byte.
THEOREM OverlapIsSharedByte ==
    ASSUME NEW a \in PreciseRegions, NEW b \in PreciseRegions,
           "AccessingThread" \notin {a.owner, b.owner}
    PROVE  MayOverlap(a, b) <=> Bytes(a) \cap Bytes(b) # {}
<1> USE DEF PreciseRegions
<1>1. ASSUME MayOverlap(a, b) PROVE Bytes(a) \cap Bytes(b) # {}
  <2>1. a.off < b.off + b.size /\ b.off < a.off + a.size
    BY <1>1 DEF MayOverlap
  <2>2. CASE a.off <= b.off
    <3>1. b.off \in Bytes(a) /\ b.off \in Bytes(b)
      BY <2>1, <2>2 DEF Bytes
    <3> QED BY <3>1
  <2>3. CASE ~(a.off <= b.off)
    <3>1. a.off \in Bytes(a) /\ a.off \in Bytes(b)
      BY <2>1, <2>3 DEF Bytes
    <3> QED BY <3>1
  <2> QED BY <2>2, <2>3
<1>2. ASSUME Bytes(a) \cap Bytes(b) # {} PROVE MayOverlap(a, b)
  <2>1. PICK x \in Int : x \in Bytes(a) /\ x \in Bytes(b)
    BY <1>2 DEF Bytes
  <2>2. a.off < b.off + b.size /\ b.off < a.off + a.size
    BY <2>1 DEF Bytes
  <2> QED BY <2>2 DEF MayOverlap
<1> QED BY <1>1, <1>2

\* MemoryRegion::rebasedOn at a call that passes a known place moves both regions of a callee
\* alike: what overlapped in the callee overlaps in the caller, and nothing else does.
THEOREM RebasingKeepsOverlap ==
    ASSUME NEW a \in PreciseRegions, NEW b \in PreciseRegions,
           NEW argument \in PreciseRegions, NEW designated
    PROVE  MayOverlap(RebasedOn(a, argument, designated), RebasedOn(b, argument, designated))
               <=> MayOverlap(a, b)
<1> DEFINE Shifted(r) == [r EXCEPT !.known = r.known /\ argument.known,
                                   !.off = r.off + argument.off]
<1>1. ASSUME NEW r \in PreciseRegions
      PROVE  /\ RebasedOn(r, argument, designated) = Shifted(r)
             /\ Shifted(r).known /\ Shifted(r).off = r.off + argument.off
             /\ Shifted(r).size = r.size
             /\ Shifted(r).owner = r.owner /\ Shifted(r).entry = r.entry
  BY DEF RebasedOn, PreciseRegions
<1>2. /\ a.off \in Int /\ b.off \in Int /\ argument.off \in Int /\ a.size \in Nat /\ b.size \in Nat
      /\ a.known /\ b.known
  BY DEF PreciseRegions
<1>3. /\ a.off + argument.off < b.off + argument.off + b.size <=> a.off < b.off + b.size
      /\ b.off + argument.off < a.off + argument.off + a.size <=> b.off < a.off + a.size
  BY <1>2
<1> HIDE DEF Shifted
<1> QED BY <1>1, <1>2, <1>3 DEF MayOverlap

----------------------------------------------------------------------------
(***************************************************************************)
(* The order of a pair.                                                    *)
(***************************************************************************)
\* mayHappenInParallel, used by the race and the deadlock rule, is symmetric.
LEMMA ParallelSymmetric ==
    ASSUME NEW q, NEW l, NEW r
    PROVE  MayHappenInParallel(q, l, r) <=> MayHappenInParallel(q, r, l)
<1>1. ASSUME NEW A, NEW B, MayRunConcurrently(q, A, B)
      PROVE  MayRunConcurrently(q, B, A)
  <2>1. PICK e \in A, f \in B : IF e # f THEN {e, f} \notin q.sequenced
                                ELSE IsSelfConcurrent(q, {e})
    BY <1>1 DEF MayRunConcurrently
  <2>2. {f, e} = {e, f}
    OBVIOUS
  <2>3. IF f # e THEN {f, e} \notin q.sequenced ELSE IsSelfConcurrent(q, {f})
    BY <2>1, <2>2
  <2> QED BY <2>3 DEF MayRunConcurrently
<1> QED BY <1>1 DEF MayHappenInParallel

\* Whether two accesses may overlap does not depend on which is named first.
LEMMA OverlapSymmetric ==
    ASSUME NEW a, NEW b
    PROVE  /\ MayOverlap(a, b) <=> MayOverlap(b, a)
           /\ OrderedWithElementOwner(a, b) <=> OrderedWithElementOwner(b, a)
BY DEF MayOverlap, OrderedWithElementOwner

\* Whether DataRaceChecker::run takes two accesses for a conflict does not depend on which of
\* them the facts list first, so the order in which units and functions are walked decides
\* nothing about which pairs race.
THEOREM ConflictSymmetric ==
    ASSUME NEW q, NEW l, NEW r
    PROVE  Conflict(q, l, r) <=> Conflict(q, r, l)
<1>1. ShareRecognizedLock(l, r) <=> ShareRecognizedLock(r, l)
  BY DEF ShareRecognizedLock
<1>2. OrderedByPublication(l, r) <=> OrderedByPublication(r, l)
  BY DEF OrderedByPublication
<1>3. HasPreciseRegions(l, r) <=> HasPreciseRegions(r, l)
  BY DEF HasPreciseRegions
<1>4. InOwnObjectsOfInstances(l, r) <=> InOwnObjectsOfInstances(r, l)
  BY DEF InOwnObjectsOfInstances
<1>5. (l.atomic # r.atomic => HasPreciseRegions(l, r))
        <=> (r.atomic # l.atomic => HasPreciseRegions(r, l))
  BY <1>3
<1> QED BY <1>1, <1>2, <1>4, <1>5, ParallelSymmetric, OverlapSymmetric, Zenon DEF Conflict
=============================================================================
