-------------------------- MODULE ReportMergeProofs --------------------------
(***************************************************************************)
(* Proofs about ReportMerge, for every set of diagnostics and any number   *)
(* of units.                                                               *)
(***************************************************************************)
EXTENDS ReportMerge, WellFoundedInduction, FiniteSetTheorems, TLAPS

(***************************************************************************)
(* Induction: a least counterexample does for a set what the library's     *)
(* rules do for an operator.                                               *)
(***************************************************************************)
LEMMA LeastElement ==
  ASSUME NEW T \in SUBSET Nat, T # {}
  PROVE  \E m \in T : \A k \in T : m <= k
<1>1. \E x \in T : \A y \in T : ~(y < x)
  <2>1. PICK x \in T : \A y \in T : ~(<<y, x>> \in OpToRel(<, Nat))
    BY NatLessThanWellFounded, WFMin, Zenon
  <2>2. \A y \in T : ~(y < x)
    BY <2>1, Zenon DEF OpToRel
  <2> HIDE <2>1
  <2>3. QED
    BY <2>2, Zenon
<1>2. QED
  BY <1>1

\* Induction up to a bound, by the least number left out.
LEMMA UpTo ==
  ASSUME NEW n \in Nat, NEW P, 0 \in P, \A k \in 0..n : k \in P /\ k < n => k + 1 \in P
  PROVE  0..n \subseteq P
<1> DEFINE T == {k \in 0..n : k \notin P}
<1>1. T = {}
  <2> SUFFICES ASSUME T # {} PROVE FALSE
    OBVIOUS
  <2>1. T \in SUBSET Nat
    OBVIOUS
  <2>2. PICK m \in T : \A k \in T : m <= k
    BY <2>1, LeastElement, Zenon
  <2>3. m \in 0..n /\ m \notin P /\ m # 0
    OBVIOUS
  <2>4. m - 1 \in 0..n /\ m - 1 < n /\ ~(m <= m - 1) /\ m - 1 + 1 = m
    BY <2>3
  <2>5. m - 1 \in P
    BY <2>2, <2>4, Zenon
  <2>6. QED
    BY <2>3, <2>4, <2>5, Zenon
<1>2. QED
  BY <1>1, Zenon

(***************************************************************************)
(* The order of finalizeReport, and that a list can be put into it.        *)
(***************************************************************************)
DiagnosticType ==
  [rule : Nat, place : Nat, message : Nat, severity : {"info", "warning", "error"}]

\* Before orders the diagnostics, and only equal ones stand beside each other.
LEMMA BeforeOrders ==
  ASSUME NEW d \in Diagnostics, NEW e \in Diagnostics, NEW f \in Diagnostics
  PROVE  /\ ~Before(d, d)
         /\ Before(d, e) => ~Before(e, d)
         /\ Before(d, e) /\ Before(e, f) => Before(d, f)
         /\ ~Before(d, e) /\ ~Before(e, f) => ~Before(d, f)
         /\ ~Before(d, e) /\ ~Before(e, d) => d = e
<1>1. d \in DiagnosticType /\ e \in DiagnosticType /\ f \in DiagnosticType
  BY DiagnosticsAssumption, Zenon DEF DiagnosticType
<1>2. /\ d.rule \in Nat /\ d.place \in Nat /\ d.message \in Nat
      /\ e.rule \in Nat /\ e.place \in Nat /\ e.message \in Nat
      /\ f.rule \in Nat /\ f.place \in Nat /\ f.message \in Nat
  BY <1>1, Zenon DEF DiagnosticType
<1>3. /\ ~Before(d, d)
      /\ Before(d, e) => ~Before(e, d)
      /\ Before(d, e) /\ Before(e, f) => Before(d, f)
      /\ ~Before(d, e) /\ ~Before(e, f) => ~Before(d, f)
  BY <1>2 DEF Before
<1>4. ASSUME ~Before(d, e), ~Before(e, d) PROVE d = e
  <2>1. d.rule = e.rule /\ d.place = e.place /\ d.message = e.message
    BY <1>2, <1>4 DEF Before
  <2>2. d.severity = e.severity
    BY <2>1, DiagnosticsAssumption, Zenon
  <2>3. QED
    BY <1>1, <2>1, <2>2 DEF DiagnosticType
<1>5. QED
  BY <1>3, <1>4, Zenon

\* The first k diagnostics, put in order by p.
InOrderUpTo(list, p, k) ==
  /\ p \in [1..k -> 1..k]
  /\ \A w \in 1..k : \E v \in 1..k : p[v] = w
  /\ \A v, w \in 1..k : p[v] = p[w] => v = w
  /\ \A i, j \in 1..k : i < j => ~Before(list[p[j]], list[p[i]])

\* One more diagnostic goes in front of the first one it comes before.
LEMMA SortedLonger ==
  ASSUME NEW n \in Nat, NEW list \in [1..n -> Diagnostics], NEW k \in 0..n, k < n,
         NEW p, InOrderUpTo(list, p, k)
  PROVE  \E q : InOrderUpTo(list, q, k + 1)
<1> DEFINE new == k + 1
           T == {j \in 1..k : Before(list[new], list[p[j]])} \cup {new}
<1>1. k \in Nat /\ new \in 1..n /\ new \in Nat /\ new \notin 1..k
  OBVIOUS
<1>2. PICK m \in T : \A j \in T : m <= j
  <2>1. T \in SUBSET Nat /\ T # {}
    BY <1>1
  <2>2. QED
    BY <2>1, LeastElement, Zenon
<1>3. m \in 1..new
  BY <1>1, <1>2
<1>4. \A j \in 1..k : j < m => ~Before(list[new], list[p[j]])
  BY <1>1, <1>2, <1>3
<1>5. m \in 1..k => Before(list[new], list[p[m]])
  BY <1>1, <1>2, Zenon
<1> HIDE DEF T
<1> DEFINE q == [i \in 1..new |-> IF i < m THEN p[i] ELSE IF i = m THEN new ELSE p[i - 1]]
<1>6. /\ \A i \in 1..k : i < m => q[i] = p[i]
      /\ q[m] = new
      /\ \A i \in 1..k : i >= m => q[i + 1] = p[i]
  BY <1>1, <1>3
<1>7. \A i \in 1..new : \/ i < m /\ i \in 1..k /\ q[i] = p[i]
                        \/ i = m /\ q[i] = new
                        \/ i > m /\ i - 1 \in 1..k /\ i - 1 >= m /\ q[i] = p[i - 1]
  BY <1>1, <1>3
<1>8. \A i \in 1..k : p[i] \in 1..k /\ list[p[i]] \in Diagnostics
  <2>1. \A i \in 1..k : p[i] \in 1..k
    BY Zenon DEF InOrderUpTo
  <2>2. 1..k \subseteq 1..n
    BY <1>1
  <2>3. QED
    BY <2>1, <2>2, Zenon
<1>9. list[new] \in Diagnostics
  BY <1>1, Zenon
<1>10. q \in [1..new -> 1..new]
  BY <1>1, <1>3, <1>8
<1> HIDE DEF q
<1>11. \A w \in 1..new : \E v \in 1..new : q[v] = w
  <2> SUFFICES ASSUME NEW w \in 1..new PROVE \E v \in 1..new : q[v] = w
    BY Zenon
  <2>1. CASE w = new
    BY <1>3, <1>6, <2>1, Zenon
  <2>2. CASE w # new
    <3>1. PICK v \in 1..k : p[v] = w
      BY <1>1, <2>2 DEF InOrderUpTo
    <3>2. v \in 1..new /\ v + 1 \in 1..new
      BY <1>1
    <3>3. QED
      BY <1>3, <1>6, <3>1, <3>2
  <2>3. QED
    BY <2>1, <2>2, Zenon
<1>12. \A v, w \in 1..new : q[v] = q[w] => v = w
  <2>1. \A v, w \in 1..k : p[v] = p[w] => v = w
    BY Zenon DEF InOrderUpTo
  <2>2. QED
    BY <1>1, <1>3, <1>7, <1>8, <2>1
<1>13. \A i, j \in 1..new : i < j => ~Before(list[q[j]], list[q[i]])
  <2> SUFFICES ASSUME NEW i \in 1..new, NEW j \in 1..new, i < j
               PROVE  ~Before(list[q[j]], list[q[i]])
    OBVIOUS
  <2>0. \A a, b \in 1..k : a < b => ~Before(list[p[b]], list[p[a]])
    BY Zenon DEF InOrderUpTo
  <2>1. CASE j < m
    BY <1>1, <1>3, <1>6, <2>0, <2>1
  <2>2. CASE j = m
    BY <1>1, <1>3, <1>4, <1>6, <2>2
  <2>3. CASE j > m /\ i < m
    <3>1. i \in 1..k /\ j - 1 \in 1..k /\ i < j - 1 /\ q[i] = p[i] /\ q[j] = p[j - 1]
      BY <1>1, <1>3, <1>7, <2>3
    <3>2. QED
      BY <2>0, <3>1, Zenon
  <2>4. CASE j > m /\ i = m
    <3>1. m \in 1..k /\ j - 1 \in 1..k /\ (m < j - 1 \/ m = j - 1)
      BY <1>1, <1>3, <2>4
    <3>2. q[i] = new /\ q[j] = p[j - 1]
      BY <1>6, <1>7, <2>4, <3>1
    <3>3. ~Before(list[p[j - 1]], list[p[m]])
      BY <1>8, <2>0, <3>1, BeforeOrders, Zenon
    <3>4. Before(list[new], list[p[m]])
      BY <1>5, <3>1, Zenon
    <3>5. QED
      BY <1>8, <1>9, <3>1, <3>2, <3>3, <3>4, BeforeOrders
  <2>5. CASE i > m
    <3>1. /\ i - 1 \in 1..k /\ j - 1 \in 1..k /\ i - 1 < j - 1
          /\ q[i] = p[i - 1] /\ q[j] = p[j - 1]
      BY <1>1, <1>3, <1>7, <2>5
    <3>2. QED
      BY <2>0, <3>1, Zenon
  <2>6. QED
    BY <1>1, <1>3, <2>1, <2>2, <2>3, <2>4, <2>5
<1>14. InOrderUpTo(list, q, new)
  BY <1>10, <1>11, <1>12, <1>13, Zenon DEF InOrderUpTo
<1>15. QED
  BY <1>14, Zenon

\* Every list of diagnostics can be put in order.
LEMMA SortedExists ==
  ASSUME NEW n \in Nat, NEW list \in [1..n -> Diagnostics]
  PROVE  \E p : InOrderUpTo(list, p, n)
<1> DEFINE P == {k \in 0..n : \E p : InOrderUpTo(list, p, k)}
<1>1. 0 \in P
  <2>1. InOrderUpTo(list, [i \in 1..0 |-> i], 0)
    BY DEF InOrderUpTo
  <2>2. 0 \in 0..n
    OBVIOUS
  <2>3. QED
    BY <2>1, <2>2, Zenon
<1>2. ASSUME NEW k \in 0..n, k \in P, k < n PROVE k + 1 \in P
  <2>1. PICK p : InOrderUpTo(list, p, k)
    BY <1>2, Zenon
  <2>2. \E q : InOrderUpTo(list, q, k + 1)
    BY <1>2, <2>1, SortedLonger, Zenon
  <2>3. k + 1 \in 0..n
    BY <1>2
  <2>4. QED
    BY <2>2, <2>3, Zenon
<1>3. 0..n \subseteq P
  <2> HIDE DEF P
  <2>1. QED
    BY <1>1, <1>2, UpTo, Zenon
<1>4. n \in 0..n
  OBVIOUS
<1>5. QED
  BY <1>3, <1>4, Zenon

\* finalizeReport puts the diagnostics in order and numbers them by position.
LEMMA FinalizedFacts ==
  ASSUME NEW n \in Nat, NEW list \in [1..n -> Diagnostics]
  PROVE  \E p : /\ InOrderUpTo(list, p, n)
                /\ Finalized(list) = [i \in 1..n |-> Numbered(list[p[i]], i)]
<1> DEFINE order == CHOOSE p \in Bijection(DOMAIN list, DOMAIN list) : Sorts(p, list)
<1>1. DOMAIN list = 1..n
  OBVIOUS
<1>2. PICK p : InOrderUpTo(list, p, n)
  BY SortedExists, Zenon
<1>3. p \in Bijection(1..n, 1..n)
  BY <1>2, Zenon DEF InOrderUpTo, Bijection, Injection, Surjection, IsInjective
<1>4. Sorts(p, list)
  BY <1>1, <1>2, Zenon DEF InOrderUpTo, Sorts
<1>5. order \in Bijection(1..n, 1..n) /\ Sorts(order, list)
  BY <1>1, <1>3, <1>4, Zenon
<1>6. Finalized(list) = [i \in 1..n |-> Numbered(list[order[i]], i)]
  BY <1>1, Zenon DEF Finalized
<1> HIDE DEF order
<1>7. order \in [1..n -> 1..n] /\ DOMAIN order = 1..n
  BY <1>5, Zenon DEF Bijection, Injection
<1>8. InOrderUpTo(list, order, n)
  BY <1>1, <1>5, <1>7, Zenon DEF InOrderUpTo, Bijection, Injection, Surjection, IsInjective, Sorts
<1>9. QED
  BY <1>6, <1>8, Zenon

(***************************************************************************)
(* The loop that drops what is already reported.                           *)
(***************************************************************************)
\* One round of the loop.
Kept(old, d) ==
  IF DiagnosticKey(d) \in old.keys THEN old
  ELSE [list |-> Append(old.list, d), keys |-> old.keys \cup {DiagnosticKey(d)}]

\* What the loop has kept after each round: nothing, then one more diagnostic or none.
Rounds(list, seen, kept) ==
  /\ kept[0] = [list |-> <<>>, keys |-> seen]
  /\ \A n \in 1..Len(list) : kept[n] = Kept(kept[n - 1], list[n])

\* The recursive function is what its rounds say.
LEMMA KeptUnfold ==
  ASSUME NEW list, Len(list) \in Nat, NEW seen
  PROVE  Rounds(list, seen, KeptOf(list, seen))
<1> DEFINE first == [list |-> <<>>, keys |-> seen]
           Grows(g, m) == /\ g[0] = first
                          /\ \A k \in 1..m : g[k] = Kept(g[k - 1], list[k])
           P == {m \in 0..Len(list) : \E g : Grows(g, m)}
<1> HIDE DEF first
<1>1. 0..Len(list) \subseteq P
  <2>1. 0 \in P
    <3> DEFINE g == [k \in {0} |-> first]
    <3>1. Grows(g, 0)
      OBVIOUS
    <3> HIDE DEF g
    <3>2. 0 \in 0..Len(list)
      OBVIOUS
    <3>3. QED
      BY <3>1, <3>2, Zenon
  <2>2. ASSUME NEW m \in 0..Len(list), m \in P, m < Len(list) PROVE m + 1 \in P
    <3>1. PICK g : Grows(g, m)
      BY <2>2, Zenon
    <3> DEFINE h == [k \in 0..(m + 1) |-> IF k = m + 1 THEN Kept(g[m], list[m + 1]) ELSE g[k]]
    <3>2. h[0] = first
      BY <3>1
    <3>3. \A k \in 0..m : h[k] = g[k]
      OBVIOUS
    <3>4. h[m + 1] = Kept(g[m], list[m + 1])
      OBVIOUS
    <3> HIDE DEF h
    <3>5. \A k \in 1..(m + 1) : h[k] = Kept(h[k - 1], list[k])
      <4> TAKE k \in 1..(m + 1)
      <4>1. CASE k = m + 1
        <5>1. h[m] = g[m] /\ k - 1 = m
          BY <3>3, <4>1
        <5>2. QED
          BY <3>4, <4>1, <5>1, Zenon
      <4>2. CASE k # m + 1
        <5>1. k \in 1..m /\ k \in 0..m /\ k - 1 \in 0..m
          BY <4>2
        <5>2. h[k] = g[k] /\ h[k - 1] = g[k - 1]
          BY <3>3, <5>1, Zenon
        <5>3. QED
          BY <3>1, <5>1, <5>2, Zenon
      <4>3. QED
        BY <4>1, <4>2, Zenon
    <3>6. m + 1 \in 0..Len(list)
      BY <2>2
    <3>7. QED
      BY <3>2, <3>5, <3>6, Zenon
  <2>3. QED
    <3> HIDE DEF P
    <3>1. QED
      BY <2>1, <2>2, UpTo, Zenon
<1>2. PICK g : Grows(g, Len(list))
  <2>1. Len(list) \in 0..Len(list)
    OBVIOUS
  <2>2. QED
    BY <1>1, <2>1, Zenon
<1> DEFINE Body(f) == [n \in 0..Len(list) |->
                         IF n = 0 THEN [list |-> <<>>, keys |-> seen]
                         ELSE IF DiagnosticKey(list[n]) \in f[n - 1].keys THEN f[n - 1]
                         ELSE [list |-> Append(f[n - 1].list, list[n]),
                               keys |-> f[n - 1].keys \cup {DiagnosticKey(list[n])}]]
           X == CHOOSE f : f = Body(f)
<1>3. \E f : f = Body(f)
  <2> DEFINE f == [n \in 0..Len(list) |-> g[n]]
  <2>1. \A n \in 0..Len(list) : f[n] = g[n]
    BY Zenon
  <2>2. \A n \in 1..Len(list) : n \in 0..Len(list) /\ n - 1 \in 0..Len(list) /\ n # 0
    OBVIOUS
  <2>3. \A n \in 1..Len(list) : f[n] = Kept(f[n - 1], list[n])
    BY <1>2, <2>1, <2>2, Zenon
  <2>4. f[0] = first /\ \A n \in 0..Len(list) : n = 0 \/ n \in 1..Len(list)
    BY <1>2, <2>1
  <2>5. f = [n \in 0..Len(list) |-> f[n]]
    BY <2>1, Zenon
  <2> HIDE DEF f
  <2>6. \A n \in 0..Len(list) : f[n] = Body(f)[n]
    BY <2>2, <2>3, <2>4, Zenon DEF Kept, first
  <2>7. f = Body(f)
    BY <2>5, <2>6, Zenon
  <2>8. QED
    BY <2>7, Zenon
<1>4. X = Body(X)
  BY <1>3, Zenon
<1>5. KeptOf(list, seen) = X
  BY Zenon DEF KeptOf
<1> HIDE DEF X
<1>6. Body(X)[0] = [list |-> <<>>, keys |-> seen]
  <2>1. 0 \in 0..Len(list)
    OBVIOUS
  <2>2. QED
    BY <2>1, Zenon
<1>7. \A n \in 1..Len(list) : Body(X)[n] = Kept(X[n - 1], list[n])
  <2>1. \A n \in 1..Len(list) : n \in 0..Len(list) /\ n # 0
    OBVIOUS
  <2>2. QED
    BY <2>1, Zenon DEF Kept
<1> HIDE DEF Body
<1>8. QED
  BY <1>4, <1>5, <1>6, <1>7, Zenon DEF Rounds

\* A numbered diagnostic.
Entry == {Numbered(d, id) : d \in Diagnostics, id \in Nat}

\* No two of the first k are taken for copies, and none is reported yet.
AllNew(list, seen, k) ==
  /\ \A i \in 1..k : DiagnosticKey(list[i]) \notin seen
  /\ \A i, j \in 1..k : DiagnosticKey(list[i]) = DiagnosticKey(list[j]) => i = j

AllSeen(list, seen, k) == \A i \in 1..k : DiagnosticKey(list[i]) \in seen

\* What the loop keeps of the first k diagnostics.
KeepsOf(list, seen, k, kept) ==
  /\ kept.list \in Seq(Entry)
  /\ kept.keys = seen \cup {DiagnosticKey(list[i]) : i \in 1..k}
  /\ kept.keys = seen \cup {DiagnosticKey(kept.list[j]) : j \in DOMAIN kept.list}
  /\ \A j \in DOMAIN kept.list : \E i \in 1..k : kept.list[j] = list[i]
  /\ AllNew(list, seen, k) => /\ DOMAIN kept.list = 1..k
                              /\ \A j \in 1..k : kept.list[j] = list[j]
  /\ AllSeen(list, seen, k) => kept.list = <<>>

\* What Append does to a list.
LEMMA AppendFacts ==
  ASSUME NEW S, NEW s \in Seq(S), NEW d \in S
  PROVE  /\ Append(s, d) \in Seq(S) /\ Len(s) \in Nat /\ DOMAIN s = 1..Len(s)
         /\ DOMAIN Append(s, d) = 1..(Len(s) + 1)
         /\ DOMAIN Append(s, d) = DOMAIN s \cup {Len(s) + 1}
         /\ \A i \in DOMAIN s : Append(s, d)[i] = s[i]
         /\ Append(s, d)[Len(s) + 1] = d
OBVIOUS

\* One more diagnostic, dropped when it is reported already.
LEMMA KeptStep ==
  ASSUME NEW n \in Nat, NEW list \in [1..n -> Entry], NEW seen, NEW k \in 0..n, k < n,
         NEW old, KeepsOf(list, seen, k, old), NEW new, new = Kept(old, list[k + 1])
  PROVE  KeepsOf(list, seen, k + 1, new)
<1> DEFINE d == list[k + 1]
<1>1. /\ d \in Entry /\ k + 1 \in 1..n /\ 1..(k + 1) = 1..k \cup {k + 1} /\ k + 1 \notin 1..k
      /\ k \in Nat
  OBVIOUS
<1> HIDE DEF d
<1>2. {DiagnosticKey(list[i]) : i \in 1..(k + 1)}
        = {DiagnosticKey(list[i]) : i \in 1..k} \cup {DiagnosticKey(d)}
  BY <1>1, Zenon DEF d
<1>3. /\ AllNew(list, seen, k + 1) => /\ AllNew(list, seen, k) /\ DiagnosticKey(d) \notin seen
                                      /\ \A i \in 1..k : DiagnosticKey(list[i]) # DiagnosticKey(d)
      /\ AllSeen(list, seen, k + 1) => AllSeen(list, seen, k) /\ DiagnosticKey(d) \in seen
  BY <1>1, Zenon DEF AllNew, AllSeen, d
<1>4. CASE DiagnosticKey(d) \in old.keys
  <2>1. new = old
    BY <1>4, Zenon DEF Kept, d
  <2>2. ~AllNew(list, seen, k + 1)
    <3>1. DiagnosticKey(d) \in seen \/ \E i \in 1..k : DiagnosticKey(d) = DiagnosticKey(list[i])
      <4>1. old.keys = seen \cup {DiagnosticKey(list[i]) : i \in 1..k}
        BY Zenon DEF KeepsOf
      <4>2. QED
        BY <1>4, <4>1, Zenon
    <3>2. QED
      BY <1>3, <3>1, Zenon
  <2>3. old.keys = seen \cup {DiagnosticKey(list[i]) : i \in 1..(k + 1)}
    BY <1>2, <1>4, Zenon DEF KeepsOf
  <2>4. \A j \in DOMAIN old.list : \E i \in 1..(k + 1) : old.list[j] = list[i]
    BY <1>1, Zenon DEF KeepsOf
  <2>5. /\ old.list \in Seq(Entry)
        /\ old.keys = seen \cup {DiagnosticKey(old.list[j]) : j \in DOMAIN old.list}
        /\ AllSeen(list, seen, k + 1) => old.list = <<>>
    BY <1>3, Zenon DEF KeepsOf
  <2>6. KeepsOf(list, seen, k + 1, old)
    BY <2>2, <2>3, <2>4, <2>5, Zenon DEF KeepsOf
  <2>7. QED
    BY <2>1, <2>6, Zenon
<1>5. CASE DiagnosticKey(d) \notin old.keys
  <2>1. new.list = Append(old.list, d) /\ new.keys = old.keys \cup {DiagnosticKey(d)}
    BY <1>5, Zenon DEF Kept, d
  <2> DEFINE l == old.list
             m == Len(l)
  <2>2. l \in Seq(Entry)
    BY Zenon DEF KeepsOf
  <2> HIDE DEF l
  <2>3. /\ new.list \in Seq(Entry) /\ m \in Nat /\ DOMAIN l = 1..m
        /\ DOMAIN new.list = 1..(m + 1) /\ DOMAIN new.list = DOMAIN l \cup {m + 1}
        /\ \A i \in DOMAIN l : new.list[i] = l[i]
        /\ new.list[m + 1] = d
    <3>1. new.list = Append(l, d)
      BY <2>1, Zenon DEF l
    <3>2. QED
      BY <1>1, <2>2, <3>1, AppendFacts
  <2>4. new.keys = seen \cup {DiagnosticKey(list[i]) : i \in 1..(k + 1)}
    BY <1>2, <2>1, Zenon DEF KeepsOf
  <2>5. {DiagnosticKey(new.list[j]) : j \in DOMAIN new.list}
          = {DiagnosticKey(l[j]) : j \in DOMAIN l} \cup {DiagnosticKey(d)}
    <3> HIDE DEF m
    <3>1. \A j \in DOMAIN new.list : j \in DOMAIN l \/ j = m + 1
      BY <2>3, Zenon
    <3>2. \A j \in DOMAIN l : j \in DOMAIN new.list
      BY <2>3, Zenon
    <3>3. m + 1 \in DOMAIN new.list
      BY <2>3, Zenon
    <3>4. \A j \in DOMAIN l : DiagnosticKey(new.list[j]) = DiagnosticKey(l[j])
      BY <2>3, Zenon
    <3>5. DiagnosticKey(new.list[m + 1]) = DiagnosticKey(d)
      BY <2>3, Zenon
    <3>6. QED
      BY <3>1, <3>2, <3>3, <3>4, <3>5, Zenon
  <2>6. new.keys = seen \cup {DiagnosticKey(new.list[j]) : j \in DOMAIN new.list}
    BY <2>1, <2>5, Zenon DEF KeepsOf, l
  <2>7. \A j \in DOMAIN new.list : \E i \in 1..(k + 1) : new.list[j] = list[i]
    <3> HIDE DEF m
    <3>1. \A j \in DOMAIN l : \E i \in 1..k : l[j] = list[i]
      BY Zenon DEF KeepsOf, l
    <3>2. \A j \in DOMAIN l : \E i \in 1..(k + 1) : new.list[j] = list[i]
      <4>1. \A i \in 1..k : i \in 1..(k + 1)
        BY <1>1, Zenon
      <4>2. \A j \in DOMAIN l : new.list[j] = l[j]
        BY <2>3, Zenon
      <4>3. QED
        BY <3>1, <4>1, <4>2, Zenon
    <3>3. new.list[m + 1] = list[k + 1] /\ k + 1 \in 1..(k + 1)
      BY <1>1, <2>3, Zenon DEF d
    <3>4. QED
      BY <2>3, <3>2, <3>3, Zenon
  <2>8. ASSUME AllNew(list, seen, k + 1)
        PROVE  DOMAIN new.list = 1..(k + 1) /\ \A j \in 1..(k + 1) : new.list[j] = list[j]
    <3>1. 1..m = 1..k /\ \A j \in 1..k : l[j] = list[j]
      BY <1>3, <2>3, <2>8, Zenon DEF KeepsOf, l
    <3>2. m = k
      <4> HIDE DEF m
      <4>1. QED
        BY <1>1, <2>3, <3>1
    <3>3. QED
      BY <1>1, <2>3, <3>1, <3>2, Zenon DEF d
  <2>9. ~AllSeen(list, seen, k + 1)
    BY <1>3, <1>5, Zenon DEF KeepsOf
  <2>10. QED
    BY <2>3, <2>4, <2>6, <2>7, <2>8, <2>9, Zenon DEF KeepsOf
<1>6. QED
  BY <1>4, <1>5, Zenon

\* What one unit adds to the report.
LEMMA FreshKeeps ==
  ASSUME NEW n \in Nat, NEW list \in [1..n -> Entry], NEW seen
  PROVE  KeepsOf(list, seen, n, Fresh(list, seen))
<1>1. Len(list) = n
  OBVIOUS
<1>0. /\ KeptOf(list, seen)[0] = [list |-> <<>>, keys |-> seen]
      /\ \A j \in 1..Len(list) :
           KeptOf(list, seen)[j] = Kept(KeptOf(list, seen)[j - 1], list[j])
  <2>1. Rounds(list, seen, KeptOf(list, seen))
    BY <1>1, KeptUnfold, Zenon
  <2>2. QED
    BY <2>1, Zenon DEF Rounds
<1> DEFINE P == {k \in 0..n : KeepsOf(list, seen, k, KeptOf(list, seen)[k])}
<1>2. 0 \in P
  <2>1. KeptOf(list, seen)[0] = [list |-> <<>>, keys |-> seen]
    BY <1>0, Zenon
  <2>2. 1..0 = {} /\ DOMAIN <<>> = {} /\ <<>> \in Seq(Entry) /\ 0 \in 0..n
    OBVIOUS
  <2>3. KeepsOf(list, seen, 0, [list |-> <<>>, keys |-> seen])
    BY <2>2, Zenon DEF KeepsOf
  <2>4. QED
    BY <2>1, <2>2, <2>3, Zenon
<1>3. ASSUME NEW k \in 0..n, k \in P, k < n PROVE k + 1 \in P
  <2>1. k + 1 \in 1..n /\ k + 1 \in 0..n /\ k + 1 - 1 = k
    BY <1>3
  <2>2. KeptOf(list, seen)[k + 1] = Kept(KeptOf(list, seen)[k], list[k + 1])
    <3>1. KeptOf(list, seen)[k + 1] = Kept(KeptOf(list, seen)[k + 1 - 1], list[k + 1])
      <4>1. Len(list) \in Nat /\ k + 1 \in 1..Len(list)
        BY <1>1, <2>1, Zenon
      <4>2. QED
        BY <1>0, <4>1
    <3>2. QED
      BY <2>1, <3>1, Zenon
  <2>3. KeepsOf(list, seen, k + 1, KeptOf(list, seen)[k + 1])
    BY <1>3, <2>2, KeptStep, Zenon
  <2>4. QED
    BY <2>1, <2>3, Zenon
<1>4. 0..n \subseteq P
  <2> HIDE DEF P
  <2>1. QED
    BY <1>2, <1>3, UpTo, Zenon
<1>5. n \in 0..n
  OBVIOUS
<1>6. QED
  BY <1>1, <1>4, <1>5, Zenon DEF Fresh

(***************************************************************************)
(* Two lists of the same diagnostics are finalized alike.                  *)
(***************************************************************************)
Positions(list, n, d) == {i \in 1..n : list[i] = d}

\* As many of each diagnostic in one list as in the other.
SameCounts(a, b, n) ==
  \A d \in Diagnostics : Cardinality(Positions(a, n, d)) = Cardinality(Positions(b, n, d))

InOrderList(list, n) == \A i, j \in 1..n : i < j => ~Before(list[j], list[i])

\* Where two lists in order first differ, the one with the earlier diagnostic has more of it.
LEMMA EarlierIsMore ==
  ASSUME NEW n \in Nat, NEW a \in [1..n -> Diagnostics], NEW b \in [1..n -> Diagnostics],
         InOrderList(b, n), NEW i \in 1..n,
         \A j \in 1..n : j < i => a[j] = b[j], Before(a[i], b[i])
  PROVE  Cardinality(Positions(a, n, a[i])) # Cardinality(Positions(b, n, a[i]))
<1> DEFINE S == Positions(a, n, a[i])
           T == Positions(b, n, a[i])
<1>1. IsFiniteSet(S)
  <2>1. IsFiniteSet(1..n)
    BY FS_Interval
  <2>2. S \in SUBSET (1..n)
    BY Zenon DEF Positions
  <2> HIDE DEF S
  <2>3. QED
    BY <2>1, <2>2, FS_Subset, Zenon
<1>2. i \in S /\ i \notin T
  <2>1. a[i] # b[i]
    BY BeforeOrders, Zenon
  <2>2. QED
    BY <2>1, Zenon DEF Positions
<1>3. ASSUME NEW j \in T PROVE j \in S
  <2>1. j \in 1..n /\ b[j] = a[i]
    BY <1>3, Zenon DEF Positions
  <2>2. ~(i < j)
    BY <2>1, Zenon DEF InOrderList
  <2>3. j < i
    BY <1>2, <1>3, <2>1, <2>2
  <2>4. QED
    BY <2>1, <2>3, Zenon DEF Positions
<1> HIDE DEF S, T
<1>4. T \in SUBSET S
  BY <1>3, Zenon
<1>5. S # T
  BY <1>2, Zenon
<1>6. Cardinality(S) # Cardinality(T)
  BY <1>1, <1>4, <1>5, FS_Subset, Zenon
<1>7. QED
  BY <1>6, Zenon DEF S, T

\* Two lists in order with as many of each diagnostic are the same list.
LEMMA SameInOrder ==
  ASSUME NEW n \in Nat, NEW a \in [1..n -> Diagnostics], NEW b \in [1..n -> Diagnostics],
         InOrderList(a, n), InOrderList(b, n), SameCounts(a, b, n)
  PROVE  \A i \in 1..n : a[i] = b[i]
<1> DEFINE T == {i \in 1..n : a[i] # b[i]}
<1>1. T = {}
  <2> SUFFICES ASSUME T # {} PROVE FALSE
    OBVIOUS
  <2>1. T \in SUBSET Nat
    OBVIOUS
  <2>2. PICK i \in T : \A k \in T : i <= k
    BY <2>1, LeastElement, Zenon
  <2>3. i \in 1..n /\ a[i] # b[i] /\ a[i] \in Diagnostics /\ b[i] \in Diagnostics
    BY <2>2, Zenon
  <2>4. \A j \in 1..n : j < i => a[j] = b[j]
    BY <2>2, <2>3
  <2>5. \A j \in 1..n : j < i => b[j] = a[j]
    BY <2>4, Zenon
  <2> HIDE DEF T
  <2>6. ~Before(a[i], b[i])
    BY <2>3, <2>4, EarlierIsMore, Zenon DEF SameCounts
  <2>7. ~Before(b[i], a[i])
    BY <2>3, <2>5, EarlierIsMore, Zenon DEF SameCounts
  <2>8. QED
    BY <2>3, <2>6, <2>7, BeforeOrders, Zenon
<1>2. QED
  BY <1>1, Zenon

\* Reordering a list keeps how many there are of each diagnostic.
LEMMA ReorderedCounts ==
  ASSUME NEW n \in Nat, NEW list \in [1..n -> Diagnostics], NEW p, InOrderUpTo(list, p, n),
         NEW a, \A i \in 1..n : a[i] = list[p[i]]
  PROVE  SameCounts(a, list, n)
<1> SUFFICES ASSUME NEW d \in Diagnostics
             PROVE  Cardinality(Positions(a, n, d)) = Cardinality(Positions(list, n, d))
  BY Zenon DEF SameCounts
<1> DEFINE S == Positions(a, n, d)
           T == Positions(list, n, d)
           f == [i \in S |-> p[i]]
<1>1. \A i \in 1..n : a[i] = list[p[i]] /\ p[i] \in 1..n
  BY Zenon DEF InOrderUpTo
<1>2. IsFiniteSet(S)
  <2>1. IsFiniteSet(1..n)
    BY FS_Interval
  <2>2. S \in SUBSET (1..n)
    BY Zenon DEF Positions
  <2> HIDE DEF S
  <2>3. QED
    BY <2>1, <2>2, FS_Subset, Zenon
<1>3. \A i \in S : i \in 1..n /\ p[i] \in T
  BY <1>1, Zenon DEF Positions
<1>4. \A t \in T : \E i \in S : p[i] = t
  <2> SUFFICES ASSUME NEW t \in T PROVE \E i \in S : p[i] = t
    OBVIOUS
  <2>1. t \in 1..n /\ list[t] = d
    BY Zenon DEF Positions
  <2>2. PICK i \in 1..n : p[i] = t
    BY <2>1, Zenon DEF InOrderUpTo
  <2>3. a[i] = d
    BY <1>1, <2>1, <2>2, Zenon
  <2>4. QED
    BY <2>2, <2>3, Zenon DEF Positions
<1>5. \A i, j \in S : p[i] = p[j] => i = j
  BY <1>3, Zenon DEF InOrderUpTo
<1> HIDE DEF S, T
<1>6. f \in [S -> T] /\ DOMAIN f = S /\ \A i \in S : f[i] = p[i]
  BY <1>3, Zenon
<1> HIDE DEF f
<1>7. f \in Bijection(S, T)
  BY <1>4, <1>5, <1>6, Zenon DEF Bijection, Injection, Surjection, IsInjective
<1>8. ExistsBijection(S, T)
  BY <1>7, Zenon DEF ExistsBijection
<1>9. Cardinality(T) = Cardinality(S)
  BY <1>2, <1>8, FS_Bijection, Zenon
<1>10. QED
  BY <1>9, Zenon DEF S, T

\* Units with as many of each diagnostic are finalized alike, whatever order the checkers
\* left them in.
LEMMA SameFinalized ==
  ASSUME NEW n \in Nat, NEW l \in [1..n -> Diagnostics], NEW m \in [1..n -> Diagnostics],
         SameCounts(l, m, n)
  PROVE  Finalized(l) = Finalized(m)
<1>1. PICK p : InOrderUpTo(l, p, n) /\ Finalized(l) = [i \in 1..n |-> Numbered(l[p[i]], i)]
  BY FinalizedFacts, Zenon
<1>2. PICK q : InOrderUpTo(m, q, n) /\ Finalized(m) = [i \in 1..n |-> Numbered(m[q[i]], i)]
  BY FinalizedFacts, Zenon
<1> DEFINE a == [i \in 1..n |-> l[p[i]]]
           b == [i \in 1..n |-> m[q[i]]]
<1>3. a \in [1..n -> Diagnostics] /\ InOrderList(a, n) /\ \A i \in 1..n : a[i] = l[p[i]]
  BY <1>1, Zenon DEF InOrderUpTo, InOrderList
<1>4. b \in [1..n -> Diagnostics] /\ InOrderList(b, n) /\ \A i \in 1..n : b[i] = m[q[i]]
  BY <1>2, Zenon DEF InOrderUpTo, InOrderList
<1> HIDE DEF a, b
<1>5. SameCounts(a, l, n) /\ SameCounts(b, m, n)
  BY <1>1, <1>2, <1>3, <1>4, ReorderedCounts, Zenon
<1>6. \A i \in 1..n : a[i] = b[i]
  <2>1. SameCounts(a, b, n)
    BY <1>5, Zenon DEF SameCounts
  <2>2. QED
    BY <1>3, <1>4, <2>1, SameInOrder, Zenon
<1>7. \A i \in 1..n : l[p[i]] = m[q[i]]
  BY <1>3, <1>4, <1>6, Zenon
<1>8. QED
  BY <1>1, <1>2, <1>7, Zenon

(***************************************************************************)
(* What a unit tells, numbered and merged.                                 *)
(***************************************************************************)
\* The fields of a numbered diagnostic are those of the diagnostic.
LEMMA NumberedFields ==
  ASSUME NEW d, NEW id
  PROVE  /\ Numbered(d, id).id = id /\ Told(Numbered(d, id)) = Told(d)
         /\ Numbered(d, id).severity = d.severity
         /\ DiagnosticKey(Numbered(d, id)) = <<id, d.place, d.message>>
BY Zenon DEF Numbered, Told, DiagnosticKey

\* Diagnostics of one key tell the same.
LEMMA SameKey ==
  ASSUME NEW a \in Entry, NEW b \in Entry, DiagnosticKey(a) = DiagnosticKey(b)
  PROVE  Told(a) = Told(b)
<1>1. PICK d \in Diagnostics, i \in Nat : a = Numbered(d, i)
  BY DEF Entry
<1>2. PICK e \in Diagnostics, j \in Nat : b = Numbered(e, j)
  BY DEF Entry
<1>3. d.place = e.place /\ d.message = e.message
  BY <1>1, <1>2, Zenon DEF DiagnosticKey, Numbered
<1>4. d.rule = e.rule
  BY <1>3, DiagnosticsAssumption, Zenon
<1>5. Told(d) = Told(e)
  BY <1>3, <1>4, Zenon DEF Told
<1>6. QED
  BY <1>1, <1>2, <1>5, NumberedFields, Zenon

\* What tells the same is as severe.
LEMMA SameSeverity ==
  ASSUME NEW a \in Entry, NEW d \in Diagnostics, Told(a) = Told(d)
  PROVE  a.severity = d.severity
<1>1. PICK e \in Diagnostics, i \in Nat : a = Numbered(e, i)
  BY DEF Entry
<1>2. Told(a) = Told(e) /\ a.severity = e.severity
  BY <1>1, NumberedFields, Zenon
<1>3. e.rule = d.rule
  BY <1>2, Zenon DEF Told
<1>4. QED
  BY <1>2, <1>3, DiagnosticsAssumption, Zenon

\* finalizeReport neither adds nor drops a diagnostic, and gives no number twice.
LEMMA FinalizedEntries ==
  ASSUME NEW n \in Nat, NEW list \in [1..n -> Diagnostics]
  PROVE  /\ Finalized(list) \in [1..n -> Entry]
         /\ AllNew(Finalized(list), {}, n)
         /\ Contents(Finalized(list)) = Contents(list)
<1>1. PICK p : InOrderUpTo(list, p, n) /\ Finalized(list) = [i \in 1..n |-> Numbered(list[p[i]], i)]
  BY FinalizedFacts, Zenon
<1> DEFINE final == Finalized(list)
<1>2. /\ DOMAIN list = 1..n /\ DOMAIN final = 1..n
      /\ \A i \in 1..n : p[i] \in 1..n /\ list[p[i]] \in Diagnostics
                         /\ final[i] = Numbered(list[p[i]], i)
  BY <1>1, Zenon DEF InOrderUpTo
<1>3. \A i \in 1..n : i \in Nat
  OBVIOUS
<1>4. \A i \in 1..n : final[i] \in Entry
  BY <1>2, <1>3 DEF Entry
<1>5. final = [i \in 1..n |-> final[i]]
  BY <1>1, Zenon
<1> HIDE DEF final
<1>6. final \in [1..n -> Entry]
  BY <1>4, <1>5, Zenon
<1>7. ASSUME NEW i \in 1..n, NEW j \in 1..n, DiagnosticKey(final[i]) = DiagnosticKey(final[j])
      PROVE  i = j
  <2>1. final[i].id = i /\ final[j].id = j
    BY <1>2, NumberedFields
  <2>2. QED
    BY <1>7, <2>1, Zenon DEF DiagnosticKey
<1>8. AllNew(final, {}, n)
  BY <1>7, Zenon DEF AllNew
<1>9. \A i \in 1..n : Told(final[i]) = Told(list[p[i]])
  BY <1>2, NumberedFields
<1>10. \A w \in 1..n : \E i \in 1..n : p[i] = w
  BY <1>1, Zenon DEF InOrderUpTo
<1>11. \A t : t \in Contents(final) <=> t \in Contents(list)
  <2>1. ASSUME NEW i \in 1..n PROVE Told(final[i]) \in Contents(list)
    BY <1>2, <1>9, Zenon DEF Contents
  <2>2. ASSUME NEW w \in 1..n PROVE Told(list[w]) \in Contents(final)
    BY <1>2, <1>9, <1>10, Zenon DEF Contents
  <2>3. QED
    BY <1>2, <2>1, <2>2, Zenon DEF Contents
<1>12. Contents(final) = Contents(list)
  BY <1>11, Zenon DEF Contents
<1>13. QED
  BY <1>6, <1>8, <1>12, Zenon DEF final

KeysOf(list) == {DiagnosticKey(list[i]) : i \in DOMAIN list}

\* The elements of one list and of another, in a third.
Joins(s, t, new) ==
  /\ \A i \in DOMAIN s : i \in DOMAIN new /\ new[i] = s[i]
  /\ \A i \in DOMAIN t : \E j \in DOMAIN new : new[j] = t[i]
  /\ \A j \in DOMAIN new : (\E i \in DOMAIN s : new[j] = s[i]) \/ (\E i \in DOMAIN t : new[j] = t[i])

\* What putting one list behind another does.
LEMMA ConcatFacts ==
  ASSUME NEW S, NEW s \in Seq(S), NEW t \in Seq(S)
  PROVE  s \o t \in Seq(S) /\ Joins(s, t, s \o t)
<1>1. /\ s \o t \in Seq(S)
      /\ DOMAIN s = 1..Len(s) /\ DOMAIN t = 1..Len(t) /\ Len(s) \in Nat /\ Len(t) \in Nat
      /\ DOMAIN (s \o t) = 1..(Len(s) + Len(t))
  OBVIOUS
<1>2. \A i \in DOMAIN s : i \in DOMAIN (s \o t) /\ (s \o t)[i] = s[i]
  OBVIOUS
<1>3. \A i \in DOMAIN t : Len(s) + i \in DOMAIN (s \o t) /\ (s \o t)[Len(s) + i] = t[i]
  OBVIOUS
<1>4. \A i \in DOMAIN (s \o t) : \/ i \in DOMAIN s
                                 \/ i - Len(s) \in DOMAIN t /\ (s \o t)[i] = t[i - Len(s)]
  OBVIOUS
<1>5. QED
  BY <1>1, <1>2, <1>3, <1>4, Zenon DEF Joins

\* What is made of the elements is joined with them.
LEMMA JoinedSets ==
  ASSUME NEW s, NEW t, NEW new, Joins(s, t, new)
  PROVE  KeysOf(new) = KeysOf(s) \cup KeysOf(t) /\ Contents(new) = Contents(s) \cup Contents(t)
<1>1. ASSUME NEW i \in DOMAIN s
      PROVE  DiagnosticKey(s[i]) \in KeysOf(new) /\ Told(s[i]) \in Contents(new)
  BY Zenon DEF Joins, KeysOf, Contents
<1>2. ASSUME NEW i \in DOMAIN t
      PROVE  DiagnosticKey(t[i]) \in KeysOf(new) /\ Told(t[i]) \in Contents(new)
  <2>1. PICK j \in DOMAIN new : new[j] = t[i]
    BY Zenon DEF Joins
  <2>2. QED
    BY <2>1, Zenon DEF KeysOf, Contents
<1>3. ASSUME NEW j \in DOMAIN new
      PROVE  /\ DiagnosticKey(new[j]) \in KeysOf(s) \cup KeysOf(t)
             /\ Told(new[j]) \in Contents(s) \cup Contents(t)
  BY Zenon DEF Joins, KeysOf, Contents
<1>4. KeysOf(new) = KeysOf(s) \cup KeysOf(t)
  <2>1. \A k \in KeysOf(new) : k \in KeysOf(s) \cup KeysOf(t)
    BY <1>3, Zenon DEF KeysOf
  <2>2. \A k \in KeysOf(s) \cup KeysOf(t) : k \in KeysOf(new)
    BY <1>1, <1>2, Zenon DEF KeysOf
  <2>3. QED
    BY <2>1, <2>2, Zenon
<1>5. Contents(new) = Contents(s) \cup Contents(t)
  <2>1. \A k \in Contents(new) : k \in Contents(s) \cup Contents(t)
    BY <1>3, Zenon DEF Contents
  <2>2. \A k \in Contents(s) \cup Contents(t) : k \in Contents(new)
    BY <1>1, <1>2, Zenon DEF Contents
  <2>3. QED
    BY <2>1, <2>2, Zenon
<1>6. QED
  BY <1>4, <1>5, Zenon

\* The report after a unit: its keys, and what it tells.
Merged(old, list, fresh, new) ==
  /\ new \in Seq(Entry) /\ fresh.keys = KeysOf(new)
  /\ Contents(new) = Contents(old) \cup Contents(list)

\* Merging a unit tells all it tells, and what was told before.
LEMMA MergeTells ==
  ASSUME NEW n \in Nat, NEW list \in [1..n -> Entry], NEW old \in Seq(Entry),
         NEW fresh, fresh = Fresh(list, KeysOf(old)), NEW new, new = old \o fresh.list
  PROVE  Merged(old, list, fresh, new)
<1>1. KeepsOf(list, KeysOf(old), n, fresh)
  BY FreshKeeps, Zenon
<1> DEFINE l == fresh.list
<1>2. /\ l \in Seq(Entry) /\ DOMAIN list = 1..n
      /\ \A j \in DOMAIN l : \E i \in 1..n : l[j] = list[i]
  BY <1>1, Zenon DEF KeepsOf
<1>3. fresh.keys = KeysOf(old) \cup {DiagnosticKey(list[i]) : i \in 1..n}
  BY <1>1, Zenon DEF KeepsOf
<1>4. fresh.keys = KeysOf(old) \cup KeysOf(l)
  BY <1>1, Zenon DEF KeepsOf, KeysOf
<1> HIDE DEF l
<1>5. new = old \o l
  BY Zenon DEF l
<1>6. new \in Seq(Entry) /\ Joins(old, l, new)
  BY <1>2, <1>5, ConcatFacts, Zenon
<1>7. KeysOf(new) = KeysOf(old) \cup KeysOf(l)
  BY <1>6, JoinedSets, Zenon
<1>8. Contents(new) = Contents(old) \cup Contents(l)
  BY <1>6, JoinedSets, Zenon
<1>9. Contents(l) \subseteq Contents(list)
  BY <1>2, Zenon DEF Contents
<1>10. ASSUME NEW i \in 1..n PROVE Told(list[i]) \in Contents(new)
  <2>1. DiagnosticKey(list[i]) \in KeysOf(new) /\ list[i] \in Entry
    BY <1>3, <1>4, <1>7, Zenon
  <2>2. PICK j \in DOMAIN new : DiagnosticKey(list[i]) = DiagnosticKey(new[j])
    BY <2>1, Zenon DEF KeysOf
  <2>3. new[j] \in Entry
    BY <1>6
  <2>4. Told(list[i]) = Told(new[j])
    BY <2>1, <2>2, <2>3, SameKey, Zenon
  <2>5. QED
    BY <2>4, Zenon DEF Contents
<1>11. Contents(list) \subseteq Contents(new)
  BY <1>2, <1>10, Zenon DEF Contents
<1>12. QED
  BY <1>4, <1>6, <1>7, <1>8, <1>9, <1>11, Zenon DEF Merged

(***************************************************************************)
(* The merge.                                                              *)
(***************************************************************************)
\* Two units with the same diagnostics in some order.
TwoAlike ==
  /\ Len(units) = 2
  /\ Len(units[1].diagnostics) = Len(units[2].diagnostics)
  /\ \A d \in Diagnostics :
       Cardinality({i \in DOMAIN units[1].diagnostics : units[1].diagnostics[i] = d})
         = Cardinality({i \in DOMAIN units[2].diagnostics : units[2].diagnostics[i] = d})

ToldBefore(k) == UNION {Contents(units[u].diagnostics) : u \in 1..(k - 1)}

\* What the merge loop has established when it comes to a unit: the report tells what the
\* units before it told, and its keys are those of the report.
MergeInv ==
  /\ units \in SeqsUpTo(UnitReports, MaxUnits)
  /\ failedSources \in BOOLEAN
  /\ failOn \in {"none", "error", "warning"}
  /\ at \in 1..(Len(units) + 1)
  /\ diagnostics \in Seq(Entry)
  /\ reported = KeysOf(diagnostics)
  /\ Contents(diagnostics) = ToldBefore(at)
  /\ at = 1 => diagnostics = <<>>
  /\ at = 2 => diagnostics = Finalized(units[1].diagnostics)
  /\ at = 3 /\ TwoAlike => diagnostics = Finalized(units[1].diagnostics)
  /\ exitCode # 3 => /\ at = Len(units) + 1
                     /\ exitCode = IF CutShort THEN 1 ELSE GateExitCode(failOn, diagnostics)

\* The units are a list, and so are the diagnostics of each.
LEMMA UnitsTyped ==
  ASSUME units \in SeqsUpTo(UnitReports, MaxUnits)
  PROVE  /\ Len(units) \in Nat /\ DOMAIN units = 1..Len(units)
         /\ \A u \in 1..Len(units) : \E m \in Nat : units[u].diagnostics \in [1..m -> Diagnostics]
<1>1. PICK k \in 0..MaxUnits : units \in [1..k -> UnitReports]
  BY Zenon DEF SeqsUpTo
<1>2. k \in Nat /\ Len(units) = k /\ DOMAIN units = 1..k
  BY <1>1, BoundsAssumption
<1>3. ASSUME NEW u \in 1..k
      PROVE  \E m \in Nat : units[u].diagnostics \in [1..m -> Diagnostics]
  <2>1. units[u] \in UnitReports
    BY <1>1, Zenon
  <2>2. units[u].diagnostics \in SeqsUpTo(Diagnostics, MaxPerUnit)
    <3>1. <<>> \in [1..0 -> Diagnostics] /\ 0 \in 0..MaxPerUnit
      BY BoundsAssumption
    <3>2. <<>> \in SeqsUpTo(Diagnostics, MaxPerUnit)
      BY <3>1, Zenon DEF SeqsUpTo
    <3>3. QED
      BY <2>1, <3>2, Zenon DEF UnitReports
  <2>3. PICK m \in 0..MaxPerUnit : units[u].diagnostics \in [1..m -> Diagnostics]
    BY <2>2, Zenon DEF SeqsUpTo
  <2>4. m \in Nat
    BY BoundsAssumption
  <2>5. QED
    BY <2>3, <2>4, Zenon
<1>4. QED
  BY <1>2, <1>3, Zenon

\* Two units alike are finalized alike.
LEMMA AlikeFinalized ==
  ASSUME units \in SeqsUpTo(UnitReports, MaxUnits), TwoAlike
  PROVE  Finalized(units[2].diagnostics) = Finalized(units[1].diagnostics)
<1> DEFINE l == units[1].diagnostics
           m == units[2].diagnostics
<1>1. 1 \in 1..Len(units) /\ 2 \in 1..Len(units)
  BY DEF TwoAlike
<1>2. PICK n \in Nat : l \in [1..n -> Diagnostics]
  BY <1>1, UnitsTyped, Zenon
<1>3. PICK k \in Nat : m \in [1..k -> Diagnostics]
  BY <1>1, UnitsTyped, Zenon
<1>4. Len(l) = Len(m) /\ \A d \in Diagnostics : Cardinality({i \in DOMAIN l : l[i] = d})
                                               = Cardinality({i \in DOMAIN m : m[i] = d})
  BY Zenon DEF TwoAlike
<1> HIDE DEF l, m
<1>5. n = k /\ DOMAIN l = 1..n /\ DOMAIN m = 1..n
  <2>1. Len(l) = n /\ Len(m) = k
    BY <1>2, <1>3
  <2>2. QED
    BY <1>2, <1>3, <1>4, <2>1, Zenon
<1>6. SameCounts(l, m, n)
  BY <1>4, <1>5, Zenon DEF SameCounts, Positions
<1>7. m \in [1..n -> Diagnostics]
  BY <1>3, <1>5, Zenon
<1>8. Finalized(l) = Finalized(m)
  BY <1>2, <1>6, <1>7, SameFinalized, Zenon
<1>9. QED
  BY <1>8, Zenon DEF l, m

\* Nothing is reported before the first unit.
LEMMA MergeInit == Init => MergeInv
<1> SUFFICES ASSUME Init PROVE MergeInv
  OBVIOUS
<1>1. Len(units) \in Nat
  BY UnitsTyped, Zenon DEF Init
<1>2. at \in 1..(Len(units) + 1) /\ at # 2 /\ at # 3 /\ 1..(at - 1) = {}
  BY <1>1 DEF Init
<1>3. /\ <<>> \in Seq(Entry) /\ DOMAIN <<>> = {}
  OBVIOUS
<1>4. KeysOf(<<>>) = {} /\ Contents(<<>>) = {} /\ ToldBefore(at) = {}
  BY <1>2, <1>3, Zenon DEF KeysOf, Contents, ToldBefore
<1>5. QED
  BY <1>2, <1>3, <1>4, Zenon DEF Init, MergeInv

\* What one more unit makes of the report.
LEMMA MergeStep ==
  ASSUME MergeInv, MergeUnit
  PROVE  MergeInv'
<1> DEFINE list == Finalized(units[at].diagnostics)
           fresh == Fresh(list, reported)
           n == Len(units)
<1>1. /\ UNCHANGED <<units, failedSources, failOn, exitCode>> /\ at' = at + 1 /\ at <= n
      /\ diagnostics' = diagnostics \o fresh.list /\ reported' = fresh.keys
  BY Zenon DEF MergeUnit, inputs
<1>2. /\ units \in SeqsUpTo(UnitReports, MaxUnits) /\ failedSources \in BOOLEAN
      /\ failOn \in {"none", "error", "warning"}
      /\ at \in 1..(n + 1) /\ diagnostics \in Seq(Entry) /\ reported = KeysOf(diagnostics)
      /\ Contents(diagnostics) = ToldBefore(at)
      /\ exitCode # 3 => at = n + 1
      /\ at = 1 => diagnostics = <<>>
      /\ at = 2 => diagnostics = Finalized(units[1].diagnostics)
  BY Zenon DEF MergeInv
<1>3. n \in Nat
  BY <1>2, UnitsTyped, Zenon
<1>4. at \in 1..n /\ at' \in 1..(n + 1) /\ at' # 1 /\ 1..(at' - 1) = 1..(at - 1) \cup {at}
      /\ (at' = 2 => at = 1) /\ (at' = 3 => at = 2) /\ exitCode' = 3
  <2> HIDE DEF n
  <2>1. QED
    BY <1>1, <1>2, <1>3
<1>5. PICK m \in Nat : units[at].diagnostics \in [1..m -> Diagnostics]
  BY <1>2, <1>4, UnitsTyped, Zenon
<1>6. /\ list \in [1..m -> Entry] /\ AllNew(list, {}, m)
      /\ Contents(list) = Contents(units[at].diagnostics)
  BY <1>5, FinalizedEntries, Zenon
<1>7. KeepsOf(list, reported, m, fresh)
  BY <1>6, FreshKeeps, Zenon
<1> HIDE DEF list, fresh
<1>8. /\ diagnostics' \in Seq(Entry) /\ reported' = KeysOf(diagnostics')
      /\ Contents(diagnostics') = Contents(diagnostics) \cup Contents(list)
  <2>1. fresh = Fresh(list, KeysOf(diagnostics))
    BY <1>2, Zenon DEF fresh
  <2> DEFINE new == diagnostics \o fresh.list
  <2>2. new = diagnostics \o fresh.list /\ diagnostics' = new
    BY <1>1, Zenon
  <2> HIDE DEF new
  <2>3. Merged(diagnostics, list, fresh, new)
    BY <1>2, <1>6, <2>1, <2>2, MergeTells, Zenon
  <2>4. KeysOf(diagnostics') = KeysOf(new) /\ Contents(diagnostics') = Contents(new)
    BY <2>2, Zenon
  <2>5. QED
    BY <1>1, <2>2, <2>3, <2>4, Zenon DEF Merged
<1>9. Contents(diagnostics') = ToldBefore(at)'
  <2>1. ToldBefore(at)' = UNION {Contents(units[u].diagnostics) : u \in 1..(at' - 1)}
    BY <1>1, Zenon DEF ToldBefore
  <2>2. UNION {Contents(units[u].diagnostics) : u \in 1..(at' - 1)}
          = ToldBefore(at) \cup Contents(units[at].diagnostics)
    BY <1>4, Zenon DEF ToldBefore
  <2>3. QED
    BY <1>2, <1>6, <1>8, <2>1, <2>2, Zenon
<1>10. ASSUME at = 1 PROVE diagnostics' = Finalized(units[1].diagnostics)
  <2>1. reported = {} /\ diagnostics = <<>>
    <3>1. DOMAIN <<>> = {}
      OBVIOUS
    <3>2. QED
      BY <1>2, <1>10, <3>1, Zenon DEF KeysOf
  <2>2. DOMAIN fresh.list = 1..m /\ (\A j \in 1..m : fresh.list[j] = list[j]) /\ fresh.list \in Seq(Entry)
    BY <1>6, <1>7, <2>1, Zenon DEF KeepsOf
  <2>3. fresh.list = list
    BY <1>6, <2>2
  <2>4. <<>> \o fresh.list = fresh.list
    BY <2>2
  <2>5. QED
    BY <1>1, <1>10, <2>1, <2>3, <2>4, Zenon DEF list
<1>11. ASSUME at = 2, TwoAlike PROVE diagnostics' = Finalized(units[1].diagnostics)
  <2>1. list = diagnostics
    BY <1>2, <1>11, AlikeFinalized, Zenon DEF list
  <2>2. AllSeen(list, reported, m)
    <3>1. DOMAIN list = 1..m
      BY <1>6, Zenon
    <3>2. QED
      BY <1>2, <2>1, <3>1, Zenon DEF AllSeen, KeysOf
  <2>3. fresh.list = <<>>
    BY <1>7, <2>2, Zenon DEF KeepsOf
  <2>4. diagnostics \o <<>> = diagnostics
    BY <1>2
  <2>5. QED
    BY <1>1, <1>2, <1>11, <2>3, <2>4, Zenon
<1>12. TwoAlike' <=> TwoAlike
  BY <1>1, Zenon DEF TwoAlike
<1>13. QED
  BY <1>1, <1>2, <1>4, <1>8, <1>9, <1>10, <1>11, <1>12, Zenon DEF MergeInv

\* Every step of the merge keeps the invariant.
LEMMA MergeKeeps == MergeInv /\ [Next]_vars => MergeInv'
<1> SUFFICES ASSUME MergeInv, [Next]_vars PROVE MergeInv'
  OBVIOUS
<1>1. CASE MergeUnit
  BY <1>1, MergeStep, Zenon
<1>2. CASE Exit
  BY <1>2, Zenon DEF MergeInv, Exit, inputs, ToldBefore, TwoAlike, CutShort, Complete
<1>3. CASE UNCHANGED vars
  BY <1>3, Zenon DEF MergeInv, vars, ToldBefore, TwoAlike, CutShort, Complete
<1>4. QED
  BY <1>1, <1>2, <1>3, Zenon DEF Next

\* The invariant holds throughout the merge.
THEOREM MergeInvariance == Spec => []MergeInv
  BY MergeInit, MergeKeeps, PTL DEF Spec

\* Dropping copies never drops a finding: the report of a project of any size tells
\* everything some unit told, and nothing else.
THEOREM FindingsKept == Spec => []NothingLost
<1>1. MergeInv => NothingLost
  <2> SUFFICES ASSUME MergeInv, exitCode # 3
               PROVE  Contents(diagnostics)
                        = UNION {Contents(units[u].diagnostics) : u \in DOMAIN units}
    BY Zenon DEF NothingLost, Done
  <2>1. Len(units) \in Nat /\ DOMAIN units = 1..Len(units)
    BY UnitsTyped, Zenon DEF MergeInv
  <2>2. at = Len(units) + 1 /\ Contents(diagnostics) = ToldBefore(at)
    BY Zenon DEF MergeInv
  <2>3. 1..(at - 1) = DOMAIN units
    BY <2>1, <2>2
  <2>4. QED
    BY <2>2, <2>3, Zenon DEF ToldBefore
<1>2. QED
  BY <1>1, MergeInvariance, PTL

\* The order in which the checkers leave their diagnostics does not show: of two units with
\* the same diagnostics, the second adds nothing to the report of the first.
THEOREM OrderOfCheckersHidden == Spec => []CheckerOrderIrrelevant
<1>1. MergeInv => CheckerOrderIrrelevant
  <2> SUFFICES ASSUME MergeInv, exitCode # 3, TwoAlike
               PROVE  diagnostics = Finalized(units[1].diagnostics)
    BY Zenon DEF CheckerOrderIrrelevant, Done, TwoAlike
  <2>1. at = Len(units) + 1 /\ Len(units) = 2
    BY Zenon DEF MergeInv, TwoAlike
  <2>2. at = 3
    BY <2>1
  <2>3. QED
    BY <2>2, Zenon DEF MergeInv
<1>2. QED
  BY <1>1, MergeInvariance, PTL

\* computeSummary counts what is there.
LEMMA CountFinds ==
  ASSUME NEW list \in Seq(Entry), NEW severity
  PROVE  Count(list, severity) > 0 <=> \E i \in DOMAIN list : list[i].severity = severity
<1> DEFINE S == {i \in DOMAIN list : list[i].severity = severity}
<1>1. IsFiniteSet(S)
  <2>1. Len(list) \in Nat /\ DOMAIN list = 1..Len(list)
    OBVIOUS
  <2>2. IsFiniteSet(1..Len(list))
    BY <2>1, FS_Interval
  <2>3. S \in SUBSET (1..Len(list))
    BY <2>1, Zenon
  <2> HIDE DEF S
  <2>4. QED
    BY <2>2, <2>3, FS_Subset, Zenon
<1>2. Count(list, severity) = Cardinality(S)
  BY Zenon DEF Count
<1>3. S = {} <=> ~\E i \in DOMAIN list : list[i].severity = severity
  BY Zenon
<1> HIDE DEF S
<1>4. Cardinality(S) \in Nat /\ (Cardinality(S) = 0 <=> S = {})
  BY <1>1, FS_CardinalityType, FS_EmptySet, Zenon
<1>5. Cardinality(S) > 0 <=> S # {}
  BY <1>4
<1>6. QED
  BY <1>2, <1>3, <1>5, Zenon

\* The report holds a diagnostic of a severity exactly when some unit told of one.
LEMMA SeveritiesKept ==
  ASSUME MergeInv, exitCode # 3, NEW severity
  PROVE  (\E i \in DOMAIN diagnostics : diagnostics[i].severity = severity)
           <=> \E u \in DOMAIN units : \E i \in DOMAIN units[u].diagnostics :
                 units[u].diagnostics[i].severity = severity
<1>1. Len(units) \in Nat /\ DOMAIN units = 1..Len(units)
  BY UnitsTyped, Zenon DEF MergeInv
<1>2. \A u \in DOMAIN units : \A i \in DOMAIN units[u].diagnostics :
        units[u].diagnostics[i] \in Diagnostics
  <2> TAKE u \in DOMAIN units
  <2>1. PICK m \in Nat : units[u].diagnostics \in [1..m -> Diagnostics]
    BY <1>1, UnitsTyped, Zenon DEF MergeInv
  <2>2. QED
    BY <2>1, Zenon
<1>3. \A i \in DOMAIN diagnostics : diagnostics[i] \in Entry
  <2>1. diagnostics \in Seq(Entry)
    BY Zenon DEF MergeInv
  <2>2. QED
    BY <2>1
<1>4. Contents(diagnostics) = UNION {Contents(units[u].diagnostics) : u \in DOMAIN units}
  <2>1. at = Len(units) + 1 /\ Contents(diagnostics) = ToldBefore(at)
    BY Zenon DEF MergeInv
  <2>2. 1..(at - 1) = DOMAIN units
    BY <1>1, <2>1
  <2>3. QED
    BY <2>1, <2>2, Zenon DEF ToldBefore
<1>5. ASSUME NEW i \in DOMAIN diagnostics
      PROVE  \E u \in DOMAIN units : \E j \in DOMAIN units[u].diagnostics :
               units[u].diagnostics[j].severity = diagnostics[i].severity
  <2>1. Told(diagnostics[i]) \in Contents(diagnostics)
    BY Zenon DEF Contents
  <2>2. PICK u \in DOMAIN units : Told(diagnostics[i]) \in Contents(units[u].diagnostics)
    BY <1>4, <2>1, Zenon
  <2>3. PICK j \in DOMAIN units[u].diagnostics :
          Told(diagnostics[i]) = Told(units[u].diagnostics[j])
    BY <2>2, Zenon DEF Contents
  <2>4. diagnostics[i].severity = units[u].diagnostics[j].severity
    BY <1>2, <1>3, <2>3, SameSeverity, Zenon
  <2>5. QED
    BY <2>4, Zenon
<1>6. ASSUME NEW u \in DOMAIN units, NEW j \in DOMAIN units[u].diagnostics
      PROVE  \E i \in DOMAIN diagnostics :
               units[u].diagnostics[j].severity = diagnostics[i].severity
  <2>1. Told(units[u].diagnostics[j]) \in Contents(diagnostics)
    <3>1. Told(units[u].diagnostics[j]) \in Contents(units[u].diagnostics)
      BY Zenon DEF Contents
    <3>2. QED
      BY <1>4, <3>1, Zenon
  <2>2. PICK i \in DOMAIN diagnostics : Told(diagnostics[i]) = Told(units[u].diagnostics[j])
    BY <2>1, Zenon DEF Contents
  <2>3. diagnostics[i].severity = units[u].diagnostics[j].severity
    BY <1>2, <1>3, <2>2, SameSeverity, Zenon
  <2>4. QED
    BY <2>3, Zenon
<1>7. ASSUME NEW i \in DOMAIN diagnostics, diagnostics[i].severity = severity
      PROVE  \E u \in DOMAIN units : \E j \in DOMAIN units[u].diagnostics :
               units[u].diagnostics[j].severity = severity
  BY <1>5, <1>7, Zenon
<1>8. ASSUME NEW u \in DOMAIN units, NEW j \in DOMAIN units[u].diagnostics,
             units[u].diagnostics[j].severity = severity
      PROVE  \E i \in DOMAIN diagnostics : diagnostics[i].severity = severity
  BY <1>6, <1>8, Zenon
<1>9. QED
  BY <1>7, <1>8, Zenon

\* The exit code of analyzeProject tells a finding from an analysis that could not run: 1
\* exactly when no source compiled, some source did not, or some unit failed to load; 2
\* exactly when none of these and some unit told of a finding the policy asks for.  Units
\* skipped for their target ABI count for neither.
THEOREM ExitCodeHonest == Spec => []ExitCodeIsHonest
<1>1. MergeInv => ExitCodeIsHonest
  <2> DEFINE Tells(severity) == \E u \in DOMAIN units : \E i \in DOMAIN units[u].diagnostics :
                                  units[u].diagnostics[i].severity = severity
             found == \E u \in DOMAIN units : \E i \in DOMAIN units[u].diagnostics :
                        \/ units[u].diagnostics[i].severity = "error" /\ failOn # "none"
                        \/ units[u].diagnostics[i].severity = "warning" /\ failOn = "warning"
  <2> SUFFICES ASSUME MergeInv, exitCode # 3
               PROVE  /\ exitCode = 1 <=> CutShort
                      /\ exitCode = 2 <=> ~CutShort /\ found
    BY Zenon DEF ExitCodeIsHonest, Done, CutShort, Complete
  <2>1. found <=> \/ Tells("error") /\ failOn # "none"
                  \/ Tells("warning") /\ failOn = "warning"
    BY Zenon
  <2>2. \A s : Count(diagnostics, s) > 0 <=> Tells(s)
    BY CountFinds, SeveritiesKept, Zenon DEF MergeInv
  <2> HIDE DEF Tells, found
  <2>3. /\ failOn \in {"none", "error", "warning"} /\ CutShort \in BOOLEAN
        /\ exitCode = IF CutShort THEN 1 ELSE GateExitCode(failOn, diagnostics)
    BY Zenon DEF MergeInv, CutShort
  <2>4. GateExitCode(failOn, diagnostics) = IF found THEN 2 ELSE 0
    <3>1. CASE failOn = "none"
      BY <2>1, <3>1, Zenon DEF GateExitCode
    <3>2. CASE failOn = "error"
      BY <2>1, <2>2, <3>2, Zenon DEF GateExitCode
    <3>3. CASE failOn = "warning"
      BY <2>1, <2>2, <3>3, Zenon DEF GateExitCode
    <3>4. QED
      BY <2>3, <3>1, <3>2, <3>3, Zenon
  <2>5. QED
    BY <2>3, <2>4
<1>2. QED
  BY <1>1, MergeInvariance, PTL
=============================================================================
