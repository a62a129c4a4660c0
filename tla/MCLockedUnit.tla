---------------------------- MODULE MCLockedUnit ----------------------------
(***************************************************************************)
(* Units for the lock pipeline: two threads over the locks A, B and G and  *)
(* the symbols X and Y, with the helpers that make the pipeline work.      *)
(***************************************************************************)
EXTENDS LockedUnit

CONSTANT Families

A == <<"A", 0>>
B == <<"B", 0>>
G == <<"G", 0>>
D == <<"D", 0>>
P == <<"%0", 0>>
Q == <<"%1", 0>>

L(l) == Instr("lock", "", <<l>>, FALSE)
T(l) == Instr("trylock", "", <<l>>, FALSE)
U(l) == Instr("unlock", "", <<l>>, FALSE)
Grd(l) == Instr("guard", "g", <<l>>, FALSE)
Adopt(l) == Instr("guard", "g", <<l>>, TRUE)
End == Instr("unguard", "g", <<>>, FALSE)
W(s) == Instr("write", s, <<>>, FALSE)
R(s) == Instr("read", s, <<>>, FALSE)
C(f, args) == Instr("call", f, args, FALSE)
Br == Instr("br", "", <<>>, FALSE)
Ret == Instr("ret", "", <<>>, FALSE)

Body(b) == [ins |-> b.ins, succ |-> b.succ, loc |-> [n \in DOMAIN b.ins |-> n]]
Line(ins) == Body(Straight(Append(ins, Ret)))

\* A branch over the k instructions that follow node n.
Skip(b, n, k) == [b EXCEPT !.succ[n] = <<n + 1, n + 1 + k>>]
\* A branch back from node n to node m.
Back(b, n, m) == [b EXCEPT !.succ[n] = <<n + 1, m>>]

Fn(pairs) == [f \in {p[1] : p \in ToSet(pairs)} |-> (CHOOSE p \in ToSet(pairs) : p[1] = f)[2]]

Unit(order, body, entries, root, ths) ==
    [order |-> order, body |-> body, entries |-> entries, root |-> root, threads |-> ths,
     binding |-> <<>>, pointers |-> [f \in DOMAIN body |-> {"%0", "%1"}], standard |-> {},
     recursiveTypes |-> {}, reentrant |-> {}, compared |-> {"A"}]

Th(f) == [fn |-> f, args |-> <<>>]

\* Two entries; the initial thread beside one entry; two threads of one entry.
TwoEntries(one, two, helpers) ==
    Unit(<<"t1", "t2">> \o helpers[1], [f \in {"t1", "t2"} \cup DOMAIN helpers[2] |->
            IF f = "t1" THEN one ELSE IF f = "t2" THEN two ELSE helpers[2][f]],
         [t1 |-> 1, t2 |-> 1], {}, <<Th("t1"), Th("t2")>>)
RootAndEntry(u) == [u EXCEPT !.entries = [t2 |-> 1], !.root = {"t1"}]
OneEntryTwice(u) == [u EXCEPT !.entries = [t1 |-> 2], !.threads = <<Th("t1"), Th("t1")>>]

NoHelpers == <<<<>>, <<>>>>

\* Plain code, with branches around a lock and a loop that takes it.
PlainBodies ==
    {Line(<<W("X")>>), Line(<<L(A), W("X"), U(A)>>), Line(<<L(A), U(A), W("X")>>),
     Line(<<L(A), L(B), W("X"), U(B), U(A)>>), Line(<<L(B), L(A), R("X"), U(A), U(B)>>),
     Line(<<L(B), W("Y"), L(A), U(A), U(B)>>),
     Line(<<L(G), L(A), L(B), U(B), U(A), U(G)>>), Line(<<L(G), L(B), L(A), U(A), U(B), U(G)>>),
     Skip(Line(<<Br, L(A), W("X"), U(A)>>), 1, 1),
     Skip(Line(<<L(A), Br, U(A), L(A), R("X"), U(A)>>), 2, 2),
     Back(Line(<<L(A), W("X"), Br, U(A)>>), 3, 2),
     Skip(Line(<<Br, L(B), L(A), U(A), U(B), L(A), W("X"), U(A)>>), 1, 4),
     Line(<<L(A), L(A), U(A)>>),
     Line(<<Grd(A), W("X"), End, R("Y")>>), Line(<<L(A), Adopt(A), W("X"), End, R("X")>>),
     Line(<<Grd(B), Grd(A), W("Y"), End>>)}

Plain ==
    UNION {LET u == TwoEntries(b, c, NoHelpers)
           IN {u, RootAndEntry(u), OneEntryTwice(u)} : b \in PlainBodies, c \in PlainBodies}

\* Code that tries: it gives up, does without, or tries again until it has the lock.
TryBodies ==
    {Skip(Line(<<T(A), W("X"), U(A)>>), 1, 2), Skip(Line(<<T(A), W("X"), U(A), R("X")>>), 1, 2),
     Back(Line(<<T(A), W("X"), U(A)>>), 1, 1),
     Skip(Line(<<L(B), T(A), W("X"), U(A), U(B)>>), 2, 2),
     Skip(Line(<<T(A), L(B), W("X"), U(B), U(A)>>), 1, 4),
     Line(<<L(A), L(B), W("X"), U(B), U(A)>>), Line(<<L(B), L(A), R("X"), U(A), U(B)>>)}
TryLocks == {TwoEntries(b, c, NoHelpers) : b \in TryBodies, c \in TryBodies}

\* Code that goes on as if it held the lock after a try-lock failed.
BacksOff ==
    {TwoEntries(Skip(Line(<<T(A), W("Y"), W("X"), U(A)>>), 1, 1),
                Line(<<L(A), W("X"), U(A)>>), NoHelpers)}

\* Helpers that take, drop, or only sometimes take the lock they are handed, and nest, the
\* last of them deeper than the rounds of summaries go.
WrapperHelpers(take) ==
    <<<<"lk", "ul", "lk2", "lk3">>,
      Fn(<<<<"lk", take>>, <<"ul", Line(<<U(P)>>)>>, <<"lk2", Line(<<C("lk", <<P>>)>>)>>,
           <<"lk3", Line(<<C("lk2", <<P>>)>>)>>>>)>>

Takes == {Line(<<L(P)>>), Line(<<L(P), W("Y")>>)}
MayTake == {Skip(Line(<<Br, L(P)>>), 1, 1), Line(<<R("X"), L(P), U(P), L(P)>>)}

OneLockBodies ==
    {Line(<<C("lk", <<A>>), W("X"), C("ul", <<A>>)>>),
     Line(<<C("lk2", <<A>>), W("X"), R("Y"), U(A)>>),
     Line(<<C("lk3", <<A>>), W("X"), U(A)>>),
     Line(<<L(A), W("X"), U(A), R("Y")>>)}
WrapperBodies == OneLockBodies \cup
    {Line(<<C("lk", <<B>>), C("lk2", <<A>>), C("ul", <<A>>), W("Y"), C("ul", <<B>>)>>),
     Line(<<L(A), C("lk", <<B>>), R("X"), U(B), U(A)>>),
     Line(<<C("lk", <<A>>), C("lk2", <<A>>), U(A)>>)}

\* A helper that takes its lock on some paths, more than once, or too many calls away, is not
\* summarised: its callers do not hold the lock as far as the analysis knows, and no order
\* starts from it.
Wrappers ==
    {TwoEntries(b, c, WrapperHelpers(take)) :
        b \in WrapperBodies, c \in WrapperBodies, take \in Takes}
      \cup {TwoEntries(b, c, WrapperHelpers(take)) :
                b \in OneLockBodies, c \in OneLockBodies, take \in MayTake}

\* A helper that takes the lock it is handed by a guard, and so drops it before it returns.
Guarded ==
    {TwoEntries(Line(<<C("with", <<A>>), W("X")>>), Line(<<L(A), W("X"), U(A)>>),
                <<<<"with">>, [with |-> Line(<<Grd(P), R("Y"), End>>)]>>)}

\* A helper that drops its lock on some paths only, and one that drops it too many calls away.
DropHelpers ==
    {Fn(<<<<"ul", Skip(Line(<<Br, U(P)>>), 1, 1)>>>>),
     Fn(<<<<"ul", Line(<<C("ul2", <<P>>)>>)>>, <<"ul2", Line(<<C("ul3", <<P>>)>>)>>,
          <<"ul3", Line(<<U(P)>>)>>>>)}
Dropping ==
    {TwoEntries(Line(<<L(A), C("ul", <<A>>), W("X")>>), Line(<<L(A), W("X"), U(A)>>),
                <<SetToSeq(DOMAIN h), h>>) : h \in DropHelpers}

\* Three locks, in orders that close cycles of two and of three, some past the search's bound.
Pairs(ps) == Line(FlattenSeq([i \in DOMAIN ps |->
                 <<L(ps[i][1]), L(ps[i][2]), U(ps[i][2]), U(ps[i][1])>>]))
Three ==
    {OneEntryTwice(TwoEntries(Pairs(ps), Line(<<>>), NoHelpers)) :
        ps \in {<< <<A, B>>, <<B, G>>, <<G, A>> >>, << <<A, B>>, <<B, G>>, <<B, A>>, <<A, B>> >>,
                << <<A, B>>, <<A, G>>, <<B, G>>, <<G, B>>, <<G, A>>, <<B, A>> >>}}
      \cup {TwoEntries(Pairs(ps), Pairs(qs), NoHelpers) :
               ps \in {<< <<A, B>>, <<G, A>> >>, << <<A, B>>, <<B, G>> >>},
               qs \in {<< <<B, G>> >>, << <<G, A>>, <<B, A>> >>}}

----------------------------------------------------------------------------
\* Helpers that take both of the locks they are handed, one under a named lock, or call on.
OrderHelpers ==
    {<<<<"both", "under", "on">>,
       Fn(<<<<"both", Line(<<L(P), L(Q), W("X"), U(Q), U(P)>>)>>,
            <<"under", Line(<<L(P), R("Y"), U(P)>>)>>,
            <<"on", on>>>>)>> :
     on \in {Line(<<C("both", <<Q, P>>)>>), Line(<<L(G), C("under", <<P>>), U(G)>>),
             Line(<<L(G), C("both", <<P, Q>>), U(G)>>)}}

OrderBodies ==
    {Line(<<C("both", <<A, B>>)>>), Line(<<C("both", <<B, A>>)>>), Line(<<C("on", <<A, B>>)>>),
     Line(<<C("on", <<B, A>>)>>),
     Line(<<L(G), C("both", <<B, A>>), U(G)>>), Line(<<L(A), C("under", <<B>>), U(A)>>),
     Line(<<L(B), C("under", <<A>>), U(B), W("Y")>>), Line(<<L(G), C("on", <<A, B>>), U(G)>>)}

Orders == {TwoEntries(b, c, h) : b \in OrderBodies, c \in OrderBodies, h \in OrderHelpers}

\* A helper handed the lock its caller holds, which another call of it does not hold ...
Again == {TwoEntries(Line(<<L(A), C("under", <<A>>), U(A)>>), c, h) :
             c \in {Line(<<C("under", <<B>>)>>), Line(<<L(B), C("under", <<A>>), U(B)>>)},
             h \in OrderHelpers}

\* ... and one that every call of it enters with the lock held.
AlwaysAgain == {TwoEntries(Line(<<L(A), C("under", <<A>>), U(A)>>), Line(<<R("Y")>>),
                           <<<<"under">>, [under |-> Line(<<L(P), W("Y"), U(P)>>)]>>)}

\* Both orders, chosen by comparing addresses or by a flag.
CmpBody(op) ==
    Skip(Line(<<Instr(op, "", <<P, Q>>, FALSE), L(P), L(Q), Br, L(Q), L(P), U(P), U(Q)>>), 1, 3)
Either(op) == [CmpBody(op) EXCEPT !.succ[4] = <<7>>]
AddressBodies ==
    {Line(<<C("both", <<A, B>>)>>), Line(<<C("both", <<B, A>>)>>),
     Line(<<L(B), L(A), U(A), U(B)>>)}
Addresses ==
    {[TwoEntries(b, c, <<<<"both">>, [both |-> Either(op)]>>) EXCEPT !.compared = {"A", "B"}] :
        b \in AddressBodies, c \in AddressBodies, op \in {"cmp", "br"}}

----------------------------------------------------------------------------
\* A helper that locks what it is handed and calls itself on what lies behind it.
Behind(l, place) == <<l[1], l[2] + place>>
Chain == Skip(Line(<<L(P), Br, C("chain", <<Behind(P, 1)>>), W("X"), U(P)>>), 2, 1)
RecursionBodies ==
    {Line(<<C("chain", <<A>>)>>), Line(<<L(B), C("chain", <<A>>), U(B)>>),
     Line(<<L(Behind(A, 1)), L(A), U(A), U(Behind(A, 1))>>),
     Line(<<C("chain", <<B>>), L(A), L(B), U(B), U(A)>>)}
Recursions ==
    {TwoEntries(b, c, <<<<"chain">>, [chain |-> Chain]>>) :
        b \in RecursionBodies, c \in RecursionBodies}

\* A thread handed an object: proven, kept for lack of proof, or called directly as well.
Bound(kept, direct) ==
    [t2 |-> [index |-> "%0", object |-> A, keptForLackOfProof |-> kept,
             runByDirectCalls |-> direct]]
BoundBodies ==
    {Line(<<L(P), W("X"), U(P)>>), Line(<<L(P), L(B), W("X"), U(B), U(P)>>),
     Line(<<L(B), C("both", <<P, G>>), U(B)>>), Line(<<L(G), C("both", <<P, B>>), U(G)>>),
     Line(<<Grd(P), C("under", <<G>>), W("X"), End>>), Line(<<C("both", <<P, G>>), R("X")>>)}
MainBodies ==
    {Line(<<L(A), W("X"), U(A)>>), Line(<<L(B), L(A), U(A), U(B), R("X")>>),
     Line(<<L(G), L(B), L(A), U(A), U(B), U(G)>>), Line(<<L(G), L(A), R("X"), U(A), U(G)>>)}
BoundHelpers ==
    <<<<"both", "under">>, [both |-> Line(<<L(P), L(Q), R("Y"), U(Q), U(P)>>),
                            under |-> Line(<<L(P), U(P)>>)]>>
BoundUnits(main, kept, direct, args) ==
    {[TwoEntries(b, c, BoundHelpers) EXCEPT
        !.binding = Bound(kept, direct), !.entries = [t2 |-> 1], !.root = {"t1"},
        !.threads = <<Th("t1"), [fn |-> "t2", args |-> args]>>] : b \in main, c \in BoundBodies}
Bindings ==
    BoundUnits(MainBodies, FALSE, FALSE, <<A>>) \cup BoundUnits(MainBodies, TRUE, FALSE, <<A>>)
      \cup BoundUnits(MainBodies, TRUE, FALSE, <<D>>)
      \cup BoundUnits({Line(<<L(B), W("X"), U(B), C("t2", <<D>>)>>), Line(<<C("t2", <<A>>)>>)},
                       FALSE, TRUE, <<A>>)

\* An entry that is also called directly, under a lock its own thread does not hold.
CalledLocked == BoundUnits({Line(<<L(B), C("t2", <<G>>), U(B)>>)}, FALSE, TRUE, <<A>>)

\* Recursive mutexes, by type or by attribute; a library function's own lock order; code a
\* thread registers to run at its exit.
Typed(recursive) ==
    Line(<<Instr("settype", "attr", <<>>, recursive), Instr("mutexinit", "attr", <<A>>, FALSE),
           L(A), L(A), W("X"), U(A), U(A)>>)
LibraryHelpers ==
    <<<<"lib", "atend">>, [lib |-> Line(<<L(B), L(A), U(A), U(B)>>), atend |-> Line(<<W("X")>>)]>>
Others ==
    {[TwoEntries(p[1], p[2], LibraryHelpers) EXCEPT !.standard = {"lib"}, !.recursiveTypes = {B},
         !.reentrant = {B} \cup (IF Typed(TRUE) \in {p[1], p[2]} THEN {A} ELSE {})] :
        p \in {Typed(TRUE), Line(<<L(B), L(B), R("X"), U(B), U(B)>>),
               Line(<<C("lib", <<>>), Instr("atexit", "atend", <<>>, FALSE)>>)}
                \X {Typed(TRUE), Line(<<L(A), W("X"), U(A)>>)}
              \cup {<<Typed(FALSE), Line(<<R("X")>>)>>}}

MCUnits ==
    LET units == [plain |-> Plain, trylocks |-> TryLocks, backsOff |-> BacksOff,
                  guarded |-> Guarded, dropping |-> Dropping, wrappers |-> Wrappers, three |-> Three,
                  orders |-> Orders,
                  again |-> Again, alwaysAgain |-> AlwaysAgain, addresses |-> Addresses,
                  recursion |-> Recursions, bindings |-> Bindings, calledLocked |-> CalledLocked,
                  others |-> Others]
    IN UNION {units[f] : f \in Families}
=============================================================================
