---------------------------- MODULE MCPlacedUnit ----------------------------
(***************************************************************************)
(* Units for the access pipeline: X, Y and T are globals of two 4-byte     *)
(* fields or elements, Z one of six, gp a variable that points to the      *)
(* object H, L a local of main, p and q pointer variables of a helper;     *)
(* w and v are thread entries, h, g, r and start helpers.                  *)
(***************************************************************************)
EXTENDS PlacedUnit

CONSTANT Families

NoPtr == [kind |-> "None", name |-> "none", arg |-> 0, cell |-> <<>>, steps |-> <<>>, how |-> "path"]
NoIx == [kind |-> "none", k |-> 0, par |-> 0]
NoFn == [fn |-> "none", par |-> 0]

Const(k) == [kind |-> "const", k |-> k, par |-> 0]
Par(i) == [kind |-> "par", k |-> 0, par |-> i]
Plus(i, k) == [kind |-> "sum", k |-> k, par |-> i]
Unseen(k) == [kind |-> "any", k |-> k, par |-> 0]

Global(x) == [NoPtr EXCEPT !.kind = "Global", !.name = x]
Local(x) == [NoPtr EXCEPT !.kind = "Local", !.name = x]
Arg(i) == [NoPtr EXCEPT !.kind = "Argument", !.name = "arg", !.arg = i]
Then(p, step) == [p EXCEPT !.steps = Append(@, step)]
Field(p, n) == Then(p, Step("field", 4, 4, Const(n)))
Elem(p, ix) == Then(p, Step("elem", 4, 8, ix))
Move(p, ix) == Then(p, Step("arith", 4, 0, ix))
Loaded(p) == [p EXCEPT !.how = "loaded", !.cell = p.steps, !.steps = <<>>]
Either(p) == [p EXCEPT !.how = "phi"]

Ins(op) ==
    [op |-> op, ptr |-> NoPtr, src |-> NoPtr, size |-> 4, atomic |-> FALSE, to |-> "", entry |-> NoFn,
     args |-> <<>>, declared |-> "None", held |-> {}, maybe |-> FALSE]
Wr(p) == [Ins("store") EXCEPT !.ptr = p]
Rd(p) == [Ins("load") EXCEPT !.ptr = p]
Rmw(p) == [Ins("rmw") EXCEPT !.ptr = p, !.atomic = TRUE]
Cas(p) == [Ins("cmpxchg") EXCEPT !.ptr = p, !.atomic = TRUE]
Set(p, size) == [Ins("memset") EXCEPT !.ptr = p, !.size = size]
Copy(p, q) == [Ins("memcpy") EXCEPT !.ptr = p, !.src = q]
Keep(p, q) == [Ins("keep") EXCEPT !.ptr = p, !.src = q, !.size = 8]
Ext(p, declared) == [Ins("extern") EXCEPT !.to = "ext", !.size = 0, !.declared = declared,
                         !.args = <<[ptr |-> p, ix |-> NoIx, fn |-> NoFn]>>]
Go(entry, p) == [Ins("spawn") EXCEPT !.entry = entry, !.src = p, !.ptr = Global("handle")]
Run1(f, p) == Go([fn |-> f, par |-> 0], p)
RunPar(i, p) == Go([fn |-> "none", par |-> i], p)
C(f, args) == [Ins("call") EXCEPT !.to = f, !.args = args]
P(p) == [ptr |-> p, ix |-> NoIx, fn |-> NoFn]
N(ix) == [ptr |-> NoPtr, ix |-> ix, fn |-> NoFn]
F(f) == [ptr |-> NoPtr, ix |-> NoIx, fn |-> [fn |-> f, par |-> 0]]
FPar(i) == [ptr |-> NoPtr, ix |-> NoIx, fn |-> [fn |-> "none", par |-> i]]
Maybe(ins) == [ins EXCEPT !.maybe = TRUE]
Under(ins, l) == [ins EXCEPT !.held = {<<l, 0>>}]

X == Global("X")
Y == Global("Y")
A1 == Arg(1)

Fun(params, ins) == [params |-> params, body |-> Straight(Append(ins, Ins("ret")))]

\* A unit of main and the functions given, which come after it in the module.
Unit(main, functions, entries) ==
    LET all == <<<<"main", Fun(<<>>, main)>>>> \o functions
        names == {all[i][1] : i \in DOMAIN all}
        of(f) == all[CHOOSE i \in DOMAIN all : all[i][1] = f][2]
    IN [order |-> [i \in DOMAIN all |-> all[i][1]], body |-> [f \in names |-> of(f).body],
        params |-> [f \in names |-> of(f).params], file |-> [f \in names |-> "a"],
        entries |-> entries,
        globals |-> [g \in {"X", "Y", "T", "Z", "gp", "handle", "cell"} |->
                        [size |-> IF g = "Z" THEN 24 ELSE 8, tracked |-> g # "handle"]],
        heap |-> [h \in {"H"} |-> 8], locals |-> [l \in {"L", "box", "p", "q"} |-> 8],
        mem |-> <<Object("Global", "gp", 0, 0), 0>> :> Pointer(Object("Heap", "H", 0, 0), 0, {})]

InOtherFile(u, fs) == [u EXCEPT !.file = [f \in DOMAIN @ |-> IF f \in fs THEN "b" ELSE "a"]]

One == <<"ptr">>

\* Fields handed down one or two calls by two threads.
Bodies == {<<Wr(Field(A1, 0))>>, <<Wr(Field(A1, 1))>>, <<Rd(A1)>>, <<C("h", <<P(A1)>>)>>,
           <<C("h", <<P(Field(A1, 1))>>)>>, <<C("g", <<P(A1)>>)>>}
Helpers == {<<Wr(A1)>>, <<Rd(A1)>>, <<Set(A1, 4)>>, <<Set(A1, 0)>>, <<Ext(A1, "Write")>>}
FieldUnits ==
    {Unit(<<Run1("w", X), Run1("v", p), b>>,
          <<<<"h", Fun(One, h)>>, <<"g", Fun(One, <<C("h", <<P(Move(A1, Const(1)))>>)>>)>>,
            <<"w", Fun(One, one)>>, <<"v", Fun(One, two)>>>>, [w |-> 1, v |-> 1]) :
        p \in {X, Field(X, 1), Y}, b \in {Wr(Field(X, 1)), C("h", <<P(X)>>)}, h \in Helpers,
        one \in {<<Wr(A1)>>, <<C("g", <<P(A1)>>)>>}, two \in Bodies}

\* Elements placed by an index, a constant, a parameter or anything else, around a recursion.
Indexes == {Const(0), Const(1), Unseen(1)}
IndexUnits ==
    {Unit(<<Run1("w", Y), C("g", <<N(i)>>), C("g", <<N(j)>>)>>,
          <<<<"g", Fun(<<"int">>, g)>>, <<"h", Fun(<<"ptr", "int">>, <<Wr(Elem(A1, Par(2)))>>)>>,
            <<"w", Fun(One, <<Wr(Elem(Global("T"), Const(1)))>>)>>>>, [w |-> 1]) :
        i \in Indexes, j \in {Const(0)},
        g \in {<<Wr(Elem(Global("T"), Par(1)))>>,
               <<C("h", <<P(Global("T")), N(Par(1))>>)>>,
               <<C("h", <<P(Elem(Global("T"), Const(1))), N(Const(0))>>)>>,
               <<Wr(Elem(Global("T"), Par(1))), Maybe(C("g", <<N(Plus(1, 1))>>))>>,
               <<Wr(Elem(Global("T"), Par(1))), Maybe(C("g", <<N(Par(1))>>))>>,
               <<Wr(Elem(Global("T"), Par(1))), Maybe(C("g", <<N(Const(1))>>))>>}}
      \cup {Unit(<<Run1("w", p), Run1("v", X), C("h", <<P(X), N(i)>>)>>,
          <<<<"h", Fun(<<"ptr", "int">>, h)>>, <<"g", Fun(<<"int", "ptr">>, <<C("h", <<P(Arg(2)), N(Par(1))>>)>>)>>,
            <<"w", Fun(One, <<w>>)>>, <<"v", Fun(One, <<Wr(Elem(A1, Const(1)))>>)>>>>, [w |-> 1, v |-> 1]) :
        p \in {X, Field(X, 1)}, i \in Indexes,
        h \in {<<Wr(Elem(Arg(1), Par(2)))>>,
               <<Rd(Elem(Arg(1), Par(2))), Maybe(C("h", <<P(Arg(1)), N(Plus(2, 1))>>))>>,
               <<Wr(Move(Elem(Arg(1), Par(2)), Const(1)))>>},
        w \in {C("h", <<P(A1), N(Const(0))>>), C("g", <<N(Const(0)), P(A1)>>),
               C("g", <<N(Const(1)), P(A1)>>), C("h", <<P(Elem(A1, Unseen(0))), N(Const(0))>>)}}

\* A recursion that moves the pointer it passes on, entered from a thread and from main.
CycleUnits ==
    {Unit(<<Run1("w", X), b>>,
          <<<<"r", Fun(One, <<a, Maybe(C("r", <<P(p)>>))>>)>>,
            <<"w", Fun(One, <<C("r", <<P(A1)>>)>>)>>>>, [w |-> 1]) :
        a \in {Wr(A1), Rd(A1), Ext(A1, "Write")}, p \in {A1, Move(A1, Const(1)), Move(A1, Unseen(1))},
        b \in {Wr(Field(X, 1)), Wr(X), C("r", <<P(X)>>)}}

\* A local of main, and an object behind a variable, handed to a thread.
OwnedUnits ==
    {Unit(<<Run1("w", o[1]), b, C("h", <<P(o[2])>>)>>,
          <<<<"h", Fun(One, <<Rd(Field(A1, 1))>>)>>, <<"w", Fun(One, w)>>>>, [w |-> 1]) :
        o \in {<<Local("L"), Local("L")>>, <<Field(Local("L"), 1), Local("L")>>,
               <<Loaded(Global("gp")), Loaded(Global("gp"))>>},
        b \in {Wr(Local("L")), Wr(Field(Local("L"), 1)), Wr(Field(Loaded(Global("gp")), 1))},
        w \in {<<Wr(A1)>>, <<Wr(Field(A1, 1))>>, <<C("h", <<P(A1)>>)>>}}

\* A helper starts the entry it is handed, on the object it is handed or reads out of it.
StartOn(p) == <<"start", Fun(<<"fn", "ptr">>, <<RunPar(1, p)>>)>>
Via == <<"via", Fun(<<"fn", "ptr">>, <<C("start", <<FPar(1), P(Arg(2))>>)>>)>>
\* ... called in a recursion, which hands on the same object or another part of it.
Again(p) == <<"via", Fun(<<"fn", "ptr">>, <<Maybe(C("via", <<FPar(1), P(p)>>)),
                                           C("start", <<FPar(1), P(Arg(2))>>)>>)>>
Far == <<"far", Fun(<<"fn", "ptr">>, <<C("via", <<FPar(1), P(Arg(2))>>)>>)>>
Further == <<"further", Fun(<<"fn", "ptr">>, <<C("far", <<FPar(1), P(Arg(2))>>)>>)>>
SettledMains ==
    {<<C("start", <<F("w"), P(X)>>), Wr(X)>>,
     <<C("start", <<F("w"), P(X)>>), C("start", <<F("v"), P(Y)>>), Wr(X)>>,
     <<C("start", <<F("w"), P(X)>>), C("start", <<F("w"), P(Y)>>), Wr(X)>>,
     <<C("start", <<F("w"), P(Either(X))>>), Wr(X)>>,
     <<C("via", <<F("w"), P(X)>>), Wr(X)>>,
     <<C("via", <<F("w"), P(X)>>), C("start", <<F("w"), P(Field(X, 1))>>), Wr(X)>>,
     <<C("start", <<F("w"), P(X)>>), C("w", <<P(X)>>)>>}
ReadMains ==
    {<<Keep(Local("box"), X), C("start", <<F("w"), P(Local("box"))>>), Wr(X)>>,
     <<Keep(Local("box"), X), Keep(Local("box"), Y), C("start", <<F("w"), P(Local("box"))>>), Wr(Y)>>,
     <<Keep(Local("box"), X), Maybe(Keep(Local("box"), Y)), C("start", <<F("w"), P(Local("box"))>>),
       Wr(Y)>>,
     <<Keep(Local("box"), X), Keep(Global("cell"), Local("box")),
       C("start", <<F("w"), P(Local("box"))>>), Wr(X)>>,
     <<Keep(Local("box"), X), C("via", <<F("w"), P(Local("box"))>>), Wr(X)>>}
AgainMains == {<<C(f, <<F("w"), P(X)>>), Wr(Field(X, i))>> : f \in {"via", "far", "further"}, i \in {0, 1}}
Workers == <<<<"w", Fun(One, <<Wr(A1)>>)>>, <<"v", Fun(One, <<Rd(A1)>>)>>>>
SettledUnits ==
    {Unit(m, <<StartOn(Arg(2)), Via>> \o Workers, [w |-> 2, v |-> 1]) : m \in SettledMains}
      \cup {Unit(m, <<StartOn(Arg(2)), again, Far, Further>> \o Workers, [w |-> 2, v |-> 1]) :
               m \in AgainMains, again \in {Via, Again(Arg(2)), Again(Move(Arg(2), Const(1)))}}
      \cup {Unit(m, <<StartOn(Loaded(Arg(2))), Via>> \o Workers, [w |-> 2, v |-> 1]) : m \in ReadMains}
      \cup {Unit(<<Keep(Local("box"), X), C("start", <<F("w"), P(Local("box"))>>), Wr(X)>>,
                 <<<<"start", Fun(<<"fn", "ptr">>, <<Keep(Arg(2), Y), RunPar(1, Loaded(Arg(2)))>>)>>>>
                    \o Workers, [w |-> 2, v |-> 1])}

\* What a helper does to its parameter beyond its own accesses.
Deeds == {<<Keep(Global("cell"), A1), Wr(Field(Loaded(Global("cell")), 1))>>,
          <<Keep(Global("cell"), Field(A1, 1)), C("g", <<P(X)>>)>>,
          <<Wr(Field(A1, 1)), C("k", <<P(Move(A1, Const(1)))>>)>>,
          <<C("k", <<P(Move(A1, Unseen(1)))>>)>>, <<Set(A1, 0)>>, <<Copy(A1, Field(A1, 1))>>,
          <<Rmw(A1), Cas(Field(A1, 1))>>, <<Ext(A1, "Read"), Ext(Field(A1, 1), "Write")>>,
          <<Wr(Either(A1))>>, <<Wr(A1), Maybe(C("h", <<P(Move(A1, Const(1)))>>))>>,
          <<Wr(Loaded(A1))>>, <<Ext(A1, "None"), C("k", <<P(A1)>>), C("k", <<P(Field(A1, 1))>>)>>}
DeedUnits ==
    {Unit(<<Run1("w", X), C("h", <<P(p)>>)>>,
          <<<<"h", Fun(One, h)>>, <<"g", Fun(One, <<Rd(Loaded(Global("cell")))>>)>>,
            <<"k", Fun(One, <<Rd(A1)>>)>>, <<"w", Fun(One, <<w>>)>>>>, [w |-> 1]) :
        p \in {X, Field(X, 1), Local("L"), Y, Loaded(Global("gp"))}, h \in Deeds, w \in {Wr(A1), Rd(Field(A1, 1)), Rmw(A1)}}

\* A helper that touches more ranges of its parameter than a footprint keeps, and one that
\* touches as many, called on an object large enough.
Z == Global("Z")
RangeUnits ==
    {Unit(<<Run1("w", Z), C("h", <<P(Z)>>)>>,
          <<<<"h", Fun(One, [i \in DOMAIN ns |-> Wr(Field(A1, ns[i]))])>>,
            <<"w", Fun(One, <<C(f, <<P(A1)>>)>>)>>, <<"g", Fun(One, <<C("h", <<P(Field(A1, 1))>>), Rd(A1)>>)>>>>,
          [w |-> 1]) : ns \in {<<0, 2>>, <<0, 2, 4>>, <<4, 0, 3, 1>>}, f \in {"h", "g"}}

\* A helper that works on copies of its parameter in local variables.
Lp == Local("p")
Lq == Local("q")
CopyDeeds ==
    {<<Keep(Lp, A1), Wr(Field(Loaded(Lp), 1))>>,
     <<Keep(Lp, Field(A1, 1)), Keep(Lq, Loaded(Lp)), Wr(Loaded(Lq)), Rd(Move(Loaded(Lq), Const(-1)))>>,
     <<Keep(Lp, A1), Maybe(Keep(Lp, Field(A1, 1))), Wr(Loaded(Lp))>>,
     <<Keep(Lp, A1), Maybe(Keep(Lp, Y)), Wr(Loaded(Lp))>>,
     <<Keep(Lp, A1), C("k", <<P(Loaded(Lp))>>)>>,
     <<Keep(Lp, A1), C("m", <<P(Lp)>>), Rd(Loaded(Lp))>>}
CopyHelpers ==
    <<<<"k", Fun(One, <<Wr(Field(A1, 1))>>)>>, <<"m", Fun(One, <<Wr(Loaded(A1))>>)>>>>
CopyUnits ==
    {Unit(<<Run1("w", X), C("h", <<P(x)>>)>>,
          <<<<"h", Fun(One, h)>>, <<"w", Fun(One, <<w>>)>>>> \o CopyHelpers, [w |-> 1]) :
        x \in {X, Field(X, 1), Y}, h \in CopyDeeds, w \in {Wr(A1), Rd(Field(A1, 1)), C("h", <<P(A1)>>)}}

\* The variable itself is stored where others find it.
PublishedUnits ==
    {Unit(<<C("h", <<P(X)>>)>>,
          <<<<"h", Fun(One, <<Keep(Lp, A1), Keep(Global("cell"), Lp), C("m", <<P(Loaded(Global("cell")))>>)>>)>>>>
             \o CopyHelpers, <<>>)}

\* Helpers in another file, entries called directly, locks held around the calls.
OtherUnits ==
    {InOtherFile(Unit(<<Run1("w", X), Run1("v", X), C("g", <<P(X)>>)>>,
          <<<<"h", Fun(One, <<a>>)>>, <<"g", Fun(One, <<C("h", <<P(A1)>>)>>)>>,
            <<"w", Fun(One, <<C("g", <<P(Field(A1, 1))>>)>>)>>,
            <<"v", Fun(One, <<Wr(Field(A1, 1))>>)>>>>, [w |-> 1, v |-> 1]), fs) :
        a \in {Wr(A1), Set(A1, 0)}, fs \in SUBSET {"h", "g", "w"}}
      \cup {Unit(<<Run1("w", X), b, c>>, <<<<"h", Fun(One, <<a>>)>>, <<"w", Fun(One, w)>>>>, [w |-> 1]) :
        a \in {Wr(A1), Under(Wr(A1), "m")},
        b \in {Under(C("h", <<P(X)>>), "m"), C("h", <<P(X)>>)},
        c \in {Under(C("h", <<P(Y)>>), "n"), Under(Rd(X), "m")},
        w \in {<<Under(C("h", <<P(A1)>>), "m")>>, <<Under(Wr(A1), "m")>>, <<Wr(A1)>>}}
      \cup {Unit(<<Run1("w", X), C("w", <<P(X)>>)>>, <<<<"w", Fun(One, <<Wr(A1)>>)>>>>, [w |-> 1])}

\* A thread entry that main also calls, on another object.
CalledUnits ==
    {Unit(<<Run1("w", X), Run1("w", X), C("w", <<P(Y)>>)>>, <<<<"w", Fun(One, <<Wr(A1)>>)>>>>, [w |-> 2])}

FamilyUnits ==
    [fields |-> FieldUnits, indexes |-> IndexUnits, cycles |-> CycleUnits, owned |-> OwnedUnits,
     settled |-> SettledUnits, deeds |-> DeedUnits, ranges |-> RangeUnits, copies |-> CopyUnits,
     published |-> PublishedUnits, others |-> OtherUnits, called |-> CalledUnits]

MCUnits == UNION {FamilyUnits[f] : f \in Families}
=============================================================================
