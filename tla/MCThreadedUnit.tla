--------------------------- MODULE MCThreadedUnit ---------------------------
(***************************************************************************)
(* Units for the thread pipeline: an initial thread that starts threads on *)
(* the entries A and B, which access X, through handles in its locals, in  *)
(* a global and in an object, itself or through helpers.                   *)
(***************************************************************************)
EXTENDS ThreadedUnit

CONSTANT Families

V(base) == Place(base, <<>>)
Dot(base, field) == Place(base, <<field>>)

S(entry, h) == Instr("spawn", entry, <<h>>, "pthread")
T(entry, h) == Instr("spawn", entry, <<h>>, "std")
JT(entry, h) == Instr("spawn", entry, <<h>>, "jthread")
J(h) == Instr("join", "", <<h>>, "pthread")
K(h) == Instr("join", "", <<h>>, "std")
D(h) == Instr("detach", "", <<h>>, "pthread")
M(to, from) == Instr("move", "", <<to, from>>, "std")
W == Instr("write", "X", <<>>, "")
C(f, args) == Instr("call", f, args, "")
Br == Instr("br", "", <<>>, "")
BrOn(v) == Instr("br", v, <<>>, "value")
BrResult(n) == Instr("br", "", <<ResultOf(n)>>, "result")
SetTo(v) == Instr("set", v, <<>>, "")
Ret == Instr("ret", "", <<>>, "")
RetOf(n) == Instr("ret", "", <<ResultOf(n)>>, "")

\* Creations with an argument, blocks, thread-locals, and the calls other rules are about.
SA(entry, h, a) == Instr("spawn", entry, <<h, V("null"), a>>, "pthread")
TA(entry, h, a) == Instr("spawn", entry, <<h, V("null"), a>>, "std")
Alloc(p) == Instr("assign", p, <<>>, "")
Free(p) == Instr("free", "", <<Loaded(p)>>, "")
StoreIn(o, x) == Instr("store", "", <<V(o), V(x)>>, "")
Reads == Instr("deref", "", <<>>, "")
Publish(flag) == Instr("publish", "g", <<>>, flag)
Uses == Instr("through", "g", <<>>, "")
Just(op) == Instr(op, "", <<>>, "")
Install0(f) == Instr("install", f, <<>>, "")

Line(ins) == Straight(Append(ins, Ret))
LineReturning(ins, n) == Straight(Append(ins, RetOf(n)))

\* A branch over the k instructions that follow node n; a branch back from n to m; a call
\* whose unwind destination is m.
Skip(b, n, k) == [b EXCEPT !.succ[n] = <<n + 1, n + 1 + k>>]
Back(b, n, m) == [b EXCEPT !.succ[n] = <<n + 1, m>>]
Unwind(b, n, m) == [b EXCEPT !.succ[n] = <<n + 1, m>>]

t == V("t")
s == V("s")
g == V("g")
P == V("%0")
A == V("A")
B == V("B")

Worker == Line(<<W>>)

Unit(main, helpers) ==
    [order |-> <<"main", "A", "B">> \o helpers[1],
     body |-> helpers[2] @@ ("main" :> main) @@ ("A" :> Worker) @@ ("B" :> Worker),
     globals |-> {"g", "X"}]

NoHelpers == <<<<>>, <<>>>>
Helper(f, b) == <<<<f>>, f :> b>>
Both(h, k) == <<h[1] \o k[1], h[2] @@ k[2]>>

Plain(b) == Unit(b, NoHelpers)

\* Handles of one function.
PlainUnits ==
    {Plain(b) : b \in
      {Line(<<S("A", t), W, J(t), W>>),
       Line(<<S("A", t), J(t), S("B", t), W, J(t)>>),
       Line(<<S("A", t), S("A", s), J(t), W, J(s)>>),
       Line(<<S("A", t), S("B", s), J(s), J(t)>>),
       Line(<<S("A", t), S("A", t), J(t), W>>),
       Line(<<S("A", t), D(t), W>>),
       Skip(Line(<<S("A", t), Br, J(t), W>>), 2, 1),
       Skip(Line(<<Br, S("A", t), W, D(t)>>), 1, 3),
       Back(Line(<<S("A", t), J(t), W, Br>>), 4, 1),
       Back(Line(<<S("A", t), W, Br, J(t)>>), 3, 1),
       Skip(Line(<<S("A", t), J(t), BrResult(2), W, W>>), 3, 1),
       LineReturning(<<S("A", t), J(t), W>>, 2),
       Line(<<S("A", t), J(t), Instr("use", "", <<ResultOf(2)>>, ""), W>>),
       Skip(Skip(Line(<<SetTo("v"), BrOn("v"), S("A", t), W, BrOn("v"), J(t), W>>), 2, 1), 5, 1),
       Skip(Skip(Line(<<SetTo("v"), BrOn("v"), S("A", t), SetTo("v"), BrOn("v"), J(t), W>>), 2, 1), 5, 1),
       Line(<<Instr("setdetach", "", <<V("attr")>>, ""),
              Instr("spawn", "A", <<t, V("attr")>>, "pthread"), W>>)}}

\* std::thread: moves, unwinding, and the std::jthread that joins itself.
StdUnits ==
    {Plain(b) : b \in
      {Line(<<T("A", t), W, K(t), W>>),
       Unwind(Unwind(Line(<<T("A", t), K(t), W>>), 1, 4), 2, 4),
       Line(<<T("A", s), M(t, s), W, K(t), W>>),
       Line(<<T("A", s), M(t, s), T("B", s), W, K(t), K(s)>>),
       Line(<<JT("A", t), W>>),
       Line(<<T("A", t), K(t), JT("B", s), W>>)}}

\* Handles handed to helpers.
Starts == Helper("start", Line(<<S("A", P)>>))
StartsPassed == Helper("start", Line(<<Instr("spawn", "%1", <<P>>, "pthread")>>))
Joins == Helper("stop", Line(<<J(P)>>))
JoinsReporting == Helper("stop", LineReturning(<<J(P)>>, 1))
JoinsMaybe == Helper("stop", Skip(Line(<<Br, J(P)>>), 1, 1))
JoinsTwice == Both(Joins, Helper("halt", Line(<<C("stop", <<P>>)>>)))
JoinsField == Helper("stop", Line(<<J(Dot("%0", "h"))>>))
Runs == Helper("run", Line(<<S("A", t), J(t)>>))
Leaks == Helper("run", Line(<<S("A", t)>>))

HelperUnits ==
    {Unit(Line(<<C("start", <<t>>), W, J(t), W>>), Starts),
     Unit(Line(<<C("start", <<t, A>>), C("start", <<s, B>>), J(t), W, J(s)>>), StartsPassed),
     Unit(Line(<<C("start", <<t, A>>), C("start", <<s, A>>), W, J(t)>>), StartsPassed),
     Unit(Line(<<C("start", <<t, A>>), J(t), C("start", <<t, A>>), W>>), StartsPassed),
     Unit(Line(<<S("A", t), C("stop", <<t>>), W>>), Joins),
     Unit(Line(<<S("A", t), C("stop", <<t>>), W>>), JoinsReporting),
     Unit(Skip(Line(<<S("A", t), C("stop", <<t>>), BrResult(2), W, W>>), 3, 1), JoinsReporting),
     Unit(Line(<<S("A", t), C("stop", <<t>>), W>>), JoinsMaybe),
     Unit(Line(<<S("A", t), C("halt", <<t>>), W>>), JoinsTwice),
     Unit(Line(<<S("A", Dot("o", "h")), C("stop", <<V("o")>>), W>>), JoinsField),
     Unit(Line(<<C("run", <<>>), W, C("run", <<>>), W>>), Runs),
     Unit(Line(<<C("run", <<>>), W, C("run", <<>>), W>>), Leaks),
     Unit(Line(<<C("run", <<>>), S("B", t), W, J(t)>>), Runs),
     Unit(Line(<<S("A", g), C("stop", <<>>), W>>), Helper("stop", Line(<<W, J(g), W>>))),
     Unit(Line(<<S("A", g), C("work", <<>>), J(g)>>), Helper("work", Line(<<S("B", t), J(t)>>)))}

\* A recursion that steps into the object it is handed.
RecursionOf(op) ==
    {Unit(Line(<<S("A", t), C("walk", <<t>>), W>>),
          Helper("walk", Skip(Line(<<op, Br, C("walk", <<Dot("%0", "n")>>)>>), 2, 1)))}

Recursion ==
    {Unit(Line(<<S("A", t), C("walk", <<t>>), W>>),
          Helper("walk", Skip(Line(<<JT("B", P), Br, C("walk", <<Dot("%0", "n")>>)>>), 2, 1)))}

\* Every short function over two handles, straight, with a branch around what follows its
\* second instruction, or with a loop back from its last.
Ops == {S("A", t), S("B", t), S("A", s), J(t), J(s), W}
Short == {<<S("A", t), x, y, z>> : x \in Ops, y \in Ops, z \in Ops}
ShortUnits ==
    {Plain(Line(q)) : q \in Short}
    \cup {Plain(Skip(Line(<<q[1], q[2], Br, q[3], q[4]>>), 3, 1)) : q \in Short}
    \cup {Plain(Back(Line(<<q[1], q[2], q[3], Br, W>>), 4, 1)) : q \in Short}

\* The same with helpers that start, join or run a thread.
HelperOps == {C("start", <<t>>), C("start", <<s>>), C("stop", <<t>>), S("B", t), J(s), W}
HelperSets == {Both(Starts, h) : h \in {Joins, JoinsReporting, JoinsMaybe}}
HandedUnits ==
    {Unit(Line(<<x, y, z>>), h) : x \in HelperOps, y \in HelperOps, z \in HelperOps, h \in HelperSets}
    \cup {Unit(Skip(Line(<<x, y, Br, z, W>>), 3, 1), h) :
              x \in HelperOps, y \in HelperOps, z \in HelperOps, h \in HelperSets}

\* std::thread objects, started in place or assigned from a temporary.
Assigned == {<<T("A", t)>>, <<T("B", V("x")), M(t, V("x"))>>, <<T("A", V("y")), M(s, V("y"))>>,
             <<K(t)>>, <<K(s)>>, <<W>>}
AssignedUnits ==
    {Plain(Line(x \o y \o z \o v)) : x \in {<<T("A", t)>>, <<T("B", V("x")), M(t, V("x"))>>}, y \in Assigned, z \in Assigned, v \in Assigned}

\* Moves anywhere.
MoveOps == {T("A", t), T("B", s), M(t, s), K(t), K(s)}
MovedUnits == {Plain(Line(<<x, y, z, v>>)) : x \in MoveOps, y \in MoveOps, z \in MoveOps, v \in MoveOps}

\* Threads that start threads.
NestedOps == {S("A", t), S("B", s), J(t), J(s), W}
NestedUnits ==
    {[Plain(Line(<<x, y, z>>)) EXCEPT !.body["A"] = b] :
        x \in NestedOps, y \in NestedOps, z \in NestedOps,
        b \in {Line(<<S("B", t), W, J(t), W>>), Line(<<S("B", t), W>>)}}

\* Functions that run or leave threads, called in turn and in a loop.
RunA == Helper("runA", Line(<<S("A", t), J(t)>>))
RunB == Helper("runB", Line(<<S("B", t), J(t)>>))
LeakB == Helper("runB", Line(<<S("B", t)>>))
Turns == {C("runA", <<>>), C("runB", <<>>), W}
TurnUnits == {Unit(Line(<<x, y, z>>), Both(RunA, h)) : x \in Turns, y \in Turns, z \in Turns, h \in {RunB, LeakB}}
LoopedUnits == {Unit(Back(Line(<<x, y, Br>>), 3, 1), Both(RunA, h)) : x \in Turns, y \in Turns, h \in {RunB, LeakB}}

\* Arrays of handles.
Elem == Place("t", <<"*">>)
ArrayUnits ==
    {Plain(Back(Line(<<S("A", Elem), Br, J(Elem), W>>), 2, 1)),
     Plain(Line(<<S("A", Elem), J(Elem), W>>)),
     Plain(Line(<<S("A", Dot("t", "0")), S("A", Dot("t", "1")), J(Dot("t", "0")), W, J(Dot("t", "1"))>>))}

\* Arguments: a local, or a block that is freed.
ArgumentOps == {SA("A", t, V("x")), SA("A", s, Loaded("p")), J(t), J(s), Free("p"), Alloc("p")}
Reading(u) == [u EXCEPT !.body["A"] = Line(<<Reads>>)]
ArgumentUnits ==
    {Reading(Plain(Line(<<Alloc("p"), x, y, z>>))) : x \in ArgumentOps, y \in ArgumentOps, z \in ArgumentOps}
    \cup {Reading(Plain(Skip(Line(<<Alloc("p"), x, Br, y, z>>), 3, 1))) :
              x \in ArgumentOps, y \in ArgumentOps, z \in ArgumentOps}
    \cup {Reading(Plain(Back(Line(<<Alloc("p"), x, y, Br>>), 4, 1))) : x \in ArgumentOps, y \in ArgumentOps}
    \cup {Reading(Plain(b)) : b \in
             {Skip(Line(<<StoreIn("o", "x"), TA("A", t, V("o")), Br, K(t)>>), 3, 1),
              Unwind(Line(<<StoreIn("o", "x"), TA("A", t, V("o")), K(t)>>), 2, 4),
              Line(<<TA("A", t, V("o")), StoreIn("o", "x"), K(t)>>),
              Skip(Line(<<SA("A", t, V("x")), J(t), BrResult(2), J(t)>>), 3, 1)}}

\* A thread-local its thread publishes, used by the function that started the thread.
LocalOps == {S("A", t), S("A", s), J(t), J(s), Uses}
Publishing(u, b) == [u EXCEPT !.body["A"] = b]
LocalUnits ==
    {Publishing(Plain(b), Line(<<Publish("threadlocal"), Publish("null")>>)) :
        b \in {Line(<<S("A", t), x, y, z>>) : x \in LocalOps, y \in LocalOps, z \in LocalOps}
              \cup {Skip(Line(<<S("A", t), x, Br, y, z>>), 3, 1) : x \in LocalOps, y \in LocalOps, z \in LocalOps}}
    \cup {Publishing(Plain(Line(<<S("A", t), J(t), Uses>>)), b) :
             b \in {Line(<<Publish("other")>>), Line(<<Publish("threadlocal"), Publish("threadlocal")>>)}}

\* Signal handlers, waits and forks, their calls made by helpers.
Unsafe == Helper("log", Line(<<Just("unsafe")>>))
HandlerUnits ==
    {Unit(Line(<<Install0("handler"), S("A", t), C("log", <<>>), J(t)>>), Both(Unsafe, Helper("handler", b))) :
        b \in {Line(<<W>>), Line(<<C("log", <<>>)>>), Skip(Line(<<Br, Just("unsafe")>>), 1, 1)}}

Awaits == Helper("await", Line(<<Just("wait")>>))
Outer == {Line(<<C("await", <<>>)>>), Back(Line(<<C("await", <<>>), Br>>), 2, 1), Line(<<W>>)}
WaitCalls == {C("await", <<>>), C("outer", <<>>), Just("wait"), W}
WaitUnits ==
    {[Unit(b, Both(Awaits, Helper("outer", o))) EXCEPT !.body["A"] = Line(<<z>>)] :
        b \in {Line(<<S("A", t), x, y>>) : x \in WaitCalls, y \in WaitCalls}
              \cup {Back(Line(<<x, y, Br>>), 3, 2) : x \in WaitCalls, y \in WaitCalls},
        o \in Outer, z \in {C("await", <<>>), W}}

Child == {Line(<<Just("fork")>>), Skip(Line(<<Just("fork"), Br, Just("exec")>>), 2, 1),
          Skip(Line(<<Just("fork"), Br, C("image", <<>>)>>), 2, 1)}
ForkUnits ==
    {Unit(Line(<<x, C("child", <<>>), y>>),
          Both(Helper("child", b), Helper("image", i))) :
        x \in {S("A", t), T("A", t), W}, y \in {Just("reap"), W}, b \in Child,
        i \in {Line(<<Just("exec")>>), Line(<<W>>)}}

\* A helper that starts a thread and throws before it joins it, called from a function that
\* catches the exception and goes on at m.  Neither the block a call returns to nor its landing
\* pad has another way in.
Throws(b, n) == [b EXCEPT !.succ[n] = <<>>]
Catches(b, n, m) ==
    LET last == Len(b.ins)
    IN [ins |-> b.ins \o <<Just("goto"), Just("goto")>>,
        succ |-> [b.succ EXCEPT ![n] = <<last + 1, last + 2>>] \o <<<<n + 1>>, <<m>>>>]
MayThrow == Helper("run", Throws(Skip(Line(<<S("A", t), Br, Just("throw"), J(t)>>), 2, 1), 3))
Guards == Helper("guarded", Catches(Line(<<C("run", <<>>)>>), 1, 2))
ThrowOps == {S("B", t), J(t), W}
ThrowUnits ==
    {Unit(Line(<<C("guarded", <<>>), x, y, z>>), Both(MayThrow, Guards)) :
        x \in ThrowOps, y \in ThrowOps, z \in ThrowOps}
    \cup {Unit(Catches(Line(<<x, C("run", <<>>), y, z>>), 2, m), MayThrow) :
            x \in ThrowOps, y \in ThrowOps, z \in ThrowOps, m \in {3, 4, 5}}

units ==
    [throws |-> ThrowUnits, arguments |-> ArgumentUnits, locals |-> LocalUnits, handlers |-> HandlerUnits,
     waits |-> WaitUnits, forks |-> ForkUnits,
     handed |-> HandedUnits, moved |-> MovedUnits, assigned |-> AssignedUnits,
     nested |-> NestedUnits, turns |-> TurnUnits, looped |-> LoopedUnits, arrays |-> ArrayUnits,
     short |-> ShortUnits, plain |-> PlainUnits, std |-> StdUnits, helpers |-> HelperUnits, recursion |-> Recursion]

MCUnits == UNION {units[f] : f \in Families}
=============================================================================
