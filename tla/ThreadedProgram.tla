--------------------------- MODULE ThreadedProgram ---------------------------
(***************************************************************************)
(* Executions of a unit: its threads take their instructions in every      *)
(* interleaving, start and join one another through the handles they hold, *)
(* are interrupted by signals, and fail where the program may fail.        *)
(***************************************************************************)
EXTENDS ThreadLifecycles, ThreadLifetimes

CONSTANTS
    MaxDepth,       \* calls deeper than this are not taken
    MaxThreads,     \* threads started past this are not
    MaxBlocks       \* nor blocks allocated

VARIABLES
    unit,           \* the unit
    threads,        \* the threads of the execution
    held,           \* the storage that holds a thread, with the thread
    memory          \* the blocks allocated and the signal handlers installed

program == <<unit, threads, held, memory>>

(***************************************************************************)
(* Executions.  A thread has its stack, the entry it runs, the thread that *)
(* started it, the frame that did until that returns, the lowest depth its *)
(* starter stood at since (0 once an exception left it behind), and        *)
(* whether a join or a detach was ever made on it.  A frame is named by    *)
(* its thread and its depth.  Its slots are what its variables point to, and signal tells *)
(* the frame of a handler that interrupted the one below.                  *)
(***************************************************************************)
Frame0(f, args) ==
    [fn |-> f, pc |-> 1, args |-> args, values |-> <<>>, results |-> <<>>, slots |-> <<>>,
     signal |-> FALSE]

\* `site` is the creation, and `points` what the thread was handed that it may read.
Thread(f, parent, frame, kind, site, points) ==
    [stack |-> <<Frame0(f, <<>>)>>, entry |-> f, parent |-> parent, frame |-> frame, low |-> frame[2],
     kind |-> kind, resolved |-> FALSE, site |-> site, points |-> points]

Running(t) == threads[t].stack # <<>>
Depth(t) == Len(threads[t].stack)
Top(t) == threads[t].stack[Depth(t)]
BodyOf(t) == unit.body[Top(t).fn]
At(t) == BodyOf(t).ins[Top(t).pc]
FrameOf(t) == <<t, Depth(t)>>

Interrupted(t) == \E i \in DOMAIN threads[t].stack : threads[t].stack[i].signal

\* The storage a place is in a frame.
Storage(t, p) ==
    IF IsParameter(p.base)
    THEN LET argument == Top(t).args[ParameterOf(p.base)]
         IN [argument EXCEPT !.path = argument.path \o p.path]
    ELSE [base |-> p.base, path |-> p.path,
          frame |-> IF IsLocal(unit, p.base) THEN FrameOf(t) ELSE <<0, 0>>]

\* The handle an instruction names; an index the code does not know is one of two.
HandlesAt(t, i) ==
    LET s == Storage(t, At(t).args[i])
    IN {[s EXCEPT !.path = [k \in DOMAIN s.path |-> IF s.path[k] = "*" THEN index ELSE s.path[k]]] :
           index \in {"a", "b"}}

Entry(t) ==
    IF IsParameter(At(t).to) THEN Top(t).args[ParameterOf(At(t).to)].base ELSE At(t).to

Normal(t) == BodyOf(t).succ[Top(t).pc][1]

WithTop(t, frame) == [threads[t] EXCEPT !.stack[Depth(t)] = frame]

Moved(t, n) == WithTop(t, [Top(t) EXCEPT !.pc = n])

Holding(h) == h \in DOMAIN held

Block(k) == [base |-> "heap", path |-> <<>>, frame |-> <<0, k>>]

PointedBy(t, p) == {Top(t).slots[v] : v \in {p} \cap DOMAIN Top(t).slots}

\* What the thread created here may read: pthread_create hands over its argument; a std::thread
\* copies the object, and with it what the object points to.
HandedOver(t) ==
    UNION {IF IsLoaded(a) \/ At(t).flag = "std" THEN PointedBy(t, a.base) ELSE {Storage(t, a)} :
           a \in ArgumentsOf(BodyOf(t), Top(t).pc)}

\* A thread that was started is held by its handle; pthread_create overwrites what is there,
\* and a std::thread is never started into storage that holds one.
Spawn(t) ==
    /\ At(t).op = "spawn" /\ Len(threads) < MaxThreads
    /\ \E h \in HandlesAt(t, 1) :
          /\ At(t).flag = "pthread" \/ ~Holding(h)
          /\ held' = (h :> (Len(threads) + 1)) @@ held
    /\ threads' = Append([threads EXCEPT ![t] = Moved(t, Normal(t))],
                         [Thread(Entry(t), t, FrameOf(t), At(t).flag, Top(t).pc, HandedOver(t)) EXCEPT
                             !.resolved = IsDetachedAtCreation(unit, Top(t).fn, Top(t).pc)])

\* A call out of the unit that may throw goes where it unwinds to; nothing was started or joined.
Throw(t) ==
    /\ IsInvoke(BodyOf(t), Top(t).pc)
    /\ threads' = [threads EXCEPT ![t] = Moved(t, BodyOf(t).succ[Top(t).pc][2])]
    /\ UNCHANGED held

Without0(f, keys) == [k \in DOMAIN f \ keys |-> f[k]]

\* Somebody reads the result of the call the i-th frame stands at: the function, or the caller
\* the function hands it to.
RECURSIVE ResultRead(_, _)
ResultRead(stack, i) ==
    LET b == unit.body[stack[i].fn]
        n == stack[i].pc
        Reads(op) == \E m \in Nodes(b) : b.ins[m].op = op /\ b.ins[m].args = <<ResultOf(n)>>
        here == SuccessTestedBy(b, n) # {} \/ Reads("use")
    IN IF here \/ ~Reads("ret") THEN here ELSE i > 1 => ResultRead(stack, i - 1)

\* The join waits for the thread.  One whose result is read may fail instead, with the thread
\* still running; where nobody reads the result, the code takes the join to succeed.
Join(t) ==
    /\ At(t).op = "join"
    /\ \E h \in HandlesAt(t, 1) :
          /\ Holding(h)
          /\ LET n == Top(t).pc
                 fails == At(t).flag = "pthread" /\ ResultRead(threads[t].stack, Depth(t))
                 Done(ok) ==
                    [threads EXCEPT ![t] = WithTop(t, [Top(t) EXCEPT !.pc = Normal(t),
                                               !.results = (n :> ok) @@ Top(t).results]),
                                    ![held[h]].resolved = TRUE]
             IN \/ ~Running(held[h]) /\ threads' = Done(TRUE) /\ held' = Without0(held, {h})
                \/ fails /\ threads' = Done(FALSE) /\ UNCHANGED held

Detach(t) ==
    /\ At(t).op = "detach"
    /\ \E h \in HandlesAt(t, 1) :
          /\ Holding(h)
          /\ held' = Without0(held, {h})
          /\ threads' = [threads EXCEPT ![t] = Moved(t, Normal(t)), ![held[h]].resolved = TRUE]

\* Moving into storage that holds a thread ends the program.
Move(t) ==
    /\ At(t).op = "move"
    /\ \E to \in HandlesAt(t, 1), from \in HandlesAt(t, 2) :
          /\ ~Holding(to)
          /\ held' = IF Holding(from) THEN (to :> held[from]) @@ Without0(held, {from}) ELSE held
          /\ threads' = [threads EXCEPT ![t] = Moved(t, Normal(t))]

Call(t) ==
    /\ At(t).op = "call" /\ Depth(t) < MaxDepth
    /\ LET args == [i \in DOMAIN At(t).args |-> Storage(t, At(t).args[i])]
       IN threads' = [threads EXCEPT ![t].stack = Append(@, Frame0(At(t).to, args))]
    /\ UNCHANGED held

(***************************************************************************)
(* Leaving frames.  A std::jthread going out of scope is joined; a         *)
(* std::thread that still holds a thread ends the program; a pthread_t is  *)
(* just lost.                                                              *)
(***************************************************************************)
Dying(t, d) == {h \in DOMAIN held : h.frame[1] = t /\ h.frame[2] > d}

\* The thread leaves every frame above its d-th, by returning or by an exception, and goes on
\* with `stack`.
LeaveAbove(t, d, stack, thrown) ==
    /\ \A h \in Dying(t, d) : /\ threads[held[h]].kind = "jthread" => ~Running(held[h])
                              /\ threads[held[h]].kind # "std"
    /\ LET Parted(s) == [s EXCEPT !.frame = IF s.frame[2] > d THEN <<0, 0>> ELSE s.frame,
                                  !.low = IF s.low <= d THEN s.low ELSE IF thrown THEN 0 ELSE d]
       IN threads' = [s \in DOMAIN threads |->
              IF s = t THEN [threads[t] EXCEPT !.stack = stack]
              ELSE IF threads[s].parent = t THEN Parted(threads[s]) ELSE threads[s]]
    /\ held' = Without0(held, Dying(t, d))

Return(t) ==
    /\ At(t).op = "ret" /\ ~Top(t).signal
    /\ LET result == IF At(t).args = <<>> THEN TRUE ELSE Top(t).results[At(t).args[1].path[1]]
           caller == threads[t].stack[Depth(t) - 1]
           below == Front(threads[t].stack)
           back == [caller EXCEPT !.pc = unit.body[caller.fn].succ[caller.pc][1],
                                  !.results = (caller.pc :> result) @@ caller.results]
       IN LeaveAbove(t, Depth(t) - 1,
                     IF below = <<>> THEN <<>> ELSE [below EXCEPT ![Len(below)] = back], FALSE)

\* The frames below the top that stand at a call with an unwind destination.
Catching(t) ==
    {i \in 1..(Depth(t) - 1) : LET frame == threads[t].stack[i]
                              IN IsInvoke(unit.body[frame.fn], frame.pc)}

\* An exception leaves the frames up to the innermost that catches it, with the threads they
\* started still running; one that nobody catches ends the program.
Unwound(t) ==
    /\ At(t).op = "throw" /\ Catching(t) # {}
    /\ LET d == Max(Catching(t))
           frame == threads[t].stack[d]
       IN LeaveAbove(t, d, [SubSeq(threads[t].stack, 1, d) EXCEPT
                               ![d].pc = unit.body[frame.fn].succ[frame.pc][2]], TRUE)

\* A branch on a result goes where the result says; one on a value where the value was set to
\* lead; any other either way.
Arms(t) ==
    LET i == At(t)
        v == i.to
    IN IF i.flag = "result" THEN {IF Top(t).results[i.args[1].path[1]] THEN 1 ELSE 2}
       ELSE IF i.flag = "value" /\ v \in DOMAIN Top(t).values THEN {Top(t).values[v]}
       ELSE {1, 2}

\* A value not set before is whatever it is found to be, from then on.
Branch(t) ==
    /\ At(t).op = "br"
    /\ \E arm \in Arms(t) :
          threads' = [threads EXCEPT ![t] = WithTop(t, [Top(t) EXCEPT
              !.pc = BodyOf(t).succ[Top(t).pc][arm],
              !.values = IF At(t).flag = "value" THEN (At(t).to :> arm) @@ Top(t).values
                         ELSE Top(t).values])]
    /\ UNCHANGED held

Set(t) ==
    /\ At(t).op = "set"
    /\ \E arm \in {1, 2} :
          threads' = [threads EXCEPT ![t] = WithTop(t, [Top(t) EXCEPT
              !.pc = Normal(t), !.values = (At(t).to :> arm) @@ Top(t).values])]
    /\ UNCHANGED held

Other(t) ==
    /\ At(t).op \in {"read", "write", "use", "setdetach", "deref", "free", "publish", "through",
                     "wait", "fork", "reap", "unsafe", "goto"}
    /\ threads' = [threads EXCEPT ![t] = Moved(t, Normal(t))]
    /\ UNCHANGED held

\* A variable is pointed to a fresh block, or an object to a local.
Point(t, v, target) ==
    threads' = [threads EXCEPT ![t] = WithTop(t, [Top(t) EXCEPT
        !.pc = Normal(t), !.slots = (v :> target) @@ Top(t).slots])]

Allocate(t) ==
    /\ At(t).op = "assign" /\ memory.blocks < MaxBlocks
    /\ Point(t, At(t).to, Block(memory.blocks + 1))
    /\ memory' = [memory EXCEPT !.blocks = @ + 1]
    /\ UNCHANGED held

Store(t) ==
    /\ At(t).op = "store"
    /\ Point(t, At(t).args[1].base, Storage(t, At(t).args[2]))
    /\ UNCHANGED <<held, memory>>

Install(t) ==
    /\ At(t).op = "install"
    /\ threads' = [threads EXCEPT ![t] = Moved(t, Normal(t))]
    /\ memory' = [memory EXCEPT !.handlers = @ \cup {At(t).to}]
    /\ UNCHANGED held

\* A handler runs wherever the thread stands, and then the thread goes on from there.
Signal(t) ==
    /\ Depth(t) < MaxDepth
    /\ ~Interrupted(t)
    /\ \E f \in memory.handlers :
          threads' = [threads EXCEPT ![t].stack = Append(@, [Frame0(f, <<>>) EXCEPT !.signal = TRUE])]
    /\ UNCHANGED <<held, memory>>

Resume(t) ==
    /\ At(t).op = "ret" /\ Top(t).signal
    /\ threads' = [threads EXCEPT ![t].stack = Front(@)]
    /\ UNCHANGED <<held, memory>>

\* The program is replaced: nothing of it runs on.
Exec(t) ==
    /\ At(t).op = "exec"
    /\ threads' = [s \in DOMAIN threads |-> [threads[s] EXCEPT !.stack = <<>>]]
    /\ held' = <<>>
    /\ UNCHANGED memory

Run(t) ==
    /\ Running(t)
    /\ \/ /\ \/ Spawn(t) \/ Throw(t) \/ Join(t) \/ Detach(t) \/ Move(t)
             \/ Call(t) \/ Return(t) \/ Unwound(t) \/ Branch(t) \/ Set(t) \/ Other(t)
          /\ UNCHANGED memory
       \/ Allocate(t) \/ Store(t) \/ Install(t) \/ Signal(t) \/ Resume(t) \/ Exec(t)

Started ==
    /\ threads = <<Thread("main", 0, <<0, 0>>, "main", 0, {})>>
    /\ held = <<>>
    /\ memory = [blocks |-> 0, handlers |-> {}]

=============================================================================
