------------------------ MODULE SharedObjectBindings ------------------------
(***************************************************************************)
(* shared_object_binding_collector.cpp: the object a thread entry is       *)
(* handed, when the spawns of the unit, or the calls above them, settle it.*)
(*                                                                         *)
(* A function of the unit is straight-line code; an instruction marked     *)
(* `maybe` may be skipped.  The entry of a spawn, and an argument that is  *)
(* a function, is a function or, with par, a parameter of its function.    *)
(***************************************************************************)
EXTENDS MemoryPlaces, UnitIR, TLC

CONSTANT MaxCallerRounds        \* kMaxCallerRounds

----------------------------------------------------------------------------
(***************************************************************************)
(* ObjectIdentity.  A key "arg" or "read" names a parameter of a function, *)
(* or the pointer read off bytes into what it points to, which only the    *)
(* calls above can settle; any other key names an object.                  *)
(***************************************************************************)
Key(kind, name, idx, off, known) ==
    [kind |-> kind, name |-> name, idx |-> idx, off |-> off, known |-> known]

Identity(key, object) == [some |-> TRUE, key |-> key, object |-> object, kept |-> FALSE]
NoIdentity == [Identity(Key("", "", 0, 0, FALSE), NoRoot) EXCEPT !.some = FALSE]

NamedByCallers(key) == key.kind \in {"arg", "read"}

NamedIdentity(root) ==
    Identity(Key(root.sym[1], root.sym[2], root.sym[3],
                 IF root.region.known THEN root.region.off ELSE 0, root.region.known), root)

WritesOutsideLocals(ins) ==
    CASE ins.op \in {"store", "keep", "memset", "memcpy"} -> ins.ptr.how # "path" \/ ins.ptr.kind # "Local"
      [] OTHER -> ins.op # "load"

\* Mutant: the instruction just before is missed.
MayWriteBeforeLast(u, f, n) == \E m \in 1..(n - 2) : WritesOutsideLocals(u.body[f].ins[m])

MayWriteBefore(u, f, n) == \E m \in 1..(n - 1) : WritesOutsideLocals(u.body[f].ins[m])

OffsetAfter(walk, from) == [some |-> walk.known, off |-> from + walk.off]

\* constantOffsetFrom: the offset a path of constant steps leads to.
ConstantOffset(steps, from) == OffsetAfter(WalkTo(steps, 0), from)

\* readIn: what a load of a parameter's memory reads, settled by the callers if they can.
ReadAtOffset(f, arg, place, settleable) ==
    Identity(Key("read", f, arg, IF settleable THEN place.off ELSE 0, settleable), NoRoot)

ReadIn(u, f, n, p) ==
    LET place == ConstantOffset(p.cell, 0)
    IN ReadAtOffset(f, p.arg, place, place.some /\ ~MayWriteBefore(u, f, n))

\* objectIdentityOf: what instruction n of f passes as the pointer p.
ObjectIdentityOf(u, f, n, p) ==
    CASE p.how = "phi" \/ p.name = "none" -> NoIdentity
      [] p.kind = "Argument" /\ (p.how = "path" \/ p.steps # <<>>) ->
            Identity(Key("arg", f, p.arg, WalkTo(p.steps, 0).off, TRUE), NoRoot)
      [] p.how = "path" /\ p.kind = "Global" /\ ShouldTrackSharedGlobal(u, p.name) ->
            NamedIdentity(ResolveTrackedRoot(u, p, 0))
      [] p.how = "path" /\ p.kind = "Local" -> NamedIdentity(ResolveLocalStorageRoot(u, p, 0))
      [] p.how = "loaded" /\ p.kind = "Argument" /\ p.steps = <<>> -> ReadIn(u, f, n, p)
      [] p.how = "loaded" /\ p.kind # "Argument" /\ p.steps = <<>> ->
            NamedIdentity([Root("Global", SlotSymbol(p), 0, StartOfWalk, 0) EXCEPT !.index = NoIndex])
      [] OTHER -> NoIdentity

----------------------------------------------------------------------------
(***************************************************************************)
(* storedBefore: the pointer one store left in a local, off bytes in, for  *)
(* the call at n; the instruction that stored it, or 0.                    *)
(***************************************************************************)
KeptElsewhere(ins, local) ==
    \/ ins.op = "keep" /\ UsesLocal(ins.src, local) /\ ~UsesLocal(ins.ptr, local)
    \/ ins.op = "spawn" /\ (UsesLocal(ins.src, local) \/ UsesLocal(ins.ptr, local))
    \/ ins.op \in {"rmw", "cmpxchg"} /\ UsesLocal(ins.ptr, local)
    \/ ins.op \in {"call", "extern"} /\ \E j \in DOMAIN ins.args : UsesLocal(ins.args[j].ptr, local)

\* The bytes of the local an instruction goes through may hold the cell at off.
Meets(p, size, off) ==
    LET walk == WalkTo(p.steps, 0)
    IN walk.known /\ walk.off >= 0 /\ size # 0 => off \in walk.off..(walk.off + size - 1)

WritesCell(ins, local, off) ==
    /\ ins.op \in {"store", "keep", "memset", "memcpy"} /\ UsesLocal(ins.ptr, local)
    /\ Meets(ins.ptr, ins.size, off)

ReadsItself(body, local) ==
    \E m, k \in DOMAIN body :
        /\ body[m].op = "keep" /\ UsesLocal(body[m].src, local) /\ UsesLocal(body[m].ptr, local)
        /\ body[k].op = "load" /\ UsesLocal(body[k].ptr, local)
        /\ Meets(body[k].ptr, body[k].size, WalkTo(body[m].ptr.steps, 0).off)

StoredBefore(u, f, n, local, off) ==
    LET body == u.body[f].ins
        exact == {m \in 1..(n - 1) : /\ body[m].op = "keep" /\ UsesLocal(body[m].ptr, local)
                                     /\ ConstantOffset(body[m].ptr.steps, 0) = [some |-> TRUE, off |-> off]
                                     /\ ~body[m].maybe}
        last(m) == \A k \in (m + 1)..(n - 1) : ~WritesCell(body[k], local, off)
    IN IF \/ ReadsItself(body, local) \/ ~\E m \in exact : last(m)
          \/ \E m \in DOMAIN body \ {n} : KeptElsewhere(body[m], local)
       THEN 0
       ELSE CHOOSE m \in exact : last(m)

----------------------------------------------------------------------------
(***************************************************************************)
(* What a call passes.  `names` has every object named so far, by key.     *)
(***************************************************************************)
Remember(names, id) ==
    IF id.some /\ id.object.kind # "None" /\ id.key \notin DOMAIN names
    THEN (id.key :> id.object) @@ names ELSE names

IdentityPassedAt(u, site, i) ==
    IF i > Len(site.args) THEN NoIdentity
    ELSE ObjectIdentityOf(u, site.caller, site.node, site.args[i].ptr)

\* What instruction `from` of the caller stored.
StoredAt(u, site, from) ==
    IF from = 0 THEN NoIdentity
    ELSE ObjectIdentityOf(u, site.caller, from, u.body[site.caller].ins[from].src)

StoredOrPassed(u, site, i, stored) ==
    IF stored.some THEN stored ELSE [IdentityPassedAt(u, site, i) EXCEPT !.kept = TRUE]

ReadAtPlace(u, site, key, p, place) ==
    LET nameable == key.known /\ p.how = "path" /\ place.some
    IN IF nameable /\ p.kind = "Argument" /\ ~MayWriteBefore(u, site.caller, site.node)
       THEN Identity(Key("read", site.caller, p.arg, place.off, TRUE), NoRoot)
       ELSE StoredOrPassed(u, site, key.idx,
                StoredAt(u, site, IF nameable /\ p.kind = "Local"
                                  THEN StoredBefore(u, site.caller, site.node, p.name, place.off)
                                  ELSE 0))

\* readAt: the pointer the caller stored, the same read a frame up, or the object passed,
\* kept for lack of proof.
ReadAt(u, site, key) ==
    IF key.idx > Len(site.args) THEN NoIdentity
    ELSE LET p == site.args[key.idx].ptr
         IN ReadAtPlace(u, site, key, p, ConstantOffset(p.steps, key.off))

PassedFor(u, site, key) ==
    IF key.kind = "read" THEN ReadAt(u, site, key) ELSE IdentityPassedAt(u, site, key.idx)

AddCandidate(st, id) ==
    IF ~id.some THEN st
    ELSE [st EXCEPT !.next = @ \cup {id.key}, !.kept = @ \/ id.kept, !.names = Remember(@, id)]

\* callersOf, added to what the round has so far.
AddCallersOf(u, sites, key, st) ==
    FoldInOrder(LAMBDA acc, site : AddCandidate(acc, PassedFor(u, site, key)), st,
                SelectSeq(sites, LAMBDA s : s.callee = key.name))

----------------------------------------------------------------------------
(***************************************************************************)
(* Spawns, in the order of the module.  spawnedObjectAt: one whose object  *)
(* has no identity is left out.                                            *)
(***************************************************************************)
Spawns(u) ==
    LET in(f, ins) ==
            [k \in DOMAIN ins |-> [fn |-> f, node |-> k, entry |-> ins[k].entry,
                                   object |-> ObjectIdentityOf(u, f, k, ins[k].src)]]
    IN FlattenSeq([i \in DOMAIN u.order |->
           SelectSeq(in(u.order[i], u.body[u.order[i]].ins),
                     LAMBDA s : /\ u.body[s.fn].ins[s.node].op = "spawn"
                                /\ s.object.some
                                /\ s.entry.par = 0 => u.params[s.entry.fn] # <<>>)])

NamedByParameter(spawns) == SelectSeq(spawns, LAMBDA s : s.entry.par # 0)
NamedDirectly(spawns) == SelectSeq(spawns, LAMBDA s : s.entry.par = 0)

NothingSettled ==
    [names |-> <<>>, todo |-> <<>>, settled |-> {}, onKept |-> {}, onUnnamed |-> {},
     handingToUnnamed |-> {}, repeating |-> {}, advancing |-> {}]

\* The object of a spawn as a call to the function it is settled in passes it.
ObjectAt(u, site, spawn) ==
    LET key == spawn.object.key
    IN CASE ~NamedByCallers(key) -> spawn.object
         [] NamedByCallers(key) /\ key.name # spawn.fn -> NoIdentity
         [] OTHER -> [PassedFor(u, site, key) EXCEPT !.kept = @ \/ spawn.object.kept]

\* The entry a call hands to a parameter: a function, or a parameter of its own.
EntryAt(site, i) == site.args[i].fn

\* One call to the function a spawn is settled in, `frames` above the spawn's own.
SettleOn(u, st, spawn, site, entry, object) ==
    LET names == Remember(st.names, object)
        call == <<site.caller, site.node, spawn.entry.par>>
        back == site.caller = spawn.fn /\ entry.par = spawn.entry.par
        repeats == back /\ object.key = spawn.object.key /\ object.kept = spawn.object.kept
        above == [spawn EXCEPT !.fn = site.caller, !.entry = entry, !.object = object,
                               !.frames = @ + 1]
    IN CASE entry.par = 0 /\ entry.fn = "none" -> st
         [] ~object.some /\ entry.par = 0 -> [st EXCEPT !.onUnnamed = @ \cup {entry.fn}]
         [] ~object.some /\ entry.par # 0 ->
                [st EXCEPT !.handingToUnnamed = @ \cup {<<site.caller, entry.par>>}]
         [] object.some /\ entry.par # 0 ->
                [st EXCEPT !.names = names,
                           !.repeating = IF repeats THEN @ \cup {call} ELSE @,
                           !.advancing = IF back /\ ~repeats THEN @ \cup {call} ELSE @,
                           !.todo = IF repeats \/ spawn.frames + 1 >= MaxCallerRounds THEN @
                                    ELSE Append(@, above)]
         [] object.some /\ entry.par = 0 /\ entry.fn # "none" ->
                IF u.params[entry.fn] = <<>> THEN [st EXCEPT !.names = names]
                ELSE [st EXCEPT !.names = names, !.settled = @ \cup {<<entry.fn, object.key>>},
                                !.onKept = IF object.kept THEN @ \cup {entry.fn} ELSE @]

SettleAt(u, st, spawn, site) ==
    SettleOn(u, st, spawn, site, EntryAt(site, spawn.entry.par), ObjectAt(u, site, spawn))

RECURSIVE Settle(_, _, _)
Settle(u, sites, st) ==
    IF st.todo = <<>> THEN [st EXCEPT !.repeating = @ \ st.advancing]
    ELSE LET spawn == Last(st.todo)
             into == SelectSeq(sites, LAMBDA s : /\ s.callee = spawn.fn
                                                 /\ spawn.entry.par <= Len(s.args))
         IN Settle(u, sites, FoldInOrder(LAMBDA acc, site : SettleAt(u, acc, spawn, site),
                                         [st EXCEPT !.todo = Front(@)], into))

----------------------------------------------------------------------------
(***************************************************************************)
(* runsOnlyWhereSettled: the address of the entry reaches its direct calls *)
(* and the spawns its calls settle, and nothing else.  A holder is the     *)
(* entry itself, <<entry, 0>>, or the parameter of a helper it is handed.  *)
(***************************************************************************)
Holds(ref, f, holder) ==
    IF holder[2] = 0 THEN ref.par = 0 /\ ref.fn = holder[1]
    ELSE f = holder[1] /\ ref.par = holder[2]

\* The parameters a holder's address is handed on to, calls that only repeat left out.
HandsTo(u, st, holder) ==
    UNION {UNION {{<<u.body[f].ins[n].to, j>> :
                j \in {i \in DOMAIN u.body[f].ins[n].args :
                          /\ u.body[f].ins[n].op \in {"call", "extern"}
                          /\ Holds(u.body[f].ins[n].args[i].fn, f, holder)
                          /\ <<f, n, i>> \notin st.repeating}} :
              n \in DOMAIN u.body[f].ins} : f \in DOMAIN u.body}

SpawnsSettled(u, spawns, holder) ==
    \A f \in DOMAIN u.body : \A n \in DOMAIN u.body[f].ins :
        u.body[f].ins[n].op = "spawn" /\ Holds(u.body[f].ins[n].entry, f, holder)
            => holder[2] # 0 /\ \E i \in DOMAIN spawns : spawns[i].fn = f /\ spawns[i].node = n

RunsOnlyWhereSettled(u, spawns, st, entry) ==
    LET holders[d \in 0..MaxCallerRounds] ==
            IF d = 0 THEN {<<entry, 0>>} ELSE UNION {HandsTo(u, st, h) : h \in holders[d - 1]}
    IN /\ \A d \in 0..MaxCallerRounds : \A h \in holders[d] :
             /\ h[1] \in DOMAIN u.body
             /\ SpawnsSettled(u, spawns, h)
             /\ h \notin st.handingToUnnamed
       /\ \A h \in holders[MaxCallerRounds] : HandsTo(u, st, h) = {}

----------------------------------------------------------------------------
(***************************************************************************)
(* The rounds that take the candidates of an entry up to the calls that    *)
(* name them.                                                              *)
(***************************************************************************)
EndRound(st, open, after) ==
    [after EXCEPT !.candidates = after.next, !.last = st.candidates,
                  !.carriers = @ \cup {k.name : k \in open}, !.moving = open # {}]

CallerRound(u, sites, st) ==
    LET open == {k \in st.candidates : NamedByCallers(k)}
    IN EndRound(st, open, FoldSet(LAMBDA k, acc : AddCallersOf(u, sites, k, acc),
                                  [st EXCEPT !.next = st.candidates \ open], open))

RoundsFrom(u, sites, st) ==
    LET at[r \in 0..MaxCallerRounds] ==
            IF r = 0 THEN st
            ELSE IF at[r - 1].moving THEN CallerRound(u, sites, at[r - 1]) ELSE at[r - 1]
    IN at[MaxCallerRounds]

Binding(object, kept, settled, through) ==
    [object |-> object, kept |-> kept, settled |-> settled, through |-> through,
     runByDirectCalls |-> FALSE]
NoBinding == Binding(NoRoot, FALSE, FALSE, {})

\* The objects the spawns of an entry hand it, the spawns that name it directly first.
ObjectsOf(direct, settled, entry) ==
    LET named == {direct[i].object.key : i \in {j \in DOMAIN direct : direct[j].entry.fn = entry}}
    IN IF named # {} THEN named ELSE {p[2] : p \in {q \in settled : q[1] = entry}}

\* One entry: bound to the one object its candidates come to, if they come to one.
BindToFound(u, spawns, st, entry, settled, found) ==
    LET named == {k \in found.candidates : ~NamedByCallers(k)}
    IN IF \/ settled /\ entry \in st.onUnnamed
          \/ settled /\ ~RunsOnlyWhereSettled(u, spawns, st, entry)
          \/ settled /\ found.candidates # found.last /\ named # found.candidates
          \/ Cardinality(named) # 1
       THEN NoBinding
       ELSE Binding(found.names[CHOOSE k \in named : TRUE], found.kept, settled,
                    IF settled THEN {entry} \cup found.carriers ELSE {})

BindEntry(u, sites, spawns, st, entry) ==
    LET direct == NamedDirectly(spawns)
        settled == \A i \in DOMAIN direct : direct[i].entry.fn # entry
    IN BindToFound(u, spawns, st, entry, settled,
           RoundsFrom(u, sites,
               [candidates |-> ObjectsOf(direct, st.settled, entry), next |-> {}, last |-> {},
                carriers |-> {}, kept |-> settled /\ entry \in st.onKept, moving |-> TRUE,
                names |-> st.names]))

\* SharedObjectBindingCollector::collect: the spawns whose entry is a parameter are settled,
\* then every entry is bound, then those also called directly are marked.
SettleSpawns(u, sites, spawns) ==
    LET open == NamedByParameter(spawns)
    IN Settle(u, sites, [NothingSettled EXCEPT
           !.names = FoldInOrder(LAMBDA acc, s : Remember(acc, s.object), <<>>, spawns),
           !.todo = [i \in DOMAIN open |-> [fn |-> open[i].fn, entry |-> open[i].entry,
                                            object |-> open[i].object, frames |-> 0]]])

BindEntries(u, sites, spawns, st) ==
    LET direct == NamedDirectly(spawns)
    IN [e \in {direct[i].entry.fn : i \in DOMAIN direct} \cup {p[1] : p \in st.settled} |->
           BindEntry(u, sites, spawns, st, e)]

KeepBound(sites, bound) ==
    [e \in {x \in DOMAIN bound : bound[x] # NoBinding} |->
        [bound[e] EXCEPT !.runByDirectCalls = e \in {sites[i].callee : i \in DOMAIN sites}]]

CollectBindings(u, sites, spawns) ==
    KeepBound(sites, BindEntries(u, sites, spawns, SettleSpawns(u, sites, spawns)))

\* sharedObjectNames: the objects of one kind that some thread is handed.
SharedObjectNames(bindings, kind) ==
    {bindings[e].object.sym : e \in {x \in DOMAIN bindings : bindings[x].object.sym[1] = kind}}
=============================================================================
