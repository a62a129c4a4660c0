------------------------------ MODULE IRCache ------------------------------
(***************************************************************************)
(* The cache of compiled bitcode (src/internal/ir_cache.cpp) and the loop  *)
(* of main.cpp that looks a unit up in it, compiles it on a miss and       *)
(* stores the result, for one compile command and several runs of the      *)
(* program over one cache directory.                                       *)
(*                                                                         *)
(* An entry is three files, .bc, .deps and .stamp, each written to a       *)
(* sibling of a fixed name and renamed.  A file's contents are the SET of  *)
(* values written into it: {} is a file that is empty or cut off, {x}      *)
(* holds x intact, and {x, y} is one value overwritten in part by another. *)
(* A write goes to the file that was opened, under whatever name it has by *)
(* then.                                                                   *)
(*                                                                         *)
(* Inputs are edited, removed and put back at any time.  The history       *)
(* variables record what the properties must know of the past.             *)
(***************************************************************************)
EXTENDS Naturals, Sequences, InOrder

CONSTANTS
  Runs,          \* runs of the program
  Texts,         \* what the source and the header may hold: sequences of lines
  Includers,     \* the source texts that include the header
  Gone,          \* an input that does not exist
  Absent,        \* a cache file that does not exist
  MaxStarts,     \* bound: starts of the program
  MaxMishaps     \* bound: edits, crashes, lost flushes and starts beside another run

Input == {"source", "header"}
CacheFile == {"bc", "deps", "stamp"}

\* What the compiler opens for these inputs, in order, and what it makes of them.
Prerequisites(in) == IF in.source \in Includers THEN <<"source", "header">> ELSE <<"source">>
Bitcode(in) == LET deps == Prerequisites(in) IN [f \in {deps[i] : i \in DOMAIN deps} |-> in[f]]

Readable(deps, in) == \A i \in DOMAIN deps : in[deps[i]] # Gone
Compiles(in) == Readable(Prerequisites(in), in)

\* The texts of the dependencies, and their digest: one after the other into one hash.
TextsOf(deps, in) == [i \in DOMAIN deps |-> in[deps[i]]]
Joined(texts) == FoldInOrder(LAMBDA bytes, text : bytes \o text, <<>>, texts)

\* Mutant: only the source is hashed.
StampOfSource(deps, in) == Joined([i \in DOMAIN deps \cap {1} |-> in[deps[i]]])

Stamp(deps, in) == Joined(TextsOf(deps, in))

\* What the three files of an entry may hold: bitcode, a dependency list, a digest.
Inputs == [Input -> Texts \cup {Gone}]
Contents == {Bitcode(in) : in \in {in \in Inputs : Compiles(in)}}
DepLists == {<<"source">>, <<"source", "header">>}
TextLists == UNION {[1..n -> Texts] : n \in 0..2}
Digests == {Joined(texts) : texts \in TextLists}

ASSUME TextsAssumption == Gone \notin Texts /\ Includers \subseteq Texts
ASSUME BoundsAssumption == MaxStarts \in Nat /\ MaxMishaps \in Nat
ASSUME AbsentAssumption ==
  /\ Absent \notin DepLists
  /\ \A held \in SUBSET Contents : held # Absent
  /\ \A held \in SUBSET DepLists : held # Absent
  /\ \A held \in SUBSET Digests : held # Absent

VARIABLES
  inputs,     \* the source and the header now
  path,       \* the entry's files
  tmp,        \* their temporary siblings
  depfile,    \* the fragment the compiler writes for -MD, one name per command
  run,        \* where each run of the program is
  past,       \* history: what the inputs were before they were last edited
  calm,       \* history: the runs since whose start nothing was edited
  disturbed,  \* history: an input was edited while a run was compiling or storing
  torn,       \* history: the bitcode was replaced and the stamp has not been since
  lost,       \* history: the files that were renamed after an unnoticed failure to write
  raced,      \* history: two runs were under way at once
  starts, mishaps

disk == <<path, tmp, depfile>>
history == <<past, calm, disturbed, torn, lost, raced>>
bounds == <<starts, mishaps>>
vars == <<inputs, disk, run, history, bounds>>

Idle == [pc |-> "idle", file |-> "bc", fd |-> "closed", deps |-> <<>>, stamp |-> {},
         bitcode |-> Absent, stored |-> FALSE, unit |-> {}, via |-> "none"]

Init ==
  /\ inputs \in [Input -> Texts]
  /\ path = [f \in CacheFile |-> Absent] /\ tmp = [f \in CacheFile |-> Absent]
  /\ depfile = Absent
  /\ run = [r \in Runs |-> Idle]
  /\ past = {} /\ calm = {} /\ lost = {}
  /\ disturbed = FALSE /\ torn = FALSE /\ raced = FALSE
  /\ starts = 0 /\ mishaps = 0

At(r, pc) == run[r].pc = pc
OnlyRun == UNCHANGED <<inputs, disk, history, bounds>>

Mishap == mishaps < MaxMishaps /\ mishaps' = mishaps + 1

Start(r) ==
  /\ At(r, "idle") /\ starts < MaxStarts
  /\ starts' = starts + 1
  /\ run' = [run EXCEPT ![r].pc = "deps"]
  /\ calm' = calm \cup {r}
  /\ \/ (\A q \in Runs : At(q, "idle")) /\ UNCHANGED <<raced, mishaps>>
     \/ (\E q \in Runs : ~At(q, "idle")) /\ raced' = TRUE /\ Mishap
  /\ UNCHANGED <<inputs, disk, past, disturbed, torn, lost>>

(***************************************************************************)
(* lookupPath, and the probe of what it found                              *)
(***************************************************************************)
\* The lists that a file may be read as.
Lists(bytes) == IF bytes = {} THEN {<<>>} ELSE bytes

ReadDeps(r) ==
  /\ At(r, "deps")
  /\ IF path["deps"] = Absent THEN run' = [run EXCEPT ![r].pc = "compile"]
     ELSE \E deps \in Lists(path["deps"]) :
            run' = [run EXCEPT ![r].pc = "stamp", ![r].deps = deps]
  /\ OnlyRun

ReadStamp(r) ==
  /\ At(r, "stamp")
  /\ IF path["stamp"] = Absent THEN run' = [run EXCEPT ![r].pc = "compile"]
     ELSE run' = [run EXCEPT ![r].pc = "hash", ![r].stamp = path["stamp"]]
  /\ OnlyRun

\* Mutant: an entry that is there is taken for good.
HashInputsUncompared(r) ==
  /\ At(r, "hash")
  /\ run' = [run EXCEPT ![r].pc = IF Readable(run[r].deps, inputs) /\ path["bc"] # Absent
                                  THEN "probe" ELSE "compile"]
  /\ OnlyRun

HashInputs(r) ==
  /\ At(r, "hash")
  /\ IF /\ Readable(run[r].deps, inputs)
        /\ run[r].stamp = {Stamp(run[r].deps, inputs)}
        /\ path["bc"] # Absent
     THEN run' = [run EXCEPT ![r].pc = "probe"]
     ELSE run' = [run EXCEPT ![r].pc = "compile"]
  /\ OnlyRun

\* Whether bytes parse as a module: intact bitcode does, an empty file does not, and a
\* mixture may or may not.
Parses(bytes) ==
  {b \in BOOLEAN : /\ bytes = {} => ~b
                   /\ (\E x \in bytes : bytes = {x}) => b}

Probe(r) ==
  /\ At(r, "probe")
  /\ \E readable \in Parses(path["bc"]) :
       run' = [run EXCEPT ![r].pc = IF readable THEN "reuse" ELSE "compile"]
  /\ OnlyRun

\* via tells whether the entry's stamp was older than its bitcode when it was taken.
Reuse(r) ==
  /\ At(r, "reuse")
  /\ run' = [run EXCEPT ![r].pc = "done", ![r].unit = path["bc"],
                        ![r].via = IF torn THEN "torn" ELSE "reused"]
  /\ OnlyRun

\* The compiler opens every prerequisite, and writes their names to the depfile.
Compile(r) ==
  /\ At(r, "compile")
  /\ IF Compiles(inputs)
     THEN /\ depfile' = Prerequisites(inputs)
          /\ run' = [run EXCEPT ![r].pc = "fragment", ![r].bitcode = Bitcode(inputs)]
     ELSE /\ run' = [run EXCEPT ![r].pc = "done", ![r].via = "failed"]
          /\ UNCHANGED depfile
  /\ UNCHANGED <<inputs, path, tmp, history, bounds>>

(***************************************************************************)
(* store                                                                   *)
(***************************************************************************)
\* The stamp is taken from the dependencies as they are now, after the compilation.
Fragment(r) ==
  /\ At(r, "fragment")
  /\ IF depfile # Absent /\ Readable(depfile, inputs)
     THEN run' = [run EXCEPT ![r].pc = "open", ![r].file = "bc", ![r].deps = depfile,
                             ![r].stamp = {Stamp(depfile, inputs)}]
     ELSE run' = [run EXCEPT ![r].pc = "discard"]
  /\ OnlyRun

\* What a run writes into the file it is at.
Value(now) ==
  CASE now.file = "bc"    -> {now.bitcode}
    [] now.file = "deps"  -> {now.deps}
    [] now.file = "stamp" -> now.stamp

\* Opening truncates whatever has the temporary name, another run's file included.
Open(r) ==
  /\ At(r, "open")
  /\ tmp' = [tmp EXCEPT ![run[r].file] = {}]
  /\ run' = [run EXCEPT ![r].pc = "write", ![r].fd = "tmp"]
  /\ UNCHANGED <<inputs, path, depfile, history, bounds>>

\* A file that already holds something keeps its end when the new value is the shorter.
Overwritten(bytes, value) == {value, bytes \cup value}

\* What the file that a run has open holds, and what it holds after the stream is done.
Held(now) == CASE now.fd = "tmp"  -> tmp[now.file]
               [] now.fd = "path" -> path[now.file]
               [] OTHER           -> {}
Put(now, bytes) ==
  /\ tmp' = IF now.fd = "tmp" THEN [tmp EXCEPT ![now.file] = bytes] ELSE tmp
  /\ path' = IF now.fd = "path" THEN [path EXCEPT ![now.file] = bytes] ELSE path

Write(r) ==
  /\ At(r, "write")
  /\ \E bytes \in Overwritten(Held(run[r]), Value(run[r])) : Put(run[r], bytes)
  /\ run' = [run EXCEPT ![r].pc = "rename", ![r].fd = "closed"]
  /\ UNCHANGED <<inputs, depfile, history, bounds>>

\* What is left of a value that was not written to its end: nothing to be read, the first
\* line of a list, or a mixture with what was there.
CutOff(now) ==
  {Held(now)} \cup IF Held(now) # {}        THEN {Held(now) \cup Value(now)}
                 ELSE IF now.file = "deps" THEN {{<<"source">>}} ELSE {}

\* The contents fit the stream's buffer, so that only its destructor writes them out, and
\* nothing asks it whether that worked.
WriteIsLost(r) ==
  /\ At(r, "write")
  /\ Mishap
  /\ \E bytes \in CutOff(run[r]) : Put(run[r], bytes)
  /\ lost' = lost \cup {run[r].file}
  /\ run' = [run EXCEPT ![r].pc = "rename", ![r].fd = "closed"]
  /\ UNCHANGED <<inputs, depfile, past, calm, disturbed, torn, raced, starts>>

\* Mutant: the stream that failed stays open.
WriteFailsOpen(r) ==
  /\ run[r].pc \in {"open", "write"}
  /\ run' = [run EXCEPT ![r].pc = "discard"]
  /\ OnlyRun

\* The stream cannot be opened or written: the entry is given up where it stands.  A part that
\* was written is left in the temporary, where only a run that races can rename it, and leaves
\* there what WriteIsLost does.
WriteFails(r) ==
  /\ run[r].pc \in {"open", "write"}
  /\ run' = [run EXCEPT ![r].pc = "discard", ![r].fd = "closed"]
  /\ OnlyRun

\* What happens to the files other runs hold open when those names change.
Moved(q, file, onTmp, onPath) ==
  IF run[q].file # file THEN run[q].fd
  ELSE CASE run[q].fd = "tmp"  -> onTmp
         [] run[q].fd = "path" -> onPath
         [] OTHER              -> run[q].fd

\* Mutant: the entry is left without its stamp.
AfterNoStamp(now) ==
  CASE now.file = "bc"   -> [now EXCEPT !.pc = "open", !.file = "deps"]
    [] now.file = "deps" -> [now EXCEPT !.pc = "discard", !.stored = TRUE]

\* The file after this one, or store's return.
After(now) ==
  CASE now.file = "bc"    -> [now EXCEPT !.pc = "open", !.file = "deps"]
    [] now.file = "deps"  -> [now EXCEPT !.pc = "open", !.file = "stamp"]
    [] now.file = "stamp" -> [now EXCEPT !.pc = "discard", !.stored = TRUE]

Rename(r) ==
  LET file == run[r].file IN
  /\ At(r, "rename") /\ tmp[file] # Absent
  /\ path' = [path EXCEPT ![file] = tmp[file]]
  /\ tmp' = [tmp EXCEPT ![file] = Absent]
  /\ run' = [q \in Runs |->
               IF q = r THEN After(run[r])
               ELSE [run[q] EXCEPT !.fd = Moved(q, file, "path", "unlinked")]]
  /\ torn' = CASE file = "bc" -> TRUE [] file = "deps" -> torn [] file = "stamp" -> FALSE
  /\ UNCHANGED <<inputs, depfile, past, calm, disturbed, lost, raced, bounds>>

\* Another run has taken the temporary away, or the system refuses.
RenameFails(r) ==
  /\ At(r, "rename")
  /\ run' = [run EXCEPT ![r].pc = "unlink"]
  /\ OnlyRun

\* The temporary is removed by name, whoever made it since.
Unlink(r) ==
  LET file == run[r].file IN
  /\ At(r, "unlink")
  /\ tmp' = [tmp EXCEPT ![file] = Absent]
  /\ run' = [q \in Runs |->
               IF q = r THEN [run[r] EXCEPT !.pc = "discard"]
               ELSE [run[q] EXCEPT !.fd = Moved(q, file, "unlinked", "path")]]
  /\ UNCHANGED <<inputs, path, depfile, history, bounds>>

RemoveDepfile(r) ==
  /\ At(r, "discard")
  /\ depfile' = Absent
  /\ run' = [run EXCEPT ![r].pc = "add"]
  /\ UNCHANGED <<inputs, path, tmp, history, bounds>>

\* A stored unit is read back from its entry, the others stay in memory.
Add(r) ==
  /\ At(r, "add")
  /\ IF run[r].stored
     THEN run' = [run EXCEPT ![r].pc = "done", ![r].unit = path["bc"], ![r].via = "stored"]
     ELSE run' = [run EXCEPT ![r].pc = "done", ![r].unit = {run[r].bitcode}, ![r].via = "memory"]
  /\ OnlyRun

(***************************************************************************)
(* The world around the runs                                               *)
(***************************************************************************)
Exit(r) ==
  /\ At(r, "done")
  /\ run' = [run EXCEPT ![r] = Idle]
  /\ calm' = calm \ {r}
  /\ UNCHANGED <<inputs, disk, past, disturbed, torn, lost, raced, bounds>>

Crash(r) ==
  /\ ~At(r, "idle") /\ Mishap
  /\ run' = [run EXCEPT ![r] = Idle]
  /\ calm' = calm \ {r}
  /\ UNCHANGED <<inputs, disk, past, disturbed, torn, lost, raced, starts>>

\* From the start of the compilation to the end of the store and the reading back.
Working == {"compile", "fragment", "open", "write", "rename", "unlink", "discard", "add"}

Edit(f, text) ==
  /\ text # inputs[f] /\ Mishap
  /\ inputs' = [inputs EXCEPT ![f] = text]
  /\ past' = past \cup {inputs}
  /\ calm' = {}
  /\ disturbed' = (disturbed \/ \E r \in Runs : run[r].pc \in Working)
  /\ UNCHANGED <<disk, run, torn, lost, raced, starts>>

Step(r) ==
  \/ ReadDeps(r) \/ ReadStamp(r) \/ HashInputs(r) \/ Probe(r) \/ Reuse(r)
  \/ Compile(r) \/ Fragment(r) \/ Open(r)
  \/ Write(r) \/ WriteIsLost(r) \/ WriteFails(r)
  \/ Rename(r) \/ RenameFails(r) \/ Unlink(r) \/ RemoveDepfile(r) \/ Add(r) \/ Exit(r)

Next ==
  \/ \E r \in Runs : Start(r) \/ Step(r) \/ Crash(r)
  \/ \E f \in Input, text \in Texts \cup {Gone} : Edit(f, text)

Spec == Init /\ [][Next]_vars

(***************************************************************************)
(* Properties                                                              *)
(***************************************************************************)
\* The bitcode file only ever receives bitcode, a stream is open only inside
\* writeFileAtomically, and one open under the temporary name keeps that name in being.
TypeOK ==
  /\ inputs \in Inputs
  /\ path["bc"] \in (SUBSET Contents) \cup {Absent}
  /\ tmp["bc"] \in (SUBSET Contents) \cup {Absent}
  /\ depfile \in DepLists \cup {Absent}
  /\ \A r \in Runs : /\ run[r].file \in CacheFile
                     /\ run[r].fd \in {"closed", "tmp", "path", "unlinked"}
                     /\ run[r].fd # "closed" => run[r].pc = "write"
                     /\ run[r].fd = "tmp" => tmp[run[r].file] # Absent

\* lookupPath accepts the entry, over a list that its file may be read as.
Accepts(deps) ==
  /\ path["bc"] # Absent /\ path["deps"] # Absent
  /\ deps \in Lists(path["deps"]) /\ Readable(deps, inputs)
  /\ path["stamp"] = {Stamp(deps, inputs)}

\* Bitcode made of other texts than those listed, which run together into the same bytes.
RunsTogether(bitcode, deps) ==
  \E in \in Inputs : /\ Compiles(in) /\ bitcode = Bitcode(in)
                     /\ TextsOf(Prerequisites(in), in) # TextsOf(deps, inputs)
                     /\ Joined(TextsOf(Prerequisites(in), in)) = Joined(TextsOf(deps, inputs))

\* The inputs look to the hash as they did before some edit.
LookPast(deps) ==
  \E in \in past : Compiles(in) /\ Stamp(Prerequisites(in), in) = Stamp(deps, inputs)

\* A file of the entry is intact: lookupPath never meets one that is empty or mixed.
\* This is what writeFileAtomically says of itself.
NeverHalfWritten == \A f \in CacheFile : path[f] # Absent => \E x \in path[f] : path[f] = {x}

\* "any of them changing is a miss" (ir_cache.hpp:17), without the exceptions that
\* EntryIsFresh makes.
AnyChangeIsAMiss ==
  \A deps \in DepLists \cup {<<>>} : Accepts(deps) => path["bc"] \subseteq {Bitcode(inputs)}

\* "a cache that cannot be written is a slow run, not a wrong one" (ir_cache.hpp:35), for
\* runs that no other raced and that nothing was edited during.
SlowNotWrong ==
  ~raced => \A r \in calm : At(r, "done") =>
    run[r].via = "failed" \/ run[r].unit = {Bitcode(inputs)}

\* "any of them changing is a miss" (ir_cache.hpp:17): an entry that lookupPath accepts
\* holds what the compiler would make of the inputs as they are.  Two things besides make
\* it accept one: the listed texts run together into the bytes that the compiled ones did,
\* or a store was cut short between the bitcode and the stamp and the inputs were put back
\* to look as before.  Runs that raced and flushes that were lost may leave the bitcode
\* unreadable, which the probe of analyzeProject finds out, but never stale.  Nothing is
\* said once an input was edited while a run was compiling or storing: the stamp is taken
\* after the compilation.
EntryIsFresh ==
  \A deps \in DepLists \cup {<<>>} : Accepts(deps) =>
    /\ disturbed \/ \A b \in path["bc"] : \/ b = Bitcode(inputs) \/ RunsTogether(b, deps)
                                          \/ torn /\ LookPast(deps)
    /\ raced \/ "bc" \in lost \/ path["bc"] # {}

\* "returns where the bitcode is once the entry is complete" (ir_cache.hpp:34): when no
\* other run raced and no input was edited meanwhile, each file whose flush was not lost
\* holds what this run stored, and with none lost the next run finds the entry.
StoredIsComplete ==
  ~raced /\ ~disturbed =>
    \A r \in Runs : At(r, "add") /\ run[r].stored =>
      /\ "bc" \in lost \/ path["bc"] = {Bitcode(inputs)}
      /\ "deps" \in lost \/ path["deps"] = {Prerequisites(inputs)}
      /\ lost = {} => Accepts(Prerequisites(inputs))

\* "a cache that cannot be written is a slow run, not a wrong one" (ir_cache.hpp:35): the
\* unit that analyzeProject hands to the analysis is the bitcode of the inputs, whatever
\* was given up or crashed before, when nothing was edited since the run began.  A reused
\* one may be of inputs that look the same, as for EntryIsFresh.  After a race or a lost
\* flush of the bitcode it may be one that cannot be read.
CacheOnlySlows ==
  \A r \in Runs : At(r, "done") =>
    /\ disturbed \/ r \notin calm \/
         \A b \in run[r].unit :
           \/ b = Bitcode(inputs)
           \/ run[r].via \in {"reused", "torn"} /\ RunsTogether(b, run[r].deps)
           \/ run[r].via = "torn" /\ LookPast(run[r].deps)
    /\ raced \/ "bc" \in lost \/ run[r].via = "failed" \/ run[r].unit # {}
=============================================================================
