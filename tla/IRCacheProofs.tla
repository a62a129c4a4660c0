--------------------------- MODULE IRCacheProofs ---------------------------
(***************************************************************************)
(* The cache for any number of runs, any texts and any number of edits,    *)
(* starts and crashes.                                                     *)
(***************************************************************************)
EXTENDS IRCache, TLAPS

\* What each file of an entry may hold.
Holds(file) == CASE file = "bc"    -> Contents
                 [] file = "deps"  -> DepLists
                 [] file = "stamp" -> Digests

FilesOK(files) == /\ files = [f \in CacheFile |-> files[f]]
                  /\ \A f \in CacheFile : files[f] # Absent => files[f] \subseteq Holds(f)

RunRecord ==
  [pc : {"idle", "deps", "stamp", "hash", "probe", "reuse", "compile", "fragment", "open",
         "write", "rename", "unlink", "discard", "add", "done"},
   file : CacheFile, fd : {"closed", "tmp", "path", "unlinked"},
   deps : DepLists \cup {<<>>}, stamp : SUBSET Digests, bitcode : Contents \cup {Absent},
   stored : BOOLEAN, unit : SUBSET Contents, via : {"none", "reused", "torn", "failed", "stored", "memory"}]

\* Where a run has a compiled module in hand, and where it is writing its entry.
Compiled == {"fragment", "open", "write", "rename", "unlink", "discard", "add"}
Storing == {"open", "write", "rename", "unlink"}

\* What a run's record says of the files and of the run itself.
RunOK(now) ==
  /\ now.fd # "closed" <=> now.pc = "write"
  /\ now.fd = "tmp" => tmp[now.file] # Absent
  /\ now.fd = "path" => path[now.file] # Absent
  /\ now.pc \in Compiled => now.bitcode \in Contents
  /\ now.pc \in Storing => now.deps \in DepLists
  /\ now.pc = "idle" => now = Idle
  /\ now.stored => now.pc \in {"discard", "add", "done"}
  /\ now.file # "bc" \/ now.stored \/ now.pc \in {"probe", "reuse"} => path["bc"] # Absent

\* The types, and what a step needs to keep them.
TypeInv ==
  /\ inputs \in Inputs
  /\ FilesOK(path) /\ FilesOK(tmp)
  /\ depfile \in DepLists \cup {Absent}
  /\ run \in [Runs -> RunRecord]
  /\ \A r \in Runs : RunOK(run[r])

\* The two lists, position by position.
LEMMA ListFacts ==
  /\ DOMAIN <<"source">> = 1..1 /\ DOMAIN <<"source", "header">> = 1..2
  /\ {<<"source">>[i] : i \in 1..1} = {"source"}
  /\ {<<"source", "header">>[i] : i \in 1..2} = Input
<1>1. \A i \in 1..2 : i = 1 \/ i = 2
  OBVIOUS
<1>2. {<<"source", "header">>[i] : i \in 1..2} = Input
  BY <1>1 DEF Input
<1>3. QED
  BY <1>2

\* Prerequisites is one of the two lists; bitcode and digests of readable inputs are well typed.
LEMMA MadeFacts ==
  ASSUME NEW in \in Inputs
  PROVE  /\ Prerequisites(in) \in DepLists
         /\ Compiles(in) => Bitcode(in) \in Contents
         /\ \A deps \in DepLists \cup {<<>>} :
              Readable(deps, in) => TextsOf(deps, in) \in TextLists /\ Stamp(deps, in) \in Digests
<1>1. Prerequisites(in) \in DepLists
  BY Zenon DEF Prerequisites, DepLists
<1>2. Compiles(in) => Bitcode(in) \in Contents
  BY Zenon DEF Contents
<1>3. ASSUME NEW deps \in DepLists \cup {<<>>}, Readable(deps, in)
      PROVE  TextsOf(deps, in) \in TextLists /\ Stamp(deps, in) \in Digests
  <2>1. PICK n \in 0..2 : DOMAIN deps = 1..n /\ \A i \in 1..n : deps[i] \in Input
    <3>1. CASE deps = <<>>
      BY <3>1
    <3>2. CASE deps = <<"source">>
      BY <3>2, ListFacts DEF Input
    <3>3. CASE deps = <<"source", "header">>
      <4>1. \A i \in 1..2 : i = 1 \/ i = 2
        OBVIOUS
      <4>2. QED
        BY <3>3, <4>1, ListFacts DEF Input
    <3>4. QED
      BY <3>1, <3>2, <3>3, Zenon DEF DepLists
  <2>2. TextsOf(deps, in) \in [1..n -> Texts]
    BY <1>3, <2>1, Zenon DEF Readable, Inputs, TextsOf
  <2>3. QED
    BY <2>1, <2>2, Zenon DEF TextLists, Stamp, Digests
<1>4. QED
  BY <1>1, <1>2, <1>3, Zenon

\* A step that only moves one run keeps the types when the run's new record is well typed.
LEMMA TypeOfRun ==
  ASSUME TypeInv, NEW r \in Runs, NEW now \in RunRecord, RunOK(now),
         run' = [run EXCEPT ![r] = now],
         UNCHANGED <<inputs, path, tmp>>, depfile' \in DepLists \cup {Absent}
  PROVE  TypeInv'
<1>1. run' \in [Runs -> RunRecord] /\ \A q \in Runs : run'[q] = IF q = r THEN now ELSE run[q]
  BY Zenon DEF TypeInv
<1>2. \A q \in Runs : RunOK(run[q])'
  BY <1>1, Zenon DEF TypeInv, RunOK
<1>3. FilesOK(path)' /\ FilesOK(tmp)'
  BY Zenon DEF TypeInv, FilesOK
<1>4. QED
  BY <1>1, <1>2, <1>3, Zenon DEF TypeInv

\* The fields of a run's record, and a step that leaves the run with a well-typed one.
Fields == {"pc", "file", "fd", "deps", "stamp", "bitcode", "stored", "unit", "via"}
MovedTyped(r) == \E now \in RunRecord : RunOK(now) /\ run' = [run EXCEPT ![r] = now]

\* What a run may take into its record is well typed.
Values ==
  /\ path["bc"] # Absent => path["bc"] \in SUBSET Contents
  /\ path["deps"] # Absent => path["deps"] \in SUBSET DepLists
  /\ path["stamp"] # Absent => path["stamp"] \in SUBSET Digests
  /\ depfile \in DepLists \cup {Absent}
  /\ Compiles(inputs) => Bitcode(inputs) \in Contents
  /\ \A deps \in DepLists : Readable(deps, inputs) => Stamp(deps, inputs) \in Digests

\* The files of the entry and the inputs give a run only well-typed values.
LEMMA ValuesTyped ==
  ASSUME TypeInv
  PROVE  Values
<1>1. /\ path["bc"] # Absent => path["bc"] \in SUBSET Contents
      /\ path["deps"] # Absent => path["deps"] \in SUBSET DepLists
      /\ path["stamp"] # Absent => path["stamp"] \in SUBSET Digests
  BY Zenon DEF TypeInv, FilesOK, Holds, CacheFile
<1>2. inputs \in Inputs /\ depfile \in DepLists \cup {Absent}
  BY Zenon DEF TypeInv
<1>3. QED
  BY <1>1, <1>2, MadeFacts, Zenon DEF Values

\* The steps that begin a run and read what the entry recorded.
LEMMA ReadsTyped ==
  ASSUME TypeInv, NEW r \in Runs,
         Start(r) \/ ReadDeps(r) \/ ReadStamp(r)
  PROVE  MovedTyped(r)
<1> DEFINE old == run[r]
<1>0. /\ old \in RunRecord /\ RunOK(old)
  BY Zenon DEF TypeInv
<1>d. DOMAIN old = Fields
  BY <1>0, Zenon DEF RunRecord, Fields
<1>t. Values
  BY ValuesTyped, Zenon
<1>m. ASSUME NEW now \in RunRecord, RunOK(now), run' = [run EXCEPT ![r] = now]
      PROVE  MovedTyped(r)
  BY <1>m, Zenon DEF MovedTyped
<1>1. CASE Start(r)
  <2> DEFINE now == [old EXCEPT !.pc = "deps"]
  <2>1. run' = [run EXCEPT ![r] = now] /\ old.pc = "idle"
    BY <1>1, Zenon DEF Start, At
  <2>2. now \in RunRecord
    BY <1>0, Zenon DEF RunRecord
  <2>3. /\ now.pc = "deps" /\ now.file = old.file /\ now.fd = old.fd
       /\ now.deps = old.deps /\ now.stamp = old.stamp /\ now.bitcode = old.bitcode
       /\ now.stored = old.stored /\ now.unit = old.unit /\ now.via = old.via
    BY <1>d
  <2> HIDE DEF now
  <2>4. RunOK(now)
    BY <1>0, <2>1, <2>3, Zenon DEF RunOK, Compiled, Storing
  <2>5. QED
    BY <1>m, <2>1, <2>2, <2>4, Zenon
<1>2. CASE ReadDeps(r)
  <2>1. CASE path["deps"] = Absent
    <3> DEFINE now == [old EXCEPT !.pc = "compile"]
    <3>1. run' = [run EXCEPT ![r] = now] /\ old.pc = "deps"
      BY <1>2, <2>1, Zenon DEF ReadDeps, At
    <3>2. now \in RunRecord
      BY <1>0, Zenon DEF RunRecord
    <3>3. /\ now.pc = "compile" /\ now.file = old.file /\ now.fd = old.fd
         /\ now.deps = old.deps /\ now.stamp = old.stamp /\ now.bitcode = old.bitcode
         /\ now.stored = old.stored /\ now.unit = old.unit /\ now.via = old.via
      BY <1>d
    <3> HIDE DEF now
    <3>4. RunOK(now)
      BY <1>0, <2>1, <3>1, <3>3, Zenon DEF RunOK, Compiled, Storing
    <3>5. QED
      BY <1>m, <3>1, <3>2, <3>4, Zenon
  <2>2. CASE path["deps"] # Absent
    <3>1. PICK deps \in Lists(path["deps"]) :
            run' = [run EXCEPT ![r].pc = "stamp", ![r].deps = deps]
      BY <1>2, <2>2, Zenon DEF ReadDeps
    <3> DEFINE now == [old EXCEPT !.pc = "stamp", !.deps = deps]
    <3>2. run' = [run EXCEPT ![r] = now] /\ old.pc = "deps"
      BY <1>2, <2>2, <3>1, Zenon DEF ReadDeps, At
    <3>3. deps \in DepLists \cup {<<>>}
      BY <1>0, <1>t, <2>2, <3>1, <3>2, Zenon DEF RunOK, Compiled, Values, Lists
    <3>4. now \in RunRecord
      BY <1>0, <3>3, Zenon DEF RunRecord
    <3>5. /\ now.pc = "stamp" /\ now.file = old.file /\ now.fd = old.fd /\ now.deps = deps
         /\ now.stamp = old.stamp /\ now.bitcode = old.bitcode /\ now.stored = old.stored
         /\ now.unit = old.unit /\ now.via = old.via
      BY <1>d
    <3> HIDE DEF now
    <3>6. RunOK(now)
      BY <1>0, <2>2, <3>3, <3>2, <3>5, Zenon DEF RunOK, Compiled, Storing
    <3>7. QED
      BY <1>m, <3>2, <3>4, <3>6, Zenon
  <2>3. QED
    BY <2>1, <2>2, Zenon
<1>3. CASE ReadStamp(r)
  <2>1. CASE path["stamp"] = Absent
    <3> DEFINE now == [old EXCEPT !.pc = "compile"]
    <3>1. run' = [run EXCEPT ![r] = now] /\ old.pc = "stamp"
      BY <1>3, <2>1, Zenon DEF ReadStamp, At
    <3>2. now \in RunRecord
      BY <1>0, Zenon DEF RunRecord
    <3>3. /\ now.pc = "compile" /\ now.file = old.file /\ now.fd = old.fd
         /\ now.deps = old.deps /\ now.stamp = old.stamp /\ now.bitcode = old.bitcode
         /\ now.stored = old.stored /\ now.unit = old.unit /\ now.via = old.via
      BY <1>d
    <3> HIDE DEF now
    <3>4. RunOK(now)
      BY <1>0, <2>1, <3>1, <3>3, Zenon DEF RunOK, Compiled, Storing
    <3>5. QED
      BY <1>m, <3>1, <3>2, <3>4, Zenon
  <2>2. CASE path["stamp"] # Absent
    <3> DEFINE now == [old EXCEPT !.pc = "hash", !.stamp = path["stamp"]]
    <3>1. run' = [run EXCEPT ![r] = now] /\ old.pc = "stamp"
      BY <1>3, <2>2, Zenon DEF ReadStamp, At
    <3>2. path["stamp"] \in SUBSET Digests
      BY <1>0, <1>t, <2>2, <3>1, Zenon DEF RunOK, Compiled, Values
    <3>3. now \in RunRecord
      BY <1>0, <3>2, Zenon DEF RunRecord
    <3>4. /\ now.pc = "hash" /\ now.file = old.file /\ now.fd = old.fd
         /\ now.deps = old.deps /\ now.stamp = path["stamp"] /\ now.bitcode = old.bitcode
         /\ now.stored = old.stored /\ now.unit = old.unit /\ now.via = old.via
      BY <1>d
    <3> HIDE DEF now
    <3>5. RunOK(now)
      BY <1>0, <2>2, <3>2, <3>1, <3>4, Zenon DEF RunOK, Compiled, Storing
    <3>6. QED
      BY <1>m, <3>1, <3>3, <3>5, Zenon
  <2>3. QED
    BY <2>1, <2>2, Zenon
<1>4. QED
  BY <1>1, <1>2, <1>3, Zenon

\* The steps that judge the entry and take it.
LEMMA LookupTyped ==
  ASSUME TypeInv, NEW r \in Runs,
         HashInputs(r) \/ Probe(r) \/ Reuse(r)
  PROVE  MovedTyped(r)
<1> DEFINE old == run[r]
<1>0. /\ old \in RunRecord /\ RunOK(old)
  BY Zenon DEF TypeInv
<1>d. DOMAIN old = Fields
  BY <1>0, Zenon DEF RunRecord, Fields
<1>t. Values
  BY ValuesTyped, Zenon
<1>m. ASSUME NEW now \in RunRecord, RunOK(now), run' = [run EXCEPT ![r] = now]
      PROVE  MovedTyped(r)
  BY <1>m, Zenon DEF MovedTyped
<1>1. CASE HashInputs(r)
  <2>1. CASE Readable(old.deps, inputs) /\ old.stamp = {Stamp(old.deps, inputs)} /\ path["bc"] # Absent
    <3> DEFINE now == [old EXCEPT !.pc = "probe"]
    <3>1. run' = [run EXCEPT ![r] = now] /\ old.pc = "hash"
      BY <1>1, <2>1, Zenon DEF HashInputs, At
    <3>2. now \in RunRecord
      BY <1>0, Zenon DEF RunRecord
    <3>3. /\ now.pc = "probe" /\ now.file = old.file /\ now.fd = old.fd
         /\ now.deps = old.deps /\ now.stamp = old.stamp /\ now.bitcode = old.bitcode
         /\ now.stored = old.stored /\ now.unit = old.unit /\ now.via = old.via
      BY <1>d
    <3> HIDE DEF now
    <3>4. RunOK(now)
      BY <1>0, <2>1, <3>1, <3>3, Zenon DEF RunOK, Compiled, Storing
    <3>5. QED
      BY <1>m, <3>1, <3>2, <3>4, Zenon
  <2>2. CASE ~(Readable(old.deps, inputs) /\ old.stamp = {Stamp(old.deps, inputs)} /\ path["bc"] # Absent)
    <3> DEFINE now == [old EXCEPT !.pc = "compile"]
    <3>1. run' = [run EXCEPT ![r] = now] /\ old.pc = "hash"
      BY <1>1, <2>2, Zenon DEF HashInputs, At
    <3>2. now \in RunRecord
      BY <1>0, Zenon DEF RunRecord
    <3>3. /\ now.pc = "compile" /\ now.file = old.file /\ now.fd = old.fd
         /\ now.deps = old.deps /\ now.stamp = old.stamp /\ now.bitcode = old.bitcode
         /\ now.stored = old.stored /\ now.unit = old.unit /\ now.via = old.via
      BY <1>d
    <3> HIDE DEF now
    <3>4. RunOK(now)
      BY <1>0, <2>2, <3>1, <3>3, Zenon DEF RunOK, Compiled, Storing
    <3>5. QED
      BY <1>m, <3>1, <3>2, <3>4, Zenon
  <2>3. QED
    BY <2>1, <2>2, Zenon
<1>2. CASE Probe(r)
  <2>1. PICK pc \in {"reuse", "compile"} :
          run' = [run EXCEPT ![r].pc = pc]
    BY <1>2, Zenon DEF Probe
  <2> DEFINE now == [old EXCEPT !.pc = pc]
  <2>2. run' = [run EXCEPT ![r] = now] /\ old.pc = "probe"
    BY <1>2, <2>1, Zenon DEF Probe, At
  <2>3. now \in RunRecord
    BY <1>0, Zenon DEF RunRecord
  <2>4. /\ now.pc = pc /\ now.file = old.file /\ now.fd = old.fd /\ now.deps = old.deps
       /\ now.stamp = old.stamp /\ now.bitcode = old.bitcode /\ now.stored = old.stored
       /\ now.unit = old.unit /\ now.via = old.via
    BY <1>d
  <2> HIDE DEF now
  <2>5. RunOK(now)
    BY <1>0, <2>2, <2>4, Zenon DEF RunOK, Compiled, Storing
  <2>6. QED
    BY <1>m, <2>2, <2>3, <2>5, Zenon
<1>3. CASE Reuse(r)
  <2> DEFINE via == IF torn THEN "torn" ELSE "reused"
             now == [old EXCEPT !.pc = "done", !.unit = path["bc"], !.via = via]
  <2>1. run' = [run EXCEPT ![r] = now] /\ old.pc = "reuse"
    BY <1>3, Zenon DEF Reuse, At
  <2>2. path["bc"] \in SUBSET Contents
    BY <1>0, <1>t, <2>1, Zenon DEF RunOK, Compiled, Values
  <2>3. now \in RunRecord
    BY <1>0, <2>2, Zenon DEF RunRecord
  <2>4. /\ now.pc = "done" /\ now.file = old.file /\ now.fd = old.fd
       /\ now.deps = old.deps /\ now.stamp = old.stamp /\ now.bitcode = old.bitcode
       /\ now.stored = old.stored /\ now.unit = path["bc"] /\ now.via = via
    BY <1>d
  <2> HIDE DEF now
  <2>5. RunOK(now)
    BY <1>0, <2>2, <2>1, <2>4, Zenon DEF RunOK, Compiled, Storing
  <2>6. QED
    BY <1>m, <2>1, <2>3, <2>5, Zenon
<1>4. QED
  BY <1>1, <1>2, <1>3, Zenon

\* The steps that compile, and read the dependency list the compiler left.
LEMMA CompileTyped ==
  ASSUME TypeInv, NEW r \in Runs,
         Compile(r) \/ Fragment(r)
  PROVE  MovedTyped(r)
<1> DEFINE old == run[r]
<1>0. /\ old \in RunRecord /\ RunOK(old)
  BY Zenon DEF TypeInv
<1>d. DOMAIN old = Fields
  BY <1>0, Zenon DEF RunRecord, Fields
<1>t. Values
  BY ValuesTyped, Zenon
<1>m. ASSUME NEW now \in RunRecord, RunOK(now), run' = [run EXCEPT ![r] = now]
      PROVE  MovedTyped(r)
  BY <1>m, Zenon DEF MovedTyped
<1>1. CASE Compile(r)
  <2>1. CASE Compiles(inputs)
    <3> DEFINE now == [old EXCEPT !.pc = "fragment", !.bitcode = Bitcode(inputs)]
    <3>1. run' = [run EXCEPT ![r] = now] /\ old.pc = "compile"
      BY <1>1, <2>1, Zenon DEF Compile, At
    <3>2. Bitcode(inputs) \in Contents
      BY <1>0, <1>t, <2>1, <3>1, Zenon DEF RunOK, Compiled, Values
    <3>3. now \in RunRecord
      BY <1>0, <3>2, Zenon DEF RunRecord
    <3>4. /\ now.pc = "fragment" /\ now.file = old.file /\ now.fd = old.fd
         /\ now.deps = old.deps /\ now.stamp = old.stamp /\ now.bitcode = Bitcode(inputs)
         /\ now.stored = old.stored /\ now.unit = old.unit /\ now.via = old.via
      BY <1>d
    <3> HIDE DEF now
    <3>5. RunOK(now)
      BY <1>0, <2>1, <3>2, <3>1, <3>4, Zenon DEF RunOK, Compiled, Storing
    <3>6. QED
      BY <1>m, <3>1, <3>3, <3>5, Zenon
  <2>2. CASE ~Compiles(inputs)
    <3> DEFINE now == [old EXCEPT !.pc = "done", !.via = "failed"]
    <3>1. run' = [run EXCEPT ![r] = now] /\ old.pc = "compile"
      BY <1>1, <2>2, Zenon DEF Compile, At
    <3>2. now \in RunRecord
      BY <1>0, ZenonT(40) DEF RunRecord
    <3>3. /\ now.pc = "done" /\ now.file = old.file /\ now.fd = old.fd
         /\ now.deps = old.deps /\ now.stamp = old.stamp /\ now.bitcode = old.bitcode
         /\ now.stored = old.stored /\ now.unit = old.unit /\ now.via = "failed"
      BY <1>d
    <3> HIDE DEF now
    <3>4. RunOK(now)
      BY <1>0, <2>2, <3>1, <3>3, Zenon DEF RunOK, Compiled, Storing
    <3>5. QED
      BY <1>m, <3>1, <3>2, <3>4, Zenon
  <2>3. QED
    BY <2>1, <2>2, Zenon
<1>2. CASE Fragment(r)
  <2>1. CASE depfile # Absent /\ Readable(depfile, inputs)
    <3> DEFINE now == [old EXCEPT !.pc = "open", !.file = "bc", !.deps = depfile, !.stamp = {Stamp(depfile, inputs)}]
    <3>1. run' = [run EXCEPT ![r] = now] /\ old.pc = "fragment"
      BY <1>2, <2>1, Zenon DEF Fragment, At
    <3>2. depfile \in DepLists /\ {Stamp(depfile, inputs)} \in SUBSET Digests
      BY <1>0, <1>t, <2>1, <3>1, Zenon DEF RunOK, Compiled, Values
    <3>3. now \in RunRecord
      BY <1>0, <3>2, Zenon DEF RunRecord, CacheFile
    <3>4. /\ now.pc = "open" /\ now.file = "bc" /\ now.fd = old.fd /\ now.deps = depfile
         /\ now.stamp = {Stamp(depfile, inputs)} /\ now.bitcode = old.bitcode
         /\ now.stored = old.stored /\ now.unit = old.unit /\ now.via = old.via
      BY <1>d
    <3> HIDE DEF now
    <3>5. RunOK(now)
      BY <1>0, <2>1, <3>2, <3>1, <3>4, Zenon DEF RunOK, Compiled, Storing
    <3>6. QED
      BY <1>m, <3>1, <3>3, <3>5, Zenon
  <2>2. CASE ~(depfile # Absent /\ Readable(depfile, inputs))
    <3> DEFINE now == [old EXCEPT !.pc = "discard"]
    <3>1. run' = [run EXCEPT ![r] = now] /\ old.pc = "fragment"
      BY <1>2, <2>2, Zenon DEF Fragment, At
    <3>2. now \in RunRecord
      BY <1>0, Zenon DEF RunRecord
    <3>3. /\ now.pc = "discard" /\ now.file = old.file /\ now.fd = old.fd
         /\ now.deps = old.deps /\ now.stamp = old.stamp /\ now.bitcode = old.bitcode
         /\ now.stored = old.stored /\ now.unit = old.unit /\ now.via = old.via
      BY <1>d
    <3> HIDE DEF now
    <3>4. RunOK(now)
      BY <1>0, <2>2, <3>1, <3>3, Zenon DEF RunOK, Compiled, Storing
    <3>5. QED
      BY <1>m, <3>1, <3>2, <3>4, Zenon
  <2>3. QED
    BY <2>1, <2>2, Zenon
<1>3. QED
  BY <1>1, <1>2, Zenon

\* The steps that give up storing, and the last ones of a run.
LEMMA EndsTyped ==
  ASSUME TypeInv, NEW r \in Runs,
         WriteFails(r) \/ RenameFails(r) \/ RemoveDepfile(r) \/ Add(r) \/ Exit(r) \/ Crash(r)
  PROVE  MovedTyped(r)
<1> DEFINE old == run[r]
<1>0. /\ old \in RunRecord /\ RunOK(old)
  BY Zenon DEF TypeInv
<1>d. DOMAIN old = Fields
  BY <1>0, Zenon DEF RunRecord, Fields
<1>t. Values
  BY ValuesTyped, Zenon
<1>m. ASSUME NEW now \in RunRecord, RunOK(now), run' = [run EXCEPT ![r] = now]
      PROVE  MovedTyped(r)
  BY <1>m, Zenon DEF MovedTyped
<1>1. CASE WriteFails(r)
  <2> DEFINE now == [old EXCEPT !.pc = "discard", !.fd = "closed"]
  <2>1. run' = [run EXCEPT ![r] = now] /\ old.pc \in {"open", "write"}
    BY <1>1, Zenon DEF WriteFails, At
  <2>2. now \in RunRecord
    BY <1>0, Zenon DEF RunRecord
  <2>3. /\ now.pc = "discard" /\ now.file = old.file /\ now.fd = "closed"
       /\ now.deps = old.deps /\ now.stamp = old.stamp /\ now.bitcode = old.bitcode
       /\ now.stored = old.stored /\ now.unit = old.unit /\ now.via = old.via
    BY <1>d
  <2> HIDE DEF now
  <2>4. RunOK(now)
    BY <1>0, <2>1, <2>3, Zenon DEF RunOK, Compiled, Storing
  <2>5. QED
    BY <1>m, <2>1, <2>2, <2>4, Zenon
<1>2. CASE RenameFails(r)
  <2> DEFINE now == [old EXCEPT !.pc = "unlink"]
  <2>1. run' = [run EXCEPT ![r] = now] /\ old.pc = "rename"
    BY <1>2, Zenon DEF RenameFails, At
  <2>2. now \in RunRecord
    BY <1>0, Zenon DEF RunRecord
  <2>3. /\ now.pc = "unlink" /\ now.file = old.file /\ now.fd = old.fd
       /\ now.deps = old.deps /\ now.stamp = old.stamp /\ now.bitcode = old.bitcode
       /\ now.stored = old.stored /\ now.unit = old.unit /\ now.via = old.via
    BY <1>d
  <2> HIDE DEF now
  <2>4. RunOK(now)
    BY <1>0, <2>1, <2>3, Zenon DEF RunOK, Compiled, Storing
  <2>5. QED
    BY <1>m, <2>1, <2>2, <2>4, Zenon
<1>3. CASE RemoveDepfile(r)
  <2> DEFINE now == [old EXCEPT !.pc = "add"]
  <2>1. run' = [run EXCEPT ![r] = now] /\ old.pc = "discard"
    BY <1>3, Zenon DEF RemoveDepfile, At
  <2>2. now \in RunRecord
    BY <1>0, Zenon DEF RunRecord
  <2>3. /\ now.pc = "add" /\ now.file = old.file /\ now.fd = old.fd /\ now.deps = old.deps
       /\ now.stamp = old.stamp /\ now.bitcode = old.bitcode /\ now.stored = old.stored
       /\ now.unit = old.unit /\ now.via = old.via
    BY <1>d
  <2> HIDE DEF now
  <2>4. RunOK(now)
    BY <1>0, <2>1, <2>3, Zenon DEF RunOK, Compiled, Storing
  <2>5. QED
    BY <1>m, <2>1, <2>2, <2>4, Zenon
<1>4. CASE Add(r)
  <2>1. CASE old.stored
    <3> DEFINE now == [old EXCEPT !.pc = "done", !.unit = path["bc"], !.via = "stored"]
    <3>1. run' = [run EXCEPT ![r] = now] /\ old.pc = "add"
      BY <1>4, <2>1, Zenon DEF Add, At
    <3>2. path["bc"] \in SUBSET Contents
      BY <1>0, <1>t, <2>1, <3>1, Zenon DEF RunOK, Compiled, Values
    <3>3. now \in RunRecord
      BY <1>0, <3>2, ZenonT(40) DEF RunRecord
    <3>4. /\ now.pc = "done" /\ now.file = old.file /\ now.fd = old.fd
         /\ now.deps = old.deps /\ now.stamp = old.stamp /\ now.bitcode = old.bitcode
         /\ now.stored = old.stored /\ now.unit = path["bc"] /\ now.via = "stored"
      BY <1>d
    <3> HIDE DEF now
    <3>5. RunOK(now)
      BY <1>0, <2>1, <3>2, <3>1, <3>4, Zenon DEF RunOK, Compiled, Storing
    <3>6. QED
      BY <1>m, <3>1, <3>3, <3>5, Zenon
  <2>2. CASE ~old.stored
    <3> DEFINE now == [old EXCEPT !.pc = "done", !.unit = {old.bitcode}, !.via = "memory"]
    <3>1. run' = [run EXCEPT ![r] = now] /\ old.pc = "add"
      BY <1>4, <2>2, Zenon DEF Add, At
    <3>2. {old.bitcode} \in SUBSET Contents
      BY <1>0, <1>t, <2>2, <3>1, Zenon DEF RunOK, Compiled, Values
    <3>3. now \in RunRecord
      BY <1>0, <3>2, ZenonT(40) DEF RunRecord
    <3>4. /\ now.pc = "done" /\ now.file = old.file /\ now.fd = old.fd
         /\ now.deps = old.deps /\ now.stamp = old.stamp /\ now.bitcode = old.bitcode
         /\ now.stored = old.stored /\ now.unit = {old.bitcode} /\ now.via = "memory"
      BY <1>d
    <3> HIDE DEF now
    <3>5. RunOK(now)
      BY <1>0, <2>2, <3>2, <3>1, <3>4, Zenon DEF RunOK, Compiled, Storing
    <3>6. QED
      BY <1>m, <3>1, <3>3, <3>5, Zenon
  <2>3. QED
    BY <2>1, <2>2, Zenon
<1>5. CASE Exit(r) \/ Crash(r)
  <2>1. run' = [run EXCEPT ![r] = Idle]
    BY <1>5, Zenon DEF Exit, Crash
  <2>2. Idle \in RunRecord /\ RunOK(Idle)
    BY Zenon DEF Idle, RunRecord, RunOK, CacheFile, Compiled, Storing
  <2>3. QED
    BY <1>m, <2>1, <2>2, Zenon
<1>6. QED
  BY <1>1, <1>2, <1>3, <1>4, <1>5, Zenon

\* What a step that only moves a run leaves alone.
LEMMA MovesLeave ==
  ASSUME NEW r \in Runs,
         \/ ReadDeps(r) \/ ReadStamp(r) \/ HashInputs(r) \/ Probe(r) \/ Reuse(r)
         \/ Compile(r) \/ Fragment(r) \/ WriteFails(r) \/ RenameFails(r) \/ RemoveDepfile(r)
         \/ Add(r) \/ Exit(r) \/ Crash(r) \/ Start(r)
  PROVE  /\ UNCHANGED <<inputs, path, tmp, past, disturbed, torn, lost>>
         /\ depfile' \in {depfile, Absent, Prerequisites(inputs)}
         /\ \A q \in Runs : q \in calm' => q \in calm \/ (q = r /\ Start(r))
         /\ raced => raced'
<1>1. CASE OnlyRun
  BY <1>1, Zenon DEF OnlyRun, disk, history
<1>2. CASE Compile(r)
  BY <1>2, Zenon DEF Compile, history
<1>3. CASE RemoveDepfile(r)
  BY <1>3, Zenon DEF RemoveDepfile, history
<1>4. CASE Crash(r) \/ Exit(r)
  <2>1. /\ UNCHANGED <<inputs, path, tmp, depfile, past, disturbed, torn, lost, raced>>
        /\ calm' = calm \ {r}
    BY <1>4, Zenon DEF Crash, Exit, disk
  <2>2. QED
    BY <2>1
<1>5. CASE Start(r)
  <2>1. /\ UNCHANGED <<inputs, path, tmp, depfile, past, disturbed, torn, lost>>
        /\ calm' = calm \cup {r}
        /\ raced' = TRUE \/ UNCHANGED raced
    BY <1>5, Zenon DEF Start, disk
  <2>2. QED
    BY <1>5, <2>1
<1>6. QED
  BY <1>1, <1>2, <1>3, <1>4, <1>5, Zenon
     DEF ReadDeps, ReadStamp, HashInputs, Probe, Reuse, Fragment, WriteFails, RenameFails, Add

\* The steps that only move the run that takes them.
LEMMA TypeOfMoves ==
  ASSUME TypeInv, NEW r \in Runs,
         \/ ReadDeps(r) \/ ReadStamp(r) \/ HashInputs(r) \/ Probe(r) \/ Reuse(r)
         \/ Compile(r) \/ Fragment(r) \/ WriteFails(r) \/ RenameFails(r) \/ RemoveDepfile(r)
         \/ Add(r) \/ Exit(r) \/ Crash(r) \/ Start(r)
  PROVE  TypeInv'
<1>1. MovedTyped(r)
  BY ReadsTyped, LookupTyped, CompileTyped, EndsTyped, Zenon
<1>2. /\ UNCHANGED <<inputs, path, tmp>>
      /\ depfile' \in {depfile, Absent, Prerequisites(inputs)}
  BY MovesLeave, Zenon
<1>3. depfile' \in DepLists \cup {Absent}
  BY <1>2, MadeFacts, Zenon DEF TypeInv
<1>4. QED
  BY <1>1, <1>2, <1>3, TypeOfRun, Zenon DEF MovedTyped

\* Replacing the contents of one file.
LEMMA FileFacts ==
  ASSUME NEW files, FilesOK(files), NEW f \in CacheFile, NEW held,
         held = Absent \/ held \subseteq Holds(f)
  PROVE  FilesOK([files EXCEPT ![f] = held])
<1> DEFINE now == [files EXCEPT ![f] = held]
<1>1. DOMAIN files = CacheFile
  BY Zenon DEF FilesOK
<1>2. \A g \in CacheFile : now[g] = IF g = f THEN held ELSE files[g]
  BY <1>1, Zenon
<1>3. now = [g \in CacheFile |-> now[g]]
  BY <1>1, Zenon
<1>4. QED
  BY <1>2, <1>3, Zenon DEF FilesOK

\* What a run writes is of the kind its file holds, and a set of any kind is a file.
LEMMA ValueFacts ==
  ASSUME TypeInv, NEW r \in Runs, run[r].pc \in Storing
  PROVE  /\ run[r].file \in CacheFile
         /\ Value(run[r]) \subseteq Holds(run[r].file)
         /\ \A f \in CacheFile : Absent \notin SUBSET Holds(f)
<1>1. run[r] \in RunRecord /\ RunOK(run[r])
  BY Zenon DEF TypeInv
<1>2. run[r].file \in CacheFile
  BY <1>1, Zenon DEF RunRecord
<1>3. run[r].bitcode \in Contents /\ run[r].deps \in DepLists /\ run[r].stamp \subseteq Digests
  BY <1>1, Zenon DEF RunOK, RunRecord, Storing, Compiled
<1>4. QED
  BY <1>2, <1>3, AbsentAssumption, Zenon DEF Value, Holds, CacheFile

\* Opening the temporary file keeps the types.
LEMMA TypeOfOpen ==
  ASSUME TypeInv, NEW r \in Runs, Open(r)
  PROVE  TypeInv'
<1> DEFINE now == [run[r] EXCEPT !.pc = "write", !.fd = "tmp"]
<1>1. run[r] \in RunRecord /\ RunOK(run[r]) /\ run[r].pc = "open" /\ run[r].pc \in Storing
  BY Zenon DEF TypeInv, Open, At, Storing
<1>2. /\ run' = [run EXCEPT ![r] = now]
      /\ UNCHANGED <<inputs, path, depfile>>
  BY Zenon DEF Open
<1>3. /\ FilesOK(tmp)'
      /\ \A g \in CacheFile : tmp'[g] = IF g = run[r].file THEN {} ELSE tmp[g]
  <2>1. /\ FilesOK(tmp) /\ run[r].file \in CacheFile /\ {} \subseteq Holds(run[r].file)
        /\ tmp' = [tmp EXCEPT ![run[r].file] = {}]
    BY <1>1, ValueFacts, Zenon DEF TypeInv, Open
  <2>2. FilesOK(tmp')
    BY <2>1, FileFacts, Zenon
  <2>3. QED
    BY <2>1, <2>2, Zenon DEF FilesOK
<1>4. {} # Absent
  BY AbsentAssumption, Zenon
<1>5. now \in RunRecord
  BY <1>1, Zenon DEF RunRecord
<1>6. run' \in [Runs -> RunRecord] /\ \A q \in Runs : run'[q] = IF q = r THEN now ELSE run[q]
  BY <1>2, <1>5, Zenon DEF TypeInv
<1>7. ASSUME NEW q \in Runs PROVE RunOK(run[q])'
  <2>1. RunOK(run[q]) /\ run[q] \in RunRecord /\ run[q].file \in CacheFile
    BY Zenon DEF TypeInv, RunRecord
  <2>2. CASE q = r
    BY <1>1, <1>2, <1>3, <1>4, <1>6, <2>1, <2>2 DEF RunOK, RunRecord, Compiled, Storing
  <2>3. CASE q # r
    BY <1>2, <1>3, <1>4, <1>6, <2>1, <2>3, Zenon DEF RunOK
  <2>4. QED
    BY <2>2, <2>3, Zenon
<1>8. FilesOK(path)'
  BY <1>2, Zenon DEF TypeInv, FilesOK
<1>9. QED
  BY <1>2, <1>3, <1>6, <1>7, <1>8, Zenon DEF TypeInv

\* What a write or a lost one leaves in the file that the stream has open: something of the
\* file's kind, and in the bitcode and the stamp nothing but what was there or is written.
Written(r, bytes) ==
  /\ Put(run[r], bytes)
  /\ bytes \subseteq Holds(run[r].file)
  /\ run[r].file # "deps" => bytes \subseteq Held(run[r]) \cup Value(run[r])

\* The bytes of a write that works and of one that is lost.
LEMMA WriteFacts ==
  ASSUME TypeInv, NEW r \in Runs, Write(r) \/ WriteIsLost(r)
  PROVE  \E bytes : Written(r, bytes)
<1>1. run[r] \in RunRecord /\ RunOK(run[r]) /\ run[r].pc = "write" /\ run[r].pc \in Storing
  BY Zenon DEF TypeInv, Write, WriteIsLost, At, Storing
<1>2. run[r].file \in CacheFile /\ Value(run[r]) \subseteq Holds(run[r].file)
  BY <1>1, ValueFacts, Zenon
<1>3. Held(run[r]) \subseteq Holds(run[r].file)
  <2>1. FilesOK(path) /\ FilesOK(tmp)
    BY Zenon DEF TypeInv
  <2>2. QED
    BY <1>1, <1>2, <2>1, Zenon DEF Held, FilesOK, RunOK
<1>4. CASE Write(r)
  <2>1. PICK bytes \in Overwritten(Held(run[r]), Value(run[r])) : Put(run[r], bytes)
    BY <1>4, Zenon DEF Write
  <2>2. bytes \subseteq Held(run[r]) \cup Value(run[r])
    BY <2>1, Zenon DEF Overwritten
  <2>3. QED
    BY <1>2, <1>3, <2>1, <2>2, Zenon DEF Written
<1>5. CASE WriteIsLost(r)
  <2>1. PICK bytes \in CutOff(run[r]) : Put(run[r], bytes)
    BY <1>5, Zenon DEF WriteIsLost
  <2>2. \/ bytes \subseteq Held(run[r]) \cup Value(run[r])
        \/ run[r].file = "deps" /\ bytes = {<<"source">>}
    BY <2>1, Zenon DEF CutOff
  <2>3. run[r].file = "deps" => {<<"source">>} \subseteq Holds(run[r].file)
    BY Zenon DEF Holds, DepLists
  <2>4. QED
    BY <1>2, <1>3, <2>1, <2>2, <2>3, Zenon DEF Written
<1>6. QED
  BY <1>4, <1>5, Zenon

\* The files after a write: the one that was open, under the name it has by then.
LEMMA PutFacts ==
  ASSUME TypeInv, NEW r \in Runs, run[r].pc = "write", NEW bytes, Written(r, bytes)
  PROVE  /\ FilesOK(path') /\ FilesOK(tmp')
         /\ \A g \in CacheFile :
              /\ path'[g] = IF run[r].fd = "path" /\ g = run[r].file THEN bytes ELSE path[g]
              /\ tmp'[g] = IF run[r].fd = "tmp" /\ g = run[r].file THEN bytes ELSE tmp[g]
         /\ bytes # Absent
<1> DEFINE file == run[r].file
<1>1. /\ run[r] \in RunRecord /\ run[r].pc \in Storing /\ FilesOK(path) /\ FilesOK(tmp)
      /\ bytes \subseteq Holds(file)
  BY Zenon DEF TypeInv, Storing, Written
<1>2. file \in CacheFile /\ bytes # Absent
  BY <1>1, ValueFacts, Zenon
<1>3. FilesOK([path EXCEPT ![file] = bytes])
  BY <1>1, <1>2, FileFacts, Zenon
<1>4. FilesOK([tmp EXCEPT ![file] = bytes])
  BY <1>1, <1>2, FileFacts, Zenon
<1>5. /\ tmp' = IF run[r].fd = "tmp" THEN [tmp EXCEPT ![file] = bytes] ELSE tmp
      /\ path' = IF run[r].fd = "path" THEN [path EXCEPT ![file] = bytes] ELSE path
  BY Zenon DEF Written, Put
<1>6. FilesOK(path') /\ FilesOK(tmp')
  BY <1>1, <1>3, <1>4, <1>5, Zenon
<1>7. DOMAIN path = CacheFile /\ DOMAIN tmp = CacheFile
  BY <1>1, Zenon DEF FilesOK
<1>8. QED
  BY <1>2, <1>5, <1>6, <1>7, Zenon

\* Writing through the stream changes the file it was opened on, whatever its name is now.
LEMMA TypeOfWrite ==
  ASSUME TypeInv, NEW r \in Runs, Write(r) \/ WriteIsLost(r)
  PROVE  TypeInv'
<1> DEFINE now == [run[r] EXCEPT !.pc = "rename", !.fd = "closed"]
<1>1. run[r] \in RunRecord /\ RunOK(run[r]) /\ run[r].pc = "write" /\ run[r].pc \in Storing
  BY Zenon DEF TypeInv, Write, WriteIsLost, At, Storing
<1>2. run' = [run EXCEPT ![r] = now] /\ UNCHANGED <<inputs, depfile>>
  BY Zenon DEF Write, WriteIsLost
<1>3. PICK bytes : Written(r, bytes)
  BY WriteFacts, Zenon
<1>5. /\ FilesOK(path') /\ FilesOK(tmp')
      /\ \A g \in CacheFile : path[g] # Absent => path'[g] # Absent
      /\ \A g \in CacheFile : tmp[g] # Absent => tmp'[g] # Absent
  BY <1>1, <1>3, PutFacts, Zenon
<1>6. now \in RunRecord
  BY <1>1, Zenon DEF RunRecord
<1>7. run' \in [Runs -> RunRecord] /\ \A q \in Runs : run'[q] = IF q = r THEN now ELSE run[q]
  BY <1>2, <1>6, Zenon DEF TypeInv
<1>8. ASSUME NEW q \in Runs PROVE RunOK(run[q])'
  <2>1. RunOK(run[q]) /\ run[q] \in RunRecord /\ run[q].file \in CacheFile
    BY Zenon DEF TypeInv, RunRecord
  <2>2. CASE q = r
    <3>1. /\ now.pc = "rename" /\ now.fd = "closed" /\ now.file = run[r].file
          /\ now.bitcode = run[r].bitcode /\ now.deps = run[r].deps /\ now.stored = run[r].stored
      BY <1>1, Zenon DEF RunRecord
    <3>2. run'[q] = now
      BY <1>7, <2>2, Zenon
    <3> HIDE DEF now
    <3>3. QED
      BY <1>1, <1>5, <2>1, <2>2, <3>1, <3>2, Zenon DEF RunOK, Compiled, Storing, CacheFile
  <2>3. CASE q # r
    BY <1>5, <1>7, <2>1, <2>3, Zenon DEF RunOK, CacheFile
  <2>4. QED
    BY <2>2, <2>3, Zenon
<1>9. QED
  BY <1>2, <1>5, <1>7, <1>8, Zenon DEF TypeInv

\* What a run holds open never reverts to the temporary name.
LEMMA MovedFacts ==
  ASSUME NEW q \in Runs, run[q] \in RunRecord, NEW file \in CacheFile,
         NEW onTmp \in {"path", "unlinked"}, NEW onPath \in {"path", "unlinked"}
  PROVE  LET moved == Moved(q, file, onTmp, onPath)
         IN /\ moved \in {"closed", "tmp", "path", "unlinked"}
            /\ moved = "closed" <=> run[q].fd = "closed"
            /\ moved = "tmp" <=> run[q].fd = "tmp" /\ run[q].file # file
            /\ moved = "path" => \/ run[q].fd = "path" /\ (run[q].file = file => onPath = "path")
                                 \/ run[q].fd = "tmp" /\ run[q].file = file /\ onTmp = "path"
BY Zenon DEF Moved, RunRecord

\* The record of a run after its rename.
LEMMA AfterFacts ==
  ASSUME NEW now \in RunRecord
  PROVE  /\ After(now) \in RunRecord
         /\ now.file = "bc" => After(now).pc = "open" /\ After(now).file = "deps"
         /\ now.file = "deps" => After(now).pc = "open" /\ After(now).file = "stamp"
         /\ now.file = "stamp" => /\ After(now).pc = "discard" /\ After(now).file = "stamp"
                                  /\ After(now).stored
         /\ now.file # "stamp" => After(now).stored = now.stored
         /\ \A k \in {"fd", "deps", "stamp", "bitcode", "unit", "via"} : After(now)[k] = now[k]
<1>1. now.file \in {"bc", "deps", "stamp"}
  BY Zenon DEF RunRecord, CacheFile
<1>2. CASE now.file = "bc"
  <2>1. After(now) = [now EXCEPT !.pc = "open", !.file = "deps"]
    BY <1>2, Zenon DEF After
  <2>2. QED
    BY <1>2, <2>1, Zenon DEF RunRecord, CacheFile
<1>3. CASE now.file = "deps"
  <2>1. After(now) = [now EXCEPT !.pc = "open", !.file = "stamp"]
    BY <1>3, Zenon DEF After
  <2>2. QED
    BY <1>3, <2>1, ZenonT(40) DEF RunRecord, CacheFile
<1>4. CASE now.file = "stamp"
  <2>1. After(now) = [now EXCEPT !.pc = "discard", !.stored = TRUE]
    BY <1>4, Zenon DEF After
  <2>2. QED
    BY <1>4, <2>1, Zenon DEF RunRecord, CacheFile
<1>5. QED
  BY <1>1, <1>2, <1>3, <1>4, Zenon

\* Renaming moves the contents, and every stream open on them, to the entry's name.
LEMMA TypeOfRename ==
  ASSUME TypeInv, NEW r \in Runs, Rename(r)
  PROVE  TypeInv'
<1> DEFINE file == run[r].file
<1>1. /\ run[r] \in RunRecord /\ RunOK(run[r]) /\ run[r].pc = "rename" /\ run[r].pc \in Storing
      /\ file \in CacheFile /\ tmp[file] # Absent
  BY Zenon DEF TypeInv, Rename, At, Storing, RunRecord
<1>2. UNCHANGED <<inputs, depfile>>
  BY Zenon DEF Rename
<1>3. /\ FilesOK(path') /\ FilesOK(tmp')
      /\ \A g \in CacheFile : path'[g] = IF g = file THEN tmp[file] ELSE path[g]
      /\ \A g \in CacheFile : tmp'[g] = IF g = file THEN Absent ELSE tmp[g]
  <2>1. FilesOK(path) /\ FilesOK(tmp) /\ tmp[file] \subseteq Holds(file)
    BY <1>1, Zenon DEF TypeInv, FilesOK
  <2>2. path' = [path EXCEPT ![file] = tmp[file]] /\ tmp' = [tmp EXCEPT ![file] = Absent]
    BY Zenon DEF Rename
  <2>3. FilesOK(path')
    BY <1>1, <2>1, <2>2, FileFacts, Zenon
  <2>4. FilesOK(tmp')
    BY <1>1, <2>1, <2>2, FileFacts, Zenon
  <2>5. QED
    BY <2>1, <2>2, <2>3, <2>4, Zenon DEF FilesOK
<1>4. ASSUME NEW q \in Runs PROVE run'[q] \in RunRecord /\ RunOK(run[q])'
  <2>1. RunOK(run[q]) /\ run[q] \in RunRecord /\ run[q].file \in CacheFile
    BY Zenon DEF TypeInv, RunRecord
  <2>2. CASE q = r
    <3> DEFINE now == After(run[r])
    <3>1. run'[q] = now
      BY <2>2, Zenon DEF Rename
    <3>2. /\ now \in RunRecord /\ now.pc \in {"open", "discard"} /\ now.fd = run[r].fd
          /\ now.bitcode = run[r].bitcode /\ now.deps = run[r].deps
      BY <1>1, AfterFacts, Zenon DEF CacheFile
    <3>3. now.file # "bc" /\ path'["bc"] # Absent /\ (now.stored => now.pc = "discard")
      BY <1>1, <1>3, AfterFacts, Zenon DEF RunOK, CacheFile
    <3> HIDE DEF now
    <3>4. QED
      BY <1>1, <3>1, <3>2, <3>3, Zenon DEF RunOK, Compiled, Storing
  <2>3. CASE q # r
    <3> DEFINE moved == Moved(q, file, "path", "unlinked")
    <3> DEFINE now == [run[q] EXCEPT !.fd = moved]
    <3>1. run'[q] = now
      BY <2>3, Zenon DEF Rename
    <3>2. /\ now \in RunRecord
          /\ now.fd = "closed" <=> run[q].fd = "closed"
          /\ now.fd = "tmp" <=> run[q].fd = "tmp" /\ run[q].file # file
          /\ now.fd = "path" => \/ run[q].fd = "path"
                                \/ run[q].fd = "tmp" /\ run[q].file = file
          /\ now.pc = run[q].pc /\ now.file = run[q].file /\ now.deps = run[q].deps
          /\ now.bitcode = run[q].bitcode /\ now.stored = run[q].stored
      <4>1. /\ moved \in {"closed", "tmp", "path", "unlinked"}
            /\ moved = "closed" <=> run[q].fd = "closed"
            /\ moved = "tmp" <=> run[q].fd = "tmp" /\ run[q].file # file
            /\ moved = "path" => \/ run[q].fd = "path"
                                 \/ run[q].fd = "tmp" /\ run[q].file = file
        BY <1>1, <2>1, MovedFacts, Zenon
      <4> HIDE DEF moved
      <4>2. QED
        BY <2>1, <4>1 DEF RunRecord
    <3>3. now.pc = "idle" => now = run[q]
      BY <2>1 DEF RunOK, Idle, Moved
    <3> HIDE DEF now
    <3>4. QED
      BY <1>1, <1>3, <2>1, <3>1, <3>2, <3>3 DEF RunOK, CacheFile
  <2>4. QED
    BY <2>2, <2>3, Zenon
<1>5. run' \in [Runs -> RunRecord]
  BY <1>4, Zenon DEF Rename
<1>6. QED
  BY <1>2, <1>3, <1>4, <1>5, Zenon DEF TypeInv

\* Unlinking leaves the streams open on a file that has no name any more.
LEMMA TypeOfUnlink ==
  ASSUME TypeInv, NEW r \in Runs, Unlink(r)
  PROVE  TypeInv'
<1> DEFINE file == run[r].file
<1>1. /\ run[r] \in RunRecord /\ RunOK(run[r]) /\ run[r].pc = "unlink" /\ file \in CacheFile
  BY Zenon DEF TypeInv, Unlink, At, RunRecord
<1>2. UNCHANGED <<inputs, path, depfile>>
  BY Zenon DEF Unlink
<1>3. /\ FilesOK(path') /\ FilesOK(tmp')
      /\ \A g \in CacheFile : tmp'[g] = IF g = file THEN Absent ELSE tmp[g]
  <2>1. FilesOK(path) /\ FilesOK(tmp) /\ path' = path /\ tmp' = [tmp EXCEPT ![file] = Absent]
    BY <1>2, Zenon DEF TypeInv, Unlink
  <2>2. FilesOK(tmp')
    BY <1>1, <2>1, FileFacts, Zenon
  <2>3. QED
    BY <2>1, <2>2, Zenon DEF FilesOK
<1>4. ASSUME NEW q \in Runs PROVE run'[q] \in RunRecord /\ RunOK(run[q])'
  <2>1. RunOK(run[q]) /\ run[q] \in RunRecord /\ run[q].file \in CacheFile
    BY Zenon DEF TypeInv, RunRecord
  <2>2. CASE q = r
    <3> DEFINE now == [run[r] EXCEPT !.pc = "discard"]
    <3>1. run'[q] = now
      BY <2>2, Zenon DEF Unlink
    <3>2. /\ now \in RunRecord /\ now.pc = "discard" /\ now.fd = run[r].fd
          /\ now.file = run[r].file /\ now.bitcode = run[r].bitcode /\ now.stored = run[r].stored
      BY <1>1, Zenon DEF RunRecord
    <3> HIDE DEF now
    <3>3. QED
      BY <1>1, <1>2, <3>1, <3>2, Zenon DEF RunOK, Compiled, Storing
  <2>3. CASE q # r
    <3> DEFINE moved == Moved(q, file, "unlinked", "path")
    <3> DEFINE now == [run[q] EXCEPT !.fd = moved]
    <3>1. run'[q] = now
      BY <2>3, Zenon DEF Unlink
    <3>2. /\ now \in RunRecord
          /\ now.fd = "closed" <=> run[q].fd = "closed"
          /\ now.fd = "tmp" <=> run[q].fd = "tmp" /\ run[q].file # file
          /\ now.fd = "path" => run[q].fd = "path"
          /\ now.pc = run[q].pc /\ now.file = run[q].file /\ now.deps = run[q].deps
          /\ now.bitcode = run[q].bitcode /\ now.stored = run[q].stored
      <4>1. /\ moved \in {"closed", "tmp", "path", "unlinked"}
            /\ moved = "closed" <=> run[q].fd = "closed"
            /\ moved = "tmp" <=> run[q].fd = "tmp" /\ run[q].file # file
            /\ moved = "path" => run[q].fd = "path"
        BY <1>1, <2>1, MovedFacts, Zenon
      <4> HIDE DEF moved
      <4>2. QED
        BY <2>1, <4>1 DEF RunRecord
    <3>3. now.pc = "idle" => now = run[q]
      BY <2>1 DEF RunOK, Idle, Moved
    <3> HIDE DEF now
    <3>4. QED
      BY <1>1, <1>2, <1>3, <2>1, <3>1, <3>2, <3>3 DEF RunOK, CacheFile
  <2>4. QED
    BY <2>2, <2>3, Zenon
<1>5. run' \in [Runs -> RunRecord]
  BY <1>4, Zenon DEF Unlink
<1>6. QED
  BY <1>2, <1>3, <1>4, <1>5, Zenon DEF TypeInv

\* An edit, and a step that changes nothing.
LEMMA TypeOfEdit ==
  ASSUME TypeInv, NEW f \in Input, NEW text \in Texts \cup {Gone}, Edit(f, text)
  PROVE  TypeInv'
<1>1. UNCHANGED <<path, tmp, depfile, run>>
  BY Zenon DEF Edit, disk
<1>2. inputs' \in Inputs
  BY Zenon DEF Edit, TypeInv, Inputs
<1>3. FilesOK(path)' /\ FilesOK(tmp)' /\ \A r \in Runs : RunOK(run[r])'
  BY <1>1, Zenon DEF TypeInv, FilesOK, RunOK
<1>4. QED
  BY <1>1, <1>2, <1>3, Zenon DEF TypeInv

\* Every step of a run, an edit and a crash keep the types of the entry and of the runs.
LEMMA TypeStep ==
  ASSUME TypeInv, [Next]_vars
  PROVE  TypeInv'
<1>1. CASE UNCHANGED vars
  <2>1. UNCHANGED <<inputs, path, tmp, depfile, run>>
    BY <1>1, Zenon DEF vars, disk
  <2>2. QED
    BY <2>1, Zenon DEF TypeInv, FilesOK, RunOK
<1>2. ASSUME NEW r \in Runs, Start(r) \/ Step(r) \/ Crash(r) PROVE TypeInv'
  BY <1>2, TypeOfMoves, TypeOfOpen, TypeOfWrite, TypeOfRename, TypeOfUnlink, Zenon DEF Step
<1>3. ASSUME NEW f \in Input, NEW text \in Texts \cup {Gone}, Edit(f, text) PROVE TypeInv'
  BY <1>3, TypeOfEdit, Zenon
<1>4. QED
  BY <1>1, <1>2, <1>3, Zenon DEF Next

\* An empty cache directory and idle runs are typed.
LEMMA TypeInit == Init => TypeInv
<1> SUFFICES ASSUME Init PROVE TypeInv
  OBVIOUS
<1>1. Idle \in RunRecord /\ RunOK(Idle)
  BY Zenon DEF Idle, RunRecord, RunOK, CacheFile, Compiled, Storing
<1>2. FilesOK(path) /\ FilesOK(tmp)
  BY Zenon DEF Init, FilesOK
<1>3. inputs \in Inputs
  BY Zenon DEF Init, Inputs
<1>4. QED
  BY <1>1, <1>2, <1>3, Zenon DEF Init, TypeInv

\* The bitcode file only ever receives bitcode, and a stream is open only inside
\* writeFileAtomically, whatever the runs do to each other's files and whenever inputs change.
THEOREM CacheTyped == Spec => []TypeOK
<1>1. TypeInv => TypeOK
  <2> SUFFICES ASSUME TypeInv PROVE TypeOK
    OBVIOUS
  <2>1. /\ path["bc"] \in (SUBSET Contents) \cup {Absent}
        /\ tmp["bc"] \in (SUBSET Contents) \cup {Absent}
    BY Zenon DEF TypeInv, FilesOK, Holds, CacheFile
  <2>2. \A r \in Runs : run[r] \in RunRecord /\ RunOK(run[r])
    BY Zenon DEF TypeInv
  <2>3. QED
    BY <2>1, <2>2, Zenon DEF TypeOK, TypeInv, RunOK, RunRecord
<1>2. QED
  BY <1>1, TypeInit, TypeStep, PTL DEF Spec

\* The stamp of inputs over the list the compiler makes of them, and what the bitcode and the
\* stamp of an entry hold that was made of the inputs as they are.
Own(in) == Stamp(Prerequisites(in), in)
Now(file) == CASE file = "bc" -> {Bitcode(inputs)} [] file = "stamp" -> {Own(inputs)}

\* The bitcode file is made of the inputs as they are.
Fresh == path["bc"] # Absent /\ path["bc"] \subseteq Now("bc")

\* Bitcode and a digest that one compilation makes.
MadeWith(b, s) == \E in \in Inputs : Compiles(in) /\ b = Bitcode(in) /\ s = Own(in)

\* The bitcode file is of this digest; the digest is of inputs before an edit; of those or of
\* the inputs as they are.
Coheres(s) == path["bc"] # Absent => \A b \in path["bc"] : MadeWith(b, s)
Old(s) == \E in \in past : Compiles(in) /\ s = Own(in)
Known(s) == Old(s) \/ (Compiles(inputs) /\ s = Own(inputs))

\* What a digest in the stamp file says of the bitcode, and what it says once it was read.
Vouches(s) == Known(s) /\ (Coheres(s) \/ (torn /\ Old(s)))
StampsOK == path["stamp"] # Absent => \A s \in path["stamp"] : Vouches(s)
Trusted(s) == Fresh \/ Coheres(s) \/ (torn /\ Old(s))

\* Where a run is at a file after the bitcode, and where it has stored all three.
Later(now) == now.pc \in Storing /\ now.file # "bc"
Kept(now) == now.stored /\ now.pc \in {"discard", "add"}

\* The stamp file is behind the bitcode, or is not there, or is of the inputs as they are.
StampBehind == torn \/ path["stamp"] = Absent \/ path["stamp"] \subseteq Now("stamp")

\* What stands of a run's record as long as no input is edited while a run works.
StandOK(now) ==
  /\ now.pc \in Compiled => now.bitcode = Bitcode(inputs) /\ Compiles(inputs)
  /\ now.pc = "fragment" => depfile \in {Absent, Prerequisites(inputs)}
  /\ now.pc \in Storing \/ Kept(now) =>
       now.deps = Prerequisites(inputs) /\ now.stamp = Now("stamp")
  /\ now.pc \in {"write", "rename"} /\ now.file # "deps" =>
       tmp[now.file] = Absent \/ tmp[now.file] \subseteq Now(now.file)
  /\ now.fd = "path" /\ now.file # "deps" => path[now.file] \subseteq Now(now.file)
  /\ Later(now) \/ Kept(now) => Fresh
  /\ Later(now) \/ now.fd = "path" => StampBehind
  /\ now.pc # "done" => now.unit = {}

\* Bitcode that CacheOnlySlows allows a run to hand on.
UnitOK(now, b) ==
  \/ b = Bitcode(inputs)
  \/ now.via \in {"reused", "torn"} /\ RunsTogether(b, now.deps)
  \/ now.via = "torn" /\ LookPast(now.deps)

\* What stands of a run since whose start nothing was edited.
QuietOK(now) ==
  /\ now.pc = "hash" => \A s \in now.stamp : Trusted(s)
  /\ now.pc \in {"probe", "reuse"} => Trusted(Stamp(now.deps, inputs))
  /\ now.pc = "done" => \A b \in now.unit : UnitOK(now, b)

StandInv ==
  ~disturbed => /\ StampsOK
                /\ \A r \in Runs : StandOK(run[r]) /\ (r \in calm => QuietOK(run[r]))

\* The file holds what the run wrote, unless the flush was lost.
InPlace(file, held) == file \in lost \/ path[file] = held

\* What stands of a run that no other raced.
AloneOK(now) ==
  /\ now.pc = "write" => now.fd = "tmp" /\ tmp[now.file] = {}
  /\ now.pc = "rename" => now.file \in lost \/ tmp[now.file] = Value(now)
  /\ Later(now) \/ Kept(now) => InPlace("bc", {now.bitcode})
  /\ (now.pc \in Storing /\ now.file = "stamp") \/ Kept(now) => InPlace("deps", {now.deps})
  /\ Kept(now) => InPlace("stamp", now.stamp)
  /\ now.pc = "done" => now.via = "failed" \/ now.unit # {} \/ "bc" \in lost

BitcodeThere == "bc" \in lost \/ path["bc"] # {}

AloneInv ==
  ~raced => /\ \A p, q \in Runs : p # q => run[p].pc = "idle" \/ run[q].pc = "idle"
            /\ BitcodeThere
            /\ \A r \in Runs : AloneOK(run[r])

\* Texts that are listed alike are of the same list and compile to the same bitcode.
LEMMA SameBitcode ==
  ASSUME NEW in \in Inputs, NEW other \in Inputs, NEW deps \in DepLists \cup {<<>>},
         TextsOf(Prerequisites(in), in) = TextsOf(deps, other)
  PROVE  Bitcode(in) = Bitcode(other)
<1> DEFINE own == Prerequisites(in)
<1>1. own \in DepLists
  BY MadeFacts, Zenon
<1>2. DOMAIN own = DOMAIN deps /\ \A i \in DOMAIN own : in[own[i]] = other[deps[i]]
  <2> HIDE DEF own
  <2>1. [i \in DOMAIN own |-> in[own[i]]] = [i \in DOMAIN deps |-> other[deps[i]]]
    BY Zenon DEF TextsOf, own
  <2>2. DOMAIN own = DOMAIN deps
    BY <2>1
  <2>3. QED
    BY <2>1, <2>2
<1>3. 1 \in 1..1 /\ 1 \in 1..2 /\ 2 \in 1..2 /\ 2 \notin 1..1
  OBVIOUS
<1>4. own = deps
  <2> HIDE DEF own
  <2>1. deps # <<>>
    BY <1>1, <1>2, <1>3, ListFacts DEF DepLists
  <2>2. 1..1 # 1..2
    BY <1>3, Zenon
  <2>3. QED
    BY <1>1, <1>2, <2>1, <2>2, ListFacts, Zenon DEF DepLists
<1>5. in.source = other.source
  <2> HIDE DEF own
  <2>1. 1 \in DOMAIN own /\ own[1] = "source"
    BY <1>1, <1>3, ListFacts DEF DepLists
  <2>2. QED
    BY <1>2, <1>4, <2>1
<1>6. Prerequisites(other) = own
  BY <1>5, Zenon DEF Prerequisites
<1> HIDE DEF own
<1>7. [f \in {own[i] : i \in DOMAIN own} |-> in[f]] = [f \in {own[i] : i \in DOMAIN own} |-> other[f]]
  BY <1>2, <1>4
<1>8. QED
  BY <1>6, <1>7 DEF Bitcode, own

\* Bitcode made with the digest of the listed texts is what the inputs make now, or was made
\* of texts that run together into the same bytes.
LEMMA Cohering ==
  ASSUME TypeInv, NEW deps \in DepLists \cup {<<>>}, NEW b, MadeWith(b, Stamp(deps, inputs))
  PROVE  b = Bitcode(inputs) \/ RunsTogether(b, deps)
<1>1. PICK in \in Inputs : Compiles(in) /\ b = Bitcode(in) /\ Stamp(deps, inputs) = Own(in)
  BY Zenon DEF MadeWith
<1>2. Joined(TextsOf(Prerequisites(in), in)) = Joined(TextsOf(deps, inputs))
  BY <1>1, Zenon DEF Own, Stamp
<1>3. CASE TextsOf(Prerequisites(in), in) = TextsOf(deps, inputs)
  <2>1. inputs \in Inputs
    BY Zenon DEF TypeInv
  <2>2. QED
    BY <1>1, <1>3, <2>1, SameBitcode, Zenon
<1>4. CASE TextsOf(Prerequisites(in), in) # TextsOf(deps, inputs)
  BY <1>1, <1>2, <1>4, Zenon DEF RunsTogether
<1>5. QED
  BY <1>3, <1>4, Zenon

\* What a trusted digest of the listed texts says of each bitcode in the file.
LEMMA Trusting ==
  ASSUME TypeInv, path["bc"] # Absent, NEW deps \in DepLists \cup {<<>>},
         Trusted(Stamp(deps, inputs)), NEW b \in path["bc"]
  PROVE  b = Bitcode(inputs) \/ RunsTogether(b, deps) \/ (torn /\ LookPast(deps))
<1>1. CASE Fresh
  BY <1>1, Zenon DEF Fresh, Now
<1>2. CASE Coheres(Stamp(deps, inputs))
  BY <1>2, Cohering, Zenon DEF Coheres
<1>3. CASE torn /\ Old(Stamp(deps, inputs))
  <2>1. LookPast(deps)
    BY <1>3, Zenon DEF Old, Own, LookPast
  <2>2. QED
    BY <1>3, <2>1, Zenon
<1>4. QED
  BY <1>1, <1>2, <1>3, Zenon DEF Trusted

\* What is said of the inputs stays true of them while they are not edited.
SameInputs ==
  /\ Prerequisites(inputs)' = Prerequisites(inputs) /\ Bitcode(inputs)' = Bitcode(inputs)
  /\ Compiles(inputs)' <=> Compiles(inputs)
  /\ \A f : Now(f)' = Now(f)
  /\ \A deps : Stamp(deps, inputs)' = Stamp(deps, inputs)
  /\ \A b, s : MadeWith(b, s)' <=> MadeWith(b, s)
  /\ \A s : (Old(s)' <=> Old(s)) /\ (Known(s)' <=> Known(s))
  /\ \A deps : LookPast(deps)' <=> LookPast(deps)
  /\ \A b, deps : RunsTogether(b, deps)' <=> RunsTogether(b, deps)

\* Nothing is edited: nothing said of the inputs changes.
LEMMA InputsStay ==
  ASSUME UNCHANGED <<inputs, past>>
  PROVE  SameInputs
<1>1. inputs' = inputs /\ past' = past
  OBVIOUS
<1>2. /\ Prerequisites(inputs)' = Prerequisites(inputs) /\ Bitcode(inputs)' = Bitcode(inputs)
      /\ Compiles(inputs)' <=> Compiles(inputs)
      /\ \A deps : Stamp(deps, inputs)' = Stamp(deps, inputs)
  BY <1>1, Zenon
<1>3. \A f : Now(f)' = Now(f)
  BY <1>1, Zenon DEF Now
<1>4. \A b, s : MadeWith(b, s)' <=> MadeWith(b, s)
  BY Zenon DEF MadeWith
<1>5. \A s : (Old(s)' <=> Old(s)) /\ (Known(s)' <=> Known(s))
  BY <1>1, Zenon DEF Old, Known
<1>6. \A deps : LookPast(deps)' <=> LookPast(deps)
  BY <1>1, Zenon DEF LookPast
<1>7. \A b, deps : RunsTogether(b, deps)' <=> RunsTogether(b, deps)
  BY <1>1, Zenon DEF RunsTogether
<1>8. QED
  BY <1>2, <1>3, <1>4, <1>5, <1>6, <1>7, Zenon DEF SameInputs

\* What a step of another run leaves of the files: they change only to what the inputs make,
\* and the bitcode and what is known of its stamp stay unless the bitcode is fresh.
FilesStand ==
  /\ UNCHANGED <<inputs, past>>
  /\ depfile' \in {depfile, Absent, Prerequisites(inputs)}
  /\ \A f \in {"bc", "stamp"} :
       /\ tmp'[f] = tmp[f] \/ tmp'[f] = Absent \/ tmp'[f] \subseteq Now(f)
       /\ path'[f] = path[f] \/ path'[f] \subseteq Now(f)
  /\ Fresh' \/ (path'["bc"] = path["bc"] /\ torn' = torn)
  /\ StampBehind => StampBehind'

\* Fresh bitcode stays fresh and a trusted digest trusted.
LEMMA TrustStays ==
  ASSUME FilesStand
  PROVE  SameInputs /\ (Fresh => Fresh') /\ \A s : Trusted(s) => Trusted(s)'
<1>1. SameInputs
  BY InputsStay, Zenon DEF FilesStand
<1>2. CASE Fresh'
  BY <1>1, <1>2, Zenon DEF Trusted
<1>3. CASE path'["bc"] = path["bc"] /\ torn' = torn
  <2>1. Fresh => Fresh'
    BY <1>1, <1>3, Zenon DEF Fresh, SameInputs
  <2>2. \A s : Coheres(s) => Coheres(s)'
    BY <1>1, <1>3, Zenon DEF Coheres, SameInputs
  <2>3. \A s : torn /\ Old(s) => (torn /\ Old(s))'
    BY <1>1, <1>3 DEF SameInputs
  <2>4. QED
    BY <1>1, <2>1, <2>2, <2>3, Zenon DEF Trusted
<1>4. QED
  BY <1>2, <1>3, Zenon DEF FilesStand

\* A run whose record a step leaves alone, but for the name of the file it has open, stands.
LEMMA StandOfOthers ==
  ASSUME TypeInv, NEW q \in Runs, StandOK(run[q]), FilesStand,
         \A k \in {"pc", "file", "deps", "stamp", "bitcode", "stored", "unit", "via"} :
           run'[q][k] = run[q][k],
         run'[q].fd = "path" =>
           \/ run[q].fd = "path"
           \/ /\ StampBehind'
              /\ run[q].file # "deps" => path'[run[q].file] \subseteq Now(run[q].file)
  PROVE  StandOK(run[q])' /\ (QuietOK(run[q]) => QuietOK(run[q])')
<1>1. SameInputs /\ (Fresh => Fresh') /\ \A s : Trusted(s) => Trusted(s)'
  BY TrustStays, Zenon
<1>2. /\ run'[q].pc = run[q].pc /\ run'[q].file = run[q].file /\ run'[q].deps = run[q].deps
      /\ run'[q].stamp = run[q].stamp /\ run'[q].bitcode = run[q].bitcode
      /\ run'[q].stored = run[q].stored /\ run'[q].unit = run[q].unit /\ run'[q].via = run[q].via
  OBVIOUS
<1>3. run[q].file \in CacheFile
  BY Zenon DEF TypeInv, RunRecord
<1>4. /\ Later(run[q])' <=> Later(run[q])
      /\ Kept(run[q])' <=> Kept(run[q])
  BY <1>2, Zenon DEF Later, Kept
<1>5. run'[q].pc \in {"write", "rename"} /\ run'[q].file # "deps" =>
        tmp'[run'[q].file] = Absent \/ tmp'[run'[q].file] \subseteq Now(run[q].file)
  BY <1>2, <1>3, Zenon DEF StandOK, FilesStand, CacheFile
<1>6. run'[q].fd = "path" /\ run'[q].file # "deps" => path'[run'[q].file] \subseteq Now(run[q].file)
  <2>1. run[q].file # "deps" => run[q].file \in {"bc", "stamp"}
    BY <1>3, Zenon DEF CacheFile
  <2>2. run[q].fd = "path" /\ run[q].file # "deps" => path'[run[q].file] \subseteq Now(run[q].file)
    BY <2>1, Zenon DEF StandOK, FilesStand
  <2>3. QED
    BY <1>2, <2>2, Zenon
<1>7. Later(run[q]) \/ run'[q].fd = "path" => StampBehind'
  BY Zenon DEF StandOK, FilesStand
<1>8. run'[q].pc = "fragment" => depfile' \in {Absent, Prerequisites(inputs)}
  BY <1>2, Zenon DEF StandOK, FilesStand
<1>9. StandOK(run[q])'
  <2>1. /\ run'[q].pc \in Compiled => run'[q].bitcode = Bitcode(inputs)' /\ Compiles(inputs)'
        /\ run'[q].pc = "fragment" => depfile' \in {Absent, Prerequisites(inputs)'}
        /\ run'[q].pc # "done" => run'[q].unit = {}
    BY <1>1, <1>2, <1>8, Zenon DEF StandOK, SameInputs
  <2>2. /\ run'[q].pc \in Storing \/ Kept(run[q])' =>
             run'[q].deps = Prerequisites(inputs)' /\ run'[q].stamp = Now("stamp")'
        /\ Later(run[q])' \/ Kept(run[q])' => Fresh'
        /\ Later(run[q])' \/ run'[q].fd = "path" => StampBehind'
    BY <1>1, <1>2, <1>4, <1>7, Zenon DEF StandOK, SameInputs
  <2>3. Now(run[q].file)' = Now(run[q].file)
    BY <1>1, <1>2 DEF SameInputs
  <2>4. QED
    BY <1>2, <1>5, <1>6, <2>1, <2>2, <2>3 DEF StandOK
<1>10. QuietOK(run[q]) => QuietOK(run[q])'
  <2>1. \A b : UnitOK(run[q], b) => UnitOK(run[q], b)'
    BY <1>1, <1>2, Zenon DEF UnitOK, SameInputs
  <2>2. Stamp(run[q].deps, inputs)' = Stamp(run[q].deps, inputs)
    BY <1>2, Zenon DEF FilesStand
  <2>3. QED
    BY <1>1, <1>2, <2>1, <2>2, Zenon DEF QuietOK
<1>11. QED
  BY <1>9, <1>10, Zenon

\* What is known of a run when the inputs are not edited under a working run, and whether
\* nothing at all was edited since it began.
Standing(r) == StampsOK /\ StandOK(run[r]) /\ (r \in calm => QuietOK(run[r]))
Watched(r) == r \in calm \/ run[r].pc = "idle"

\* What a step that only moves a run owes.
MoverOK(r) == /\ Standing(r) => StandOK(run[r])'
              /\ Standing(r) /\ Watched(r) => QuietOK(run[r])'
              /\ AloneOK(run[r]) /\ BitcodeThere => AloneOK(run[r])'

\* What the types say of one run.
LEMMA RunKnown ==
  ASSUME TypeInv, NEW r \in Runs
  PROVE  /\ r \in DOMAIN run /\ DOMAIN run[r] = Fields
         /\ run[r].deps \in DepLists \cup {<<>>}
         /\ run[r].fd # "closed" <=> run[r].pc = "write"
         /\ run[r].stored => run[r].pc \in {"discard", "add", "done"}
         /\ run[r].pc \in {"probe", "reuse"} => path["bc"] # Absent
         /\ run[r].pc = "idle" => run[r].stored = FALSE /\ run[r].unit = {}
<1>1. run[r] \in RunRecord /\ RunOK(run[r]) /\ r \in DOMAIN run
  BY Zenon DEF TypeInv
<1>2. DOMAIN run[r] = Fields /\ run[r].deps \in DepLists \cup {<<>>}
  BY <1>1, Zenon DEF RunRecord, Fields
<1>3. /\ run[r].fd # "closed" <=> run[r].pc = "write"
      /\ run[r].stored => run[r].pc \in {"discard", "add", "done"}
      /\ run[r].pc \in {"probe", "reuse"} => path["bc"] # Absent
  BY <1>1, Zenon DEF RunOK
<1>4. run[r].pc = "idle" => run[r].stored = FALSE /\ run[r].unit = {}
  BY <1>1 DEF RunOK, Idle
<1>5. QED
  BY <1>1, <1>2, <1>3, <1>4, Zenon

\* A record that stands before a step that leaves the entry's files alone stands after it.
LEMMA MoveStands ==
  ASSUME FilesStand, UNCHANGED <<path, tmp, torn, lost>>, NEW r \in Runs, NEW now, run'[r] = now
  PROVE  /\ StandOK(now) => StandOK(run[r])'
         /\ QuietOK(now) => QuietOK(run[r])'
         /\ AloneOK(now) => AloneOK(run[r])'
<1>1. SameInputs /\ (Fresh => Fresh') /\ \A s : Trusted(s) => Trusted(s)'
  BY TrustStays, Zenon
<1>2. /\ path' = path /\ tmp' = tmp /\ lost' = lost
      /\ StampBehind => StampBehind'
  BY Zenon DEF FilesStand
<1>3. now.pc = "fragment" /\ depfile \in {Absent, Prerequisites(inputs)}
      => depfile' \in {Absent, Prerequisites(inputs)}
  BY Zenon DEF FilesStand
<1>4. Later(run[r])' = Later(now) /\ Kept(run[r])' = Kept(now) /\ Value(run[r])' = Value(now)
  BY Zenon DEF Later, Kept, Value
<1>5. StandOK(now) => StandOK(run[r])'
  BY <1>1, <1>2, <1>3, <1>4, Zenon DEF StandOK, SameInputs
<1>6. QuietOK(now) => QuietOK(run[r])'
  <2>1. \A b : UnitOK(now, b) => UnitOK(run[r], b)'
    BY <1>1, Zenon DEF UnitOK, SameInputs
  <2>2. Stamp(run[r].deps, inputs)' = Stamp(now.deps, inputs)
    BY Zenon DEF FilesStand
  <2>3. QED
    BY <1>1, <2>1, <2>2, Zenon DEF QuietOK
<1>7. AloneOK(now) => AloneOK(run[r])'
  BY <1>2, <1>4, Zenon DEF AloneOK, InPlace
<1>8. QED
  BY <1>5, <1>6, <1>7, Zenon

\* The steps that begin a run and read what the entry recorded.
LEMMA ReadsStand ==
  ASSUME TypeInv, NEW r \in Runs, FilesStand, UNCHANGED <<path, tmp, torn, lost>>,
         Start(r) \/ ReadDeps(r) \/ ReadStamp(r)
  PROVE  MoverOK(r)
<1> DEFINE old == run[r]
<1>0. /\ old.fd # "closed" <=> old.pc = "write"
      /\ old.stored => old.pc \in {"discard", "add", "done"}
      /\ old.pc = "idle" => old.stored = FALSE /\ old.unit = {}
      /\ old.pc \in {"probe", "reuse"} => path["bc"] # Absent
      /\ old.deps \in DepLists \cup {<<>>}
  BY RunKnown, Zenon
<1>d. r \in DOMAIN run /\ DOMAIN old = Fields
  BY RunKnown, Zenon
<1>m. ASSUME NEW now, run'[r] = now
      PROVE  /\ StandOK(now) => StandOK(run[r])'
             /\ QuietOK(now) => QuietOK(run[r])'
             /\ AloneOK(now) => AloneOK(run[r])'
  BY <1>m, MoveStands, Zenon
<1>1. CASE Start(r)
  <2> DEFINE now == [old EXCEPT !.pc = "deps"]
  <2>1. run' = [run EXCEPT ![r] = now] /\ old.pc = "idle"
    BY <1>1, Zenon DEF Start, At
  <2>2. /\ now.pc = "deps" /\ now.file = old.file /\ now.fd = old.fd
       /\ now.deps = old.deps /\ now.stamp = old.stamp /\ now.bitcode = old.bitcode
       /\ now.stored = old.stored /\ now.unit = old.unit /\ now.via = old.via
    BY <1>d
  <2>3. run'[r] = now
    BY <1>d, <2>1, Zenon
  <2> HIDE DEF now
  <2>4. Standing(r) => StandOK(now)
    BY <1>0, <2>1, <2>2, Zenon DEF Standing, StandOK, Kept, Later, Compiled, Storing
  <2>5. Standing(r) /\ Watched(r) => QuietOK(now)
    BY <1>0, <2>1, <2>2, Zenon DEF Standing, Watched, StandOK, QuietOK
  <2>6. AloneOK(old) /\ BitcodeThere => AloneOK(now)
    BY <1>0, <2>1, <2>2, Zenon DEF AloneOK, BitcodeThere, Kept, Later, Storing
  <2>7. QED
    BY <1>m, <2>3, <2>4, <2>5, <2>6, Zenon DEF MoverOK
<1>2. CASE ReadDeps(r)
  <2>1. CASE path["deps"] = Absent
    <3> DEFINE now == [old EXCEPT !.pc = "compile"]
    <3>1. run' = [run EXCEPT ![r] = now] /\ old.pc = "deps"
      BY <1>2, <2>1, Zenon DEF ReadDeps, At
    <3>2. /\ now.pc = "compile" /\ now.file = old.file /\ now.fd = old.fd
         /\ now.deps = old.deps /\ now.stamp = old.stamp /\ now.bitcode = old.bitcode
         /\ now.stored = old.stored /\ now.unit = old.unit /\ now.via = old.via
      BY <1>d
    <3>3. run'[r] = now
      BY <1>d, <3>1, Zenon
    <3> HIDE DEF now
    <3>4. Standing(r) => StandOK(now)
      BY <1>0, <3>1, <3>2, Zenon DEF Standing, StandOK, Kept, Later, Compiled, Storing
    <3>5. Standing(r) /\ Watched(r) => QuietOK(now)
      BY <1>0, <3>1, <3>2, Zenon DEF Standing, Watched, StandOK, QuietOK
    <3>6. AloneOK(old) /\ BitcodeThere => AloneOK(now)
      BY <1>0, <3>1, <3>2, Zenon DEF AloneOK, BitcodeThere, Kept, Later, Storing
    <3>7. QED
      BY <1>m, <3>3, <3>4, <3>5, <3>6, Zenon DEF MoverOK
  <2>2. CASE path["deps"] # Absent
    <3>1. PICK deps \in Lists(path["deps"]) : run' = [run EXCEPT ![r].pc = "stamp", ![r].deps = deps]
      BY <1>2, <2>2, Zenon DEF ReadDeps
    <3> DEFINE now == [old EXCEPT !.pc = "stamp", !.deps = deps]
    <3>2. run' = [run EXCEPT ![r] = now] /\ old.pc = "deps"
      BY <1>2, <2>2, <3>1, Zenon DEF ReadDeps, At
    <3>3. /\ now.pc = "stamp" /\ now.file = old.file /\ now.fd = old.fd
         /\ now.deps = deps /\ now.stamp = old.stamp /\ now.bitcode = old.bitcode
         /\ now.stored = old.stored /\ now.unit = old.unit /\ now.via = old.via
      BY <1>d
    <3>4. run'[r] = now
      BY <1>d, <3>2, Zenon
    <3> HIDE DEF now
    <3>5. Standing(r) => StandOK(now)
      BY <1>0, <3>2, <3>3, Zenon DEF Standing, StandOK, Kept, Later, Compiled, Storing
    <3>6. Standing(r) /\ Watched(r) => QuietOK(now)
      BY <1>0, <3>2, <3>3, Zenon DEF Standing, Watched, StandOK, QuietOK
    <3>7. AloneOK(old) /\ BitcodeThere => AloneOK(now)
      BY <1>0, <3>2, <3>3, Zenon DEF AloneOK, BitcodeThere, Kept, Later, Storing
    <3>8. QED
      BY <1>m, <3>4, <3>5, <3>6, <3>7, Zenon DEF MoverOK
  <2>3. QED
    BY <2>1, <2>2, Zenon
<1>3. CASE ReadStamp(r)
  <2>1. CASE path["stamp"] = Absent
    <3> DEFINE now == [old EXCEPT !.pc = "compile"]
    <3>1. run' = [run EXCEPT ![r] = now] /\ old.pc = "stamp"
      BY <1>3, <2>1, Zenon DEF ReadStamp, At
    <3>2. /\ now.pc = "compile" /\ now.file = old.file /\ now.fd = old.fd
         /\ now.deps = old.deps /\ now.stamp = old.stamp /\ now.bitcode = old.bitcode
         /\ now.stored = old.stored /\ now.unit = old.unit /\ now.via = old.via
      BY <1>d
    <3>3. run'[r] = now
      BY <1>d, <3>1, Zenon
    <3> HIDE DEF now
    <3>4. Standing(r) => StandOK(now)
      BY <1>0, <3>1, <3>2, Zenon DEF Standing, StandOK, Kept, Later, Compiled, Storing
    <3>5. Standing(r) /\ Watched(r) => QuietOK(now)
      BY <1>0, <3>1, <3>2, Zenon DEF Standing, Watched, StandOK, QuietOK
    <3>6. AloneOK(old) /\ BitcodeThere => AloneOK(now)
      BY <1>0, <3>1, <3>2, Zenon DEF AloneOK, BitcodeThere, Kept, Later, Storing
    <3>7. QED
      BY <1>m, <3>3, <3>4, <3>5, <3>6, Zenon DEF MoverOK
  <2>2. CASE path["stamp"] # Absent
    <3> DEFINE now == [old EXCEPT !.pc = "hash", !.stamp = path["stamp"]]
    <3>1. run' = [run EXCEPT ![r] = now] /\ old.pc = "stamp"
      BY <1>3, <2>2, Zenon DEF ReadStamp, At
    <3>2. /\ now.pc = "hash" /\ now.file = old.file /\ now.fd = old.fd
         /\ now.deps = old.deps /\ now.stamp = path["stamp"] /\ now.bitcode = old.bitcode
         /\ now.stored = old.stored /\ now.unit = old.unit /\ now.via = old.via
      BY <1>d
    <3>3. run'[r] = now
      BY <1>d, <3>1, Zenon
    <3> HIDE DEF now
    <3>4. Standing(r) => StandOK(now)
      BY <1>0, <3>1, <3>2, Zenon DEF Standing, StandOK, Kept, Later, Compiled, Storing
    <3>5. Standing(r) /\ Watched(r) => QuietOK(now)
      BY <1>0, <3>1, <3>2, <2>2, Zenon DEF Standing, Watched, StandOK, QuietOK, StampsOK, Vouches, Trusted
    <3>6. AloneOK(old) /\ BitcodeThere => AloneOK(now)
      BY <1>0, <3>1, <3>2, Zenon DEF AloneOK, BitcodeThere, Kept, Later, Storing
    <3>7. QED
      BY <1>m, <3>3, <3>4, <3>5, <3>6, Zenon DEF MoverOK
  <2>3. QED
    BY <2>1, <2>2, Zenon
<1>4. QED
  BY <1>1, <1>2, <1>3, Zenon

\* The steps that judge the entry and take it.
LEMMA LookupStand ==
  ASSUME TypeInv, NEW r \in Runs, FilesStand, UNCHANGED <<path, tmp, torn, lost>>,
         HashInputs(r) \/ Probe(r) \/ Reuse(r)
  PROVE  MoverOK(r)
<1> DEFINE old == run[r]
<1>0. /\ old.fd # "closed" <=> old.pc = "write"
      /\ old.stored => old.pc \in {"discard", "add", "done"}
      /\ old.pc = "idle" => old.stored = FALSE /\ old.unit = {}
      /\ old.pc \in {"probe", "reuse"} => path["bc"] # Absent
      /\ old.deps \in DepLists \cup {<<>>}
  BY RunKnown, Zenon
<1>d. r \in DOMAIN run /\ DOMAIN old = Fields
  BY RunKnown, Zenon
<1>m. ASSUME NEW now, run'[r] = now
      PROVE  /\ StandOK(now) => StandOK(run[r])'
             /\ QuietOK(now) => QuietOK(run[r])'
             /\ AloneOK(now) => AloneOK(run[r])'
  BY <1>m, MoveStands, Zenon
<1>1. CASE HashInputs(r)
  <2>1. CASE Readable(old.deps, inputs) /\ old.stamp = {Stamp(old.deps, inputs)} /\ path["bc"] # Absent
    <3> DEFINE now == [old EXCEPT !.pc = "probe"]
    <3>1. run' = [run EXCEPT ![r] = now] /\ old.pc = "hash"
      BY <1>1, <2>1, Zenon DEF HashInputs, At
    <3>2. /\ now.pc = "probe" /\ now.file = old.file /\ now.fd = old.fd
         /\ now.deps = old.deps /\ now.stamp = old.stamp /\ now.bitcode = old.bitcode
         /\ now.stored = old.stored /\ now.unit = old.unit /\ now.via = old.via
      BY <1>d
    <3>3. run'[r] = now
      BY <1>d, <3>1, Zenon
    <3> HIDE DEF now
    <3>4. Standing(r) => StandOK(now)
      BY <1>0, <3>1, <3>2, Zenon DEF Standing, StandOK, Kept, Later, Compiled, Storing
    <3>5. Standing(r) /\ Watched(r) => QuietOK(now)
      BY <1>0, <3>1, <3>2, <2>1, Zenon DEF Standing, Watched, StandOK, QuietOK
    <3>6. AloneOK(old) /\ BitcodeThere => AloneOK(now)
      BY <1>0, <3>1, <3>2, Zenon DEF AloneOK, BitcodeThere, Kept, Later, Storing
    <3>7. QED
      BY <1>m, <3>3, <3>4, <3>5, <3>6, Zenon DEF MoverOK
  <2>2. CASE ~(Readable(old.deps, inputs) /\ old.stamp = {Stamp(old.deps, inputs)} /\ path["bc"] # Absent)
    <3> DEFINE now == [old EXCEPT !.pc = "compile"]
    <3>1. run' = [run EXCEPT ![r] = now] /\ old.pc = "hash"
      BY <1>1, <2>2, Zenon DEF HashInputs, At
    <3>2. /\ now.pc = "compile" /\ now.file = old.file /\ now.fd = old.fd
         /\ now.deps = old.deps /\ now.stamp = old.stamp /\ now.bitcode = old.bitcode
         /\ now.stored = old.stored /\ now.unit = old.unit /\ now.via = old.via
      BY <1>d
    <3>3. run'[r] = now
      BY <1>d, <3>1, Zenon
    <3> HIDE DEF now
    <3>4. Standing(r) => StandOK(now)
      BY <1>0, <3>1, <3>2, Zenon DEF Standing, StandOK, Kept, Later, Compiled, Storing
    <3>5. Standing(r) /\ Watched(r) => QuietOK(now)
      BY <1>0, <3>1, <3>2, Zenon DEF Standing, Watched, StandOK, QuietOK
    <3>6. AloneOK(old) /\ BitcodeThere => AloneOK(now)
      BY <1>0, <3>1, <3>2, Zenon DEF AloneOK, BitcodeThere, Kept, Later, Storing
    <3>7. QED
      BY <1>m, <3>3, <3>4, <3>5, <3>6, Zenon DEF MoverOK
  <2>3. QED
    BY <2>1, <2>2, Zenon
<1>2. CASE Probe(r)
  <2>1. PICK pc \in {"reuse", "compile"} : run' = [run EXCEPT ![r].pc = pc]
    BY <1>2, Zenon DEF Probe
  <2> DEFINE now == [old EXCEPT !.pc = pc]
  <2>2. run' = [run EXCEPT ![r] = now] /\ old.pc = "probe"
    BY <1>2, <2>1, Zenon DEF Probe, At
  <2>3. /\ now.pc = pc /\ now.file = old.file /\ now.fd = old.fd
       /\ now.deps = old.deps /\ now.stamp = old.stamp /\ now.bitcode = old.bitcode
       /\ now.stored = old.stored /\ now.unit = old.unit /\ now.via = old.via
    BY <1>d
  <2>4. run'[r] = now
    BY <1>d, <2>2, Zenon
  <2> HIDE DEF now
  <2>5. Standing(r) => StandOK(now)
    BY <1>0, <2>2, <2>3, Zenon DEF Standing, StandOK, Kept, Later, Compiled, Storing
  <2>6. Standing(r) /\ Watched(r) => QuietOK(now)
    BY <1>0, <2>2, <2>3, Zenon DEF Standing, Watched, StandOK, QuietOK
  <2>7. AloneOK(old) /\ BitcodeThere => AloneOK(now)
    BY <1>0, <2>2, <2>3, Zenon DEF AloneOK, BitcodeThere, Kept, Later, Storing
  <2>8. QED
    BY <1>m, <2>4, <2>5, <2>6, <2>7, Zenon DEF MoverOK
<1>3. CASE Reuse(r)
  <2> DEFINE via == IF torn THEN "torn" ELSE "reused"
             now == [old EXCEPT !.pc = "done", !.unit = path["bc"], !.via = via]
  <2>1. run' = [run EXCEPT ![r] = now] /\ old.pc = "reuse"
    BY <1>3, Zenon DEF Reuse, At
  <2>2. /\ now.pc = "done" /\ now.file = old.file /\ now.fd = old.fd
       /\ now.deps = old.deps /\ now.stamp = old.stamp /\ now.bitcode = old.bitcode
       /\ now.stored = old.stored /\ now.unit = path["bc"] /\ now.via = via
    BY <1>d
  <2>3. run'[r] = now
    BY <1>d, <2>1, Zenon
  <2> HIDE DEF now
  <2>4. Standing(r) => StandOK(now)
    BY <1>0, <2>1, <2>2, Zenon DEF Standing, StandOK, Kept, Later, Compiled, Storing
  <2>5. Standing(r) /\ Watched(r) => QuietOK(now)
    BY <1>0, <2>1, <2>2, Trusting, Zenon DEF Standing, Watched, StandOK, QuietOK, UnitOK
  <2>6. AloneOK(old) /\ BitcodeThere => AloneOK(now)
    BY <1>0, <2>1, <2>2, Zenon DEF AloneOK, BitcodeThere, Kept, Later, Storing
  <2>7. QED
    BY <1>m, <2>3, <2>4, <2>5, <2>6, Zenon DEF MoverOK
<1>4. QED
  BY <1>1, <1>2, <1>3, Zenon

\* The steps that compile, and read the dependency list the compiler left.
LEMMA CompileStand ==
  ASSUME TypeInv, NEW r \in Runs, FilesStand, UNCHANGED <<path, tmp, torn, lost>>,
         Compile(r) \/ Fragment(r)
  PROVE  MoverOK(r)
<1> DEFINE old == run[r]
<1>0. /\ old.fd # "closed" <=> old.pc = "write"
      /\ old.stored => old.pc \in {"discard", "add", "done"}
      /\ old.pc = "idle" => old.stored = FALSE /\ old.unit = {}
      /\ old.pc \in {"probe", "reuse"} => path["bc"] # Absent
      /\ old.deps \in DepLists \cup {<<>>}
  BY RunKnown, Zenon
<1>d. r \in DOMAIN run /\ DOMAIN old = Fields
  BY RunKnown, Zenon
<1>m. ASSUME NEW now, run'[r] = now
      PROVE  /\ StandOK(now) => StandOK(run[r])'
             /\ QuietOK(now) => QuietOK(run[r])'
             /\ AloneOK(now) => AloneOK(run[r])'
  BY <1>m, MoveStands, Zenon
<1>1. CASE Compile(r)
  <2>1. CASE Compiles(inputs)
    <3> DEFINE now == [old EXCEPT !.pc = "fragment", !.bitcode = Bitcode(inputs)]
    <3>1. run' = [run EXCEPT ![r] = now] /\ old.pc = "compile"
      BY <1>1, <2>1, Zenon DEF Compile, At
    <3>2. /\ now.pc = "fragment" /\ now.file = old.file /\ now.fd = old.fd
         /\ now.deps = old.deps /\ now.stamp = old.stamp /\ now.bitcode = Bitcode(inputs)
         /\ now.stored = old.stored /\ now.unit = old.unit /\ now.via = old.via
      BY <1>d
    <3>3. run'[r] = now
      BY <1>d, <3>1, Zenon
    <3> HIDE DEF now
    <3>4. Standing(r) => StandOK(run[r])'
      <4>1. depfile' = Prerequisites(inputs) /\ inputs' = inputs
        BY <1>1, <2>1, Zenon DEF Compile
      <4>2. /\ depfile' = Prerequisites(inputs)' /\ now.bitcode = Bitcode(inputs)' /\ Compiles(inputs)'
        BY <2>1, <3>2, <4>1, Zenon
      <4>3. QED
        BY <1>0, <3>1, <3>2, <3>3, <4>2, Zenon DEF Standing, StandOK, Kept, Later, Compiled, Storing
    <3>5. Standing(r) /\ Watched(r) => QuietOK(now)
      BY <1>0, <3>1, <3>2, Zenon DEF Standing, Watched, StandOK, QuietOK
    <3>6. AloneOK(old) /\ BitcodeThere => AloneOK(now)
      BY <1>0, <3>1, <3>2, Zenon DEF AloneOK, BitcodeThere, Kept, Later, Storing
    <3>7. QED
      BY <1>m, <3>3, <3>4, <3>5, <3>6, Zenon DEF MoverOK
  <2>2. CASE ~Compiles(inputs)
    <3> DEFINE now == [old EXCEPT !.pc = "done", !.via = "failed"]
    <3>1. run' = [run EXCEPT ![r] = now] /\ old.pc = "compile"
      BY <1>1, <2>2, Zenon DEF Compile, At
    <3>2. /\ now.pc = "done" /\ now.file = old.file /\ now.fd = old.fd
         /\ now.deps = old.deps /\ now.stamp = old.stamp /\ now.bitcode = old.bitcode
         /\ now.stored = old.stored /\ now.unit = old.unit /\ now.via = "failed"
      BY <1>d
    <3>3. run'[r] = now
      BY <1>d, <3>1, Zenon
    <3> HIDE DEF now
    <3>4. Standing(r) => StandOK(now)
      BY <1>0, <3>1, <3>2, Zenon DEF Standing, StandOK, Kept, Later, Compiled, Storing
    <3>5. Standing(r) /\ Watched(r) => QuietOK(now)
      BY <1>0, <3>1, <3>2, Zenon DEF Standing, Watched, StandOK, QuietOK
    <3>6. AloneOK(old) /\ BitcodeThere => AloneOK(now)
      BY <1>0, <3>1, <3>2, Zenon DEF AloneOK, BitcodeThere, Kept, Later, Storing
    <3>7. QED
      BY <1>m, <3>3, <3>4, <3>5, <3>6, Zenon DEF MoverOK
  <2>3. QED
    BY <2>1, <2>2, Zenon
<1>2. CASE Fragment(r)
  <2>1. CASE depfile # Absent /\ Readable(depfile, inputs)
    <3> DEFINE now == [old EXCEPT !.pc = "open", !.file = "bc", !.deps = depfile, !.stamp = {Stamp(depfile, inputs)}]
    <3>1. run' = [run EXCEPT ![r] = now] /\ old.pc = "fragment"
      BY <1>2, <2>1, Zenon DEF Fragment, At
    <3>2. /\ now.pc = "open" /\ now.file = "bc" /\ now.fd = old.fd
         /\ now.deps = depfile /\ now.stamp = {Stamp(depfile, inputs)} /\ now.bitcode = old.bitcode
         /\ now.stored = old.stored /\ now.unit = old.unit /\ now.via = old.via
      BY <1>d
    <3>3. run'[r] = now
      BY <1>d, <3>1, Zenon
    <3> HIDE DEF now
    <3>4. Standing(r) => StandOK(now)
      BY <1>0, <3>1, <3>2, <2>1, Zenon DEF Standing, StandOK, Kept, Later, Compiled, Storing, Now, Own
    <3>5. Standing(r) /\ Watched(r) => QuietOK(now)
      BY <1>0, <3>1, <3>2, Zenon DEF Standing, Watched, StandOK, QuietOK
    <3>6. AloneOK(old) /\ BitcodeThere => AloneOK(now)
      BY <1>0, <3>1, <3>2, Zenon DEF AloneOK, BitcodeThere, Kept, Later, Storing
    <3>7. QED
      BY <1>m, <3>3, <3>4, <3>5, <3>6, Zenon DEF MoverOK
  <2>2. CASE ~(depfile # Absent /\ Readable(depfile, inputs))
    <3> DEFINE now == [old EXCEPT !.pc = "discard"]
    <3>1. run' = [run EXCEPT ![r] = now] /\ old.pc = "fragment"
      BY <1>2, <2>2, Zenon DEF Fragment, At
    <3>2. /\ now.pc = "discard" /\ now.file = old.file /\ now.fd = old.fd
         /\ now.deps = old.deps /\ now.stamp = old.stamp /\ now.bitcode = old.bitcode
         /\ now.stored = old.stored /\ now.unit = old.unit /\ now.via = old.via
      BY <1>d
    <3>3. run'[r] = now
      BY <1>d, <3>1, Zenon
    <3> HIDE DEF now
    <3>4. Standing(r) => StandOK(now)
      BY <1>0, <3>1, <3>2, Zenon DEF Standing, StandOK, Kept, Later, Compiled, Storing
    <3>5. Standing(r) /\ Watched(r) => QuietOK(now)
      BY <1>0, <3>1, <3>2, Zenon DEF Standing, Watched, StandOK, QuietOK
    <3>6. AloneOK(old) /\ BitcodeThere => AloneOK(now)
      BY <1>0, <3>1, <3>2, Zenon DEF AloneOK, BitcodeThere, Kept, Later, Storing
    <3>7. QED
      BY <1>m, <3>3, <3>4, <3>5, <3>6, Zenon DEF MoverOK
  <2>3. QED
    BY <2>1, <2>2, Zenon
<1>3. QED
  BY <1>1, <1>2, Zenon

\* The steps that give up storing, and the last ones of a run.
LEMMA EndsStand ==
  ASSUME TypeInv, NEW r \in Runs, FilesStand, UNCHANGED <<path, tmp, torn, lost>>,
         WriteFails(r) \/ RenameFails(r) \/ RemoveDepfile(r) \/ Add(r) \/ Exit(r) \/ Crash(r)
  PROVE  MoverOK(r)
<1> DEFINE old == run[r]
<1>0. /\ old.fd # "closed" <=> old.pc = "write"
      /\ old.stored => old.pc \in {"discard", "add", "done"}
      /\ old.pc = "idle" => old.stored = FALSE /\ old.unit = {}
      /\ old.pc \in {"probe", "reuse"} => path["bc"] # Absent
      /\ old.deps \in DepLists \cup {<<>>}
  BY RunKnown, Zenon
<1>d. r \in DOMAIN run /\ DOMAIN old = Fields
  BY RunKnown, Zenon
<1>m. ASSUME NEW now, run'[r] = now
      PROVE  /\ StandOK(now) => StandOK(run[r])'
             /\ QuietOK(now) => QuietOK(run[r])'
             /\ AloneOK(now) => AloneOK(run[r])'
  BY <1>m, MoveStands, Zenon
<1>1. CASE WriteFails(r)
  <2> DEFINE now == [old EXCEPT !.pc = "discard", !.fd = "closed"]
  <2>1. run' = [run EXCEPT ![r] = now] /\ old.pc \in {"open", "write"}
    BY <1>1, Zenon DEF WriteFails, At
  <2>2. /\ now.pc = "discard" /\ now.file = old.file /\ now.fd = "closed"
       /\ now.deps = old.deps /\ now.stamp = old.stamp /\ now.bitcode = old.bitcode
       /\ now.stored = old.stored /\ now.unit = old.unit /\ now.via = old.via
    BY <1>d
  <2>3. run'[r] = now
    BY <1>d, <2>1, Zenon
  <2> HIDE DEF now
  <2>4. Standing(r) => StandOK(now)
    BY <1>0, <2>1, <2>2, Zenon DEF Standing, StandOK, Kept, Later, Compiled, Storing
  <2>5. Standing(r) /\ Watched(r) => QuietOK(now)
    BY <1>0, <2>1, <2>2, Zenon DEF Standing, Watched, StandOK, QuietOK
  <2>6. AloneOK(old) /\ BitcodeThere => AloneOK(now)
    BY <1>0, <2>1, <2>2, Zenon DEF AloneOK, BitcodeThere, Kept, Later, Storing
  <2>7. QED
    BY <1>m, <2>3, <2>4, <2>5, <2>6, Zenon DEF MoverOK
<1>2. CASE RenameFails(r)
  <2> DEFINE now == [old EXCEPT !.pc = "unlink"]
  <2>1. run' = [run EXCEPT ![r] = now] /\ old.pc = "rename"
    BY <1>2, Zenon DEF RenameFails, At
  <2>2. /\ now.pc = "unlink" /\ now.file = old.file /\ now.fd = old.fd
       /\ now.deps = old.deps /\ now.stamp = old.stamp /\ now.bitcode = old.bitcode
       /\ now.stored = old.stored /\ now.unit = old.unit /\ now.via = old.via
    BY <1>d
  <2>3. run'[r] = now
    BY <1>d, <2>1, Zenon
  <2> HIDE DEF now
  <2>4. Standing(r) => StandOK(now)
    BY <1>0, <2>1, <2>2, Zenon DEF Standing, StandOK, Kept, Later, Compiled, Storing
  <2>5. Standing(r) /\ Watched(r) => QuietOK(now)
    BY <1>0, <2>1, <2>2, Zenon DEF Standing, Watched, StandOK, QuietOK
  <2>6. AloneOK(old) /\ BitcodeThere => AloneOK(now)
    BY <1>0, <2>1, <2>2, Zenon DEF AloneOK, BitcodeThere, Kept, Later, Storing
  <2>7. QED
    BY <1>m, <2>3, <2>4, <2>5, <2>6, Zenon DEF MoverOK
<1>3. CASE RemoveDepfile(r)
  <2> DEFINE now == [old EXCEPT !.pc = "add"]
  <2>1. run' = [run EXCEPT ![r] = now] /\ old.pc = "discard"
    BY <1>3, Zenon DEF RemoveDepfile, At
  <2>2. /\ now.pc = "add" /\ now.file = old.file /\ now.fd = old.fd
       /\ now.deps = old.deps /\ now.stamp = old.stamp /\ now.bitcode = old.bitcode
       /\ now.stored = old.stored /\ now.unit = old.unit /\ now.via = old.via
    BY <1>d
  <2>3. run'[r] = now
    BY <1>d, <2>1, Zenon
  <2> HIDE DEF now
  <2>4. Standing(r) => StandOK(now)
    BY <1>0, <2>1, <2>2, Zenon DEF Standing, StandOK, Kept, Later, Compiled, Storing
  <2>5. Standing(r) /\ Watched(r) => QuietOK(now)
    BY <1>0, <2>1, <2>2, Zenon DEF Standing, Watched, StandOK, QuietOK
  <2>6. AloneOK(old) /\ BitcodeThere => AloneOK(now)
    BY <1>0, <2>1, <2>2, Zenon DEF AloneOK, BitcodeThere, Kept, Later, Storing
  <2>7. QED
    BY <1>m, <2>3, <2>4, <2>5, <2>6, Zenon DEF MoverOK
<1>4. CASE Add(r)
  <2>1. CASE old.stored
    <3> DEFINE now == [old EXCEPT !.pc = "done", !.unit = path["bc"], !.via = "stored"]
    <3>1. run' = [run EXCEPT ![r] = now] /\ old.pc = "add"
      BY <1>4, <2>1, Zenon DEF Add, At
    <3>2. /\ now.pc = "done" /\ now.file = old.file /\ now.fd = old.fd
         /\ now.deps = old.deps /\ now.stamp = old.stamp /\ now.bitcode = old.bitcode
         /\ now.stored = old.stored /\ now.unit = path["bc"] /\ now.via = "stored"
      BY <1>d
    <3>3. run'[r] = now
      BY <1>d, <3>1, Zenon
    <3> HIDE DEF now
    <3>4. Standing(r) => StandOK(now)
      BY <1>0, <3>1, <3>2, Zenon DEF Standing, StandOK, Kept, Later, Compiled, Storing
    <3>5. Standing(r) /\ Watched(r) => QuietOK(now)
      BY <1>0, <3>1, <3>2, <2>1, Zenon DEF Standing, Watched, StandOK, QuietOK, UnitOK, Kept, Fresh, Now
    <3>6. AloneOK(old) /\ BitcodeThere => AloneOK(now)
      BY <1>0, <3>1, <3>2, <2>1, Zenon DEF AloneOK, BitcodeThere, Kept, Later, Storing, InPlace
    <3>7. QED
      BY <1>m, <3>3, <3>4, <3>5, <3>6, Zenon DEF MoverOK
  <2>2. CASE ~old.stored
    <3> DEFINE now == [old EXCEPT !.pc = "done", !.unit = {old.bitcode}, !.via = "memory"]
    <3>1. run' = [run EXCEPT ![r] = now] /\ old.pc = "add"
      BY <1>4, <2>2, Zenon DEF Add, At
    <3>2. /\ now.pc = "done" /\ now.file = old.file /\ now.fd = old.fd
         /\ now.deps = old.deps /\ now.stamp = old.stamp /\ now.bitcode = old.bitcode
         /\ now.stored = old.stored /\ now.unit = {old.bitcode} /\ now.via = "memory"
      BY <1>d
    <3>3. run'[r] = now
      BY <1>d, <3>1, Zenon
    <3> HIDE DEF now
    <3>4. Standing(r) => StandOK(now)
      BY <1>0, <3>1, <3>2, Zenon DEF Standing, StandOK, Kept, Later, Compiled, Storing
    <3>5. Standing(r) /\ Watched(r) => QuietOK(now)
      BY <1>0, <3>1, <3>2, <2>2, Zenon DEF Standing, Watched, StandOK, QuietOK, UnitOK, Compiled
    <3>6. AloneOK(old) /\ BitcodeThere => AloneOK(now)
      BY <1>0, <3>1, <3>2, Zenon DEF AloneOK, BitcodeThere, Kept, Later, Storing
    <3>7. QED
      BY <1>m, <3>3, <3>4, <3>5, <3>6, Zenon DEF MoverOK
  <2>3. QED
    BY <2>1, <2>2, Zenon
<1>5. CASE Exit(r)
  <2> DEFINE now == Idle
  <2>1. run' = [run EXCEPT ![r] = now] /\ old.pc = "done"
    BY <1>5, Zenon DEF Exit, At
  <2>2. /\ now.pc = "idle" /\ now.file = "bc" /\ now.fd = "closed" /\ now.stored = FALSE
       /\ now.unit = {}
    BY DEF Idle
  <2>3. run'[r] = now
    BY <1>d, <2>1, Zenon
  <2> HIDE DEF now
  <2>4. Standing(r) => StandOK(now)
    BY <1>0, <2>1, <2>2, Zenon DEF Standing, StandOK, Kept, Later, Compiled, Storing
  <2>5. Standing(r) /\ Watched(r) => QuietOK(now)
    BY <1>0, <2>1, <2>2, Zenon DEF Standing, Watched, StandOK, QuietOK
  <2>6. AloneOK(old) /\ BitcodeThere => AloneOK(now)
    BY <1>0, <2>1, <2>2, Zenon DEF AloneOK, BitcodeThere, Kept, Later, Storing
  <2>7. QED
    BY <1>m, <2>3, <2>4, <2>5, <2>6, Zenon DEF MoverOK
<1>6. CASE Crash(r)
  <2> DEFINE now == Idle
  <2>1. run' = [run EXCEPT ![r] = now] /\ old.pc # "idle"
    BY <1>6, Zenon DEF Crash, At
  <2>2. /\ now.pc = "idle" /\ now.file = "bc" /\ now.fd = "closed" /\ now.stored = FALSE
       /\ now.unit = {}
    BY DEF Idle
  <2>3. run'[r] = now
    BY <1>d, <2>1, Zenon
  <2> HIDE DEF now
  <2>4. Standing(r) => StandOK(now)
    BY <1>0, <2>1, <2>2, Zenon DEF Standing, StandOK, Kept, Later, Compiled, Storing
  <2>5. Standing(r) /\ Watched(r) => QuietOK(now)
    BY <1>0, <2>1, <2>2, Zenon DEF Standing, Watched, StandOK, QuietOK
  <2>6. AloneOK(old) /\ BitcodeThere => AloneOK(now)
    BY <1>0, <2>1, <2>2, Zenon DEF AloneOK, BitcodeThere, Kept, Later, Storing
  <2>7. QED
    BY <1>m, <2>3, <2>4, <2>5, <2>6, Zenon DEF MoverOK
<1>7. QED
  BY <1>1, <1>2, <1>3, <1>4, <1>5, <1>6, Zenon

\* A step that only moves a run leaves the files and what is said of the inputs alone.
LEMMA MoveFiles ==
  ASSUME NEW r \in Runs,
         \/ ReadDeps(r) \/ ReadStamp(r) \/ HashInputs(r) \/ Probe(r) \/ Reuse(r)
         \/ Compile(r) \/ Fragment(r) \/ WriteFails(r) \/ RenameFails(r) \/ RemoveDepfile(r)
         \/ Add(r) \/ Exit(r) \/ Crash(r) \/ Start(r)
  PROVE  FilesStand /\ UNCHANGED <<path, tmp, torn, lost>>
<1>1. /\ UNCHANGED <<inputs, past, path, tmp, torn, lost>>
      /\ depfile' \in {depfile, Absent, Prerequisites(inputs)}
  BY MovesLeave, Zenon
<1>2. Now("stamp")' = Now("stamp")
  BY <1>1, Zenon DEF Now
<1>3. StampBehind => StampBehind'
  BY <1>1, <1>2 DEF StampBehind
<1>4. QED
  BY <1>1, <1>3, Zenon DEF FilesStand

\* Every step that only moves its run does what it owes.
LEMMA MoverFacts ==
  ASSUME TypeInv, NEW r \in Runs,
         \/ ReadDeps(r) \/ ReadStamp(r) \/ HashInputs(r) \/ Probe(r) \/ Reuse(r)
         \/ Compile(r) \/ Fragment(r) \/ WriteFails(r) \/ RenameFails(r) \/ RemoveDepfile(r)
         \/ Add(r) \/ Exit(r) \/ Crash(r) \/ Start(r)
  PROVE  MoverOK(r)
<1>1. FilesStand /\ UNCHANGED <<path, tmp, torn, lost>>
  BY MoveFiles, Zenon
<1>2. QED
  BY <1>1, ReadsStand, LookupStand, CompileStand, EndsStand, Zenon

\* Digests stay vouched for while neither the bitcode nor its standing changes.
LEMMA StampsStay ==
  ASSUME StampsOK, SameInputs, path'["bc"] = path["bc"], path'["stamp"] = path["stamp"],
         torn' = torn
  PROVE  StampsOK'
<1>1. \A s : Coheres(s) => Coheres(s)'
  BY Zenon DEF Coheres, SameInputs
<1>2. \A s : (Known(s) => Known(s)') /\ (torn /\ Old(s) => (torn /\ Old(s))')
  BY DEF SameInputs
<1>3. \A s : Vouches(s) => Vouches(s)'
  BY <1>1, <1>2, Zenon DEF Vouches
<1>4. QED
  BY <1>3, Zenon DEF StampsOK

\* When fresh bitcode is put in place, a stamp of the inputs as they are goes with it, and an
\* older one is known to be older.
LEMMA StampsFollow ==
  ASSUME TypeInv, StampsOK, SameInputs, Compiles(inputs), Fresh',
         \/ path'["stamp"] = path["stamp"] /\ (torn' \/ path["stamp"] \subseteq Now("stamp"))
         \/ path'["stamp"] \subseteq Now("stamp")
  PROVE  StampsOK'
<1>1. MadeWith(Bitcode(inputs), Own(inputs))
  BY Zenon DEF MadeWith, TypeInv
<1>2. Coheres(Own(inputs))'
  <2>1. \A b \in path'["bc"] : b = Bitcode(inputs)
    BY Zenon DEF Fresh, Now, SameInputs
  <2>2. \A b \in path'["bc"] : MadeWith(b, Own(inputs))
    BY <1>1, <2>1, Zenon
  <2>3. Own(inputs)' = Own(inputs)
    BY Zenon DEF Own, SameInputs
  <2>4. \A b \in path'["bc"] : MadeWith(b, Own(inputs))'
    BY <2>2, <2>3, Zenon DEF SameInputs
  <2>5. QED
    BY <2>4, Zenon DEF Coheres
<1>3. Vouches(Own(inputs))'
  <2>1. Known(Own(inputs))'
    BY Zenon DEF Known, SameInputs
  <2>2. QED
    BY <1>2, <2>1, Zenon DEF Vouches
<1>4. \A s \in Now("stamp") : s = Own(inputs)
  BY Zenon DEF Now
<1>5. Own(inputs)' = Own(inputs)
  BY Zenon DEF Own, SameInputs
<1>6. ASSUME NEW s \in path'["stamp"], path'["stamp"] # Absent PROVE Vouches(s)'
  <2>1. CASE s = Own(inputs)
    BY <1>3, <1>5, <2>1, Zenon
  <2>2. CASE s # Own(inputs)
    <3>1. path'["stamp"] = path["stamp"] /\ torn'
      BY <1>4, <1>6, <2>2, Zenon
    <3>2. Known(s)
      BY <1>6, <3>1, Zenon DEF StampsOK, Vouches
    <3>3. Old(s)
      BY <2>2, <3>2, Zenon DEF Known
    <3>4. Old(s)' /\ Known(s)'
      BY <3>2, <3>3, Zenon DEF SameInputs
    <3>5. QED
      BY <3>1, <3>4, Zenon DEF Vouches
  <2>3. QED
    BY <2>1, <2>2, Zenon
<1>7. QED
  BY <1>6, Zenon DEF StampsOK

\* The steps that only move the run that takes them.
LEMMA StandOfMoves ==
  ASSUME TypeInv, StandInv, NEW r \in Runs,
         \/ ReadDeps(r) \/ ReadStamp(r) \/ HashInputs(r) \/ Probe(r) \/ Reuse(r)
         \/ Compile(r) \/ Fragment(r) \/ WriteFails(r) \/ RenameFails(r) \/ RemoveDepfile(r)
         \/ Add(r) \/ Exit(r) \/ Crash(r) \/ Start(r)
  PROVE  StandInv'
<1>1. /\ disturbed' = disturbed /\ UNCHANGED <<path, torn>>
      /\ \A q \in Runs : q \in calm' => q \in calm \/ (q = r /\ Start(r))
  BY MovesLeave, Zenon
<1> SUFFICES ASSUME ~disturbed'
             PROVE  /\ StampsOK'
                    /\ \A q \in Runs : StandOK(run[q])' /\ (q \in calm' => QuietOK(run[q])')
  BY Zenon DEF StandInv
<1>2. StampsOK /\ \A q \in Runs : StandOK(run[q]) /\ (q \in calm => QuietOK(run[q]))
  BY <1>1 DEF StandInv
<1>3. FilesStand /\ SameInputs /\ MoverOK(r)
  BY MoveFiles, MoverFacts, TrustStays, Zenon
<1>4. \A q \in Runs \ {r} : run'[q] = run[q]
  <2>1. MovedTyped(r)
    BY ReadsTyped, LookupTyped, CompileTyped, EndsTyped, Zenon
  <2>2. QED
    BY <2>1, Zenon DEF MovedTyped, TypeInv
<1>5. StandOK(run[r])' /\ (r \in calm' => QuietOK(run[r])')
  <2>1. Standing(r)
    BY <1>2, Zenon DEF Standing
  <2>2. r \in calm' => Watched(r)
    BY <1>1, Zenon DEF Watched, Start, At
  <2>3. QED
    BY <1>3, <2>1, <2>2, Zenon DEF MoverOK
<1>6. ASSUME NEW q \in Runs \ {r} PROVE StandOK(run[q])' /\ (q \in calm' => QuietOK(run[q])')
  BY <1>1, <1>2, <1>3, <1>4, StandOfOthers, Zenon
<1>7. StampsOK'
  BY <1>1, <1>2, <1>3, StampsStay, Zenon
<1>8. QED
  BY <1>5, <1>6, <1>7, Zenon

\* What a run that stands writes is what the inputs make.
LEMMA ValueNow ==
  ASSUME TypeInv, NEW r \in Runs, StandOK(run[r]), run[r].pc \in Storing
  PROVE  /\ run[r].file # "deps" => run[r].file \in {"bc", "stamp"} /\ Value(run[r]) = Now(run[r].file)
         /\ Compiles(inputs)
<1>1. run[r].file \in CacheFile
  BY Zenon DEF TypeInv, RunRecord
<1>2. run[r].bitcode = Bitcode(inputs) /\ Compiles(inputs) /\ run[r].stamp = Now("stamp")
  BY Zenon DEF StandOK, Compiled, Storing
<1>3. CASE run[r].file = "bc"
  BY <1>2, <1>3, Zenon DEF Value, Now
<1>4. CASE run[r].file = "stamp"
  BY <1>2, <1>4, Zenon DEF Value
<1>5. QED
  BY <1>1, <1>2, <1>3, <1>4, Zenon DEF CacheFile

\* A step that leaves the other runs' records alone and the files as they should be: what is
\* left to show is the run's own record and the stamps.
LEMMA StandTogether ==
  ASSUME TypeInv, StandInv, ~disturbed, NEW r \in Runs, FilesStand, calm' = calm,
         \A q \in Runs \ {r} :
           /\ \A k \in {"pc", "file", "deps", "stamp", "bitcode", "stored", "unit", "via"} :
                run'[q][k] = run[q][k]
           /\ run'[q].fd = "path" =>
                \/ run[q].fd = "path"
                \/ /\ StampBehind'
                   /\ run[q].file # "deps" => path'[run[q].file] \subseteq Now(run[q].file),
         run'[r].pc \in Storing \cup {"discard"}, StampsOK', StandOK(run[r])'
  PROVE  StandInv'
<1>1. \A q \in Runs : StandOK(run[q]) /\ (q \in calm => QuietOK(run[q]))
  BY Zenon DEF StandInv
<1>2. QuietOK(run[r])'
  BY Zenon DEF QuietOK, Storing
<1>3. ASSUME NEW q \in Runs \ {r} PROVE StandOK(run[q])' /\ (q \in calm' => QuietOK(run[q])')
  BY <1>1, StandOfOthers, Zenon
<1>4. QED
  BY <1>2, <1>3, Zenon DEF StandInv

\* Opening truncates a temporary file.
LEMMA StandOfOpen ==
  ASSUME TypeInv, StandInv, ~disturbed, NEW r \in Runs, Open(r)
  PROVE  StandInv'
<1> DEFINE file == run[r].file
<1>1. /\ run[r] \in RunRecord /\ StandOK(run[r]) /\ StampsOK
      /\ run[r].pc = "open" /\ run[r].pc \in Storing /\ file \in CacheFile
  BY Zenon DEF TypeInv, StandInv, Open, At, Storing, RunRecord
<1>2. UNCHANGED <<inputs, past, path, depfile, torn, calm>>
  BY Zenon DEF Open, history
<1>3. \A g \in CacheFile : tmp'[g] = IF g = file THEN {} ELSE tmp[g]
  BY <1>1, Zenon DEF Open, TypeInv, FilesOK
<1>4. SameInputs
  BY <1>2, InputsStay, Zenon
<1>5. FilesStand
  <2>1. StampBehind => StampBehind'
    BY <1>2, <1>4 DEF StampBehind, SameInputs
  <2>2. QED
    BY <1>2, <1>3, <2>1, Zenon DEF FilesStand, CacheFile
<1>6. /\ run'[r].pc = "write" /\ run'[r].fd = "tmp"
      /\ \A k \in {"file", "deps", "stamp", "bitcode", "stored", "unit", "via"} :
           run'[r][k] = run[r][k]
      /\ \A q \in Runs \ {r} : run'[q] = run[q]
  BY <1>1, Zenon DEF TypeInv, Open, RunRecord
<1>7. StandOK(run[r])'
  <2>1. /\ run'[r].file = file /\ run'[r].deps = run[r].deps /\ run'[r].stamp = run[r].stamp
        /\ run'[r].bitcode = run[r].bitcode /\ run'[r].stored = run[r].stored
        /\ run'[r].unit = run[r].unit /\ run'[r].pc = "write" /\ run'[r].fd = "tmp"
    BY <1>6, Zenon
  <2>2. tmp'[run'[r].file] = {} /\ (Fresh => Fresh') /\ (StampBehind => StampBehind')
    BY <1>1, <1>3, <1>5, <2>1, TrustStays, Zenon DEF FilesStand
  <2>3. QED
    BY <1>1, <1>4, <2>1, <2>2, Zenon DEF StandOK, Compiled, Storing, Later, Kept, SameInputs
<1>8. StampsOK'
  BY <1>1, <1>2, <1>4, StampsStay, Zenon
<1>9. run'[r].pc \in Storing
  BY <1>6, Zenon DEF Storing
<1>10. QED
  BY <1>2, <1>5, <1>6, <1>7, <1>8, <1>9, StandTogether, Zenon

\* What a write leaves in the bitcode and in the stamp is what the inputs make.
LEMMA WriteStands ==
  ASSUME TypeInv, NEW r \in Runs, StandOK(run[r]), Write(r) \/ WriteIsLost(r)
  PROVE  \A f \in {"bc", "stamp"} :
           /\ tmp'[f] = tmp[f] \/ tmp'[f] \subseteq Now(f)
           /\ \/ path'[f] = path[f]
              \/ /\ path'[f] \subseteq Now(f) /\ path'[f] # Absent
                 /\ f = run[r].file /\ run[r].fd = "path"
<1>1. run[r] \in RunRecord /\ RunOK(run[r]) /\ run[r].pc = "write" /\ run[r].pc \in Storing
  BY Zenon DEF TypeInv, Write, WriteIsLost, At, Storing
<1>2. PICK bytes : Written(r, bytes)
  BY WriteFacts, Zenon
<1>3. run[r].file # "deps" => bytes \subseteq Now(run[r].file)
  <2>1. run[r].file # "deps" => Value(run[r]) = Now(run[r].file)
    BY <1>1, ValueNow, Zenon
  <2>2. run[r].file # "deps" => Held(run[r]) \subseteq Now(run[r].file)
    BY <1>1, Zenon DEF Held, StandOK, RunOK
  <2>3. QED
    BY <1>2, <2>1, <2>2, Zenon DEF Written
<1>4. \A g \in CacheFile :
        /\ path'[g] = IF run[r].fd = "path" /\ g = run[r].file THEN bytes ELSE path[g]
        /\ tmp'[g] = IF run[r].fd = "tmp" /\ g = run[r].file THEN bytes ELSE tmp[g]
  BY <1>1, <1>2, PutFacts, Zenon
<1>5. bytes # Absent
  BY <1>1, <1>2, PutFacts, Zenon
<1>6. ASSUME NEW f \in {"bc", "stamp"}
      PROVE  /\ tmp'[f] = tmp[f] \/ tmp'[f] \subseteq Now(f)
             /\ \/ path'[f] = path[f]
                \/ /\ path'[f] \subseteq Now(f) /\ path'[f] # Absent
                   /\ f = run[r].file /\ run[r].fd = "path"
  <2>1. f \in CacheFile /\ f # "deps"
    BY Zenon DEF CacheFile
  <2>2. QED
    BY <1>3, <1>4, <1>5, <2>1, Zenon
<1>7. QED
  BY <1>6, Zenon

\* Writing adds to a file only what the inputs make; a stamp is written once the entry is fresh.
LEMMA StandOfWrite ==
  ASSUME TypeInv, StandInv, ~disturbed, NEW r \in Runs, Write(r) \/ WriteIsLost(r)
  PROVE  StandInv'
<1> DEFINE file == run[r].file
<1>1. /\ run[r] \in RunRecord /\ StandOK(run[r]) /\ StampsOK
      /\ run[r].pc = "write" /\ run[r].pc \in Storing
  BY Zenon DEF TypeInv, StandInv, Write, WriteIsLost, At, Storing
<1>2. UNCHANGED <<inputs, past, depfile, torn, calm>>
  BY Zenon DEF Write, WriteIsLost, history
<1>3. SameInputs
  BY <1>2, InputsStay, Zenon
<1>4. /\ tmp'["bc"] = tmp["bc"] \/ tmp'["bc"] \subseteq Now("bc")
      /\ tmp'["stamp"] = tmp["stamp"] \/ tmp'["stamp"] \subseteq Now("stamp")
      /\ \/ path'["bc"] = path["bc"]
         \/ path'["bc"] \subseteq Now("bc") /\ path'["bc"] # Absent /\ file = "bc" /\ run[r].fd = "path"
      /\ \/ path'["stamp"] = path["stamp"]
         \/ path'["stamp"] \subseteq Now("stamp") /\ file = "stamp"
  BY <1>1, WriteStands, Zenon
<1>5. Fresh' \/ (path'["bc"] = path["bc"] /\ torn' = torn)
  BY <1>2, <1>3, <1>4, Zenon DEF Fresh, SameInputs
<1>6. StampBehind => StampBehind'
  BY <1>2, <1>3, <1>4 DEF StampBehind, SameInputs
<1>7. FilesStand
  BY <1>2, <1>4, <1>5, <1>6, Zenon DEF FilesStand
<1>8. /\ run'[r].pc = "rename" /\ run'[r].fd = "closed"
      /\ \A k \in {"file", "deps", "stamp", "bitcode", "stored", "unit", "via"} :
           run'[r][k] = run[r][k]
      /\ \A q \in Runs \ {r} : run'[q] = run[q]
  <2>1. run' = [run EXCEPT ![r] = [run[r] EXCEPT !.pc = "rename", !.fd = "closed"]]
    BY Zenon DEF Write, WriteIsLost
  <2>2. QED
    BY <1>1, <2>1 DEF TypeInv, RunRecord
<1>9. StandOK(run[r])'
  <2>1. /\ run'[r].file = file /\ run'[r].deps = run[r].deps /\ run'[r].stamp = run[r].stamp
        /\ run'[r].bitcode = run[r].bitcode /\ run'[r].stored = run[r].stored
        /\ run'[r].unit = run[r].unit /\ run'[r].pc = "rename" /\ run'[r].fd = "closed"
    BY <1>8, Zenon
  <2>2. file # "deps" => tmp'[file] = Absent \/ tmp'[file] \subseteq Now(file)
    <3>1. file # "deps" => file = "bc" \/ file = "stamp"
      BY <1>1, Zenon DEF RunRecord, CacheFile
    <3>2. file # "deps" => tmp[file] = Absent \/ tmp[file] \subseteq Now(file)
      BY <1>1, Zenon DEF StandOK
    <3>3. QED
      BY <1>4, <3>1, <3>2
  <2>3. (Fresh => Fresh') /\ \A f : Now(f)' = Now(f)
    BY <1>3, <1>7, TrustStays, Zenon DEF SameInputs
  <2>4. tmp'[run'[r].file] = tmp'[file] /\ Now(run[r].file)' = Now(file)
    BY <2>1, <2>3, Zenon
  <2>5. QED
    BY <1>1, <1>3, <1>6, <2>1, <2>2, <2>3, <2>4, Zenon
       DEF StandOK, Compiled, Storing, Later, Kept, SameInputs
<1>10. StampsOK'
  <2>1. CASE path'["bc"] = path["bc"] /\ path'["stamp"] = path["stamp"]
    BY <1>1, <1>2, <1>3, <2>1, StampsStay, Zenon
  <2>2. CASE path'["bc"] # path["bc"]
    <3>1. path'["stamp"] = path["stamp"] /\ Fresh'
      BY <1>4, <1>5, <2>2, Zenon
    <3>2. StampBehind
      BY <1>1, <1>4, <2>2, Zenon DEF StandOK
    <3>3. torn' \/ path["stamp"] = Absent \/ path["stamp"] \subseteq Now("stamp")
      BY <1>2, <3>2 DEF StampBehind
    <3>4. CASE path["stamp"] = Absent
      BY <3>1, <3>4, Zenon DEF StampsOK
    <3>5. CASE torn' \/ path["stamp"] \subseteq Now("stamp")
      BY <1>1, <1>3, <3>1, <3>5, ValueNow, StampsFollow, Zenon
    <3>6. QED
      BY <3>3, <3>4, <3>5, Zenon
  <2>3. CASE path'["stamp"] # path["stamp"]
    <3>1. path'["stamp"] \subseteq Now("stamp") /\ file = "stamp"
      BY <1>4, <2>3, Zenon
    <3>2. Fresh'
      BY <1>1, <1>7, <3>1, TrustStays, Zenon DEF StandOK, Later
    <3>3. QED
      BY <1>1, <1>3, <3>1, <3>2, ValueNow, StampsFollow, Zenon
  <2>4. QED
    BY <2>1, <2>2, <2>3, Zenon
<1>11. run'[r].pc \in Storing
  BY <1>8, Zenon DEF Storing
<1>12. QED
  BY <1>2, <1>7, <1>8, <1>9, <1>10, <1>11, StandTogether, Zenon

\* Renaming puts into the entry what the inputs make, the bitcode first.
LEMMA StandOfRename ==
  ASSUME TypeInv, StandInv, ~disturbed, NEW r \in Runs, Rename(r)
  PROVE  StandInv'
<1> DEFINE file == run[r].file
<1>1. /\ run[r] \in RunRecord /\ StandOK(run[r]) /\ StampsOK
      /\ run[r].pc = "rename" /\ run[r].pc \in Storing
      /\ file \in CacheFile /\ tmp[file] # Absent /\ run[r].fd = "closed" /\ ~run[r].stored
  BY Zenon DEF TypeInv, StandInv, Rename, At, Storing, RunRecord, RunOK
<1>2. UNCHANGED <<inputs, past, depfile, calm>>
  BY Zenon DEF Rename
<1>3. SameInputs /\ Compiles(inputs)
  BY <1>1, <1>2, InputsStay, ValueNow, Zenon
<1>4. /\ \A g \in CacheFile : path'[g] = IF g = file THEN tmp[file] ELSE path[g]
      /\ \A g \in CacheFile : tmp'[g] = IF g = file THEN Absent ELSE tmp[g]
  BY <1>1, Zenon DEF Rename, TypeInv, FilesOK
<1>5. file # "deps" => path'[file] # Absent /\ path'[file] \subseteq Now(file)
  BY <1>1, <1>4, Zenon DEF StandOK
<1>6. /\ path'["bc"] = (IF file = "bc" THEN tmp["bc"] ELSE path["bc"])
      /\ path'["stamp"] = (IF file = "stamp" THEN tmp["stamp"] ELSE path["stamp"])
      /\ tmp'["bc"] \in {tmp["bc"], Absent} /\ tmp'["stamp"] \in {tmp["stamp"], Absent}
  BY <1>4, Zenon DEF CacheFile
<1>7. /\ file = "bc" => torn'
      /\ file = "deps" => torn' = torn
      /\ file = "bc" \/ file = "deps" \/ file = "stamp"
  BY <1>1, Zenon DEF Rename, CacheFile
<1>8. file # "deps" => Fresh'
  <2>1. CASE file = "bc"
    BY <1>3, <1>5, <2>1, Zenon DEF Fresh, SameInputs
  <2>2. CASE file = "stamp"
    <3>1. Fresh /\ path'["bc"] = path["bc"]
      BY <1>1, <1>6, <2>2, Zenon DEF StandOK, Later
    <3>2. QED
      BY <1>3, <3>1, Zenon DEF Fresh, SameInputs
  <2>3. QED
    BY <1>7, <2>1, <2>2, Zenon
<1>9. (StampBehind => StampBehind') /\ (file # "deps" => StampBehind')
  <2>1. CASE file = "bc"
    BY <1>7, <2>1, Zenon DEF StampBehind
  <2>2. CASE file = "stamp"
    BY <1>3, <1>5, <2>2, Zenon DEF StampBehind, SameInputs
  <2>3. CASE file = "deps"
    BY <1>3, <1>6, <1>7, <2>3 DEF StampBehind, SameInputs
  <2>4. QED
    BY <1>7, <2>1, <2>2, <2>3, Zenon
<1>10. FilesStand
  <2>1. Fresh' \/ (path'["bc"] = path["bc"] /\ torn' = torn)
    BY <1>6, <1>7, <1>8, Zenon
  <2>2. /\ path'["bc"] = path["bc"] \/ path'["bc"] \subseteq Now("bc")
        /\ path'["stamp"] = path["stamp"] \/ path'["stamp"] \subseteq Now("stamp")
    BY <1>5, <1>6, Zenon
  <2>3. QED
    BY <1>2, <1>6, <1>9, <2>1, <2>2, Zenon DEF FilesStand
<1>11. run'[r] = After(run[r])
  BY Zenon DEF Rename
<1>12. /\ run'[r].fd = "closed" /\ run'[r].deps = run[r].deps /\ run'[r].stamp = run[r].stamp
       /\ run'[r].bitcode = run[r].bitcode /\ run'[r].unit = run[r].unit
       /\ run'[r].pc \in {"open", "discard"}
       /\ file = "deps" => run'[r].file = "stamp" /\ run'[r].stored = run[r].stored
  BY <1>1, <1>11, AfterFacts DEF CacheFile
<1>13. StandOK(run[r])'
  <2>1. Fresh'
    BY <1>1, <1>8, <1>10, TrustStays, Zenon DEF StandOK, Later
  <2>2. StampBehind'
    BY <1>1, <1>9, Zenon DEF StandOK, Later
  <2>3. QED
    BY <1>1, <1>3, <1>12, <2>1, <2>2, Zenon DEF StandOK, Compiled, Storing, Later, Kept, SameInputs
<1>14. ASSUME NEW q \in Runs \ {r}
       PROVE  /\ \A k \in {"pc", "file", "deps", "stamp", "bitcode", "stored", "unit", "via"} :
                   run'[q][k] = run[q][k]
              /\ run'[q].fd = "path" =>
                   \/ run[q].fd = "path"
                   \/ /\ StampBehind'
                      /\ run[q].file # "deps" => path'[run[q].file] \subseteq Now(run[q].file)
  <2> DEFINE moved == Moved(q, file, "path", "unlinked")
  <2>1. /\ run'[q] = [run[q] EXCEPT !.fd = moved] /\ run[q] \in RunRecord /\ StandOK(run[q])
        /\ RunOK(run[q])
    BY Zenon DEF Rename, TypeInv, StandInv
  <2>2. moved = "path" => \/ run[q].fd = "path"
                          \/ run[q].fd = "tmp" /\ run[q].file = file
    BY <1>1, <2>1, MovedFacts, Zenon
  <2> HIDE DEF moved
  <2>3. /\ run'[q].fd = moved
        /\ \A k \in {"pc", "file", "deps", "stamp", "bitcode", "stored", "unit", "via"} :
             run'[q][k] = run[q][k]
    BY <2>1, Zenon DEF RunRecord
  <2>4. run[q].fd = "tmp" /\ run[q].file = file => StampBehind'
    <3>1. run[q].fd = "tmp" => run[q].pc \in Storing
      BY <2>1, Zenon DEF RunOK, Storing
    <3>2. run[q].fd = "tmp" /\ run[q].file = "deps" => StampBehind
      BY <2>1, <3>1, Zenon DEF StandOK, Later
    <3>3. QED
      BY <1>9, <3>2, Zenon
  <2>5. QED
    BY <1>5, <2>2, <2>3, <2>4, Zenon
<1>15. StampsOK'
  <2>1. CASE file = "deps"
    BY <1>1, <1>3, <1>6, <1>7, <2>1, StampsStay, Zenon
  <2>2. CASE file = "bc"
    <3>1. path'["stamp"] = path["stamp"] /\ torn'
      BY <1>6, <1>7, <2>2, Zenon
    <3>2. QED
      BY <1>1, <1>3, <1>8, <2>2, <3>1, StampsFollow, Zenon
  <2>3. CASE file = "stamp"
    <3>1. path'["stamp"] \subseteq Now("stamp")
      BY <1>5, <2>3, Zenon
    <3>2. QED
      BY <1>1, <1>3, <1>8, <2>3, <3>1, StampsFollow, Zenon
  <2>4. QED
    BY <1>7, <2>1, <2>2, <2>3, Zenon
<1>16. run'[r].pc \in Storing \cup {"discard"}
  BY <1>12, Zenon DEF Storing
<1>17. QED
  BY <1>2, <1>10, <1>13, <1>14, <1>15, <1>16, StandTogether, Zenon

\* Unlinking takes a temporary file away.
LEMMA StandOfUnlink ==
  ASSUME TypeInv, StandInv, ~disturbed, NEW r \in Runs, Unlink(r)
  PROVE  StandInv'
<1> DEFINE file == run[r].file
<1>1. /\ run[r] \in RunRecord /\ StandOK(run[r]) /\ StampsOK
      /\ run[r].pc = "unlink" /\ file \in CacheFile /\ run[r].fd = "closed" /\ ~run[r].stored
  BY Zenon DEF TypeInv, StandInv, Unlink, At, RunRecord, RunOK
<1>2. UNCHANGED <<inputs, past, path, depfile, torn, calm>>
  BY Zenon DEF Unlink, history
<1>3. SameInputs
  BY <1>2, InputsStay, Zenon
<1>4. \A g \in CacheFile : tmp'[g] = IF g = file THEN Absent ELSE tmp[g]
  BY <1>1, Zenon DEF Unlink, TypeInv, FilesOK
<1>5. FilesStand
  <2>1. StampBehind => StampBehind'
    BY <1>2, <1>3 DEF StampBehind, SameInputs
  <2>2. QED
    BY <1>2, <1>4, <2>1, Zenon DEF FilesStand, CacheFile
<1>6. /\ run'[r].fd = "closed" /\ run'[r].bitcode = run[r].bitcode /\ run'[r].unit = run[r].unit
      /\ run'[r].pc = "discard" /\ run'[r].stored = run[r].stored
  <2>1. run'[r] = [run[r] EXCEPT !.pc = "discard"]
    BY Zenon DEF Unlink
  <2>2. QED
    BY <1>1, <2>1, Zenon DEF RunRecord
<1>7. StandOK(run[r])'
  BY <1>1, <1>3, <1>6, Zenon DEF StandOK, Compiled, Storing, Later, Kept, SameInputs
<1>8. ASSUME NEW q \in Runs \ {r}
      PROVE  /\ \A k \in {"pc", "file", "deps", "stamp", "bitcode", "stored", "unit", "via"} :
                  run'[q][k] = run[q][k]
             /\ run'[q].fd = "path" => run[q].fd = "path"
  <2> DEFINE moved == Moved(q, file, "unlinked", "path")
  <2>1. run'[q] = [run[q] EXCEPT !.fd = moved] /\ run[q] \in RunRecord
    BY Zenon DEF Unlink, TypeInv
  <2>2. moved = "path" => run[q].fd = "path"
    BY <1>1, <2>1, MovedFacts, Zenon
  <2> HIDE DEF moved
  <2>3. /\ run'[q].fd = moved
        /\ \A k \in {"pc", "file", "deps", "stamp", "bitcode", "stored", "unit", "via"} :
             run'[q][k] = run[q][k]
    BY <2>1 DEF RunRecord
  <2>4. QED
    BY <2>2, <2>3, Zenon
<1>9. StampsOK'
  BY <1>1, <1>2, <1>3, StampsStay, Zenon
<1>10. run'[r].pc \in Storing \cup {"discard"}
  BY <1>6, Zenon
<1>11. QED
  BY <1>2, <1>5, <1>7, <1>8, <1>9, <1>10, StandTogether, Zenon

\* An edit that disturbs no working run: what was known of the inputs is known of the past.
LEMMA StandOfEdit ==
  ASSUME TypeInv, StandInv, NEW f \in Input, NEW text \in Texts \cup {Gone}, Edit(f, text)
  PROVE  StandInv'
<1> SUFFICES ASSUME ~disturbed'
             PROVE  StampsOK' /\ \A r \in Runs : StandOK(run[r])' /\ r \notin calm'
  BY Zenon DEF StandInv
<1>1. /\ UNCHANGED <<path, tmp, depfile, run, torn>> /\ past' = past \cup {inputs} /\ calm' = {}
      /\ ~disturbed /\ \A r \in Runs : run[r].pc \notin Working
  BY Zenon DEF Edit, disk
<1>2. StampsOK /\ \A r \in Runs : StandOK(run[r])
  BY <1>1, Zenon DEF StandInv
<1>3. ASSUME NEW r \in Runs PROVE StandOK(run[r])'
  <2>1. /\ run'[r] = run[r] /\ run[r].pc \notin Working
        /\ run[r].fd # "closed" <=> run[r].pc = "write"
    BY <1>1, RunKnown, Zenon
  <2>2. /\ run[r].pc \notin Compiled /\ run[r].pc \notin Storing /\ run[r].pc # "fragment"
        /\ run[r].pc \notin {"write", "rename"} /\ run[r].fd = "closed"
        /\ run[r].pc \notin {"discard", "add"}
    BY <2>1, Zenon DEF Working, Compiled, Storing
  <2>3. QED
    BY <1>2, <2>1, <2>2, Zenon DEF StandOK, Later, Kept
<1>4. ASSUME NEW s, Vouches(s) PROVE Vouches(s)'
  <2>1. Known(s) => Old(s)'
    BY <1>1, Zenon DEF Known, Old
  <2>2. Coheres(s) => Coheres(s)'
    BY <1>1, Zenon DEF Coheres, MadeWith
  <2>3. torn /\ Old(s) => (torn /\ Old(s))'
    <3>1. torn => torn'
      BY <1>1
    <3>2. QED
      BY <2>1, <3>1, Zenon DEF Known
  <2>4. Known(s)'
    BY <1>4, <2>1, Zenon DEF Vouches, Known
  <2>5. QED
    BY <1>4, <2>2, <2>3, <2>4, Zenon DEF Vouches
<1>5. StampsOK'
  BY <1>1, <1>2, <1>4, Zenon DEF StampsOK
<1>6. QED
  BY <1>1, <1>3, <1>5, Zenon

\* Every step keeps what the runs hold, and what the entry's files hold, true of the inputs.
LEMMA StandStep ==
  ASSUME TypeInv, StandInv, [Next]_vars
  PROVE  StandInv'
<1>1. CASE UNCHANGED vars
  <2>1. UNCHANGED <<inputs, path, tmp, depfile, run, past, calm, disturbed, torn>>
    BY <1>1, Zenon DEF vars, disk, history
  <2>2. SameInputs
    BY <2>1, InputsStay, Zenon
  <2>3. FilesStand
    <3>1. StampBehind => StampBehind'
      BY <2>1, <2>2 DEF StampBehind, SameInputs
    <3>2. QED
      BY <2>1, <3>1, Zenon DEF FilesStand
  <2>4. ASSUME ~disturbed' PROVE StampsOK' /\ \A r \in Runs : StandOK(run[r])' /\ (r \in calm' => QuietOK(run[r])')
    <3>1. ~disturbed
      BY <2>1, <2>4
    <3>2. StampsOK /\ \A r \in Runs : StandOK(run[r]) /\ (r \in calm => QuietOK(run[r]))
      BY <3>1, Zenon DEF StandInv
    <3>3. StampsOK'
      BY <2>1, <2>2, <3>2, StampsStay, Zenon
    <3>4. QED
      BY <2>1, <2>3, <3>2, <3>3, StandOfOthers, Zenon
  <2>5. QED
    BY <2>4, Zenon DEF StandInv
<1>2. ASSUME NEW r \in Runs, Start(r) \/ Step(r) \/ Crash(r) PROVE StandInv'
  <2>1. CASE Open(r) \/ Write(r) \/ WriteIsLost(r) \/ Rename(r) \/ Unlink(r)
    <3>1. CASE disturbed
      <4>1. disturbed' = disturbed
        BY <2>1, Zenon DEF Open, Write, WriteIsLost, Rename, Unlink, history
      <4>2. QED
        BY <3>1, <4>1 DEF StandInv
    <3>2. CASE ~disturbed
      BY <2>1, <3>2, StandOfOpen, StandOfWrite, StandOfRename, StandOfUnlink, Zenon
    <3>3. QED
      BY <3>1, <3>2, Zenon
  <2>2. CASE ~(Open(r) \/ Write(r) \/ WriteIsLost(r) \/ Rename(r) \/ Unlink(r))
    BY <1>2, <2>2, StandOfMoves, Zenon DEF Step
  <2>3. QED
    BY <2>1, <2>2, Zenon
<1>3. ASSUME NEW f \in Input, NEW text \in Texts \cup {Gone}, Edit(f, text) PROVE StandInv'
  BY <1>3, StandOfEdit, Zenon
<1>4. QED
  BY <1>1, <1>2, <1>3, Zenon DEF Next

\* In an empty cache directory there is nothing to be wrong about.
LEMMA StandInit == Init => StandInv
<1> SUFFICES ASSUME Init PROVE StandInv
  OBVIOUS
<1>1. path["stamp"] = Absent /\ calm = {} /\ \A r \in Runs : run[r] = Idle
  BY Zenon DEF Init, CacheFile
<1>2. ASSUME NEW r \in Runs PROVE StandOK(run[r])
  BY <1>1 DEF StandOK, Idle, Compiled, Storing, Later, Kept
<1>3. QED
  BY <1>1, <1>2, Zenon DEF StandInv, StampsOK

\* The others of a run that no one has raced are not under way, and stay so.
LEMMA OthersIdle ==
  ASSUME TypeInv, AloneInv, ~raced, NEW r \in Runs, Start(r) \/ Step(r) \/ Crash(r), ~raced'
  PROVE  \A q \in Runs \ {r} : run[q] = Idle /\ run'[q] = Idle
<1>1. \A q \in Runs \ {r} : run[q].pc = "idle"
  <2>1. CASE Start(r)
    BY <2>1, Zenon DEF Start, At
  <2>2. CASE Step(r) \/ Crash(r)
    <3>1. run[r].pc # "idle"
      BY <2>2, Zenon DEF Step, Crash, ReadDeps, ReadStamp, HashInputs, Probe, Reuse, Compile, Fragment, Open,
                  Write, WriteIsLost, WriteFails, Rename, RenameFails, Unlink, RemoveDepfile, Add, Exit, At
    <3>2. QED
      BY <3>1, Zenon DEF AloneInv
  <2>3. QED
    BY <2>1, <2>2, Zenon
<1>2. \A q \in Runs \ {r} : run[q] = Idle
  BY <1>1, Zenon DEF TypeInv, RunOK
<1>3. \A q \in Runs \ {r} : run'[q] = run[q]
  <2>1. CASE Rename(r) \/ Unlink(r)
    <3>1. ASSUME NEW q \in Runs \ {r} PROVE run'[q] = run[q]
      <4>1. run[q].fd = "closed"
        BY <1>2 DEF Idle
      <4>2. \A file, a, b : Moved(q, file, a, b) = "closed"
        BY <4>1, Zenon DEF Moved
      <4>3. run'[q] = [run[q] EXCEPT !.fd = "closed"]
        <5>1. CASE Rename(r)
          BY <4>2, <5>1, Zenon DEF Rename
        <5>2. CASE Unlink(r)
          BY <4>2, <5>2, Zenon DEF Unlink
        <5>3. QED
          BY <2>1, <5>1, <5>2, Zenon
      <4>4. QED
        BY <1>2, <4>3 DEF Idle
    <3>2. QED
      BY <3>1, Zenon
  <2>2. CASE ~(Rename(r) \/ Unlink(r))
    BY <2>2, Zenon DEF TypeInv, Step, Start, Crash, ReadDeps, ReadStamp, HashInputs, Probe, Reuse, Compile,
                Fragment, Open, Write, WriteIsLost, WriteFails, RenameFails, RemoveDepfile, Add, Exit
  <2>3. QED
    BY <2>1, <2>2, Zenon
<1>4. QED
  BY <1>2, <1>3, Zenon

\* What one run alone leaves behind, but for what was lost: bitcode that is not empty, each
\* file it renamed in place, and its own record.
LEMMA AloneOfRun ==
  ASSUME TypeInv, AloneInv, ~raced, NEW r \in Runs, Start(r) \/ Step(r) \/ Crash(r)
  PROVE  BitcodeThere' /\ AloneOK(run[r])'
<1> DEFINE old == run[r]
<1> DEFINE file == run[r].file
<1>1. /\ old \in RunRecord /\ RunOK(old) /\ AloneOK(old) /\ file \in CacheFile /\ BitcodeThere
      /\ (old.stored => old.pc \in {"discard", "add", "done"})
  BY Zenon DEF TypeInv, AloneInv, RunRecord, CacheFile, RunOK
<1>2. CASE Open(r)
  <2>1. path' = path /\ tmp'[file] = {} /\ lost' = lost
    BY <1>1, <1>2, Zenon DEF Open, TypeInv, FilesOK, history
  <2>2. /\ old.pc = "open" /\ run'[r].pc = "write" /\ run'[r].fd = "tmp" /\ run'[r].file = file
        /\ run'[r].stored = old.stored /\ run'[r].bitcode = old.bitcode /\ run'[r].deps = old.deps
    BY <1>1, <1>2, Zenon DEF Open, At, TypeInv, RunRecord
  <2>3. QED
    BY <1>1, <2>1, <2>2, Zenon DEF AloneOK, BitcodeThere, InPlace, Later, Kept, Storing
<1>3. CASE Write(r) \/ WriteIsLost(r)
  <2>1. /\ old.pc = "write" /\ old.pc \in Storing /\ old.fd = "tmp" /\ tmp[file] = {}
        /\ Held(old) = {}
    BY <1>1, <1>3, Zenon DEF AloneOK, Write, WriteIsLost, At, Storing, Held
  <2>2. PICK bytes : /\ Put(old, bytes)
                     /\ bytes = Value(old) \/ file \in lost'
                     /\ \A f \in lost : f \in lost'
    <3>1. CASE Write(r)
      <4>1. PICK bytes \in Overwritten(Held(old), Value(old)) : Put(old, bytes)
        BY <3>1, Zenon DEF Write
      <4>2. bytes = Value(old)
        BY <2>1, <4>1, Zenon DEF Overwritten
      <4>3. lost' = lost
        BY <3>1, Zenon DEF Write, history
      <4>4. QED
        BY <4>1, <4>2, <4>3, Zenon
    <3>2. CASE WriteIsLost(r)
      <4>1. PICK bytes \in CutOff(old) : Put(old, bytes)
        BY <3>2, Zenon DEF WriteIsLost
      <4>2. lost' = lost \cup {file}
        BY <3>2, Zenon DEF WriteIsLost
      <4>3. QED
        BY <4>1, <4>2, Zenon
    <3>3. QED
      BY <1>3, <3>1, <3>2, Zenon
  <2>3. path' = path /\ tmp'[file] = bytes
    BY <1>1, <2>1, <2>2, Zenon DEF Put, TypeInv, FilesOK
  <2>4. run' = [run EXCEPT ![r] = [old EXCEPT !.pc = "rename", !.fd = "closed"]]
    BY <1>3, Zenon DEF Write, WriteIsLost
  <2>5. /\ run'[r].pc = "rename" /\ run'[r].file = file /\ run'[r].stored = old.stored
        /\ run'[r].bitcode = old.bitcode /\ run'[r].deps = old.deps /\ run'[r].stamp = old.stamp
    BY <1>1, <2>4 DEF TypeInv, RunRecord
  <2>6. Value(run[r])' = Value(old)
    BY <2>5, Zenon DEF Value
  <2>7. tmp'[run'[r].file] = bytes
    BY <2>3, <2>5, Zenon
  <2>8. QED
    BY <1>1, <2>1, <2>2, <2>3, <2>5, <2>6, <2>7, Zenon
       DEF AloneOK, BitcodeThere, InPlace, Later, Kept, Storing
<1>4. CASE Rename(r)
  <2>1. old.pc = "rename" /\ (file \in lost \/ tmp[file] = Value(old)) /\ lost' = lost
    BY <1>1, <1>4, Zenon DEF Rename, At, AloneOK
  <2>2. \A g \in CacheFile : path'[g] = IF g = file THEN tmp[file] ELSE path[g]
    BY <1>1, <1>4, Zenon DEF Rename, TypeInv, FilesOK
  <2>3. run'[r] = After(old)
    BY <1>4, Zenon DEF Rename
  <2>4. /\ file = "bc" => run'[r].pc = "open" /\ run'[r].file = "deps" /\ run'[r].stored = old.stored
        /\ file = "deps" => /\ run'[r].pc = "open" /\ run'[r].file = "stamp"
                            /\ run'[r].stored = old.stored
        /\ file = "stamp" => run'[r].pc = "discard"
        /\ file = "bc" \/ file = "deps" \/ file = "stamp"
        /\ run'[r].bitcode = old.bitcode /\ run'[r].deps = old.deps /\ run'[r].stamp = old.stamp
    BY <1>1, <2>3, AfterFacts DEF CacheFile
  <2>5. "bc" \in CacheFile /\ "deps" \in CacheFile /\ "stamp" \in CacheFile
    BY Zenon DEF CacheFile
  <2>6. CASE file = "bc"
    <3>1. "bc" \in lost' \/ path'["bc"] = {old.bitcode}
      BY <2>1, <2>2, <2>5, <2>6, Zenon DEF Value
    <3>2. QED
      BY <1>1, <2>1, <2>4, <2>6, <3>1, Zenon DEF AloneOK, BitcodeThere, InPlace, Later, Kept, Storing
  <2>7. CASE file = "deps"
    <3>1. /\ "deps" \in lost' \/ path'["deps"] = {old.deps}
          /\ path'["bc"] = path["bc"]
      BY <2>1, <2>2, <2>5, <2>7, Zenon DEF Value
    <3>2. QED
      BY <1>1, <2>1, <2>4, <2>7, <3>1, Zenon DEF AloneOK, BitcodeThere, InPlace, Later, Kept, Storing
  <2>8. CASE file = "stamp"
    <3>1. /\ "stamp" \in lost' \/ path'["stamp"] = old.stamp
          /\ path'["bc"] = path["bc"] /\ path'["deps"] = path["deps"]
      BY <2>1, <2>2, <2>5, <2>8, Zenon DEF Value
    <3>2. QED
      BY <1>1, <2>1, <2>4, <2>8, <3>1, Zenon DEF AloneOK, BitcodeThere, InPlace, Later, Kept, Storing
  <2>9. QED
    BY <2>4, <2>6, <2>7, <2>8, Zenon
<1>5. CASE Unlink(r)
  <2>1. /\ path' = path /\ lost' = lost /\ old.pc = "unlink"
        /\ run'[r] = [old EXCEPT !.pc = "discard"]
    BY <1>5, Zenon DEF Unlink, At, history
  <2>2. run'[r].pc = "discard" /\ run'[r].stored = old.stored
    BY <1>1, <2>1, Zenon DEF RunRecord
  <2>3. QED
    BY <1>1, <2>1, <2>2, Zenon DEF AloneOK, BitcodeThere, Later, Kept, Storing
<1>6. CASE ~(Open(r) \/ Write(r) \/ WriteIsLost(r) \/ Rename(r) \/ Unlink(r))
  <2>1. UNCHANGED <<path, tmp, torn, lost>> /\ MoverOK(r)
    BY <1>6, MoveFiles, MoverFacts, Zenon DEF Step
  <2>2. QED
    BY <1>1, <2>1, Zenon DEF MoverOK, BitcodeThere
<1>7. QED
  BY <1>2, <1>3, <1>4, <1>5, <1>6, Zenon

\* Every step keeps what is known of a run that no other raced: each file it renamed is in place.
LEMMA AloneStep ==
  ASSUME TypeInv, AloneInv, [Next]_vars
  PROVE  AloneInv'
<1>1. CASE UNCHANGED <<path, tmp, run, lost, raced>>
  <2>1. ASSUME NEW r \in Runs, AloneOK(run[r]) PROVE AloneOK(run[r])'
    <3>1. /\ run'[r] = run[r] /\ tmp' = tmp
          /\ Value(run[r])' = Value(run[r]) /\ (Later(run[r])' <=> Later(run[r]))
          /\ Kept(run[r])' <=> Kept(run[r])
          /\ \A f, held : InPlace(f, held)' <=> InPlace(f, held)
      BY <1>1, Zenon DEF Value, Later, Kept, InPlace
    <3>2. QED
      BY <1>1, <2>1, <3>1, Zenon DEF AloneOK
  <2>2. BitcodeThere => BitcodeThere'
    BY <1>1, Zenon DEF BitcodeThere
  <2>3. ~raced' => ~raced
    BY <1>1
  <2>4. QED
    BY <1>1, <2>1, <2>2, <2>3, Zenon DEF AloneInv
<1>2. ASSUME NEW r \in Runs, Start(r) \/ Step(r) \/ Crash(r) PROVE AloneInv'
  <2> SUFFICES ASSUME ~raced'
               PROVE  /\ \A p, q \in Runs : p # q => run'[p].pc = "idle" \/ run'[q].pc = "idle"
                      /\ BitcodeThere'
                      /\ \A q \in Runs : AloneOK(run[q])'
    BY Zenon DEF AloneInv
  <2>1. ~raced
    <3>1. CASE Open(r) \/ Write(r) \/ WriteIsLost(r) \/ Rename(r) \/ Unlink(r)
      <4>1. raced' = raced
        BY <3>1, Zenon DEF Open, Write, WriteIsLost, Rename, Unlink, history
      <4>2. QED
        BY <4>1
    <3>2. CASE ~(Open(r) \/ Write(r) \/ WriteIsLost(r) \/ Rename(r) \/ Unlink(r))
      BY <1>2, <3>2, MovesLeave, Zenon DEF Step
    <3>3. QED
      BY <3>1, <3>2, Zenon
  <2>2. \A q \in Runs \ {r} : run[q] = Idle /\ run'[q] = Idle
    BY <1>2, <2>1, OthersIdle, Zenon
  <2>3. BitcodeThere' /\ AloneOK(run[r])'
    BY <1>2, <2>1, AloneOfRun, Zenon
  <2>4. ASSUME NEW q \in Runs \ {r} PROVE AloneOK(run[q])'
    BY <2>2 DEF AloneOK, Idle, Storing, Later, Kept
  <2>5. \A p, q \in Runs : p # q => run'[p].pc = "idle" \/ run'[q].pc = "idle"
    BY <2>2 DEF Idle
  <2>6. QED
    BY <2>3, <2>4, <2>5, Zenon
<1>3. CASE \E f \in Input, text \in Texts \cup {Gone} : Edit(f, text)
  <2>1. UNCHANGED <<path, tmp, run, lost, raced>>
    BY <1>3, Zenon DEF Edit, disk
  <2>2. QED
    BY <1>1, <2>1, Zenon
<1>4. CASE UNCHANGED vars
  <2>1. UNCHANGED <<path, tmp, run, lost, raced>>
    BY <1>4, Zenon DEF vars, disk, history
  <2>2. QED
    BY <1>1, <2>1, Zenon
<1>5. QED
  BY <1>2, <1>3, <1>4, Zenon DEF Next

\* No run has renamed anything at the start.
LEMMA AloneInit == Init => AloneInv
<1> SUFFICES ASSUME Init PROVE AloneInv
  OBVIOUS
<1>1. BitcodeThere /\ \A r \in Runs : run[r] = Idle
  BY AbsentAssumption, Zenon DEF Init, BitcodeThere, CacheFile
<1>2. ASSUME NEW r \in Runs PROVE AloneOK(run[r]) /\ run[r].pc = "idle"
  BY <1>1 DEF AloneOK, Idle, Storing, Later, Kept
<1>3. QED
  BY <1>1, <1>2, Zenon DEF AloneInv

\* However runs start, crash, race, lose what they flush and inputs are edited, removed and
\* put back: as long as no edit falls into a compilation or a store, every digest in the stamp
\* file is of the bitcode beside it, or is known to be older than it, and every run under way
\* holds what the inputs make.  What a run stored that no other raced is in place, file by
\* file, but for the files whose flush was lost.
THEOREM CacheKeepsInv == Spec => [](TypeInv /\ StandInv /\ AloneInv)
<1>1. Init => TypeInv /\ StandInv /\ AloneInv
  BY TypeInit, StandInit, AloneInit, Zenon
<1>2. TypeInv /\ StandInv /\ AloneInv /\ [Next]_vars => (TypeInv /\ StandInv /\ AloneInv)'
  BY TypeStep, StandStep, AloneStep, Zenon
<1>3. QED
  BY <1>1, <1>2, PTL DEF Spec

\* "Any of them changing is a miss" (ir_cache.hpp:17), with the exceptions that lookupPath and
\* store make: texts that run together, and a stamp left behind by a store that was cut short.
THEOREM EntriesFresh == Spec => []EntryIsFresh
<1>1. TypeInv /\ StandInv /\ AloneInv => EntryIsFresh
  <2> SUFFICES ASSUME TypeInv, StandInv, AloneInv, NEW deps \in DepLists \cup {<<>>}, Accepts(deps)
               PROVE  /\ \/ disturbed
                         \/ \A b \in path["bc"] : \/ b = Bitcode(inputs) \/ RunsTogether(b, deps)
                                                  \/ torn /\ LookPast(deps)
                      /\ raced \/ "bc" \in lost \/ path["bc"] # {}
    BY Zenon DEF EntryIsFresh
  <2>1. Readable(deps, inputs) /\ path["stamp"] = {Stamp(deps, inputs)} /\ path["bc"] # Absent
    BY Zenon DEF Accepts
  <2>2. path["stamp"] # Absent
    <3>1. Stamp(deps, inputs) \in Digests
      BY <2>1, MadeFacts, Zenon DEF TypeInv
    <3>2. QED
      BY <2>1, <3>1, AbsentAssumption, Zenon
  <2>3. ~disturbed => Trusted(Stamp(deps, inputs))
    BY <2>1, <2>2, Zenon DEF StandInv, StampsOK, Vouches, Trusted
  <2>4. ASSUME ~disturbed, NEW b \in path["bc"]
        PROVE  b = Bitcode(inputs) \/ RunsTogether(b, deps) \/ (torn /\ LookPast(deps))
    BY <2>1, <2>3, <2>4, Trusting, Zenon
  <2>5. QED
    BY <2>4, Zenon DEF AloneInv, BitcodeThere
<1>2. QED
  BY <1>1, CacheKeepsInv, PTL

\* When store returns the path of the bitcode to a run that no other raced and that no edit
\* disturbed, each file whose flush was not lost holds what this run made, and with none lost
\* the next lookup finds the entry (ir_cache.hpp:34).
THEOREM StoredComplete == Spec => []StoredIsComplete
<1>1. TypeInv /\ StandInv /\ AloneInv => StoredIsComplete
  <2> SUFFICES ASSUME TypeInv, StandInv, AloneInv, ~raced, ~disturbed, NEW r \in Runs,
                      run[r].pc = "add", run[r].stored
               PROVE  /\ "bc" \in lost \/ path["bc"] = {Bitcode(inputs)}
                      /\ "deps" \in lost \/ path["deps"] = {Prerequisites(inputs)}
                      /\ lost = {} => Accepts(Prerequisites(inputs))
    BY Zenon DEF StoredIsComplete, At
  <2>1. /\ InPlace("bc", {run[r].bitcode}) /\ InPlace("deps", {run[r].deps})
        /\ InPlace("stamp", run[r].stamp)
    BY Zenon DEF AloneInv, AloneOK, Kept
  <2>2. /\ run[r].bitcode = Bitcode(inputs) /\ Compiles(inputs)
        /\ run[r].deps = Prerequisites(inputs) /\ run[r].stamp = {Own(inputs)} /\ Fresh
    BY Zenon DEF StandInv, StandOK, Kept, Compiled, Now
  <2>3. ASSUME lost = {} PROVE Accepts(Prerequisites(inputs))
    <3>1. /\ path["deps"] = {Prerequisites(inputs)} /\ path["stamp"] = {Own(inputs)}
          /\ path["bc"] # Absent
      BY <2>1, <2>2, <2>3, Zenon DEF InPlace, Fresh
    <3>2. path["deps"] # Absent
      <4>1. {Prerequisites(inputs)} \in SUBSET DepLists
        BY MadeFacts, Zenon DEF TypeInv
      <4>2. QED
        BY <3>1, <4>1, AbsentAssumption, Zenon
    <3>3. Prerequisites(inputs) \in Lists(path["deps"])
      BY <3>1, Zenon DEF Lists
    <3>4. QED
      BY <2>2, <3>1, <3>2, <3>3, Zenon DEF Accepts, Own, Compiles
  <2>4. QED
    BY <2>1, <2>2, <2>3, Zenon DEF InPlace
<1>2. QED
  BY <1>1, CacheKeepsInv, PTL

\* "A cache that cannot be written is a slow run, not a wrong one" (ir_cache.hpp:35): whatever
\* was given up or crashed before, the unit analyzeProject hands on is the bitcode of the
\* inputs, with the exceptions of CacheOnlySlows.
THEOREM UnitsAreOfTheInputs == Spec => []CacheOnlySlows
<1>1. TypeInv /\ StandInv /\ AloneInv => CacheOnlySlows
  <2> SUFFICES ASSUME TypeInv, StandInv, AloneInv, NEW r \in Runs, run[r].pc = "done"
               PROVE  /\ disturbed \/ r \notin calm \/ \A b \in run[r].unit : UnitOK(run[r], b)
                      /\ raced \/ "bc" \in lost \/ run[r].via = "failed" \/ run[r].unit # {}
    BY Zenon DEF CacheOnlySlows, UnitOK, At
  <2>1. disturbed \/ r \notin calm \/ \A b \in run[r].unit : UnitOK(run[r], b)
    BY Zenon DEF StandInv, QuietOK
  <2>2. raced \/ "bc" \in lost \/ run[r].via = "failed" \/ run[r].unit # {}
    BY Zenon DEF AloneInv, AloneOK
  <2>3. QED
    BY <2>1, <2>2, Zenon
<1>2. QED
  BY <1>1, CacheKeepsInv, PTL
=============================================================================
