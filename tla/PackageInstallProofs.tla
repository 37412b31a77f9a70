------------------------ MODULE PackageInstallProofs ------------------------
(***************************************************************************)
(* The safety of the package tool for any manifests, any dependency graph  *)
(* and any number of projects over one store.  The inductive invariants    *)
(* say of every process:                                                   *)
(*                                                                         *)
(* InOrder   what it has in hand fits how far it has come;                 *)
(* Selects   what is asked for is met already or still queued;             *)
(* Fetches   whatever is chosen has been fetched or is being fetched;      *)
(* Backed    what it has fetched, and what it is about to write to the     *)
(*           lock, is in the store and, if it could be linked, in lib/;    *)
(*                                                                         *)
(* and of the store: Filling, a file that a process has copied into a tree *)
(* is there unless the copy of another was cut short, or is in progress.   *)
(* A second layer, Metered, counts the walk of the resolver against what   *)
(* the manifest and the fetched packages ask for.                          *)
(***************************************************************************)
EXTENDS PackageInstall, SequenceTheorems, FiniteSetTheorems, WellFoundedInduction, TLAPS

Names == {r.name : r \in Refs}
Maps(S, T) == UNION {[D -> T] : D \in SUBSET S}
Entries == [version : Nat, integrity : Hashes \cup {None}, requires : Seq(Refs)]

\* What is chosen or locked under a name is a package that can be asked for.
Selections == {f \in Maps(Names, Nat) : \A n \in DOMAIN f : [name |-> n, version |-> f[n]] \in Refs}
Locks == {f \in Maps(Names, Entries) :
            \A n \in DOMAIN f : [name |-> n, version |-> f[n].version] \in Refs}
RequireMaps == Maps(Names, Seq(Refs))
FetchMaps == Maps(Refs, Hashes \cup {None})

Fetching == {"fetch", "mkdir", "copy", "fill", "stored"}
Steps == {"idle", "resolve", "sync", "link"} \cup Fetching \cup Placing

\* What a process has in hand, or None.
SomeCommand == Commands \cup {None}
SomeManifest == Manifests \cup {None}
SomeRef == Refs \cup {None}
SomeHash == Hashes \cup {None}
SomeFile == Files \cup {None}
Queues == Seq(Refs)
NameSets == SUBSET Names
FileSets == SUBSET Files

Processes ==
  [pc : Steps, command : SomeCommand, manifest : SomeManifest, locked : Locks,
   pending : Queues, minimums : Selections, requires_map : RequireMaps, iterations : Nat,
   fetched : FetchMaps, current : SomeRef, hash : SomeHash, copied : FileSets, file : SomeFile,
   todo : NameSets, lf : Locks]

LockFiles == [whole : BOOLEAN, packages : Locks] \cup {None}

World ==
  /\ manifest \in [Projects -> Manifests]
  /\ events \in 0 .. MaxEvents
  /\ published \in [Refs -> 1 .. events + 1]
  /\ cas \in [Hashes -> (SUBSET Files) \cup {None}]
  /\ torn \subseteq Hashes
  /\ lib \in [Projects -> [Refs -> Hashes \cup {None}]]
  /\ lock \in [Projects -> LockFiles]
  /\ tmp \in [Projects -> LockFiles]
  /\ proc \in [Projects -> Processes]

Runs(p, verb) == p.pc # "idle" /\ p.command.verb = verb
Chosen(p, n) == [name |-> n, version |-> p.minimums[n]]

InOrder(p) ==
  /\ p.pc # "idle" => p.command \in Commands
  /\ Runs(p, "install") => p.manifest \in Manifests
  /\ p.pc \in {"resolve"} \cup Placing => p.command.verb = "install"
  /\ p.pc \in Fetching => p.current \in Refs
  /\ p.pc \in Fetching \ {"fetch"} => p.hash \in Hashes /\ p.hash.ref = p.current
  /\ p.pc = "fill" => p.file \in Files
  /\ ~Copying(p) => p.copied = {}
  /\ p.pc \in Placing => p.pending = <<>> /\ p.todo \subseteq DOMAIN p.minimums
  /\ p.pc \in {"sync", "link"} => p.command.verb = "sync"
  /\ Runs(p, "sync") => p.todo \subseteq DOMAIN p.lf

\* A minimum that is high enough for r.
Met(p, r) == r.name \in DOMAIN p.minimums /\ p.minimums[r.name] >= Forced(p.manifest, r).version

Selects(p) ==
  Runs(p, "install") =>
    /\ \A r \in Asked(p) : Met(p, r) \/ r \in ToSet(p.pending)
    /\ \A n \in DOMAIN p.minimums : Chosen(p, n) \notin p.manifest.excludes

Fetches(p) ==
  Runs(p, "install") =>
    /\ \A r \in DOMAIN p.fetched : p.fetched[r] # None => p.fetched[r].ref = r
    /\ \A n \in DOMAIN p.minimums :
         \/ p.pc \in Fetching /\ p.current = Chosen(p, n)
         \/ /\ n \in DOMAIN p.requires_map
            /\ p.command.offline \/ Chosen(p, n) \in DOMAIN p.fetched

\* What process p of a project with these links relies on.
Backed(p, store, links) ==
  /\ p.pc \in {"copy", "fill", "stored"} => store[p.hash] # None
  /\ Runs(p, "install") =>
       /\ \A r \in DOMAIN p.fetched : p.fetched[r] # None => store[p.fetched[r]] # None
       /\ \A n \in DOMAIN p.lf : p.lf[n].integrity # None =>
            /\ store[p.lf[n].integrity] # None /\ p.lf[n].integrity.ref.name = n
            /\ links[p.lf[n].integrity.ref] \in {p.lf[n].integrity, None}

Written(p, file) == p.pc = "rename" => file = [whole |-> TRUE, packages |-> p.lf]

Agrees(p, store, links, file) ==
  InOrder(p) /\ Selects(p) /\ Fetches(p) /\ Backed(p, store, links) /\ Written(p, file)

ProcessesAgree == \A j \in Projects : Agrees(proc[j], cas, lib[j], tmp[j])

\* The files of a tree that is being copied.
Filling ==
  \A j \in Projects : Copying(proc[j]) =>
    \A f \in proc[j].copied :
      \/ f \in cas[proc[j].hash]
      \/ proc[j].hash \in torn
      \/ \E k \in Projects : proc[k].pc = "fill" /\ proc[k].hash = proc[j].hash /\ proc[k].file = f

Inductive == World /\ ProcessesAgree /\ Filling /\ TreesFill


-----------------------------------------------------------------------------
(* Maps, names and sequences.                                              *)

\* What a BTreeMap holds.
LEMMA MapValues ==
  ASSUME NEW S, NEW T, NEW f \in Maps(S, T)
  PROVE  DOMAIN f \subseteq S /\ \A x \in DOMAIN f : f[x] \in T
BY DEF Maps

\* BTreeMap::new.
LEMMA EmptyMap ==
  /\ DOMAIN Empty = {}
  /\ \A S, T : Empty \in Maps(S, T)
<1>1. DOMAIN Empty = {}
  BY DEF Empty
<1>2. ASSUME NEW S, NEW T PROVE Empty \in Maps(S, T)
  <2>1. Empty \in [{} -> T] /\ {} \in SUBSET S
    BY DEF Empty
  <2> QED BY <2>1 DEF Maps
<1> QED BY <1>1, <1>2

\* BTreeMap::insert.
LEMMA BoundMap ==
  ASSUME NEW S, NEW T, NEW f \in Maps(S, T), NEW x \in S, NEW v \in T
  PROVE  Bind(f, x, v) \in Maps(S, T)
<1>1. DOMAIN f \cup {x} \in SUBSET S /\ \A y \in DOMAIN f : f[y] \in T
  BY MapValues
<1>2. Bind(f, x, v) \in [DOMAIN f \cup {x} -> T]
  BY <1>1 DEF Bind
<1> QED BY <1>1, <1>2 DEF Maps

\* The packages of a sequence that loses its first or is continued.
LEMMA Elements ==
  ASSUME NEW S
  PROVE  /\ <<>> \in Seq(S) /\ ToSet(<<>>) = {}
         /\ \A s \in Seq(S) : \A x \in ToSet(s) : x \in S
         /\ \A s \in Seq(S) : s # <<>> =>
              /\ Head(s) \in S /\ Tail(s) \in Seq(S)
              /\ \A x \in ToSet(s) : x = Head(s) \/ x \in ToSet(Tail(s))
         /\ \A s, r \in Seq(S) :
              /\ s \o r \in Seq(S)
              /\ \A x : x \in ToSet(s) \/ x \in ToSet(r) => x \in ToSet(s \o r)
<1>1. <<>> \in Seq(S) /\ ToSet(<<>>) = {}
  BY DEF ToSet
<1>2. ASSUME NEW s \in Seq(S), NEW x \in ToSet(s) PROVE x \in S
  BY LenProperties DEF ToSet
<1>3. ASSUME NEW s \in Seq(S), s # <<>>
      PROVE  /\ Head(s) \in S /\ Tail(s) \in Seq(S)
             /\ \A x \in ToSet(s) : x = Head(s) \/ x \in ToSet(Tail(s))
  <2>1. /\ Head(s) \in S /\ Tail(s) \in Seq(S)
        /\ Len(s) \in Nat \ {0} /\ Len(Tail(s)) = Len(s) - 1 /\ Head(s) = s[1]
        /\ \A i \in 1 .. Len(Tail(s)) : Tail(s)[i] = s[i + 1]
    BY <1>3, HeadTailProperties, EmptySeq
  <2>2. DOMAIN s = 1 .. Len(s) /\ DOMAIN Tail(s) = 1 .. Len(Tail(s))
    BY <2>1, LenProperties
  <2>3. ASSUME NEW x \in ToSet(s) PROVE x = Head(s) \/ x \in ToSet(Tail(s))
    <3>1. PICK i \in 1 .. Len(s) : x = s[i]
      BY <2>2 DEF ToSet
    <3>2. CASE i = 1
      BY <2>1, <3>1, <3>2
    <3>3. CASE i # 1
      <4>1. i - 1 \in 1 .. Len(Tail(s)) /\ x = Tail(s)[i - 1]
        BY <2>1, <3>1, <3>3
      <4> QED BY <2>2, <4>1 DEF ToSet
    <3> QED BY <3>2, <3>3
  <2> QED BY <2>1, <2>3
<1>4. ASSUME NEW s \in Seq(S), NEW r \in Seq(S)
      PROVE  s \o r \in Seq(S) /\ \A x : x \in ToSet(s) \/ x \in ToSet(r) => x \in ToSet(s \o r)
  <2>1. /\ s \o r \in Seq(S) /\ Len(s \o r) = Len(s) + Len(r)
        /\ \A i \in 1 .. Len(s) + Len(r) : (s \o r)[i] = IF i <= Len(s) THEN s[i] ELSE r[i - Len(s)]
        /\ Len(s) \in Nat /\ Len(r) \in Nat
    BY ConcatProperties, LenProperties
  <2>2. DOMAIN s = 1 .. Len(s) /\ DOMAIN r = 1 .. Len(r) /\ DOMAIN (s \o r) = 1 .. Len(s) + Len(r)
    BY <2>1, LenProperties
  <2>3. ASSUME NEW x \in ToSet(s) PROVE x \in ToSet(s \o r)
    <3>1. PICK i \in 1 .. Len(s) : x = s[i]
      BY <2>2 DEF ToSet
    <3>2. i \in 1 .. Len(s) + Len(r) /\ x = (s \o r)[i]
      BY <2>1, <3>1
    <3> QED BY <2>2, <3>2 DEF ToSet
  <2>4. ASSUME NEW x \in ToSet(r) PROVE x \in ToSet(s \o r)
    <3>1. PICK i \in 1 .. Len(r) : x = r[i]
      BY <2>2 DEF ToSet
    <3>2. Len(s) + i \in 1 .. Len(s) + Len(r) /\ x = (s \o r)[Len(s) + i]
      BY <2>1, <3>1
    <3> QED BY <2>2, <3>2 DEF ToSet
  <2> QED BY <2>1, <2>3, <2>4
<1> QED BY <1>1, <1>2, <1>3, <1>4

\* The naturals are well founded ...
LEMMA NaturalOrder == \E R : IsWellFoundedOn(R, Nat) /\ \A x, y \in Nat : x < y => <<x, y>> \in R
<1>1. IsWellFoundedOn(OpToRel(<, Nat), Nat)
  BY NatLessThanWellFounded
<1>2. \A x, y \in Nat : x < y => <<x, y>> \in OpToRel(<, Nat)
  BY DEF OpToRel
<1> QED BY <1>1, <1>2

\* ... so a set of them has a minimal member,
LEMMA Minimal ==
  ASSUME NEW R, NEW T, T \subseteq Nat, T # {}, IsWellFoundedOn(R, Nat)
  PROVE  \E z \in T : \A y \in T : ~(<<y, z>> \in R)
BY WFMin, Zenon

\* and the first name of a map exists.
LEMMA LeastName ==
  ASSUME NEW T \in SUBSET Names, T # {}
  PROVE  Min(T) \in T
<1>1. PICK R : IsWellFoundedOn(R, Nat) /\ \A x, y \in Nat : x < y => <<x, y>> \in R
  BY NaturalOrder
<1>2. T \subseteq Nat
  BY PackagesAssumption DEF Names
<1>3. IsWellFoundedOn(R, Nat)
  BY <1>1
<1>4. PICK z \in T : \A y \in T : ~(<<y, z>> \in R)
  BY <1>2, <1>3, Minimal
<1>5. ASSUME NEW y \in T PROVE z =< y
  <2>1. y \in Nat /\ z \in Nat
    BY <1>2
  <2>2. ~(y < z)
    BY <1>1, <1>4, <2>1, Zenon
  <2> QED BY <2>1, <2>2
<1>6. \E x \in T : \A y \in T : x =< y
  BY <1>5
<1> QED BY <1>6, Zenon DEF Min

-----------------------------------------------------------------------------
(* References, manifests and processes.                                    *)

\* Package references, and the requirements of one.
LEMMA RefsAndNames ==
  /\ \A r \in Refs : r.name \in Names /\ r.name \in Nat /\ r.version \in Nat
                     /\ r = [name |-> r.name, version |-> r.version]
  /\ \A m \in Manifests : \A r \in Refs : Forced(m, r) \in Refs /\ Forced(m, r).name = r.name
  /\ \A m \in Manifests : \A c : Wanted(m, c) \in Seq(Refs)
  /\ \A r \in Refs : Requires[r] \in Seq(Refs)
<1>1. \A r \in Refs : r.name \in Names /\ r.name \in Nat /\ r.version \in Nat
                      /\ r = [name |-> r.name, version |-> r.version]
  BY PackagesAssumption DEF Names
<1>2. ASSUME NEW m \in Manifests, NEW r \in Refs
      PROVE  Forced(m, r) \in Refs /\ Forced(m, r).name = r.name
  <2>1. r \in [name : Nat, version : Nat]
    BY PackagesAssumption
  <2> QED BY <2>1, PackagesAssumption DEF Forced
<1>3. ASSUME NEW m \in Manifests, NEW c PROVE Wanted(m, c) \in Seq(Refs)
  BY PackagesAssumption, Elements DEF Wanted
<1> QED BY <1>1, <1>2, <1>3, PackagesAssumption

\* The empty lock, selection, requirements and fetches.
LEMMA EmptyTables == Empty \in Locks /\ Empty \in Selections /\ Empty \in RequireMaps /\ Empty \in FetchMaps
BY EmptyMap DEF Locks, Selections, RequireMaps, FetchMaps

\* A project where no command runs.
LEMMA IdleIsAProcess == Idle \in Processes /\ Idle.pc = "idle" /\ Idle.copied = {}
<1>1. /\ <<>> \in Queues /\ None \in SomeCommand /\ None \in SomeManifest /\ None \in SomeRef
      /\ None \in SomeHash /\ None \in SomeFile /\ {} \in FileSets /\ {} \in NameSets
      /\ "idle" \in Steps /\ 0 \in Nat
  BY DEF Queues, SomeCommand, SomeManifest, SomeRef, SomeHash, SomeFile, FileSets, NameSets, Steps
<1> QED BY <1>1, EmptyTables DEF Idle, Processes

\* Nothing is asked of a process that is not there.
LEMMA IdleAgrees ==
  ASSUME NEW store, NEW links, NEW file
  PROVE  /\ InOrder(Idle) /\ Selects(Idle) /\ Fetches(Idle)
         /\ Backed(Idle, store, links) /\ Written(Idle, file)
BY IdleIsAProcess DEF InOrder, Selects, Fetches, Backed, Written, Runs, Fetching, Placing

\* A step of one process leaves the others alone.
LEMMA BecomeEffect ==
  ASSUME proc \in [Projects -> Processes], NEW j \in Projects, NEW q \in Processes, Become(j, q)
  PROVE  /\ proc' \in [Projects -> Processes] /\ proc'[j] = q
         /\ \A k \in Projects \ {j} : proc'[k] = proc[k]
BY DEF Become

\* An answer of the provider is recorded and its packages are queued.
LEMMA ProvidedAgrees ==
  ASSUME NEW p \in Processes, p.command \in Commands, p.command.verb = "install",
         p.manifest \in Manifests, NEW r \in Refs, NEW refs \in Seq(Refs),
         \A x \in Asked(p) : Met(p, x) \/ x \in ToSet(p.pending),
         \A n \in DOMAIN p.minimums : Chosen(p, n) \notin p.manifest.excludes,
         \A x \in DOMAIN p.fetched : p.fetched[x] # None => p.fetched[x].ref = x,
         \A n \in DOMAIN p.minimums : n = r.name \/ n \in DOMAIN p.requires_map,
         \A n \in DOMAIN p.minimums : p.command.offline \/ Chosen(p, n) \in DOMAIN p.fetched,
         p.copied = {}, NEW q, q = Provided(p, r, refs)
  PROVE  /\ q \in Processes /\ InOrder(q) /\ Selects(q) /\ Fetches(q)
         /\ q.pc = "resolve" /\ q.fetched = p.fetched /\ q.lf = p.lf /\ q.command = p.command
<1> DEFINE rm == Bind(p.requires_map, r.name, refs)
           pd == p.pending \o refs
<1>1. p.requires_map \in RequireMaps /\ p.pending \in Seq(Refs) /\ r.name \in Names
  BY RefsAndNames DEF Processes, Queues
<1>2. /\ rm \in RequireMaps /\ DOMAIN rm = DOMAIN p.requires_map \cup {r.name} /\ rm[r.name] = refs
      /\ \A n \in DOMAIN p.requires_map : n # r.name => rm[n] = p.requires_map[n]
  <2>1. p.requires_map \in Maps(Names, Seq(Refs))
    BY <1>1 DEF RequireMaps
  <2>2. rm \in Maps(Names, Seq(Refs))
    BY <1>1, <2>1, BoundMap
  <2>3. /\ DOMAIN rm = DOMAIN p.requires_map \cup {r.name} /\ rm[r.name] = refs
        /\ \A n \in DOMAIN p.requires_map : n # r.name => rm[n] = p.requires_map[n]
    BY DEF Bind
  <2> HIDE DEF rm
  <2> QED BY <2>2, <2>3 DEF RequireMaps
<1>3. pd \in Seq(Refs) /\ \A x : x \in ToSet(p.pending) \/ x \in ToSet(refs) => x \in ToSet(pd)
  BY <1>1, Elements
<1>4. q = [p EXCEPT !.pc = "resolve", !.requires_map = rm, !.pending = pd, !.hash = None, !.current = None]
  BY DEF Provided
<1> HIDE DEF rm, pd
<1>5. q \in Processes
  <2>1. rm \in RequireMaps /\ pd \in Queues /\ None \in SomeHash /\ None \in SomeRef /\ "resolve" \in Steps
    BY <1>2, <1>3 DEF Queues, SomeHash, SomeRef, Steps
  <2> DEFINE o == [p EXCEPT !.hash = None, !.current = None]
  <2>2. o \in Processes
    BY <2>1 DEF Processes
  <2>3. q = [o EXCEPT !.pc = "resolve", !.requires_map = rm, !.pending = pd]
    BY <1>4 DEF Processes
  <2> HIDE DEF o
  <2> QED BY <2>1, <2>2, <2>3 DEF Processes
<1>6. /\ q.pc = "resolve" /\ q.requires_map = rm /\ q.pending = pd /\ q.command = p.command
      /\ q.manifest = p.manifest /\ q.minimums = p.minimums /\ q.fetched = p.fetched /\ q.lf = p.lf
      /\ q.copied = {}
  BY <1>4 DEF Processes
<1>7. InOrder(q)
  BY <1>6 DEF InOrder, Runs, Fetching, Placing
<1>8. Selects(q)
  <2>1. ASSUME NEW x \in Asked(q) PROVE Met(q, x) \/ x \in ToSet(q.pending)
    <3>1. x \in Asked(p) \/ x \in ToSet(refs)
      BY <1>2, <1>6, <2>1 DEF Asked
    <3> QED BY <1>3, <1>6, <3>1 DEF Met
  <2> QED BY <1>6, <2>1 DEF Selects, Chosen
<1>9. Fetches(q)
  BY <1>2, <1>6 DEF Fetches, Chosen
<1> QED BY <1>5, <1>6, <1>7, <1>8, <1>9

\* Sync lays a package aside.
LEMMA SyncOnAgrees ==
  ASSUME NEW p \in Processes, Runs(p, "sync"), InOrder(p), NEW q, q = SyncOn(p),
         NEW store, NEW links, NEW file
  PROVE  /\ q \in Processes /\ InOrder(q) /\ Selects(q) /\ Fetches(q)
         /\ Backed(q, store, links) /\ Written(q, file) /\ ~Copying(q)
<1> DEFINE td == p.todo \ {Min(p.todo)}
<1>1. q = [p EXCEPT !.pc = "sync", !.todo = td, !.current = None, !.hash = None,
                    !.copied = {}, !.file = None]
  BY DEF SyncOn
<1>2. td \subseteq p.todo /\ td \in SUBSET Names /\ p.todo \subseteq DOMAIN p.lf
  BY DEF Processes, InOrder, NameSets
<1> HIDE DEF td
<1>3. q \in Processes
  <2>1. /\ td \in NameSets /\ None \in SomeHash /\ None \in SomeRef /\ None \in SomeFile
        /\ {} \in FileSets /\ "sync" \in Steps
    BY <1>2 DEF NameSets, SomeHash, SomeRef, SomeFile, FileSets, Steps
  <2> QED BY <1>1, <2>1, ZenonT(40) DEF Processes
<1>4. q.pc = "sync" /\ q.todo = td /\ q.command = p.command /\ q.lf = p.lf /\ q.copied = {}
  BY <1>1 DEF Processes
<1> QED BY <1>2, <1>3, <1>4
    DEF InOrder, Selects, Fetches, Backed, Written, Copying, Runs, Fetching, Placing

\* The package in hand is done with: v is what was fetched, or None.
LEMMA AnsweredAgrees ==
  ASSUME NEW p \in Processes, p.pc \in Fetching, InOrder(p), Selects(p), Fetches(p),
         p.command.verb = "install", NEW store, NEW links, Backed(p, store, links),
         NEW v \in SomeHash, v # None => v.ref = p.current /\ store[v] # None, NEW refs \in Seq(Refs),
         NEW o \in Processes, o.fetched = Bind(p.fetched, p.current, v), o.command = p.command,
         o.manifest = p.manifest, o.pending = p.pending, o.minimums = p.minimums,
         o.requires_map = p.requires_map, o.lf = p.lf, o.copied = {}, NEW q, q = Provided(o, p.current, refs)
  PROVE  q \in Processes /\ ~Copying(q) /\ \A file : Agrees(q, store, links, file)
<1> DEFINE fm == Bind(p.fetched, p.current, v)
<1>1. Runs(p, "install") /\ p.command \in Commands /\ p.current \in Refs /\ p.manifest \in Manifests
  BY DEF InOrder, Runs, Fetching
<1>2. /\ DOMAIN fm = DOMAIN p.fetched \cup {p.current} /\ fm[p.current] = v
      /\ \A x \in DOMAIN p.fetched : x # p.current => fm[x] = p.fetched[x]
  BY DEF Bind
<1>3. o.fetched = fm
  OBVIOUS
<1> HIDE DEF fm
<1>4. \A x \in Asked(o) : Met(o, x) \/ x \in ToSet(o.pending)
  BY <1>1 DEF Selects, Asked, Met
<1>5. \A n \in DOMAIN o.minimums : Chosen(o, n) \notin o.manifest.excludes
  BY <1>1 DEF Selects, Chosen
<1>6. \A x \in DOMAIN o.fetched : o.fetched[x] # None => o.fetched[x].ref = x
  BY <1>1, <1>2, <1>3 DEF Fetches
<1>7. ASSUME NEW n \in DOMAIN p.minimums
      PROVE  \/ p.current = Chosen(p, n)
             \/ n \in DOMAIN p.requires_map /\ (p.command.offline \/ Chosen(p, n) \in DOMAIN p.fetched)
  BY <1>1 DEF Fetches
<1>8. \A n : Chosen(p, n).name = n /\ Chosen(o, n) = Chosen(p, n)
  BY DEF Chosen
<1>9. \A n \in DOMAIN o.minimums : o.command.offline \/ Chosen(o, n) \in DOMAIN o.fetched
  BY <1>2, <1>3, <1>7, <1>8
<1>10. /\ q \in Processes /\ InOrder(q) /\ Selects(q) /\ Fetches(q)
       /\ q.pc = "resolve" /\ q.fetched = fm /\ q.lf = p.lf /\ q.command = p.command
  <2>1. PICK r \in Refs : r = p.current
    BY <1>1
  <2>2. o.command \in Commands /\ o.command.verb = "install" /\ o.manifest \in Manifests
    BY <1>1
  <2>3. \A n \in DOMAIN o.minimums : n = r.name \/ n \in DOMAIN o.requires_map
    BY <1>7, <1>8, <2>1
  <2>4. \A q1 : q1 = Provided(o, r, refs) =>
          /\ q1 \in Processes /\ InOrder(q1) /\ Selects(q1) /\ Fetches(q1)
          /\ q1.pc = "resolve" /\ q1.fetched = o.fetched /\ q1.lf = o.lf /\ q1.command = o.command
    BY <1>4, <1>5, <1>6, <1>9, <2>2, <2>3, ProvidedAgrees
  <2> QED BY <1>3, <2>1, <2>4
<1>11. Backed(q, store, links)
  BY <1>1, <1>2, <1>10 DEF Backed, Runs
<1> QED BY <1>10, <1>11 DEF Agrees, Written, Copying

\* A package that could not be had.
LEMMA LackingAgrees ==
  ASSUME NEW p \in Processes, p.pc \in Fetching, InOrder(p), Selects(p), Fetches(p), NEW q, q = Lacking(p),
         NEW store, NEW links, Backed(p, store, links)
  PROVE  q \in Processes /\ ~Copying(q) /\ \A file : Agrees(q, store, links, file)
<1>1. p.pc # "idle" /\ p.command \in Commands /\ p.current \in Refs
  BY DEF InOrder, Fetching
<1>2. p.command.verb \in {"install", "sync"}
  BY <1>1, PackagesAssumption
<1>3. CASE p.command.verb = "sync"
  BY <1>1, <1>3, SyncOnAgrees DEF Lacking, Runs, Agrees
<1>4. CASE p.command.verb = "install"
  <2> DEFINE fm == Bind(p.fetched, p.current, None)
             o == [p EXCEPT !.fetched = fm, !.copied = {}, !.file = None]
  <2>1. q = Provided(o, p.current, <<>>)
    BY <1>4 DEF Lacking
  <2>2. fm \in FetchMaps /\ None \in SomeHash
    <3>1. p.fetched \in Maps(Refs, Hashes \cup {None}) /\ None \in Hashes \cup {None}
      BY DEF Processes, FetchMaps
    <3>2. fm \in Maps(Refs, Hashes \cup {None})
      BY <1>1, <3>1, BoundMap
    <3> HIDE DEF fm
    <3> QED BY <3>2 DEF FetchMaps, SomeHash
  <2>3. PICK f : f = fm
    OBVIOUS
  <2>4. o = [p EXCEPT !.fetched = f, !.copied = {}, !.file = None] /\ f \in FetchMaps
    BY <2>2, <2>3
  <2>5. f = Bind(p.fetched, p.current, None)
    BY <2>3
  <2> HIDE DEF o, fm
  <2>6. o \in Processes
    <3>1. None \in SomeFile /\ {} \in FileSets
      BY DEF SomeFile, FileSets
    <3> QED BY <2>4, <3>1 DEF Processes
  <2>7. /\ o.fetched = f /\ o.command = p.command /\ o.manifest = p.manifest /\ o.pending = p.pending
        /\ o.minimums = p.minimums /\ o.requires_map = p.requires_map /\ o.lf = p.lf /\ o.copied = {}
    BY <2>4 DEF Processes
  <2>8. <<>> \in Seq(Refs)
    BY Elements
  <2> QED BY <1>4, <2>1, <2>2, <2>5, <2>6, <2>7, <2>8, AnsweredAgrees
<1> QED BY <1>2, <1>3, <1>4

-----------------------------------------------------------------------------
(* What a step of one process leaves of the others.                        *)

\* The store only gains trees, so what was backed stays backed.
LEMMA BackedGrows ==
  ASSUME NEW p \in Processes, InOrder(p), NEW store, NEW more, NEW links, Backed(p, store, links),
         \A h \in Hashes : store[h] # None => more[h] # None
  PROVE  Backed(p, more, links)
<1>1. p.pc \in {"copy", "fill", "stored"} => more[p.hash] # None
  BY DEF Backed, InOrder, Fetching
<1>2. ASSUME Runs(p, "install"), NEW r \in DOMAIN p.fetched, p.fetched[r] # None
      PROVE  more[p.fetched[r]] # None
  <2>1. p.fetched[r] \in Hashes
    BY <1>2, MapValues DEF Processes, FetchMaps
  <2>2. store[p.fetched[r]] # None
    BY <1>2 DEF Backed
  <2> QED BY <2>1, <2>2
<1>3. ASSUME Runs(p, "install"), NEW n \in DOMAIN p.lf, p.lf[n].integrity # None
      PROVE  /\ more[p.lf[n].integrity] # None /\ p.lf[n].integrity.ref.name = n
             /\ links[p.lf[n].integrity.ref] \in {p.lf[n].integrity, None}
  <2>1. p.lf[n] \in Entries
    BY MapValues DEF Processes, Locks
  <2>2. p.lf[n].integrity \in Hashes
    BY <1>3, <2>1 DEF Entries
  <2> QED BY <1>3, <2>2 DEF Backed
<1> QED BY <1>1, <1>2, <1>3 DEF Backed

\* A step that agrees for its own project disturbs no other.
LEMMA StepAgrees ==
  ASSUME World, ProcessesAgree, NEW j \in Projects, NEW q \in Processes, Become(j, q),
         Agrees(q, cas', lib'[j], tmp'[j]),
         \A h \in Hashes : cas[h] # None => cas'[h] # None,
         \A k \in Projects \ {j} : lib'[k] = lib[k] /\ tmp'[k] = tmp[k]
  PROVE  ProcessesAgree'
<1> SUFFICES ASSUME NEW k \in Projects PROVE Agrees(proc'[k], cas', lib'[k], tmp'[k])
  BY DEF ProcessesAgree
<1>1. /\ proc'[j] = q /\ \A i \in Projects \ {j} : proc'[i] = proc[i]
  BY BecomeEffect DEF World
<1>2. CASE k = j
  BY <1>1, <1>2
<1>3. CASE k # j
  <2>1. proc'[k] = proc[k] /\ lib'[k] = lib[k] /\ tmp'[k] = tmp[k]
    BY <1>1, <1>3
  <2>2. /\ InOrder(proc[k]) /\ Selects(proc[k]) /\ Fetches(proc[k]) /\ Written(proc[k], tmp[k])
        /\ Backed(proc[k], cas, lib[k]) /\ proc[k] \in Processes
    BY DEF ProcessesAgree, Agrees, World
  <2>3. Backed(proc[k], cas', lib[k])
    BY <2>2, BackedGrows
  <2> QED BY <2>1, <2>2, <2>3 DEF Agrees
<1> QED BY <1>2, <1>3

\* Whoever is not copying, or leaves a torn tree behind, disturbs no tree.
LEMMA TreesStay ==
  ASSUME World, Filling, TreesFill, NEW j \in Projects, NEW q \in Processes, Become(j, q),
         cas' = cas, torn \subseteq torn', Copying(proc[j]) => proc[j].hash \in torn', ~Copying(q)
  PROVE  Filling' /\ TreesFill'
<1>1. /\ proc'[j] = q /\ \A i \in Projects \ {j} : proc'[i] = proc[i]
  BY BecomeEffect DEF World
<1>2. ASSUME NEW i \in Projects, Copying(proc'[i]), NEW f \in proc'[i].copied
      PROVE  \/ f \in cas'[proc'[i].hash]
             \/ proc'[i].hash \in torn'
             \/ \E k \in Projects : proc'[k].pc = "fill" /\ proc'[k].hash = proc'[i].hash /\ proc'[k].file = f
  <2>1. i # j /\ proc'[i] = proc[i]
    BY <1>1, <1>2
  <2>2. \/ f \in cas[proc[i].hash]
        \/ proc[i].hash \in torn
        \/ \E k \in Projects : proc[k].pc = "fill" /\ proc[k].hash = proc[i].hash /\ proc[k].file = f
    BY <1>2, <2>1 DEF Filling
  <2>3. ASSUME NEW k \in Projects, proc[k].pc = "fill", proc[k].hash = proc[i].hash, proc[k].file = f
        PROVE  \/ proc[i].hash \in torn'
               \/ proc'[k].pc = "fill" /\ proc'[k].hash = proc[i].hash /\ proc'[k].file = f
    BY <1>1, <2>3 DEF Copying
  <2> QED BY <2>1, <2>2, <2>3
<1>3. ASSUME NEW h \in Hashes, cas'[h] # None
      PROVE  \/ cas'[h] = Files
             \/ h \in torn'
             \/ \E k \in Projects : Copying(proc'[k]) /\ proc'[k].hash = h
  <2>1. \/ cas[h] = Files
        \/ h \in torn
        \/ \E k \in Projects : Copying(proc[k]) /\ proc[k].hash = h
    BY <1>3 DEF TreesFill
  <2>2. ASSUME NEW k \in Projects, Copying(proc[k]), proc[k].hash = h
        PROVE  h \in torn' \/ (Copying(proc'[k]) /\ proc'[k].hash = h)
    <3>1. CASE k = j
      BY <2>2, <3>1 DEF Copying
    <3>2. CASE k # j
      BY <1>1, <2>2, <3>2 DEF Copying
    <3> QED BY <3>1, <3>2
  <2> QED BY <2>1, <2>2
<1>4. Filling'
  BY <1>2 DEF Filling, Copying
<1>5. TreesFill'
  BY <1>3 DEF TreesFill, Copying
<1> QED BY <1>4, <1>5

\* What the files of the disk and the bounds have to be.
Typed ==
  /\ torn' \subseteq Hashes
  /\ lib' \in [Projects -> [Refs -> Hashes \cup {None}]]
  /\ lock' \in [Projects -> LockFiles]
  /\ tmp' \in [Projects -> LockFiles]

Later == events' \in 0 .. MaxEvents /\ events =< events'

\* Contents are numbered no further than the events that can have changed them.
LEMMA LaterIsTyped ==
  ASSUME World, UNCHANGED published, Later
  PROVE  published' \in [Refs -> 1 .. events' + 1]
<1>1. /\ published \in [Refs -> 1 .. events + 1] /\ events \in Nat /\ events' \in Nat
      /\ events =< events' /\ published' = published
  BY PackagesAssumption DEF World, Later
<1>2. ASSUME NEW a \in Nat, NEW b \in Nat, a =< b PROVE 1 .. a + 1 \subseteq 1 .. b + 1
  BY <1>2
<1>3. 1 .. events + 1 \subseteq 1 .. events' + 1
  BY <1>1, <1>2
<1> QED BY <1>1, <1>3

\* A step is one more event, or none.
LEMMA EventIsLater == World => (Event => Later) /\ (UNCHANGED events => Later)
BY PackagesAssumption DEF World, Event, Later

\* A step that stores nothing.
LEMMA Moves ==
  ASSUME Inductive, NEW j \in Projects, NEW q \in Processes, Become(j, q),
         Agrees(q, cas, lib'[j], tmp'[j]), ~Copying(q),
         Copying(proc[j]) => proc[j].hash \in torn', torn \subseteq torn',
         UNCHANGED <<manifest, published, cas>>, Typed, Later,
         \A k \in Projects \ {j} : lib'[k] = lib[k] /\ tmp'[k] = tmp[k]
  PROVE  Inductive'
<1>1. World /\ ProcessesAgree /\ Filling /\ TreesFill
  BY DEF Inductive
<1>2. Agrees(q, cas', lib'[j], tmp'[j]) /\ cas' = cas
  OBVIOUS
<1>3. ProcessesAgree'
  BY <1>1, <1>2, StepAgrees
<1>4. Filling' /\ TreesFill'
  BY <1>1, <1>2, TreesStay
<1>5. World'
  <2>1. proc' \in [Projects -> Processes]
    BY <1>1, BecomeEffect DEF World
  <2>2. published' \in [Refs -> 1 .. events' + 1]
    BY <1>1, LaterIsTyped
  <2>3. events' \in 0 .. MaxEvents
    BY DEF Later
  <2>4. manifest' \in [Projects -> Manifests] /\ cas' \in [Hashes -> (SUBSET Files) \cup {None}]
    BY <1>1 DEF World
  <2> QED BY <2>1, <2>2, <2>3, <2>4 DEF World, Typed
<1> QED BY <1>3, <1>4, <1>5 DEF Inductive

\* The disk does not change either, but for the trees that are torn.
LEMMA Thinks ==
  ASSUME Inductive, NEW j \in Projects, NEW q \in Processes, Become(j, q),
         Agrees(q, cas, lib[j], tmp[j]), ~Copying(q),
         Copying(proc[j]) => proc[j].hash \in torn', torn \subseteq torn', torn' \subseteq Hashes,
         UNCHANGED <<manifest, published, cas, lib, lock, tmp>>, Later
  PROVE  Inductive'
<1>1. Typed
  BY DEF Typed, Inductive, World
<1>2. Agrees(q, cas, lib'[j], tmp'[j]) /\ \A k \in Projects \ {j} : lib'[k] = lib[k] /\ tmp'[k] = tmp[k]
  OBVIOUS
<1> QED BY <1>1, <1>2, Moves

-----------------------------------------------------------------------------
(* The steps around the processes, and the ends of a run.                  *)

\* The manifest is edited.
LEMMA EditKeeps == ASSUME Inductive, NEW j \in Projects, EditManifest(j) PROVE Inductive'
<1>1. World /\ UNCHANGED <<published, cas, torn, lib, lock, tmp, proc>> /\ Later
  BY EventIsLater DEF Inductive, EditManifest, disk
<1>2. manifest' \in [Projects -> Manifests]
  BY <1>1 DEF World, EditManifest
<1>3. World'
  BY <1>1, <1>2, LaterIsTyped DEF World, Later
<1>4. ProcessesAgree' /\ Filling' /\ TreesFill'
  BY <1>1 DEF Inductive, ProcessesAgree, Filling, TreesFill
<1> QED BY <1>3, <1>4 DEF Inductive

\* A version is published again, with other contents.
LEMMA RepublishKeeps == ASSUME Inductive, NEW r \in Refs, Republish(r) PROVE Inductive'
<1>1. World /\ UNCHANGED <<manifest, cas, torn, lib, lock, tmp, proc>> /\ Later
  BY EventIsLater DEF Inductive, Republish, disk
<1>2. published' \in [Refs -> 1 .. events' + 1]
  <2>1. /\ published \in [Refs -> 1 .. events + 1] /\ events \in Nat /\ events' = events + 1
        /\ published' = [published EXCEPT ![r] = @ + 1]
    BY <1>1, PackagesAssumption DEF World, Republish, Event
  <2>2. \A x \in 1 .. events + 1 : x \in 1 .. events' + 1 /\ x + 1 \in 1 .. events' + 1
    BY <2>1
  <2> QED BY <2>1, <2>2
<1>3. World'
  BY <1>1, <1>2 DEF World, Later
<1>4. ProcessesAgree' /\ Filling' /\ TreesFill'
  BY <1>1 DEF Inductive, ProcessesAgree, Filling, TreesFill
<1> QED BY <1>3, <1>4 DEF Inductive

\* The cache is emptied under no process.
LEMMA CleanKeeps == ASSUME Inductive, CleanCache PROVE Inductive'
<1>1. /\ World /\ UNCHANGED <<manifest, published, lib, lock, tmp, proc>> /\ Later
      /\ cas' = [h \in Hashes |-> None] /\ torn' = {} /\ \A j \in Projects : proc[j].pc = "idle"
  BY EventIsLater DEF Inductive, CleanCache
<1>2. World'
  <2>1. cas' \in [Hashes -> (SUBSET Files) \cup {None}]
    <3>1. [h \in Hashes |-> None] \in [Hashes -> (SUBSET Files) \cup {None}]
      OBVIOUS
    <3> QED BY <1>1, <3>1, Zenon
  <2>2. published' \in [Refs -> 1 .. events' + 1]
    BY <1>1, LaterIsTyped
  <2>3. torn' \subseteq Hashes /\ events' \in 0 .. MaxEvents
    BY <1>1 DEF Later
  <2> QED BY <1>1, <2>1, <2>2, <2>3 DEF World
<1>3. ASSUME NEW k \in Projects PROVE Agrees(proc[k], cas', lib[k], tmp[k])
  <2>1. InOrder(proc[k]) /\ Selects(proc[k]) /\ Fetches(proc[k]) /\ Written(proc[k], tmp[k])
    BY DEF Inductive, ProcessesAgree, Agrees
  <2>2. Backed(proc[k], cas', lib[k])
    BY <1>1 DEF Backed, Runs
  <2> QED BY <2>1, <2>2 DEF Agrees
<1>4. ProcessesAgree'
  BY <1>1, <1>3 DEF ProcessesAgree
<1>5. Filling' /\ TreesFill'
  BY <1>1 DEF Filling, TreesFill, Copying
<1> QED BY <1>2, <1>4, <1>5 DEF Inductive

\* The invariant, seen from one project.
LEMMA Parts ==
  ASSUME Inductive, NEW j \in Projects
  PROVE  /\ World /\ proc[j] \in Processes /\ Agrees(proc[j], cas, lib[j], tmp[j])
         /\ InOrder(proc[j]) /\ Selects(proc[j]) /\ Fetches(proc[j])
         /\ Backed(proc[j], cas, lib[j]) /\ Written(proc[j], tmp[j])
BY DEF Inductive, World, ProcessesAgree, Agrees

\* A command that ends, one way or another.
LEMMA ExitKeeps ==
  ASSUME Inductive, NEW j \in Projects, Exit(j), Typed, Later,
         UNCHANGED <<manifest, published, cas>>,
         Copying(proc[j]) => proc[j].hash \in torn', torn \subseteq torn',
         \A k \in Projects \ {j} : lib'[k] = lib[k] /\ tmp'[k] = tmp[k]
  PROVE  Inductive'
<1>1. Idle \in Processes /\ Become(j, Idle) /\ ~Copying(Idle)
  BY IdleIsAProcess DEF Exit, Copying
<1>2. Agrees(Idle, cas, lib'[j], tmp'[j])
  BY IdleAgrees DEF Agrees
<1> QED BY <1>1, <1>2, Moves

\* A run that ends without a trace.
LEMMA QuietExitKeeps ==
  ASSUME Inductive, NEW j \in Projects, Exit(j), UNCHANGED <<world, disk, events>>, ~Copying(proc[j])
  PROVE  Inductive'
<1>1. /\ UNCHANGED <<manifest, published, cas, torn, lib, lock, tmp>> /\ World /\ Later
  BY EventIsLater DEF Inductive, world, disk
<1>2. Typed
  BY <1>1 DEF Typed, World
<1> QED BY <1>1, <1>2, ExitKeeps

\* The process is killed: a copy it was making stays torn.
LEMMA KilledKeeps == ASSUME Inductive, NEW j \in Projects, Killed(j) PROVE Inductive'
<1>1. /\ World /\ Exit(j) /\ UNCHANGED <<manifest, published, cas, lib, lock, tmp>> /\ Later
      /\ torn' = IF Copying(proc[j]) THEN torn \cup {proc[j].hash} ELSE torn
      /\ InOrder(proc[j])
  BY EventIsLater, Parts DEF Killed, world
<1>2. torn' \subseteq Hashes /\ torn \subseteq torn' /\ (Copying(proc[j]) => proc[j].hash \in torn')
  BY <1>1 DEF World, InOrder, Copying, Fetching
<1>3. Typed
  BY <1>1, <1>2 DEF Typed, World
<1> QED BY <1>1, <1>2, <1>3, ExitKeeps

\* The policy refuses the source of a package.
LEMMA RejectedKeeps == ASSUME Inductive, NEW j \in Projects, Rejected(j) PROVE Inductive'
BY QuietExitKeeps DEF Rejected, Copying

\* sync has linked everything.
LEMMA SyncDoneKeeps == ASSUME Inductive, NEW j \in Projects, SyncDone(j) PROVE Inductive'
BY QuietExitKeeps DEF SyncDone, Copying

\* The lock file is renamed into place.
LEMMA RenameKeeps == ASSUME Inductive, NEW j \in Projects, Rename(j) PROVE Inductive'
<1>1. /\ World /\ Exit(j) /\ UNCHANGED <<manifest, published, cas, torn, lib>> /\ Later
      /\ ~Copying(proc[j])
      /\ lock' = [lock EXCEPT ![j] = tmp[j]] /\ tmp' = [tmp EXCEPT ![j] = None]
  BY EventIsLater DEF Inductive, Rename, world, Copying
<1>2. None \in LockFiles
  BY DEF LockFiles
<1>3. Typed /\ \A k \in Projects \ {j} : tmp'[k] = tmp[k]
  BY <1>1, <1>2 DEF Typed, World
<1> QED BY <1>1, <1>3, ExitKeeps

\* Writing the lock fails.
LEMMA LockFailsKeeps == ASSUME Inductive, NEW j \in Projects, LockFails(j) PROVE Inductive'
<1>1. /\ World /\ Exit(j) /\ UNCHANGED <<manifest, published, cas, torn, lib, lock>> /\ Later
      /\ ~Copying(proc[j])
      /\ tmp' = IF proc[j].pc = "rename" THEN [tmp EXCEPT ![j] = None] ELSE tmp
  BY EventIsLater DEF Inductive, LockFails, world, Copying
<1>2. None \in LockFiles
  BY DEF LockFiles
<1>3. Typed /\ \A k \in Projects \ {j} : tmp'[k] = tmp[k]
  BY <1>1, <1>2 DEF Typed, World
<1> QED BY <1>1, <1>3, ExitKeeps

-----------------------------------------------------------------------------
(* Starting.                                                               *)

\* What read_lock returns.
LEMMA ReadLockIsTyped == ASSUME World, NEW j \in Projects PROVE ReadLock(j) \in Locks
<1>1. lock[j] \in LockFiles
  BY DEF World
<1> QED BY <1>1, EmptyTables DEF ReadLock, LockFiles

\* A command starts at the resolver, in one record.
LEMMA StartsAs ==
  ASSUME NEW c, NEW mf, NEW lk, NEW w
  PROVE  [[Idle EXCEPT !.command = c, !.manifest = mf] EXCEPT !.pc = "resolve", !.locked = lk, !.pending = w]
           = [Idle EXCEPT !.pc = "resolve", !.command = c, !.manifest = mf, !.locked = lk, !.pending = w]
BY DEF Idle

\* install starts.
LEMMA InstallKeeps == ASSUME Inductive, NEW j \in Projects, Install(j) PROVE Inductive'
<1> PICK c \in Commands :
      /\ c.verb = "install" /\ proc[j].pc = "idle"
      /\ Become(j, [Idle EXCEPT !.pc = "resolve", !.command = c, !.manifest = manifest[j],
                                !.locked = IF c.offline THEN ReadLock(j) ELSE Empty,
                                !.pending = Wanted(manifest[j], c)])
      /\ UNCHANGED <<manifest, published, disk, events>>
  BY DEF Install
<1> DEFINE lk == IF c.offline THEN ReadLock(j) ELSE Empty
           o == [Idle EXCEPT !.command = c, !.manifest = manifest[j]]
           q == [o EXCEPT !.pc = "resolve", !.locked = lk, !.pending = Wanted(manifest[j], c)]
<1>1. World /\ UNCHANGED <<manifest, published, cas, torn, lib, lock, tmp>> /\ Later
  BY EventIsLater DEF Inductive, disk
<1>2. manifest[j] \in Manifests /\ lk \in Locks /\ Wanted(manifest[j], c) \in Seq(Refs)
  BY <1>1, ReadLockIsTyped, EmptyTables, RefsAndNames DEF World
<1>3. Become(j, q)
  BY StartsAs
<1> HIDE DEF lk
<1>4. o \in Processes
  <2>1. c \in SomeCommand /\ manifest[j] \in SomeManifest
    BY <1>2 DEF SomeCommand, SomeManifest
  <2> QED BY <2>1, IdleIsAProcess DEF Processes
<1>5. /\ o.copied = {} /\ o.command = c /\ o.manifest = manifest[j] /\ o.minimums = Empty /\ o.requires_map = Empty
      /\ o.fetched = Empty /\ o.lf = Empty
  BY DEF Idle
<1> HIDE DEF o
<1>6. q \in Processes
  BY <1>2, <1>4 DEF Processes, Queues, Steps
<1>7. /\ q.pc = "resolve" /\ q.copied = {} /\ q.command = c /\ q.manifest = manifest[j] /\ q.minimums = Empty
      /\ q.requires_map = Empty /\ q.fetched = Empty /\ q.lf = Empty /\ q.pending = Wanted(manifest[j], c)
  BY <1>4, <1>5 DEF Processes
<1> HIDE DEF q
<1>8. InOrder(q) /\ ~Copying(q)
  BY <1>2, <1>7 DEF InOrder, Runs, Fetching, Placing, Copying
<1>9. Selects(q) /\ Fetches(q)
  <2>1. ASSUME NEW r \in Asked(q) PROVE r \in ToSet(q.pending)
    BY <1>7, EmptyMap DEF Asked
  <2> QED BY <1>7, <2>1, EmptyMap DEF Selects, Fetches
<1>10. Backed(q, cas, lib[j]) /\ Written(q, tmp[j])
  BY <1>7, EmptyMap DEF Backed, Written
<1>11. Agrees(q, cas, lib[j], tmp[j]) /\ ~Copying(proc[j]) /\ torn' \subseteq Hashes
  BY <1>1, <1>8, <1>9, <1>10 DEF Agrees, Copying, World
<1> QED BY <1>1, <1>3, <1>6, <1>8, <1>11, Thinks

\* sync starts.
LEMMA SyncKeeps == ASSUME Inductive, NEW j \in Projects, Sync(j) PROVE Inductive'
<1> PICK c \in Commands :
      /\ c.verb = "sync" /\ proc[j].pc = "idle"
      /\ Become(j, [Idle EXCEPT !.pc = "sync", !.command = c, !.lf = ReadLock(j),
                                !.todo = DOMAIN ReadLock(j)])
      /\ UNCHANGED <<manifest, published, disk, events>>
  BY DEF Sync
<1> DEFINE lf == ReadLock(j)
           q == [Idle EXCEPT !.pc = "sync", !.command = c, !.lf = lf, !.todo = DOMAIN lf]
<1>1. World /\ UNCHANGED <<manifest, published, cas, torn, lib, lock, tmp>> /\ Later
  BY EventIsLater DEF Inductive, disk
<1>2. lf \in Locks /\ DOMAIN lf \in NameSets
  BY <1>1, ReadLockIsTyped, MapValues DEF Locks, NameSets
<1>3. Become(j, q)
  OBVIOUS
<1> HIDE DEF lf
<1>4. q \in Processes
  <2>1. c \in SomeCommand /\ "sync" \in Steps
    BY DEF SomeCommand, Steps
  <2> QED BY <1>2, <2>1, IdleIsAProcess DEF Processes
<1>5. q.pc = "sync" /\ q.copied = {} /\ q.command = c /\ q.lf = lf /\ q.todo = DOMAIN lf
  BY DEF Idle
<1> HIDE DEF q
<1>6. Agrees(q, cas, lib[j], tmp[j]) /\ ~Copying(q)
  BY <1>5 DEF Agrees, InOrder, Selects, Fetches, Backed, Written, Runs, Fetching, Placing, Copying
<1>7. ~Copying(proc[j]) /\ torn' \subseteq Hashes
  BY <1>1 DEF Copying, World
<1> QED BY <1>1, <1>3, <1>4, <1>6, <1>7, Thinks

-----------------------------------------------------------------------------
(* The resolver.                                                           *)

\* What the resolver is asked for are package references.
LEMMA AskedAreRefs ==
  ASSUME NEW p \in Processes, p.manifest \in Manifests
  PROVE  \A x \in Asked(p) : x \in Refs
<1>1. ASSUME NEW x \in ToSet(Wanted(p.manifest, p.command)) PROVE x \in Refs
  BY RefsAndNames, Elements
<1>2. ASSUME NEW n \in DOMAIN p.requires_map, NEW x \in ToSet(p.requires_map[n]) PROVE x \in Refs
  <2>1. p.requires_map[n] \in Seq(Refs)
    BY MapValues DEF Processes, RequireMaps
  <2> QED BY <2>1, Elements
<1> QED BY <1>1, <1>2 DEF Asked

\* What the lock says a package requires.
LEMMA LockedRequiresTyped ==
  ASSUME NEW p \in Processes, NEW r
  PROVE  LockedRequires(p, r) \in Seq(Refs)
<1>1. CASE r.name \in DOMAIN p.locked
  <2>1. p.locked[r.name] \in Entries
    BY <1>1, MapValues DEF Processes, Locks
  <2> QED BY <1>1, <2>1 DEF LockedRequires, Entries
<1>2. CASE r.name \notin DOMAIN p.locked
  BY <1>2, Elements DEF LockedRequires
<1> QED BY <1>1, <1>2

\* One turn of the work list.
LEMMA ResolveNextKeeps == ASSUME Inductive, NEW j \in Projects, ResolveNext(j) PROVE Inductive'
<1> DEFINE p == proc[j]
           r0 == Head(p.pending)
           r == Forced(p.manifest, r0)
           q == [p EXCEPT !.pending = Tail(@), !.iterations = @ + 1]
           chosen == [q EXCEPT !.minimums = Bind(@, r.name, r.version)]
<1>1. /\ World /\ UNCHANGED <<manifest, published, cas, torn, lib, lock, tmp, events>> /\ Later
      /\ p \in Processes /\ p.pc = "resolve" /\ p.pending # <<>>
      /\ InOrder(p) /\ Selects(p) /\ Fetches(p) /\ Backed(p, cas, lib[j])
  BY EventIsLater, Parts DEF ResolveNext, world, disk
<1>2. \/ Exit(j)
      \/ r \notin p.manifest.excludes /\ Superseded(p, r) /\ Become(j, q)
      \/ /\ r \notin p.manifest.excludes /\ ~Superseded(p, r)
         /\ Become(j, IF p.command.offline
                        THEN Provided(chosen, r, LockedRequires(p, r))
                        ELSE [chosen EXCEPT !.pc = "fetch", !.current = r])
  BY DEF ResolveNext
<1>3. /\ Runs(p, "install") /\ p.command \in Commands /\ p.command.verb = "install" /\ p.manifest \in Manifests
      /\ p.pending \in Seq(Refs) /\ p.copied = {} /\ ~Copying(p) /\ torn' \subseteq Hashes
  <2>1. ~Copying(p)
    BY <1>1 DEF Copying
  <2> QED BY <1>1, <2>1 DEF InOrder, Runs, Processes, Queues, World
<1>4. /\ r0 \in Refs /\ Tail(p.pending) \in Seq(Refs)
      /\ \A x \in ToSet(p.pending) : x = r0 \/ x \in ToSet(Tail(p.pending))
  BY <1>1, <1>3, Elements
<1>5. r \in Refs /\ r.name = r0.name /\ r.name \in Names /\ r.name \in Nat /\ r.version \in Nat
      /\ r = [name |-> r.name, version |-> r.version]
  BY <1>3, <1>4, RefsAndNames
<1>6. /\ q \in Processes
      /\ q.pc = "resolve" /\ q.pending = Tail(p.pending) /\ q.minimums = p.minimums
      /\ q.requires_map = p.requires_map /\ q.command = p.command /\ q.manifest = p.manifest
      /\ q.fetched = p.fetched /\ q.lf = p.lf /\ q.copied = p.copied
  <2>1. p.iterations + 1 \in Nat /\ Tail(p.pending) \in Queues
    BY <1>1, <1>4 DEF Processes, Queues
  <2> QED BY <1>1, <2>1 DEF Processes
<1>7. CASE Exit(j)
  <2>1. UNCHANGED <<world, disk, events>>
    BY DEF ResolveNext
  <2> QED BY <1>3, <1>7, <2>1, QuietExitKeeps
<1>8. CASE r \notin p.manifest.excludes /\ Superseded(p, r) /\ Become(j, q)
  <2> HIDE DEF q
  <2>1. InOrder(q) /\ ~Copying(q)
    BY <1>3, <1>6 DEF InOrder, Runs, Fetching, Placing, Copying
  <2>2. Met(p, r0)
    BY <1>5, <1>8 DEF Met, Superseded
  <2>3. ASSUME NEW x \in Asked(q) PROVE Met(q, x) \/ x \in ToSet(q.pending)
    <3>1. Met(p, x) \/ x \in ToSet(p.pending)
      BY <1>1, <1>3, <1>6 DEF Selects, Asked
    <3>2. Met(p, x) \/ x \in ToSet(Tail(p.pending))
      BY <1>4, <2>2, <3>1
    <3> QED BY <1>6, <3>2 DEF Met
  <2>4. Selects(q)
    BY <1>1, <1>3, <1>6, <2>3 DEF Selects, Chosen
  <2>5. Fetches(q)
    BY <1>1, <1>3, <1>6 DEF Fetches, Chosen, Fetching
  <2>6. Backed(q, cas, lib[j]) /\ Written(q, tmp[j])
    BY <1>1, <1>3, <1>6 DEF Backed, Written
  <2>7. Agrees(q, cas, lib[j], tmp[j])
    BY <2>1, <2>4, <2>5, <2>6 DEF Agrees
  <2> QED BY <1>1, <1>3, <1>6, <1>8, <2>1, <2>7, Thinks
<1>9. CASE /\ r \notin p.manifest.excludes /\ ~Superseded(p, r)
           /\ Become(j, IF p.command.offline
                          THEN Provided(chosen, r, LockedRequires(p, r))
                          ELSE [chosen EXCEPT !.pc = "fetch", !.current = r])
  <2> DEFINE mins == Bind(p.minimums, r.name, r.version)
  <2>1. mins \in Selections
    <3>1. p.minimums \in Maps(Names, Nat)
      BY <1>1 DEF Processes, Selections
    <3>2. mins \in Maps(Names, Nat)
      BY <1>5, <3>1, BoundMap
    <3>3. ASSUME NEW n \in DOMAIN mins PROVE [name |-> n, version |-> mins[n]] \in Refs
      <4>1. CASE n = r.name
        BY <1>5, <4>1 DEF Bind
      <4>2. CASE n # r.name
        <5>1. n \in DOMAIN p.minimums /\ mins[n] = p.minimums[n]
          BY <4>2 DEF Bind
        <5> QED BY <1>1, <5>1 DEF Processes, Selections
      <4> QED BY <4>1, <4>2
    <3> HIDE DEF mins
    <3> QED BY <3>2, <3>3 DEF Selections
  <2>2. /\ DOMAIN mins = DOMAIN p.minimums \cup {r.name} /\ mins[r.name] = r.version
        /\ \A n \in DOMAIN p.minimums : n # r.name => mins[n] = p.minimums[n]
    BY DEF Bind
  <2>3. chosen = [q EXCEPT !.minimums = mins]
    BY <1>6
  <2> HIDE DEF mins, q, chosen
  <2>4. chosen \in Processes
    BY <1>6, <2>1, <2>3 DEF Processes
  <2>5. /\ chosen.pc = "resolve" /\ chosen.pending = Tail(p.pending) /\ chosen.minimums = mins
        /\ chosen.requires_map = p.requires_map /\ chosen.command = p.command
        /\ chosen.manifest = p.manifest /\ chosen.fetched = p.fetched /\ chosen.lf = p.lf
        /\ chosen.copied = {}
    BY <1>3, <1>6, <2>3 DEF Processes
  <2>6. \A n \in DOMAIN p.minimums : p.minimums[n] \in Nat
    BY <1>1, MapValues DEF Processes, Selections
  <2>7. ASSUME NEW x \in Refs, Met(p, x) PROVE Met(chosen, x)
    <3>1. CASE x.name # r.name
      BY <2>2, <2>5, <2>7, <3>1 DEF Met
    <3>2. CASE x.name = r.name
      <4>1. r.name \in DOMAIN p.minimums /\ p.minimums[r.name] \in Nat /\ p.minimums[r.name] < r.version
        BY <1>5, <1>9, <2>6, <2>7, <3>2 DEF Met, Superseded
      <4>2. PICK v : v = Forced(p.manifest, x).version
        OBVIOUS
      <4>3. v \in Nat
        BY <1>3, <4>2, RefsAndNames
      <4>4. p.minimums[r.name] >= v /\ x.name \in DOMAIN mins /\ mins[x.name] = r.version
        BY <2>2, <2>7, <3>2, <4>2 DEF Met
      <4>5. r.version >= v
        BY <1>5, <4>1, <4>3, <4>4
      <4> QED BY <2>5, <4>2, <4>4, <4>5, SMTT(30) DEF Met
    <3> QED BY <3>1, <3>2
  <2>8. Met(chosen, r0)
    BY <1>5, <2>2, <2>5 DEF Met
  <2>9. \A x \in Asked(chosen) : Met(chosen, x) \/ x \in ToSet(chosen.pending)
    <3>1. ASSUME NEW x \in Asked(p) PROVE Met(chosen, x) \/ x \in ToSet(Tail(p.pending))
      <4>1. x \in Refs
        BY <1>1, <1>3, AskedAreRefs
      <4>2. Met(p, x) \/ x \in ToSet(p.pending)
        BY <1>1, <1>3 DEF Selects
      <4> QED BY <1>4, <2>7, <2>8, <4>1, <4>2
    <3>2. Asked(chosen) = Asked(p)
      BY <2>5 DEF Asked
    <3> QED BY <2>5, <3>1, <3>2
  <2>10. \A n : Chosen(chosen, n) = [name |-> n, version |-> mins[n]] /\ Chosen(chosen, n).name = n
    BY <2>5 DEF Chosen
  <2>11. ASSUME NEW n \in DOMAIN p.minimums, n # r.name
         PROVE  /\ Chosen(chosen, n) \notin p.manifest.excludes
                /\ n \in DOMAIN p.requires_map
                /\ p.command.offline \/ Chosen(chosen, n) \in DOMAIN p.fetched
    <3>1. Chosen(chosen, n) = Chosen(p, n)
      BY <2>2, <2>5, <2>11 DEF Chosen
    <3>2. Chosen(p, n) \notin p.manifest.excludes
      BY <1>1, <1>3 DEF Selects
    <3>3. n \in DOMAIN p.requires_map /\ (p.command.offline \/ Chosen(p, n) \in DOMAIN p.fetched)
      BY <1>1, <1>3 DEF Fetches, Fetching
    <3> QED BY <3>1, <3>2, <3>3
  <2>12. Chosen(chosen, r.name) = r
    BY <1>5, <2>2, <2>10
  <2>13. \A n \in DOMAIN chosen.minimums : n = r.name \/ n \in DOMAIN p.minimums
    BY <2>2, <2>5
  <2>14. \A n \in DOMAIN chosen.minimums : Chosen(chosen, n) \notin p.manifest.excludes
    BY <1>9, <2>11, <2>12, <2>13
  <2>15. \A x \in DOMAIN p.fetched : p.fetched[x] # None => p.fetched[x].ref = x
    BY <1>1, <1>3 DEF Fetches
  <2>16. CASE p.command.offline
    <3>1. PICK refs \in Seq(Refs) : refs = LockedRequires(p, r)
      BY <1>1, LockedRequiresTyped
    <3>2. PICK o : o = Provided(chosen, r, refs)
      OBVIOUS
    <3>3. chosen.command \in Commands /\ chosen.command.verb = "install" /\ chosen.manifest \in Manifests
      BY <1>3, <2>5
    <3>4. \A n \in DOMAIN chosen.minimums : Chosen(chosen, n) \notin chosen.manifest.excludes
      BY <2>5, <2>14
    <3>5. \A x \in DOMAIN chosen.fetched : chosen.fetched[x] # None => chosen.fetched[x].ref = x
      BY <2>5, <2>15
    <3>6. \A n \in DOMAIN chosen.minimums : n = r.name \/ n \in DOMAIN chosen.requires_map
      BY <2>5, <2>11, <2>13
    <3>7. \A n \in DOMAIN chosen.minimums : chosen.command.offline \/ Chosen(chosen, n) \in DOMAIN chosen.fetched
      BY <2>5, <2>16
    <3>8. /\ o \in Processes /\ InOrder(o) /\ Selects(o) /\ Fetches(o)
          /\ o.pc = "resolve" /\ o.fetched = chosen.fetched /\ o.lf = chosen.lf /\ o.command = chosen.command
      BY <1>5, <2>4, <2>5, <2>9, <3>2, <3>3, <3>4, <3>5, <3>6, <3>7, ProvidedAgrees
    <3>9. Backed(o, cas, lib[j]) /\ Written(o, tmp[j]) /\ ~Copying(o)
      BY <1>1, <1>3, <2>5, <3>8 DEF Backed, Written, Copying, Runs
    <3>10. Become(j, o)
      BY <1>9, <2>16, <3>1, <3>2
    <3>11. Agrees(o, cas, lib[j], tmp[j])
      BY <3>8, <3>9 DEF Agrees
    <3> QED BY <1>1, <1>3, <3>8, <3>9, <3>10, <3>11, Thinks
  <2>17. CASE ~p.command.offline
    <3> DEFINE o == [chosen EXCEPT !.pc = "fetch", !.current = r]
    <3>1. Become(j, o)
      BY <1>9, <2>17
    <3>2. o \in Processes
      BY <1>5, <2>4 DEF Processes, Steps, Fetching, SomeRef
    <3>3. /\ o.pc = "fetch" /\ o.current = r /\ o.pending = chosen.pending /\ o.minimums = chosen.minimums
          /\ o.requires_map = p.requires_map /\ o.command = p.command
          /\ o.manifest = p.manifest /\ o.fetched = p.fetched /\ o.lf = p.lf /\ o.copied = {}
      BY <2>4, <2>5 DEF Processes
    <3> HIDE DEF o
    <3>4. InOrder(o) /\ ~Copying(o)
      BY <1>3, <1>5, <3>3 DEF InOrder, Runs, Fetching, Placing, Copying
    <3>5. \A n : Chosen(o, n) = Chosen(chosen, n)
      BY <3>3 DEF Chosen
    <3>6. Selects(o)
      <4>1. Asked(o) = Asked(chosen) /\ \A x : Met(o, x) = Met(chosen, x)
        BY <2>5, <3>3 DEF Asked, Met
      <4> QED BY <2>9, <2>14, <3>3, <3>5, <4>1 DEF Selects
    <3>7. Fetches(o)
      <4>1. ASSUME NEW n \in DOMAIN o.minimums
            PROVE  \/ o.current = Chosen(o, n)
                   \/ n \in DOMAIN o.requires_map /\ (o.command.offline \/ Chosen(o, n) \in DOMAIN o.fetched)
        BY <2>11, <2>12, <2>13, <3>3, <3>5
      <4> QED BY <2>15, <3>3, <4>1 DEF Fetches, Fetching
    <3>8. Backed(o, cas, lib[j]) /\ Written(o, tmp[j])
      BY <1>1, <1>3, <3>3 DEF Backed, Written, Runs
    <3>9. Agrees(o, cas, lib[j], tmp[j])
      BY <3>4, <3>6, <3>7, <3>8 DEF Agrees
    <3> QED BY <1>1, <1>3, <3>1, <3>2, <3>4, <3>9, Thinks
  <2> QED BY <2>16, <2>17
<1> QED BY <1>2, <1>7, <1>8, <1>9

\* A process that has something in hand at some step, and what of it matters.
LEMMA SameInHand ==
  ASSUME NEW p \in Processes, NEW q \in Processes, NEW store, NEW links,
         Selects(p), Fetches(p), Backed(p, store, links), Runs(p, "install"), p.pc \notin Fetching,
         q.pc \notin Fetching, q.command = p.command, q.manifest = p.manifest, q.pending = p.pending,
         q.minimums = p.minimums, q.requires_map = p.requires_map, q.fetched = p.fetched, q.lf = p.lf
  PROVE  Selects(q) /\ Fetches(q) /\ Backed(q, store, links)
<1>1. Asked(q) = Asked(p) /\ (\A x : Met(q, x) = Met(p, x)) /\ \A n : Chosen(q, n) = Chosen(p, n)
  BY DEF Asked, Met, Chosen
<1>2. Selects(q)
  BY <1>1 DEF Selects
<1>3. Fetches(q)
  BY <1>1 DEF Fetches
<1>4. Backed(q, store, links)
  BY DEF Backed, Fetching
<1> QED BY <1>2, <1>3, <1>4

\* The work list is empty.
LEMMA ResolvedKeeps == ASSUME Inductive, NEW j \in Projects, Resolved(j) PROVE Inductive'
<1> DEFINE p == proc[j]
           q == [p EXCEPT !.pc = "place", !.todo = DOMAIN p.minimums]
<1>1. /\ World /\ UNCHANGED <<manifest, published, cas, torn, lib, lock, tmp>> /\ Later
      /\ p \in Processes /\ p.pc = "resolve" /\ p.pending = <<>> /\ Become(j, q)
      /\ InOrder(p) /\ Selects(p) /\ Fetches(p) /\ Backed(p, cas, lib[j])
  BY EventIsLater, Parts DEF Resolved, world, disk
<1>2. Runs(p, "install") /\ p.manifest \in Manifests /\ ~Copying(p) /\ torn' \subseteq Hashes
  BY <1>1 DEF InOrder, Runs, Copying, World
<1>3. q \in Processes
  <2>1. DOMAIN p.minimums \in NameSets
    BY <1>1, MapValues DEF Processes, Selections, NameSets
  <2> QED BY <1>1, <2>1 DEF Processes, Steps, Placing
<1>4. /\ q.pc = "place" /\ q.copied = p.copied /\ q.todo = DOMAIN p.minimums /\ q.command = p.command
      /\ q.manifest = p.manifest /\ q.pending = p.pending /\ q.minimums = p.minimums
      /\ q.requires_map = p.requires_map /\ q.fetched = p.fetched /\ q.lf = p.lf
  BY <1>1 DEF Processes
<1> HIDE DEF p, q
<1>5. InOrder(q) /\ ~Copying(q) /\ Written(q, tmp[j])
  BY <1>1, <1>2, <1>4 DEF InOrder, Runs, Fetching, Placing, Copying, Written
<1>6. Selects(q) /\ Fetches(q) /\ Backed(q, cas, lib[j])
  BY <1>1, <1>2, <1>3, <1>4, SameInHand DEF Fetching
<1>7. Agrees(q, cas, lib[j], tmp[j])
  BY <1>5, <1>6 DEF Agrees
<1> QED BY <1>1, <1>2, <1>3, <1>5, <1>7, Thinks DEF p

-----------------------------------------------------------------------------
(* Fetching.                                                               *)

\* A package that cannot be had counts as a leaf of the graph.
LEMMA LackingKeeps ==
  ASSUME Inductive, NEW j \in Projects, proc[j].pc \in Fetching, Become(j, Lacking(proc[j])),
         UNCHANGED <<manifest, published, cas, lib, lock, tmp>>, Later,
         Copying(proc[j]) => proc[j].hash \in torn', torn \subseteq torn', torn' \subseteq Hashes
  PROVE  Inductive'
<1>1. /\ proc[j] \in Processes /\ InOrder(proc[j]) /\ Selects(proc[j]) /\ Fetches(proc[j])
      /\ Backed(proc[j], cas, lib[j])
  BY Parts
<1>2. PICK q : q = Lacking(proc[j])
  OBVIOUS
<1>3. q \in Processes /\ ~Copying(q) /\ \A file : Agrees(q, cas, lib[j], file)
  BY <1>1, <1>2, LackingAgrees
<1>4. Agrees(q, cas, lib[j], tmp[j]) /\ Become(j, q)
  BY <1>2, <1>3
<1> QED BY <1>3, <1>4, Thinks

\* Its source is unreachable.
LEMMA UnreachableKeeps == ASSUME Inductive, NEW j \in Projects, Unreachable(j) PROVE Inductive'
<1>1. /\ World /\ UNCHANGED <<manifest, published, cas, torn, lib, lock, tmp>> /\ Later
      /\ proc[j].pc \in Fetching /\ ~Copying(proc[j]) /\ Become(j, Lacking(proc[j]))
  BY EventIsLater DEF Inductive, Unreachable, world, disk, Fetching, Copying
<1>2. torn \subseteq torn' /\ torn' \subseteq Hashes
  BY <1>1 DEF World
<1> QED BY <1>1, <1>2, LackingKeeps

\* Copying it into the store fails.
LEMMA CopyFailsKeeps == ASSUME Inductive, NEW j \in Projects, CopyFails(j) PROVE Inductive'
<1>1. /\ World /\ UNCHANGED <<manifest, published, cas, lib, lock, tmp>> /\ Later
      /\ Copying(proc[j]) /\ Become(j, Lacking(proc[j])) /\ torn' = torn \cup {proc[j].hash}
      /\ InOrder(proc[j])
  BY EventIsLater, Parts DEF CopyFails, world
<1>2. proc[j].pc \in Fetching /\ proc[j].hash \in Hashes
  BY <1>1 DEF InOrder, Copying, Fetching
<1>3. torn \subseteq torn' /\ torn' \subseteq Hashes /\ proc[j].hash \in torn'
  BY <1>1, <1>2 DEF World
<1> QED BY <1>1, <1>2, <1>3, LackingKeeps

\* The content hash of what is published.
LEMMA HashIsTyped ==
  ASSUME World, NEW r \in Refs
  PROVE  Hash(r) \in Hashes /\ Hash(r).ref = r
<1>1. published[r] \in 1 .. events + 1 /\ events \in 0 .. MaxEvents /\ MaxEvents \in Nat
  BY PackagesAssumption DEF World
<1>2. published[r] \in 1 .. MaxEvents + 1
  BY <1>1
<1> QED BY <1>2 DEF Hash, Hashes

\* What of a process a copy leaves alone.
SameRun(p, q) ==
  /\ q.command = p.command /\ q.manifest = p.manifest /\ q.pending = p.pending /\ q.todo = p.todo
  /\ q.current = p.current /\ q.minimums = p.minimums /\ q.requires_map = p.requires_map
  /\ q.fetched = p.fetched /\ q.lf = p.lf

\* The package in hand goes one step further; q.hash names it.
LEMMA NextInHand ==
  ASSUME NEW p \in Processes, NEW q \in Processes, NEW store, NEW links,
         InOrder(p), Selects(p), Fetches(p), Backed(p, store, links), p.pc \in Fetching,
         q.pc \in Fetching \ {"fetch"}, q.hash \in Hashes, q.hash.ref = p.current,
         q.pc = "fill" => q.file \in Files, ~Copying(q) => q.copied = {}, q.pc # "mkdir" => store[q.hash] # None,
         SameRun(p, q)
  PROVE  \A file : Agrees(q, store, links, file)
<1> USE DEF SameRun
<1>1. p.pc # "idle" /\ q.pc # "idle" /\ q.pc \notin Placing /\ q.pc # "resolve" /\ q.pc # "rename"
  BY DEF Fetching, Placing
<1>2. Asked(q) = Asked(p) /\ (\A x : Met(q, x) = Met(p, x)) /\ \A n : Chosen(q, n) = Chosen(p, n)
  BY DEF Asked, Met, Chosen
<1>3. \A verb : Runs(q, verb) = Runs(p, verb)
  BY <1>1 DEF Runs
<1>4. InOrder(q)
  <2>1. q.pc \notin {"sync", "link"}
    BY DEF Fetching
  <2> QED BY <1>1, <1>3, <2>1 DEF InOrder
<1>5. Selects(q)
  BY <1>2, <1>3 DEF Selects
<1>6. Fetches(q)
  BY <1>2, <1>3 DEF Fetches
<1>7. Backed(q, store, links)
  BY <1>3 DEF Backed
<1> QED BY <1>1, <1>4, <1>5, <1>6, <1>7 DEF Agrees, Written

\* A tree is fetched and hashed.
LEMMA FetchedKeeps == ASSUME Inductive, NEW j \in Projects, Fetched(j) PROVE Inductive'
<1> DEFINE p == proc[j]
           h == Hash(p.current)
           q == [p EXCEPT !.hash = h, !.pc = IF Has(h) THEN "stored" ELSE "mkdir"]
<1>1. /\ World /\ UNCHANGED <<manifest, published, cas, torn, lib, lock, tmp>> /\ Later
      /\ p \in Processes /\ p.pc = "fetch" /\ Become(j, q)
      /\ InOrder(p) /\ Selects(p) /\ Fetches(p) /\ Backed(p, cas, lib[j])
  BY EventIsLater, Parts DEF Fetched, Contacted, world, disk
<1>2. /\ h \in Hashes /\ h.ref = p.current /\ p.pc \in Fetching /\ ~Copying(p) /\ p.copied = {}
      /\ torn' \subseteq Hashes
  BY <1>1, HashIsTyped DEF InOrder, Fetching, Copying, World
<1> HIDE DEF h
<1>3. q \in Processes
  BY <1>1, <1>2 DEF Processes, SomeHash, Steps, Fetching
<1>4. q.pc = (IF Has(h) THEN "stored" ELSE "mkdir") /\ q.copied = {} /\ q.hash = h /\ SameRun(p, q)
  BY <1>1, <1>2 DEF Processes, SameRun
<1> HIDE DEF p, q
<1>5. /\ q.pc \in Fetching \ {"fetch"} /\ (q.pc = "fill" => q.file \in Files)
      /\ (q.pc # "mkdir" => cas[q.hash] # None) /\ ~Copying(q)
  BY <1>4 DEF Fetching, Has, Copying
<1>6. Agrees(q, cas, lib[j], tmp[j])
  BY <1>1, <1>2, <1>3, <1>4, <1>5, NextInHand
<1> QED BY <1>1, <1>2, <1>3, <1>5, <1>6, Thinks DEF p

\* The requirements of a fetched tree are read.
LEMMA ReadRequiresKeeps == ASSUME Inductive, NEW j \in Projects, ReadRequires(j) PROVE Inductive'
<1> DEFINE p == proc[j]
           fm == Bind(p.fetched, p.current, p.hash)
           kept == [p EXCEPT !.fetched = fm]
<1>1. /\ World /\ UNCHANGED <<manifest, published, cas, torn, lib, lock, tmp>> /\ Later
      /\ p \in Processes /\ p.pc = "stored" /\ p.command.verb = "install"
      /\ InOrder(p) /\ Selects(p) /\ Fetches(p) /\ Backed(p, cas, lib[j])
  BY EventIsLater, Parts DEF ReadRequires, world, disk
<1>2. /\ p.pc \in Fetching /\ p.hash \in SomeHash /\ p.hash.ref = p.current /\ cas[p.hash] # None
      /\ p.current \in Refs /\ p.copied = {} /\ ~Copying(p) /\ torn \subseteq torn' /\ torn' \subseteq Hashes
  BY <1>1 DEF InOrder, Fetching, SomeHash, Backed, Copying, World
<1>3. PICK refs \in Seq(Refs) : Become(j, Provided(kept, p.current, refs))
  <2>1. \E refs : /\ Become(j, Provided(kept, p.current, refs))
                  /\ refs = <<>> \/ refs = Requires[p.current]
    BY DEF ReadRequires
  <2>2. <<>> \in Seq(Refs) /\ Requires[p.current] \in Seq(Refs)
    BY <1>2, Elements, RefsAndNames
  <2> HIDE DEF kept
  <2> QED BY <2>1, <2>2
<1>4. fm \in FetchMaps
  <2>1. p.fetched \in Maps(Refs, Hashes \cup {None}) /\ p.hash \in Hashes \cup {None}
    BY <1>1, <1>2 DEF Processes, FetchMaps, SomeHash
  <2>2. fm \in Maps(Refs, Hashes \cup {None})
    BY <1>2, <2>1, BoundMap
  <2> HIDE DEF fm
  <2> QED BY <2>2 DEF FetchMaps
<1>5. PICK f : f = fm
  OBVIOUS
<1>6. kept = [p EXCEPT !.fetched = f] /\ f \in FetchMaps /\ f = Bind(p.fetched, p.current, p.hash)
  BY <1>4, <1>5
<1> HIDE DEF fm, kept
<1>7. kept \in Processes
  BY <1>1, <1>6 DEF Processes
<1>8. /\ kept.fetched = f /\ kept.command = p.command /\ kept.manifest = p.manifest
      /\ kept.pending = p.pending /\ kept.minimums = p.minimums
      /\ kept.requires_map = p.requires_map /\ kept.lf = p.lf /\ kept.copied = {}
  BY <1>1, <1>2, <1>6 DEF Processes
<1>9. PICK q : q = Provided(kept, p.current, refs)
  OBVIOUS
<1> HIDE DEF p
<1>10. q \in Processes /\ ~Copying(q) /\ \A file : Agrees(q, cas, lib[j], file)
  BY <1>1, <1>2, <1>6, <1>7, <1>8, <1>9, AnsweredAgrees, ZenonT(40)
<1>11. Agrees(q, cas, lib[j], tmp[j]) /\ Become(j, q)
  BY <1>3, <1>9, <1>10
<1> QED BY <1>1, <1>2, <1>10, <1>11, Thinks DEF p

\* The hash is compared with the lock.
LEMMA CompareIntegrityKeeps == ASSUME Inductive, NEW j \in Projects, CompareIntegrity(j) PROVE Inductive'
<1> DEFINE p == proc[j]
           q == [p EXCEPT !.pc = "link"]
<1>1. /\ World /\ UNCHANGED <<manifest, published, cas, torn, lib, lock, tmp>> /\ Later
      /\ p \in Processes /\ p.pc = "stored" /\ p.command.verb = "sync" /\ InOrder(p)
      /\ Become(j, q) \/ Become(j, SyncOn(p))
  BY EventIsLater, Parts DEF CompareIntegrity, world, disk
<1>2. Runs(p, "sync") /\ ~Copying(p) /\ p.copied = {} /\ torn' \subseteq Hashes
  BY <1>1 DEF Runs, Copying, InOrder, World
<1>3. CASE Become(j, q)
  <2>1. q \in Processes
    BY <1>1 DEF Processes, Steps
  <2>2. q.pc = "link" /\ q.copied = p.copied /\ q.command = p.command /\ q.todo = p.todo /\ q.lf = p.lf
    BY <1>1 DEF Processes
  <2> HIDE DEF p, q
  <2>3. Agrees(q, cas, lib[j], tmp[j]) /\ ~Copying(q)
    BY <1>1, <1>2, <2>2
       DEF Agrees, InOrder, Selects, Fetches, Backed, Written, Runs, Fetching, Placing, Copying
  <2> QED BY <1>1, <1>2, <1>3, <2>1, <2>3, Thinks DEF p
<1>4. CASE Become(j, SyncOn(p))
  <2>1. PICK o : o = SyncOn(p)
    OBVIOUS
  <2>2. o \in Processes /\ Agrees(o, cas, lib[j], tmp[j]) /\ ~Copying(o)
    BY <1>1, <1>2, <2>1, SyncOnAgrees DEF Agrees
  <2>3. Become(j, o)
    BY <1>4, <2>1
  <2> QED BY <1>1, <1>2, <2>2, <2>3, Thinks
<1> QED BY <1>1, <1>3, <1>4

-----------------------------------------------------------------------------
(* Copying into the store.                                                 *)

\* The tree under h becomes this one.
StoredAs(h, tree) == cas' = [cas EXCEPT ![h] = tree]

\* One step of a copy: only the tree of p.hash changes.
LEMMA StoreStep ==
  ASSUME Inductive, NEW j \in Projects, proc[j].pc \in {"mkdir", "copy", "fill"},
         NEW tree \in FileSets, StoredAs(proc[j].hash, tree),
         NEW q \in Processes, Become(j, q), q.pc \in {"copy", "fill"},
         q.pc = "fill" => q.file \in Files, q.hash = proc[j].hash, SameRun(proc[j], q),
         UNCHANGED <<manifest, published, torn, lib, lock, tmp, events>>
  PROVE  /\ World' /\ ProcessesAgree' /\ TreesFill'
         /\ proc[j].hash \in Hashes /\ cas'[proc[j].hash] = tree
         /\ \A h \in Hashes : h # proc[j].hash => cas'[h] = cas[h]
         /\ proc'[j] = q /\ \A k \in Projects \ {j} : proc'[k] = proc[k]
<1> DEFINE p == proc[j]
<1>1. /\ World /\ p \in Processes /\ InOrder(p) /\ Selects(p) /\ Fetches(p) /\ Backed(p, cas, lib[j])
      /\ ProcessesAgree /\ TreesFill
  BY Parts DEF Inductive
<1>2. p.pc \in Fetching \ {"fetch"} /\ p.hash \in Hashes /\ p.hash.ref = p.current
  BY <1>1 DEF InOrder, Fetching
<1>3. /\ cas'[p.hash] = tree /\ tree # None
      /\ \A h \in Hashes : h # p.hash => cas'[h] = cas[h]
      /\ cas' \in [Hashes -> (SUBSET Files) \cup {None}]
  BY <1>1, <1>2, PackagesAssumption DEF World, StoredAs, FileSets
<1>4. /\ proc'[j] = q /\ proc' \in [Projects -> Processes]
      /\ \A k \in Projects \ {j} : proc'[k] = proc[k]
  BY <1>1, BecomeEffect DEF World
<1>5. \A h \in Hashes : cas[h] # None => cas'[h] # None
  BY <1>3
<1>6. Agrees(q, cas', lib[j], tmp[j])
  <2>1. Backed(p, cas', lib[j])
    BY <1>1, <1>5, BackedGrows
  <2>2. q.pc \in Fetching \ {"fetch"} /\ Copying(q) /\ cas'[q.hash] # None /\ p.pc \in Fetching
    BY <1>2, <1>3 DEF Fetching, Copying
  <2> QED BY <1>1, <1>2, <2>1, <2>2, NextInHand
<1>7. ProcessesAgree'
  BY <1>1, <1>5, <1>6, StepAgrees
<1>8. World'
  BY <1>1, <1>3, <1>4 DEF World
<1>9. TreesFill'
  <2>1. ASSUME NEW h \in Hashes, cas'[h] # None
        PROVE  \/ cas'[h] = Files
               \/ h \in torn'
               \/ \E k \in Projects : Copying(proc'[k]) /\ proc'[k].hash = h
    <3>1. CASE h = p.hash
      BY <1>4, <3>1 DEF Copying
    <3>2. CASE h # p.hash
      <4>1. \/ cas[h] = Files
            \/ h \in torn
            \/ \E k \in Projects : Copying(proc[k]) /\ proc[k].hash = h
        BY <1>1, <1>3, <2>1, <3>2 DEF TreesFill
      <4>2. ASSUME NEW k \in Projects, Copying(proc[k]), proc[k].hash = h
            PROVE  Copying(proc'[k]) /\ proc'[k].hash = h
        <5>1. k # j
          BY <3>2, <4>2
        <5> QED BY <1>4, <4>2, <5>1
      <4> QED BY <1>3, <3>2, <4>1, <4>2
    <3> QED BY <3>1, <3>2
  <2> QED BY <2>1 DEF TreesFill, Copying
<1> QED BY <1>2, <1>3, <1>4, <1>7, <1>8, <1>9

\* A file a copy has been through is full, or another process is at it.
LEMMA FillingAt ==
  ASSUME Inductive, NEW i \in Projects, Copying(proc[i]), NEW f \in proc[i].copied
  PROVE  \/ f \in cas[proc[i].hash]
         \/ proc[i].hash \in torn
         \/ \E k \in Projects : proc[k].pc = "fill" /\ proc[k].hash = proc[i].hash /\ proc[k].file = f
BY DEF Inductive, Filling

\* The tree is made in the store.
LEMMA MakeTreeKeeps == ASSUME Inductive, NEW j \in Projects, MakeTree(j) PROVE Inductive'
<1> DEFINE p == proc[j]
           h == p.hash
           tree == IF cas[h] = None THEN {} ELSE cas[h]
           q == [p EXCEPT !.pc = "copy"]
<1>1. /\ World /\ UNCHANGED <<manifest, published, torn, lib, lock, tmp, events>>
      /\ p \in Processes /\ p.pc = "mkdir" /\ Go(j, "copy") /\ InOrder(p)
      /\ cas' = [cas EXCEPT ![h] = IF @ = None THEN {} ELSE @]
  BY Parts DEF MakeTree, world
<1>2. h \in Hashes /\ p.copied = {}
  BY <1>1 DEF InOrder, Fetching, Copying
<1>3. tree \in FileSets
  BY <1>1, <1>2 DEF World, FileSets
<1>4. StoredAs(h, tree)
  BY <1>1, <1>2 DEF World, StoredAs
<1>5. q \in Processes
  BY <1>1 DEF Processes, Steps, Fetching
<1>6. Become(j, q)
  BY <1>1 DEF Go, Become, World
<1>7. q.pc = "copy" /\ q.copied = {} /\ q.hash = h /\ SameRun(p, q)
  BY <1>1, <1>2 DEF Processes, SameRun
<1>8. tree = cas[h] \/ (cas[h] = None /\ tree = {})
  OBVIOUS
<1> HIDE DEF tree, q
<1>9. /\ World' /\ ProcessesAgree' /\ TreesFill' /\ cas'[h] = tree
      /\ \A g \in Hashes : g # h => cas'[g] = cas[g]
      /\ proc'[j] = q /\ \A k \in Projects \ {j} : proc'[k] = proc[k]
  <2>1. /\ p.pc \in {"mkdir", "copy", "fill"} /\ q.pc \in {"copy", "fill"} /\ (q.pc = "fill" => q.file \in Files)
        /\ UNCHANGED <<manifest, published, torn, lib, lock, tmp, events>>
    BY <1>1, <1>7
  <2> QED BY <1>3, <1>4, <1>5, <1>6, <1>7, <2>1, StoreStep
<1>10. ASSUME NEW i \in Projects, Copying(proc'[i]), NEW f \in proc'[i].copied
       PROVE  \/ f \in cas'[proc'[i].hash]
              \/ proc'[i].hash \in torn'
              \/ \E k \in Projects : proc'[k].pc = "fill" /\ proc'[k].hash = proc'[i].hash /\ proc'[k].file = f
  <2>1. i # j /\ proc'[i] = proc[i]
    BY <1>7, <1>9, <1>10
  <2>2. InOrder(proc[i]) /\ Backed(proc[i], cas, lib[i]) /\ Copying(proc[i])
    BY <1>10, <2>1, Parts
  <2>3. proc[i].hash \in Hashes /\ cas[proc[i].hash] # None
    BY <2>2 DEF InOrder, Backed, Copying, Fetching
  <2>4. cas'[proc[i].hash] = cas[proc[i].hash]
    BY <1>8, <1>9, <2>3
  <2>5. \/ f \in cas[proc[i].hash]
        \/ proc[i].hash \in torn
        \/ \E k \in Projects : proc[k].pc = "fill" /\ proc[k].hash = proc[i].hash /\ proc[k].file = f
    BY <1>10, <2>1, <2>2, FillingAt
  <2>6. ASSUME NEW k \in Projects, proc[k].pc = "fill" PROVE proc'[k] = proc[k]
    BY <1>1, <1>9, <2>6
  <2> QED BY <1>1, <2>1, <2>4, <2>5, <2>6
<1>11. Filling'
  BY <1>10 DEF Filling, Copying
<1> QED BY <1>9, <1>11 DEF Inductive

\* A file of it is created, empty.
LEMMA OpenFileKeeps == ASSUME Inductive, NEW j \in Projects, OpenFile(j) PROVE Inductive'
<1> DEFINE p == proc[j]
           h == p.hash
<1> PICK f0 \in Files \ p.copied :
      /\ cas' = [cas EXCEPT ![h] = @ \ {f0}]
      /\ Become(j, [p EXCEPT !.pc = "fill", !.file = f0])
  BY DEF OpenFile
<1> DEFINE tree == cas[h] \ {f0}
           q == [p EXCEPT !.pc = "fill", !.file = f0]
<1>1. /\ World /\ UNCHANGED <<manifest, published, torn, lib, lock, tmp, events>>
      /\ p \in Processes /\ p.pc = "copy" /\ InOrder(p) /\ Backed(p, cas, lib[j])
  BY Parts DEF OpenFile, world
<1>2. h \in Hashes /\ cas[h] \in SUBSET Files
  BY <1>1 DEF InOrder, Backed, Fetching, World
<1>3. tree \in FileSets /\ StoredAs(h, tree)
  BY <1>1, <1>2 DEF FileSets, StoredAs
<1>4. q \in Processes
  BY <1>1 DEF Processes, Steps, Fetching, SomeFile
<1>5. Become(j, q)
  OBVIOUS
<1>6. q.pc = "fill" /\ q.file = f0 /\ q.copied = p.copied /\ q.hash = h /\ SameRun(p, q)
  BY <1>1 DEF Processes, SameRun
<1>7. \A f \in cas[h] : f \in tree \/ f = f0
  OBVIOUS
<1> HIDE DEF tree, q
<1>8. /\ World' /\ ProcessesAgree' /\ TreesFill' /\ cas'[h] = tree
      /\ \A g \in Hashes : g # h => cas'[g] = cas[g]
      /\ proc'[j] = q /\ \A k \in Projects \ {j} : proc'[k] = proc[k]
  <2>1. /\ p.pc \in {"mkdir", "copy", "fill"} /\ q.pc \in {"copy", "fill"} /\ (q.pc = "fill" => q.file \in Files)
        /\ UNCHANGED <<manifest, published, torn, lib, lock, tmp, events>>
    BY <1>1, <1>6
  <2> QED BY <1>3, <1>4, <1>5, <1>6, <2>1, StoreStep
<1>9. ASSUME NEW i \in Projects, Copying(proc'[i]), NEW f \in proc'[i].copied
      PROVE  \/ f \in cas'[proc'[i].hash]
             \/ proc'[i].hash \in torn'
             \/ \E k \in Projects : proc'[k].pc = "fill" /\ proc'[k].hash = proc'[i].hash /\ proc'[k].file = f
  <2>1. Copying(proc[i]) /\ proc[i].copied = proc'[i].copied /\ proc[i].hash = proc'[i].hash
    BY <1>1, <1>6, <1>8, <1>9 DEF Copying
  <2>2. proc[i].hash \in Hashes
    BY <2>1, Parts DEF InOrder, Copying, Fetching
  <2>3. \/ f \in cas[proc[i].hash]
        \/ proc[i].hash \in torn
        \/ \E k \in Projects : proc[k].pc = "fill" /\ proc[k].hash = proc[i].hash /\ proc[k].file = f
    BY <1>9, <2>1, FillingAt
  <2>4. ASSUME NEW k \in Projects, proc[k].pc = "fill" PROVE proc'[k] = proc[k]
    BY <1>1, <1>8, <2>4
  <2>5. ASSUME f \in cas[proc[i].hash]
        PROVE  f \in cas'[proc[i].hash] \/ (proc'[j].pc = "fill" /\ proc'[j].hash = proc[i].hash /\ proc'[j].file = f)
    BY <1>6, <1>7, <1>8, <2>2, <2>5
  <2> QED BY <1>1, <2>1, <2>3, <2>4, <2>5
<1>10. Filling'
  BY <1>9 DEF Filling, Copying
<1> QED BY <1>8, <1>10 DEF Inductive

\* The file is filled.
LEMMA FillFileKeeps == ASSUME Inductive, NEW j \in Projects, FillFile(j) PROVE Inductive'
<1> DEFINE p == proc[j]
           h == p.hash
           tree == cas[h] \cup {p.file}
           cp == p.copied \cup {p.file}
           q == [p EXCEPT !.pc = "copy", !.copied = cp, !.file = None]
<1>1. /\ World /\ UNCHANGED <<manifest, published, torn, lib, lock, tmp, events>>
      /\ p \in Processes /\ p.pc = "fill" /\ InOrder(p) /\ Backed(p, cas, lib[j]) /\ Become(j, q)
      /\ cas' = [cas EXCEPT ![h] = tree]
  BY Parts DEF FillFile, world
<1>2. h \in Hashes /\ cas[h] \in SUBSET Files /\ p.file \in Files
  BY <1>1 DEF InOrder, Backed, Fetching, World
<1>3. tree \in FileSets /\ StoredAs(h, tree) /\ cp \in FileSets /\ None \in SomeFile
  BY <1>1, <1>2 DEF Processes, FileSets, SomeFile, StoredAs
<1> HIDE DEF cp
<1>4. q \in Processes
  BY <1>1, <1>3 DEF Processes, Steps, Fetching
<1>5. q.pc = "copy" /\ q.copied = cp /\ q.hash = h /\ SameRun(p, q)
  BY <1>1 DEF Processes, SameRun
<1>6. p.file \in tree /\ cas[h] \subseteq tree /\ \A f \in cp : f \in p.copied \/ f = p.file
  BY DEF cp
<1> HIDE DEF tree, q
<1>7. /\ World' /\ ProcessesAgree' /\ TreesFill' /\ cas'[h] = tree
      /\ \A g \in Hashes : g # h => cas'[g] = cas[g]
      /\ proc'[j] = q /\ \A k \in Projects \ {j} : proc'[k] = proc[k]
  <2>1. /\ p.pc \in {"mkdir", "copy", "fill"} /\ q.pc \in {"copy", "fill"} /\ (q.pc = "fill" => q.file \in Files)
        /\ UNCHANGED <<manifest, published, torn, lib, lock, tmp, events>>
    BY <1>1, <1>5
  <2>2. Become(j, q)
    BY <1>1
  <2> QED BY <1>3, <1>4, <1>5, <2>1, <2>2, StoreStep
<1>8. ASSUME NEW i \in Projects, Copying(proc'[i]), NEW f \in proc'[i].copied
      PROVE  \/ f \in cas'[proc'[i].hash]
             \/ proc'[i].hash \in torn'
             \/ \E k \in Projects : proc'[k].pc = "fill" /\ proc'[k].hash = proc'[i].hash /\ proc'[k].file = f
  <2>1. /\ Copying(proc[i]) /\ proc[i].hash = proc'[i].hash
        /\ f \in proc[i].copied \/ (i = j /\ f = p.file)
    BY <1>1, <1>5, <1>6, <1>7, <1>8 DEF Copying
  <2>2. proc[i].hash \in Hashes
    BY <2>1, Parts DEF InOrder, Copying, Fetching
  <2>3. CASE i = j /\ f = p.file
    BY <1>6, <1>7, <2>1, <2>3
  <2>4. CASE f \in proc[i].copied
    <3>1. \/ f \in cas[proc[i].hash]
          \/ proc[i].hash \in torn
          \/ \E k \in Projects : proc[k].pc = "fill" /\ proc[k].hash = proc[i].hash /\ proc[k].file = f
      BY <2>1, <2>4, FillingAt
    <3>2. f \in cas[proc[i].hash] => f \in cas'[proc[i].hash]
      BY <1>6, <1>7, <2>2
    <3>3. ASSUME NEW k \in Projects, proc[k].pc = "fill", proc[k].hash = proc[i].hash, proc[k].file = f
          PROVE  f \in cas'[proc[i].hash] \/ proc'[k] = proc[k]
      BY <1>6, <1>7, <3>3
    <3> QED BY <1>1, <2>1, <3>1, <3>2, <3>3
  <2> QED BY <2>1, <2>3, <2>4
<1>9. Filling'
  BY <1>8 DEF Filling, Copying
<1> QED BY <1>7, <1>9 DEF Inductive

\* The copy is complete.
LEMMA CopyDoneKeeps == ASSUME Inductive, NEW j \in Projects, CopyDone(j) PROVE Inductive'
<1> DEFINE p == proc[j]
           h == p.hash
           q == [p EXCEPT !.pc = "stored", !.copied = {}]
<1>1. /\ World /\ UNCHANGED <<manifest, published, cas, torn, lib, lock, tmp>> /\ Later
      /\ p \in Processes /\ p.pc = "copy" /\ p.copied = Files /\ Become(j, q)
      /\ InOrder(p) /\ Selects(p) /\ Fetches(p) /\ Backed(p, cas, lib[j])
      /\ ProcessesAgree /\ Filling /\ TreesFill
  BY EventIsLater, Parts DEF CopyDone, Copied, world, disk, Inductive
<1>2. /\ h \in Hashes /\ h.ref = p.current /\ cas[h] # None /\ cas[h] \in SUBSET Files
      /\ p.pc \in Fetching /\ Copying(p)
  BY <1>1 DEF InOrder, Backed, Fetching, Copying, World
<1>3. q \in Processes
  <2>1. {} \in FileSets /\ "stored" \in Steps
    BY DEF FileSets, Steps, Fetching
  <2> QED BY <1>1, <2>1 DEF Processes
<1>4. q.pc = "stored" /\ q.copied = {} /\ q.hash = h /\ SameRun(p, q)
  BY <1>1 DEF Processes, SameRun
<1> HIDE DEF q
<1>5. /\ proc' \in [Projects -> Processes] /\ proc'[j] = q
      /\ \A k \in Projects \ {j} : proc'[k] = proc[k]
  BY <1>1, <1>3, BecomeEffect DEF World
<1>6. Agrees(q, cas, lib[j], tmp[j])
  <2>1. q.pc \in Fetching \ {"fetch"} /\ (q.pc = "fill" => q.file \in Files) /\ (q.pc # "mkdir" => cas[q.hash] # None)
    BY <1>2, <1>4 DEF Fetching
  <2> QED BY <1>1, <1>2, <1>3, <1>4, <2>1, NextInHand
<1>7. ProcessesAgree'
  <2>1. /\ Agrees(q, cas', lib'[j], tmp'[j]) /\ \A g \in Hashes : cas[g] # None => cas'[g] # None
        /\ \A k \in Projects \ {j} : lib'[k] = lib[k] /\ tmp'[k] = tmp[k]
    BY <1>1, <1>6
  <2> QED BY <1>1, <1>3, <2>1, StepAgrees
<1>8. World'
  BY <1>1, <1>5, LaterIsTyped DEF World, Later
<1>9. \A k \in Projects : proc[k].pc = "fill" => k # j /\ proc'[k] = proc[k]
  BY <1>1, <1>5
<1>10. ASSUME NEW i \in Projects, Copying(proc'[i]), NEW f \in proc'[i].copied
       PROVE  \/ f \in cas'[proc'[i].hash]
              \/ proc'[i].hash \in torn'
              \/ \E k \in Projects : proc'[k].pc = "fill" /\ proc'[k].hash = proc'[i].hash /\ proc'[k].file = f
  <2>1. proc'[i] = proc[i]
    BY <1>4, <1>5, <1>10
  <2>2. \/ f \in cas[proc[i].hash]
        \/ proc[i].hash \in torn
        \/ \E k \in Projects : proc[k].pc = "fill" /\ proc[k].hash = proc[i].hash /\ proc[k].file = f
    BY <1>10, <2>1, FillingAt
  <2> QED BY <1>1, <1>9, <2>1, <2>2
<1>11. ASSUME NEW g \in Hashes, cas'[g] # None
       PROVE  \/ cas'[g] = Files
              \/ g \in torn'
              \/ \E k \in Projects : Copying(proc'[k]) /\ proc'[k].hash = g
  <2>1. \/ cas[g] = Files
        \/ g \in torn
        \/ \E k \in Projects : Copying(proc[k]) /\ proc[k].hash = g
    BY <1>1, <1>11 DEF TreesFill
  <2>2. ASSUME NEW k \in Projects, k # j, Copying(proc[k]), proc[k].hash = g
        PROVE  \E i \in Projects : Copying(proc'[i]) /\ proc'[i].hash = g
    BY <1>5, <2>2
  <2>3. CASE g = h
    <3>1. ASSUME NEW f \in Files, g \notin torn
          PROVE  f \in cas[g] \/ \E i \in Projects : Copying(proc'[i]) /\ proc'[i].hash = g
      <4>1. \/ f \in cas[h]
            \/ \E k \in Projects : proc[k].pc = "fill" /\ proc[k].hash = h /\ proc[k].file = f
        BY <1>1, <1>2, <2>3, <3>1, FillingAt
      <4> QED BY <1>9, <2>2, <2>3, <4>1 DEF Copying
    <3>2. g \notin torn => (cas[g] = Files \/ \E i \in Projects : Copying(proc'[i]) /\ proc'[i].hash = g)
      BY <1>2, <2>3, <3>1
    <3> QED BY <1>1, <3>2
  <2>4. CASE g # h
    BY <1>1, <2>1, <2>2, <2>4
  <2> QED BY <2>3, <2>4
<1>12. Filling' /\ TreesFill'
  BY <1>10, <1>11 DEF Filling, TreesFill, Copying
<1> QED BY <1>7, <1>8, <1>12 DEF Inductive

-----------------------------------------------------------------------------
(* Placing what was resolved, and the lock.                                *)

\* A run that has resolved goes on to step s.
LEMMA GoesOn ==
  ASSUME NEW p \in Processes, NEW store, NEW links, InOrder(p), Selects(p), Fetches(p),
         Backed(p, store, links), p.pc \in Placing, NEW s \in Placing, NEW q, q = [p EXCEPT !.pc = s]
  PROVE  /\ q \in Processes /\ ~Copying(q) /\ q.pc = s /\ q.lf = p.lf
         /\ InOrder(q) /\ Selects(q) /\ Fetches(q) /\ Backed(q, store, links)
<1>1. q \in Processes
  BY DEF Processes, Steps
<1>2. /\ q.pc = s /\ q.copied = p.copied /\ q.todo = p.todo /\ q.command = p.command
      /\ q.manifest = p.manifest /\ q.pending = p.pending /\ q.minimums = p.minimums
      /\ q.requires_map = p.requires_map /\ q.fetched = p.fetched /\ q.lf = p.lf
  BY DEF Processes
<1>3. /\ p.pc # "idle" /\ q.pc # "idle" /\ p.pc \notin Fetching /\ q.pc \notin Fetching
      /\ ~Copying(p) /\ ~Copying(q) /\ q.pc # "resolve"
  BY <1>2 DEF Placing, Fetching, Copying
<1>4. Runs(p, "install")
  BY <1>3 DEF InOrder, Runs
<1>5. InOrder(q)
  <2>1. q.pc \notin {"sync", "link"}
    BY <1>2 DEF Placing
  <2> QED BY <1>2, <1>3, <1>4, <2>1 DEF InOrder, Runs, Fetching
<1>6. Selects(q) /\ Fetches(q) /\ Backed(q, store, links)
  BY <1>1, <1>2, <1>3, <1>4, SameInHand
<1> QED BY <1>1, <1>2, <1>3, <1>5, <1>6

\* A step that only moves the program counter.
LEMMA GoIsBecome ==
  ASSUME World, NEW j \in Projects, NEW s, Go(j, s)
  PROVE  Become(j, [proc[j] EXCEPT !.pc = s])
BY DEF Go, Become, World

\* The lock of the project may change in tmp, but not what it rests on.
LEMMA GoesOnKeeps ==
  ASSUME Inductive, NEW j \in Projects, proc[j].pc \in Placing, NEW s \in Placing, Go(j, s),
         UNCHANGED <<manifest, published, cas, torn, lib, lock>>, Later,
         tmp' \in [Projects -> LockFiles], \A k \in Projects \ {j} : tmp'[k] = tmp[k],
         s = "rename" => tmp'[j] = [whole |-> TRUE, packages |-> proc[j].lf]
  PROVE  Inductive'
<1>1. /\ World /\ proc[j] \in Processes /\ InOrder(proc[j]) /\ Selects(proc[j]) /\ Fetches(proc[j])
      /\ Backed(proc[j], cas, lib[j])
  BY Parts
<1>2. PICK q : q = [proc[j] EXCEPT !.pc = s]
  OBVIOUS
<1>3. /\ q \in Processes /\ ~Copying(q) /\ q.pc = s /\ q.lf = proc[j].lf
      /\ InOrder(q) /\ Selects(q) /\ Fetches(q) /\ Backed(q, cas, lib[j])
  BY <1>1, <1>2, GoesOn
<1>4. Become(j, q) /\ ~Copying(proc[j])
  BY <1>1, <1>2, GoIsBecome DEF Placing, Copying
<1>5. Agrees(q, cas, lib'[j], tmp'[j])
  BY <1>3 DEF Agrees, Written
<1>6. Typed
  BY <1>1 DEF Typed, World
<1> QED BY <1>3, <1>4, <1>5, <1>6, Moves

\* All packages are fetched.
LEMMA PostFetchKeeps == ASSUME Inductive, NEW j \in Projects, PostFetch(j) PROVE Inductive'
<1>1. /\ World /\ proc[j].pc = "hook" /\ (Go(j, "place") \/ Exit(j))
      /\ UNCHANGED <<world, disk, events>>
  BY DEF Inductive, PostFetch
<1>2. UNCHANGED <<manifest, published, cas, torn, lib, lock, tmp>> /\ Later
  BY <1>1, EventIsLater DEF world, disk
<1>3. CASE Go(j, "place")
  <2>1. proc[j].pc \in Placing /\ "place" \in Placing
    BY <1>1 DEF Placing
  <2>2. tmp' \in [Projects -> LockFiles] /\ \A k \in Projects \ {j} : tmp'[k] = tmp[k]
    BY <1>1, <1>2 DEF World
  <2> QED BY <1>2, <1>3, <2>1, <2>2, GoesOnKeeps
<1>4. CASE Exit(j)
  BY <1>1, <1>4, QuietExitKeeps DEF Copying
<1> QED BY <1>1, <1>3, <1>4

\* The command goes on to write the lock.
LEMMA FinishKeeps == ASSUME Inductive, NEW j \in Projects, Finish(j) PROVE Inductive'
<1>1. /\ World /\ proc[j].pc = "place" /\ (Go(j, "write") \/ Exit(j))
      /\ UNCHANGED <<world, disk, events>>
  BY DEF Inductive, Finish
<1>2. UNCHANGED <<manifest, published, cas, torn, lib, lock, tmp>> /\ Later
  BY <1>1, EventIsLater DEF world, disk
<1>3. CASE Go(j, "write")
  <2>1. proc[j].pc \in Placing /\ "write" \in Placing
    BY <1>1 DEF Placing
  <2>2. tmp' \in [Projects -> LockFiles] /\ \A k \in Projects \ {j} : tmp'[k] = tmp[k]
    BY <1>1, <1>2 DEF World
  <2> QED BY <1>2, <1>3, <2>1, <2>2, GoesOnKeeps
<1>4. CASE Exit(j)
  BY <1>1, <1>4, QuietExitKeeps DEF Copying
<1> QED BY <1>1, <1>3, <1>4

\* The temporary lock is truncated.
LEMMA OpenTmpKeeps == ASSUME Inductive, NEW j \in Projects, OpenTmp(j) PROVE Inductive'
<1>1. /\ World /\ UNCHANGED <<manifest, published, cas, torn, lib, lock>> /\ Later
      /\ proc[j].pc = "write" /\ Go(j, "fill_tmp")
      /\ tmp' = [tmp EXCEPT ![j] = [whole |-> FALSE, packages |-> Empty]]
  BY EventIsLater DEF Inductive, OpenTmp, world
<1>2. [whole |-> FALSE, packages |-> Empty] \in LockFiles
  BY EmptyTables DEF LockFiles
<1>3. tmp' \in [Projects -> LockFiles] /\ \A k \in Projects \ {j} : tmp'[k] = tmp[k]
  BY <1>1, <1>2 DEF World
<1>4. proc[j].pc \in Placing /\ "fill_tmp" \in Placing
  BY <1>1 DEF Placing
<1> QED BY <1>1, <1>3, <1>4, GoesOnKeeps

\* The temporary lock is filled.
LEMMA FillTmpKeeps == ASSUME Inductive, NEW j \in Projects, FillTmp(j) PROVE Inductive'
<1>1. /\ World /\ UNCHANGED <<manifest, published, cas, torn, lib, lock>> /\ Later
      /\ proc[j].pc = "fill_tmp" /\ Go(j, "rename")
      /\ tmp' = [tmp EXCEPT ![j] = [whole |-> TRUE, packages |-> proc[j].lf]]
  BY EventIsLater DEF Inductive, FillTmp, world
<1>2. [whole |-> TRUE, packages |-> proc[j].lf] \in LockFiles
  <2>1. proc[j].lf \in Locks
    BY <1>1 DEF World, Processes
  <2> QED BY <2>1 DEF LockFiles
<1>3. /\ tmp' \in [Projects -> LockFiles] /\ \A k \in Projects \ {j} : tmp'[k] = tmp[k]
      /\ tmp'[j] = [whole |-> TRUE, packages |-> proc[j].lf]
  BY <1>1, <1>2 DEF World
<1>4. proc[j].pc \in Placing /\ "rename" \in Placing
  BY <1>1 DEF Placing
<1> QED BY <1>1, <1>3, <1>4, GoesOnKeeps

\* Process p when package n has its entry.
After(p, n, h, s) == [p EXCEPT !.pc = s, !.todo = @ \ {n}, !.lf = Bind(@, n, Entry(p, n, h))]

\* A process that has placed one package agrees with the library.
LEMMA PlacedAgrees ==
  ASSUME NEW p \in Processes, p.pc = "place", p.todo # {}, InOrder(p), Selects(p), Fetches(p),
         NEW store, NEW links, Backed(p, store, links), NEW n, n = Min(p.todo), NEW s \in {"place", "hook"},
         NEW h \in SomeHash, h # None => h.ref = Chosen(p, n) /\ store[h] # None,
         NEW more, h # None => more[h.ref] \in {h, None},
         \A r : h = None \/ r # h.ref => more[r] = links[r],
         NEW q, q = After(p, n, h, s)
  PROVE  q \in Processes /\ ~Copying(q) /\ \A file : Agrees(q, store, more, file)
<1> DEFINE e == Entry(p, n, h)
           lf == Bind(p.lf, n, e)
           td == p.todo \ {n}
<1>1. /\ Runs(p, "install") /\ n \in p.todo /\ n \in DOMAIN p.minimums /\ n \in DOMAIN p.requires_map
      /\ p.todo \subseteq DOMAIN p.minimums /\ p.todo \in SUBSET Names /\ p.pc \in Placing
  <2>1. p.todo \in SUBSET Names /\ p.pc \in Placing /\ p.pc \notin Fetching /\ p.pc # "idle"
    BY DEF Processes, NameSets, Placing, Fetching
  <2>2. n \in p.todo
    BY <2>1, LeastName
  <2>3. p.command.verb = "install" /\ p.todo \subseteq DOMAIN p.minimums
    BY <2>1 DEF InOrder
  <2>4. Runs(p, "install") /\ n \in DOMAIN p.minimums
    BY <2>1, <2>2, <2>3 DEF Runs
  <2>5. n \in DOMAIN p.requires_map
    BY <2>1, <2>4 DEF Fetches
  <2> QED BY <2>1, <2>2, <2>3, <2>4, <2>5
<1>2. e \in Entries /\ e.version = p.minimums[n] /\ e.integrity = h
  <2>1. p.minimums[n] \in Nat /\ p.requires_map[n] \in Seq(Refs)
    BY <1>1, MapValues DEF Processes, Selections, RequireMaps
  <2> QED BY <2>1 DEF Entry, Entries, SomeHash
<1>5. q = [p EXCEPT !.pc = s, !.todo = td, !.lf = lf]
  BY DEF After
<1> HIDE DEF e
<1>3. /\ DOMAIN lf = DOMAIN p.lf \cup {n} /\ lf[n] = e
      /\ \A m \in DOMAIN p.lf : m # n => lf[m] = p.lf[m]
  BY DEF Bind
<1>4. lf \in Locks
  <2>1. p.lf \in Maps(Names, Entries)
    BY DEF Processes, Locks
  <2>2. lf \in Maps(Names, Entries)
    BY <1>1, <1>2, <2>1, BoundMap
  <2>3. ASSUME NEW m \in DOMAIN lf PROVE [name |-> m, version |-> lf[m].version] \in Refs
    <3>1. CASE m = n
      <4>1. [name |-> n, version |-> p.minimums[n]] \in Refs
        BY <1>1 DEF Processes, Selections
      <4> QED BY <1>2, <1>3, <3>1, <4>1
    <3>2. CASE m # n
      <4>1. m \in DOMAIN p.lf /\ lf[m] = p.lf[m]
        BY <1>3, <3>2
      <4> QED BY <4>1 DEF Processes, Locks
    <3> QED BY <3>1, <3>2
  <2> HIDE DEF lf
  <2> QED BY <2>2, <2>3 DEF Locks
<1>6. td \subseteq p.todo
  OBVIOUS
<1> HIDE DEF lf, td
<1>7. q \in Processes
  <2>1. td \in NameSets /\ s \in Steps
    BY <1>1, <1>6 DEF NameSets, Steps, Placing
  <2> QED BY <1>4, <1>5, <2>1 DEF Processes
<1>8. /\ q.pc = s /\ q.todo = td /\ q.lf = lf /\ q.copied = p.copied /\ q.command = p.command
      /\ q.manifest = p.manifest /\ q.pending = p.pending /\ q.minimums = p.minimums
      /\ q.requires_map = p.requires_map /\ q.fetched = p.fetched
  BY <1>5 DEF Processes
<1> HIDE DEF Entry
<1>9. q.pc \in Placing /\ q.pc \notin Fetching /\ q.pc # "rename" /\ ~Copying(q) /\ Runs(q, "install")
  BY <1>1, <1>8 DEF Placing, Fetching, Copying, Runs
<1>10. InOrder(q)
  BY <1>1, <1>6, <1>8, <1>9 DEF InOrder, Runs, Fetching, Placing, Copying
<1>11. Selects(q) /\ Fetches(q)
  <2>1. Asked(q) = Asked(p) /\ (\A x : Met(q, x) = Met(p, x)) /\ \A m : Chosen(q, m) = Chosen(p, m)
    BY <1>8 DEF Asked, Met, Chosen
  <2>2. p.pc \notin Fetching
    BY DEF Fetching
  <2> QED BY <1>1, <1>8, <1>9, <2>1, <2>2 DEF Selects, Fetches
<1>12. Backed(q, store, more)
  <2>1. \A r \in DOMAIN p.fetched : p.fetched[r] # None => store[p.fetched[r]] # None
    BY <1>1 DEF Backed
  <2>2. ASSUME NEW m \in DOMAIN lf, lf[m].integrity # None
        PROVE  /\ store[lf[m].integrity] # None /\ lf[m].integrity.ref.name = m
               /\ more[lf[m].integrity.ref] \in {lf[m].integrity, None}
    <3>1. CASE m = n
      <4>1. h # None /\ lf[m].integrity = h
        BY <1>2, <1>3, <2>2, <3>1
      <4> QED BY <3>1, <4>1 DEF Chosen
    <3>2. CASE m # n
      <4>1. m \in DOMAIN p.lf /\ lf[m] = p.lf[m]
        BY <1>3, <3>2
      <4>2. /\ store[lf[m].integrity] # None /\ lf[m].integrity.ref.name = m
            /\ links[lf[m].integrity.ref] \in {lf[m].integrity, None}
        BY <1>1, <2>2, <4>1 DEF Backed
      <4>3. h = None \/ lf[m].integrity.ref # h.ref
        BY <3>2, <4>2 DEF Chosen
      <4> QED BY <4>2, <4>3
    <3> QED BY <3>1, <3>2
  <2> QED BY <1>8, <1>9, <2>1, <2>2 DEF Backed, Fetching
<1> QED BY <1>7, <1>9, <1>10, <1>11, <1>12 DEF Agrees, Written

\* A link is made to the tree or, where that fails, taken away; it is left alone
\* where there is no tree.
LEMMA Linked ==
  ASSUME World, NEW j \in Projects, NEW h \in SomeHash, Materialise(j, h)
  PROVE  /\ lib' \in [Projects -> [Refs -> Hashes \cup {None}]] /\ Later
         /\ \A k \in Projects \ {j} : lib'[k] = lib[k]
         /\ \A r : r # h.ref => lib'[j][r] = lib[j][r]
         /\ h.ref \in Refs /\ Has(h) => lib'[j][h.ref] \in {h, None}
<1>1. Later
  BY EventIsLater DEF Materialise
<1>2. lib \in [Projects -> [Refs -> SomeHash]]
  BY DEF World, SomeHash
<1>3. CASE ~Has(h)
  BY <1>1, <1>2, <1>3 DEF Materialise, SomeHash
<1>4. CASE Has(h)
  <2>1. PICK v \in SomeHash : v \in {h, None} /\ lib' = [lib EXCEPT ![j][h.ref] = v]
    BY <1>4 DEF Materialise, SomeHash
  <2>2. lib[j] \in [Refs -> SomeHash] /\ lib'[j] = [lib[j] EXCEPT ![h.ref] = v]
    BY <1>2, <2>1
  <2>3. lib'[j] \in [Refs -> SomeHash]
    BY <2>2
  <2>4. lib' \in [Projects -> [Refs -> SomeHash]] /\ \A k \in Projects \ {j} : lib'[k] = lib[k]
    BY <1>2, <2>1, <2>3
  <2>5. /\ \A r : r # h.ref => lib'[j][r] = lib[j][r]
        /\ h.ref \in Refs => lib'[j][h.ref] \in {h, None}
    BY <2>1, <2>2
  <2> QED BY <1>1, <2>4, <2>5 DEF SomeHash
<1> QED BY <1>3, <1>4

\* One package is placed in the library.
LEMMA PlaceKeeps == ASSUME Inductive, NEW j \in Projects, Place(j) PROVE Inductive'
<1> DEFINE p == proc[j]
           n == Min(p.todo)
           r == [name |-> n, version |-> p.minimums[n]]
           got == IF p.command.offline THEN None ELSE p.fetched[r]
<1>1. /\ World /\ UNCHANGED <<manifest, published, cas, torn, lock, tmp>>
      /\ p \in Processes /\ p.pc = "place" /\ p.todo # {} /\ InOrder(p) /\ Selects(p) /\ Fetches(p)
      /\ Backed(p, cas, lib[j])
  BY Parts DEF Place, world
<1>2. got \in SomeHash /\ (got # None => got.ref = Chosen(p, n) /\ cas[got] # None /\ got \in Hashes)
  <2>1. p.todo \in SUBSET Names /\ p.pc \notin Fetching /\ Runs(p, "install") /\ p.todo \subseteq DOMAIN p.minimums
    BY <1>1 DEF Processes, NameSets, InOrder, Placing, Fetching, Runs
  <2>2. n \in DOMAIN p.minimums
    BY <1>1, <2>1, LeastName
  <2>3. CASE ~p.command.offline
    <3>1. r \in DOMAIN p.fetched
      BY <1>1, <2>1, <2>2, <2>3 DEF Fetches, Chosen
    <3>2. p.fetched[r] \in SomeHash
      BY <1>1, <3>1, MapValues DEF Processes, FetchMaps, SomeHash
    <3>3. p.fetched[r] # None => p.fetched[r].ref = r /\ cas[p.fetched[r]] # None
      BY <1>1, <2>1, <3>1 DEF Fetches, Backed
    <3> QED BY <2>3, <3>2, <3>3 DEF Chosen, SomeHash
  <2>4. CASE p.command.offline
    BY <2>4 DEF SomeHash
  <2> QED BY <2>3, <2>4
<1>3. \/ /\ got = None /\ UNCHANGED <<lib, events>>
         /\ Become(j, After(p, n, None, "place"))
      \/ /\ got # None /\ Materialise(j, got)
         /\ Become(j, After(p, n, got, "hook"))
  <2>1. [p EXCEPT !.todo = @ \ {n}, !.lf = Bind(@, n, Entry(p, n, None))] = After(p, n, None, "place")
    BY <1>1 DEF Processes, After
  <2>2. [[p EXCEPT !.todo = @ \ {n}, !.lf = Bind(@, n, Entry(p, n, got))] EXCEPT !.pc = "hook"]
          = After(p, n, got, "hook")
    BY <1>1 DEF Processes, After
  <2> QED BY <2>1, <2>2 DEF Place
<1>4. PICK m : m = n
  OBVIOUS
<1>5. PICK h \in SomeHash : h = got
  BY <1>2
<1>6. /\ ~Copying(p) /\ torn' = torn /\ \A k \in Projects \ {j} : tmp'[k] = tmp[k]
      /\ lock' \in [Projects -> LockFiles] /\ tmp' \in [Projects -> LockFiles] /\ torn' \subseteq Hashes
  BY <1>1 DEF Copying, World
<1>7. h # None => h.ref = Chosen(p, m) /\ cas[h] # None /\ h.ref \in Refs /\ Has(h)
  BY <1>2, <1>4, <1>5 DEF Hashes, Has
<1>8. m = Min(p.todo)
  BY <1>4
<1>9. CASE /\ got = None /\ UNCHANGED <<lib, events>>
           /\ Become(j, After(p, n, None, "place"))
  <2>1. PICK q : q = After(p, m, h, "place")
    OBVIOUS
  <2>2. Become(j, q) /\ h = None
    BY <1>4, <1>5, <1>9, <2>1
  <2> HIDE DEF p, n, r, got
  <2>3. q \in Processes /\ ~Copying(q) /\ \A file : Agrees(q, cas, lib[j], file)
    BY <1>1, <1>8, <2>1, <2>2, PlacedAgrees
  <2>4. Later /\ Agrees(q, cas, lib[j], tmp[j]) /\ UNCHANGED <<manifest, published, cas, lib, lock, tmp>>
    BY <1>1, <1>9, <2>3, EventIsLater
  <2> QED BY <1>6, <2>2, <2>3, <2>4, Thinks DEF p
<1>10. CASE /\ got # None /\ Materialise(j, got)
            /\ Become(j, After(p, n, got, "hook"))
  <2>1. PICK q : q = After(p, m, h, "hook")
    OBVIOUS
  <2>2. Become(j, q) /\ h # None /\ Materialise(j, h)
    BY <1>4, <1>5, <1>10, <2>1
  <2> HIDE DEF p, n, r, got
  <2>3. /\ lib' \in [Projects -> [Refs -> Hashes \cup {None}]] /\ Later
        /\ \A k \in Projects \ {j} : lib'[k] = lib[k]
        /\ \A x : x # h.ref => lib'[j][x] = lib[j][x]
        /\ lib'[j][h.ref] \in {h, None}
    BY <1>1, <1>7, <2>2, Linked
  <2>4. PICK more : more = lib'[j]
    OBVIOUS
  <2>5. more[h.ref] \in {h, None} /\ \A x : h = None \/ x # h.ref => more[x] = lib[j][x]
    BY <2>2, <2>3, <2>4
  <2>6. q \in Processes /\ ~Copying(q) /\ \A file : Agrees(q, cas, more, file)
    <3>1. h # None => h.ref = Chosen(p, m) /\ cas[h] # None
      BY <1>7
    <3>2. (h # None => more[h.ref] \in {h, None}) /\ "hook" \in {"place", "hook"}
      BY <2>5
    <3>3. \A x : h = None \/ x # h.ref => more[x] = lib[j][x]
      BY <2>5
    <3> QED BY <1>1, <1>8, <2>1, <3>1, <3>2, <3>3, PlacedAgrees
  <2>7. Agrees(q, cas, lib'[j], tmp'[j]) /\ Typed
    BY <1>6, <2>3, <2>4, <2>6 DEF Typed
  <2> QED BY <1>1, <1>6, <2>2, <2>3, <2>6, <2>7, Moves DEF p
<1> QED BY <1>3, <1>9, <1>10

-----------------------------------------------------------------------------
(* Sync.                                                                   *)

\* sync goes on to the next locked package.
LEMMA SyncOnKeeps ==
  ASSUME Inductive, NEW j \in Projects, proc[j].pc \in {"sync", "link"}, Become(j, SyncOn(proc[j])),
         UNCHANGED <<manifest, published, cas, torn, lock, tmp>>, Later,
         lib' \in [Projects -> [Refs -> Hashes \cup {None}]],
         \A k \in Projects \ {j} : lib'[k] = lib[k]
  PROVE  Inductive'
<1>1. World /\ proc[j] \in Processes /\ InOrder(proc[j])
  BY Parts
<1>2. Runs(proc[j], "sync") /\ ~Copying(proc[j])
  BY <1>1 DEF InOrder, Runs, Copying
<1>3. PICK q : q = SyncOn(proc[j])
  OBVIOUS
<1>4. PICK links : links = lib'[j]
  OBVIOUS
<1>5. /\ q \in Processes /\ InOrder(q) /\ Selects(q) /\ Fetches(q)
      /\ Backed(q, cas, links) /\ Written(q, tmp[j]) /\ ~Copying(q)
  BY <1>1, <1>2, <1>3, SyncOnAgrees
<1>6. Agrees(q, cas, lib'[j], tmp'[j]) /\ Become(j, q)
  BY <1>3, <1>4, <1>5 DEF Agrees
<1>7. Typed
  BY <1>1 DEF Typed, World
<1> QED BY <1>2, <1>5, <1>6, <1>7, Moves

\* sync looks at one locked package.
LEMMA SyncNextKeeps == ASSUME Inductive, NEW j \in Projects, SyncNext(j) PROVE Inductive'
<1> DEFINE p == proc[j]
           n == Min(p.todo)
           h == p.lf[n].integrity
           r == [name |-> n, version |-> p.lf[n].version]
           at(s) == [p EXCEPT !.current = r, !.hash = h, !.pc = s]
<1>1. /\ World /\ UNCHANGED <<manifest, published, cas, torn, lib, lock, tmp>> /\ Later
      /\ p \in Processes /\ p.pc = "sync" /\ p.todo # {} /\ InOrder(p)
  BY EventIsLater, Parts DEF SyncNext, world, disk
<1>2. ~Copying(p) /\ p.copied = {} /\ torn' \subseteq Hashes /\ p.command.verb = "sync" /\ p.command \in Commands
  BY <1>1 DEF InOrder, Copying, World
<1>3. (\E s \in {"link", "fetch"} : Become(j, at(s))) \/ Become(j, SyncOn(p))
  BY DEF SyncNext
<1>4. CASE Become(j, SyncOn(p))
  <2>1. lib' \in [Projects -> [Refs -> Hashes \cup {None}]] /\ \A k \in Projects \ {j} : lib'[k] = lib[k]
    BY <1>1 DEF World
  <2> QED BY <1>1, <1>4, <2>1, SyncOnKeeps
<1>5. ASSUME NEW s \in {"link", "fetch"}, Become(j, at(s)) PROVE Inductive'
  <2> DEFINE q == at(s)
  <2>1. p.todo \in SUBSET Names /\ p.todo \subseteq DOMAIN p.lf
    BY <1>1, <1>2 DEF Processes, NameSets, InOrder, Runs
  <2>2. n \in DOMAIN p.lf
    BY <1>1, <2>1, LeastName
  <2>3. r \in Refs /\ h \in SomeHash
    <3>1. p.lf[n] \in Entries
      BY <1>1, <2>2, MapValues DEF Processes, Locks
    <3>2. h \in SomeHash
      BY <3>1 DEF Entries, SomeHash
    <3>3. r \in Refs
      BY <1>1, <2>2 DEF Processes, Locks
    <3> QED BY <3>2, <3>3
  <2> HIDE DEF n, h, r
  <2>4. q \in Processes
    BY <1>1, <2>3 DEF Processes, Steps, Fetching, SomeRef
  <2>5. /\ q.pc = s /\ q.current = r /\ q.copied = {} /\ q.command = p.command /\ q.todo = p.todo
        /\ q.lf = p.lf
    BY <1>1, <1>2 DEF Processes
  <2>6. Become(j, q)
    BY <1>5
  <2> HIDE DEF q
  <2>7. Agrees(q, cas, lib[j], tmp[j]) /\ ~Copying(q)
    BY <1>2, <2>1, <2>3, <2>5
       DEF Agrees, InOrder, Selects, Fetches, Backed, Written, Runs, Fetching, Placing, Copying
  <2> QED BY <1>1, <1>2, <2>4, <2>6, <2>7, Thinks
<1> QED BY <1>3, <1>4, <1>5

\* sync links one.
LEMMA LinkKeeps == ASSUME Inductive, NEW j \in Projects, Link(j) PROVE Inductive'
<1>1. /\ World /\ UNCHANGED <<manifest, published, cas, torn, lock, tmp>>
      /\ proc[j].pc = "link" /\ Materialise(j, proc[j].hash) /\ Become(j, SyncOn(proc[j]))
  BY DEF Inductive, Link, world
<1>2. PICK h \in SomeHash : h = proc[j].hash
  BY <1>1 DEF World, Processes
<1>3. Materialise(j, h)
  BY <1>1, <1>2
<1>4. /\ lib' \in [Projects -> [Refs -> Hashes \cup {None}]] /\ Later
      /\ \A k \in Projects \ {j} : lib'[k] = lib[k]
  BY <1>1, <1>3, Linked
<1> QED BY <1>1, <1>4, SyncOnKeeps

-----------------------------------------------------------------------------
(* The invariant.                                                          *)

\* The invariant holds at the start,
LEMMA InductiveInit == Init => Inductive
<1> SUFFICES ASSUME Init PROVE Inductive
  OBVIOUS
<1>1. World
  <2>1. cas \in [Hashes -> (SUBSET Files) \cup {None}]
    <3>1. [h \in Hashes |-> None] \in [Hashes -> (SUBSET Files) \cup {None}]
      OBVIOUS
    <3> QED BY <3>1, Zenon DEF Init
  <2>2. published \in [Refs -> 1 .. events + 1] /\ events \in 0 .. MaxEvents /\ torn \subseteq Hashes
    BY PackagesAssumption DEF Init
  <2>3. lib \in [Projects -> [Refs -> Hashes \cup {None}]]
    BY DEF Init
  <2>4. lock \in [Projects -> LockFiles] /\ tmp \in [Projects -> LockFiles]
    BY DEF Init, LockFiles
  <2>5. manifest \in [Projects -> Manifests] /\ proc \in [Projects -> Processes]
    BY IdleIsAProcess DEF Init
  <2> QED BY <2>1, <2>2, <2>3, <2>4, <2>5 DEF World
<1>2. \A j \in Projects : proc[j] = Idle
  BY DEF Init
<1>3. ProcessesAgree
  BY <1>2, IdleAgrees DEF ProcessesAgree, Agrees
<1>4. Filling
  BY <1>2, IdleIsAProcess DEF Filling, Copying
<1>5. TreesFill
  BY DEF Init, TreesFill
<1> QED BY <1>1, <1>3, <1>4, <1>5 DEF Inductive

\* every step keeps it,
LEMMA InductiveStep == Inductive /\ [Next]_vars => Inductive'
<1> SUFFICES ASSUME Inductive, [Next]_vars PROVE Inductive'
  OBVIOUS
<1>1. CASE UNCHANGED vars
  BY <1>1 DEF vars, Inductive, World, ProcessesAgree, Filling, TreesFill
<1>2. CASE CleanCache
  BY <1>2, CleanKeeps
<1>3. CASE \E r \in Refs : Republish(r)
  BY <1>3, RepublishKeeps
<1>4. ASSUME NEW j \in Projects, EditManifest(j) \/ Install(j) \/ Sync(j) \/ Killed(j) PROVE Inductive'
  BY <1>4, EditKeeps, InstallKeeps, SyncKeeps, KilledKeeps
<1>5. ASSUME NEW j \in Projects, ResolveNext(j) \/ Resolved(j) PROVE Inductive'
  BY <1>5, ResolveNextKeeps, ResolvedKeeps
<1>6. ASSUME NEW j \in Projects, Rejected(j) \/ Unreachable(j) \/ Fetched(j) PROVE Inductive'
  BY <1>6, RejectedKeeps, UnreachableKeeps, FetchedKeeps
<1>7. ASSUME NEW j \in Projects, MakeTree(j) \/ OpenFile(j) \/ FillFile(j) \/ CopyDone(j) \/ CopyFails(j)
      PROVE  Inductive'
  BY <1>7, MakeTreeKeeps, OpenFileKeeps, FillFileKeeps, CopyDoneKeeps, CopyFailsKeeps
<1>8. ASSUME NEW j \in Projects, ReadRequires(j) \/ CompareIntegrity(j) PROVE Inductive'
  BY <1>8, ReadRequiresKeeps, CompareIntegrityKeeps
<1>9. ASSUME NEW j \in Projects, Place(j) \/ PostFetch(j) \/ Finish(j) PROVE Inductive'
  BY <1>9, PlaceKeeps, PostFetchKeeps, FinishKeeps
<1>10. ASSUME NEW j \in Projects, OpenTmp(j) \/ FillTmp(j) \/ Rename(j) \/ LockFails(j) PROVE Inductive'
  BY <1>10, OpenTmpKeeps, FillTmpKeeps, RenameKeeps, LockFailsKeeps
<1>11. ASSUME NEW j \in Projects, SyncNext(j) \/ Link(j) \/ SyncDone(j) PROVE Inductive'
  BY <1>11, SyncNextKeeps, LinkKeeps, SyncDoneKeeps
<1> QED BY <1>1, <1>2, <1>3, <1>4, <1>5, <1>6, <1>7, <1>8, <1>9, <1>10, <1>11 DEF Next

\* so it holds throughout.
LEMMA InductiveHolds == Spec => []Inductive
BY InductiveInit, InductiveStep, PTL DEF Spec

\* Two processes that store the same content at once leave it whole: a tree of
\* the store has all its files unless one is copying into it or a copy was cut
\* short (ensure_in_cas and copy_tree).
THEOREM TreesAreFilled == Spec => []TreesFill
<1>1. Inductive => TreesFill
  BY DEF Inductive
<1> QED BY <1>1, InductiveHolds, PTL

\* What the resolver settles on meets every minimum that is asked for and
\* avoids what the manifest excludes, for any graph and any manifest.
THEOREM SelectionsSatisfy == Spec => []SelectionSatisfies
<1>1. ASSUME Inductive PROVE SelectionSatisfies
  <2> SUFFICES ASSUME NEW j \in Projects, proc[j].pc \in Placing, proc[j].command.verb = "install"
               PROVE  /\ \A r \in Asked(proc[j]) : Met(proc[j], r)
                      /\ \A n \in DOMAIN proc[j].minimums : Chosen(proc[j], n) \notin proc[j].manifest.excludes
    BY DEF SelectionSatisfies, Met, Chosen
  <2>1. Runs(proc[j], "install") /\ ToSet(proc[j].pending) = {}
    BY <1>1, Parts, Elements DEF Runs, Placing, InOrder
  <2> QED BY <1>1, <2>1, Parts DEF Selects
<1> QED BY <1>1, InductiveHolds, PTL

\* No step but the rename touches a lock.
LEMMA OnlyRenameLocks ==
  ASSUME Next
  PROVE  lock' = lock \/ \E j \in Projects : Rename(j)
<1>1. CASE CleanCache \/ \E r \in Refs : Republish(r)
  BY <1>1 DEF CleanCache, Republish, disk
<1>2. ASSUME NEW j \in Projects, EditManifest(j) \/ Install(j) \/ Sync(j) \/ Killed(j) PROVE lock' = lock
  BY <1>2 DEF EditManifest, Install, Sync, Killed, disk
<1>3. ASSUME NEW j \in Projects,
             ResolveNext(j) \/ Resolved(j) \/ Rejected(j) \/ Unreachable(j) \/ Fetched(j) PROVE lock' = lock
  BY <1>3, SMTT(30) DEF ResolveNext, Resolved, Rejected, Unreachable, Fetched, disk
<1>4. ASSUME NEW j \in Projects,
             MakeTree(j) \/ OpenFile(j) \/ FillFile(j) \/ CopyDone(j) \/ CopyFails(j) PROVE lock' = lock
  BY <1>4 DEF MakeTree, OpenFile, FillFile, CopyDone, CopyFails, disk
<1>5. ASSUME NEW j \in Projects,
             ReadRequires(j) \/ CompareIntegrity(j) \/ Place(j) \/ PostFetch(j) PROVE lock' = lock
  BY <1>5 DEF ReadRequires, CompareIntegrity, Place, PostFetch, disk
<1>6. ASSUME NEW j \in Projects, Finish(j) \/ OpenTmp(j) \/ FillTmp(j) \/ LockFails(j) PROVE lock' = lock
  BY <1>6 DEF Finish, OpenTmp, FillTmp, LockFails, disk
<1>7. ASSUME NEW j \in Projects, SyncNext(j) \/ Link(j) \/ SyncDone(j) PROVE lock' = lock
  BY <1>7 DEF SyncNext, Link, SyncDone, disk
<1> QED BY <1>1, <1>2, <1>3, <1>4, <1>5, <1>6, <1>7 DEF Next

\* A lock that appears is complete, whatever was killed or failed before, and
\* each hash in it is in the store and, if it could be linked, in lib/.
THEOREM LocksAreWhole == Spec => LockIsWhole
<1> DEFINE Whole == \A j \in Projects : lock'[j] # lock[j] =>
       /\ lock'[j].whole
       /\ \A n \in DOMAIN lock'[j].packages :
            LET h == lock'[j].packages[n].integrity IN
            h # None => cas'[h] # None /\ lib'[j][h.ref] \in {h, None}
<1>1. ASSUME Inductive, [Next]_vars PROVE [Whole]_vars
  <2>1. CASE UNCHANGED vars
    BY <2>1 DEF vars
  <2>2. CASE Next
    <3>1. ASSUME NEW j \in Projects, lock'[j] # lock[j] PROVE Rename(j)
      <4>1. lock' = lock \/ \E i \in Projects : Rename(i)
        BY <2>2, OnlyRenameLocks
      <4>2. PICK i \in Projects : Rename(i)
        BY <3>1, <4>1
      <4>3. i = j
        BY <1>1, <3>1, <4>2 DEF Rename, Inductive, World
      <4> QED BY <4>2, <4>3
    <3>2. ASSUME NEW j \in Projects, Rename(j)
          PROVE  /\ lock'[j].whole
                 /\ \A n \in DOMAIN lock'[j].packages :
                      LET h == lock'[j].packages[n].integrity IN
                      h # None => cas'[h] # None /\ lib'[j][h.ref] \in {h, None}
      <4>1. /\ lock'[j] = tmp[j] /\ cas' = cas /\ lib' = lib /\ proc[j].pc = "rename"
            /\ InOrder(proc[j]) /\ Backed(proc[j], cas, lib[j]) /\ Written(proc[j], tmp[j])
        BY <1>1, <3>2, Parts DEF Rename, world, World
      <4>2. Runs(proc[j], "install") /\ tmp[j] = [whole |-> TRUE, packages |-> proc[j].lf]
        BY <4>1 DEF InOrder, Placing, Runs, Written
      <4> QED BY <4>1, <4>2 DEF Backed
    <3> QED BY <3>1, <3>2
  <2> QED BY <1>1, <2>1, <2>2
<1> QED BY <1>1, InductiveHolds, PTL DEF Spec, LockIsWhole

-----------------------------------------------------------------------------
(* The walk of the resolver ends.                                          *)

\* What an online install has walked and has queued was asked for by the
\* manifest or by a package it has fetched; every fetched package is met, and
\* the one in hand was not fetched before.
Metered(p) ==
  Runs(p, "install") /\ ~p.command.offline =>
    /\ p.iterations + Len(p.pending) <=
         Len(p.manifest.direct) + Len(p.manifest.dev) + Cardinality(Wishes(DOMAIN p.fetched))
    /\ \A r \in DOMAIN p.fetched : Superseded(p, r)
    /\ p.pc \in Fetching => p.current \notin DOMAIN p.fetched /\ Superseded(p, p.current)

ProcessesMetered == \A j \in Projects : Metered(proc[j])

\* The requires of one package.
LEMMA WishesOfOne ==
  ASSUME NEW r \in Refs
  PROVE  /\ IsFiniteSet({r} \X DOMAIN Requires[r])
         /\ Cardinality({r} \X DOMAIN Requires[r]) = Len(Requires[r]) /\ Len(Requires[r]) \in Nat
<1>1. Requires[r] \in Seq(Refs)
  BY RefsAndNames
<1>2. Len(Requires[r]) \in Nat /\ DOMAIN Requires[r] = 1 .. Len(Requires[r])
  BY <1>1, LenProperties
<1>3. PICK n \in Nat : n = Len(Requires[r])
  BY <1>2
<1>4. IsFiniteSet(1 .. n) /\ Cardinality(1 .. n) = n
  BY FS_Interval
<1>5. IsFiniteSet({r}) /\ Cardinality({r}) = 1
  BY FS_Singleton
<1>6. IsFiniteSet({r} \X (1 .. n)) /\ Cardinality({r} \X (1 .. n)) = 1 * n
  BY <1>4, <1>5, FS_Product, ZenonT(40)
<1> QED BY <1>2, <1>3, <1>6

\* Finitely many packages require finitely many.
LEMMA WishesAreFinite ==
  ASSUME IsFiniteSet(Refs), NEW S \in SUBSET Refs
  PROVE  /\ IsFiniteSet(Wishes(S)) /\ Cardinality(Wishes(S)) \in Nat
         /\ Cardinality(Wishes(S)) <= Cardinality(Wishes(Refs))
<1> DEFINE W == {{r} \X DOMAIN Requires[r] : r \in Refs}
           f == [r \in Refs |-> {r} \X DOMAIN Requires[r]]
<1>1. f \in Surjection(Refs, W)
  BY DEF Surjection
<1>2. IsFiniteSet(W)
  BY <1>1, FS_Surjection
<1>3. \A T \in W : IsFiniteSet(T)
  BY WishesOfOne
<1>4. IsFiniteSet(UNION W)
  <2> HIDE DEF W
  <2> QED BY <1>2, <1>3, FS_UNION
<1>5. UNION W = Wishes(Refs) /\ Wishes(S) \in SUBSET Wishes(Refs)
  BY DEF Wishes
<1>6. IsFiniteSet(Wishes(Refs))
  BY <1>4, <1>5
<1>7. IsFiniteSet(Wishes(S)) /\ Cardinality(Wishes(S)) <= Cardinality(Wishes(Refs))
  BY <1>5, <1>6, FS_Subset
<1> QED BY <1>7, FS_CardinalityType

\* A package that is fetched adds its own requires, no more and no less.
LEMMA WishesGrow ==
  ASSUME IsFiniteSet(Refs), NEW S \in SUBSET Refs, NEW r \in Refs, r \notin S
  PROVE  Cardinality(Wishes(S \cup {r})) = Cardinality(Wishes(S)) + Len(Requires[r])
<1> DEFINE A == Wishes(S)
           B == {r} \X DOMAIN Requires[r]
<1>1. IsFiniteSet(A) /\ Cardinality(A) \in Nat
  BY WishesAreFinite
<1>2. IsFiniteSet(B) /\ Cardinality(B) = Len(Requires[r]) /\ Len(Requires[r]) \in Nat
  BY WishesOfOne
<1>3. A \cap B = {} /\ Wishes(S \cup {r}) = A \cup B
  BY DEF Wishes
<1> HIDE DEF A, B
<1>4. Cardinality(A \cup B) = Cardinality(A) + Cardinality(B) - Cardinality(A \cap B)
  BY <1>1, <1>2, FS_Union
<1>5. Cardinality(A \cap B) = 0
  BY <1>3, FS_EmptySet
<1>6. Cardinality(A \cup B) = Cardinality(A) + Len(Requires[r])
  BY <1>1, <1>2, <1>4, <1>5
<1> QED BY <1>3, <1>6 DEF A

\* p and q have walked the same packages, and have the same one in hand.
SameWalk(p, q) ==
  /\ q.command = p.command /\ q.manifest = p.manifest /\ q.iterations = p.iterations
  /\ q.pending = p.pending /\ q.fetched = p.fetched /\ q.minimums = p.minimums
  /\ q.pc \in Fetching => p.pc \in Fetching /\ q.current = p.current

\* A step that leaves the walk alone.
LEMMA MeteredKept ==
  ASSUME NEW p, NEW q, Metered(p), p.pc # "idle", SameWalk(p, q)
  PROVE  Metered(q)
BY DEF Metered, Superseded, SameWalk, Runs

\* A process that has ended, or that synchronises.
LEMMA MeteredOthers == ASSUME NEW q, ~Runs(q, "install") PROVE Metered(q)
BY DEF Metered

\* Only the step of one process matters.
LEMMA MeterMoves ==
  ASSUME World, ProcessesMetered, NEW j \in Projects, NEW q, Become(j, q), Metered(q)
  PROVE  ProcessesMetered'
<1>1. proc'[j] = q /\ \A k \in Projects \ {j} : proc'[k] = proc[k]
  BY DEF Become, World
<1>2. ASSUME NEW k \in Projects PROVE Metered(proc'[k])
  BY <1>1 DEF ProcessesMetered
<1>3. ProcessesMetered' <=> \A k \in Projects : Metered(proc'[k])
  BY DEF ProcessesMetered, Metered, Runs, Superseded
<1> QED BY <1>2, <1>3

\* What the provider answers about the package in hand: at most its requires.
LEMMA MeteredAnswer ==
  ASSUME IsFiniteSet(Refs), NEW p \in Processes, p.pc \in Fetching, InOrder(p), Metered(p),
         p.command.verb = "install", NEW v, NEW refs \in Seq(Refs),
         Len(refs) <= Len(Requires[p.current]),
         NEW o \in Processes, o.fetched = Bind(p.fetched, p.current, v), o.command = p.command,
         o.manifest = p.manifest, o.pending = p.pending, o.minimums = p.minimums,
         o.iterations = p.iterations
  PROVE  Metered(Provided(o, p.current, refs))
<1>q. PICK q : q = Provided(o, p.current, refs)
  OBVIOUS
<1>1. /\ q.pc = "resolve" /\ q.command = p.command /\ q.manifest = p.manifest
      /\ q.iterations = p.iterations /\ q.pending = p.pending \o refs
      /\ q.minimums = p.minimums /\ q.fetched = Bind(p.fetched, p.current, v)
  BY <1>q DEF Provided, Processes
<1> SUFFICES ASSUME ~p.command.offline PROVE Metered(q)
  BY <1>1, <1>q DEF Metered
<1>2. /\ p.current \in Refs /\ Runs(p, "install") /\ p.manifest \in Manifests
      /\ p.fetched \in FetchMaps /\ p.pending \in Seq(Refs) /\ p.iterations \in Nat
  BY DEF InOrder, Runs, Fetching, Processes, Queues
<1>3. /\ p.iterations + Len(p.pending) <=
           Len(p.manifest.direct) + Len(p.manifest.dev) + Cardinality(Wishes(DOMAIN p.fetched))
      /\ \A r \in DOMAIN p.fetched : Superseded(p, r)
      /\ p.current \notin DOMAIN p.fetched /\ Superseded(p, p.current)
  BY <1>2 DEF Metered
<1>4. DOMAIN p.fetched \in SUBSET Refs
  BY <1>2, MapValues DEF FetchMaps
<1>5. DOMAIN q.fetched = DOMAIN p.fetched \cup {p.current}
  BY <1>1 DEF Bind
<1>6. /\ Cardinality(Wishes(DOMAIN q.fetched)) = Cardinality(Wishes(DOMAIN p.fetched)) + Len(Requires[p.current])
      /\ Cardinality(Wishes(DOMAIN p.fetched)) \in Nat /\ Len(Requires[p.current]) \in Nat
  BY <1>2, <1>3, <1>4, <1>5, WishesGrow, WishesAreFinite, WishesOfOne
<1>7. /\ Len(q.pending) = Len(p.pending) + Len(refs) /\ Len(p.pending) \in Nat /\ Len(refs) \in Nat
  BY <1>1, <1>2, ConcatProperties, LenProperties
<1>8. Len(p.manifest.direct) \in Nat /\ Len(p.manifest.dev) \in Nat
  BY <1>2, PackagesAssumption, LenProperties
<1>9. q.iterations + Len(q.pending) <=
        Len(q.manifest.direct) + Len(q.manifest.dev) + Cardinality(Wishes(DOMAIN q.fetched))
  <2>1. PICK a, b, c, d, e \in Nat :
          /\ a = p.iterations /\ b = Len(p.pending) /\ c = Len(p.manifest.direct)
          /\ d = Len(p.manifest.dev) /\ e = Cardinality(Wishes(DOMAIN p.fetched))
    BY <1>2, <1>6, <1>7, <1>8
  <2>2. PICK m, n \in Nat : m = Len(refs) /\ n = Len(Requires[p.current])
    BY <1>6, <1>7
  <2>3. a + b <= c + d + e /\ m <= n
    BY <1>3, <2>1, <2>2
  <2>4. a + (b + m) <= c + d + (e + n)
    BY <2>3
  <2>5. q.iterations = a /\ Len(q.pending) = b + m
    BY <1>1, <1>7, <2>1, <2>2
  <2>6. Len(q.manifest.direct) = c /\ Len(q.manifest.dev) = d
    BY <1>1, <2>1
  <2>7. Cardinality(Wishes(DOMAIN q.fetched)) = e + n
    BY <1>6, <2>1, <2>2
  <2> QED BY <2>4, <2>5, <2>6, <2>7
<1>10. \A r \in DOMAIN q.fetched : Superseded(q, r)
  BY <1>1, <1>3, <1>5 DEF Superseded
<1> QED BY <1>1, <1>9, <1>10 DEF Metered, Fetching

\* A package that could not be had asks for nothing.
LEMMA MeteredLacking ==
  ASSUME IsFiniteSet(Refs), NEW p \in Processes, p.pc \in Fetching, InOrder(p), Metered(p)
  PROVE  Metered(Lacking(p))
<1>1. p.pc # "idle" /\ p.command \in Commands /\ p.current \in Refs
  BY DEF InOrder, Fetching
<1>2. p.command.verb \in {"install", "sync"}
  BY <1>1, PackagesAssumption
<1>3. CASE p.command.verb = "sync"
  <2>1. Lacking(p) = SyncOn(p) /\ SyncOn(p).command = p.command
    BY <1>3 DEF Lacking, SyncOn, Processes
  <2> QED BY <1>3, <2>1, MeteredOthers DEF Runs
<1>4. CASE p.command.verb = "install"
  <2> DEFINE fm == Bind(p.fetched, p.current, None)
             o == [p EXCEPT !.fetched = fm, !.copied = {}, !.file = None]
  <2>1. Lacking(p) = Provided(o, p.current, <<>>)
    BY <1>4 DEF Lacking
  <2>2. fm \in FetchMaps
    <3>1. p.fetched \in Maps(Refs, Hashes \cup {None}) /\ None \in Hashes \cup {None}
      BY DEF Processes, FetchMaps
    <3> HIDE DEF fm
    <3> QED BY <1>1, <3>1, BoundMap DEF FetchMaps, fm
  <2>3. PICK f \in FetchMaps : f = fm
    BY <2>2
  <2>4. o = [p EXCEPT !.fetched = f, !.copied = {}, !.file = None] /\ f = Bind(p.fetched, p.current, None)
    BY <2>3
  <2> HIDE DEF o, fm
  <2>5. None \in SomeFile /\ {} \in FileSets
    BY DEF SomeFile, FileSets
  <2>6. /\ o \in Processes /\ o.fetched = f /\ o.command = p.command /\ o.manifest = p.manifest
        /\ o.pending = p.pending /\ o.minimums = p.minimums /\ o.iterations = p.iterations
    BY <2>4, <2>5 DEF Processes
  <2>7. <<>> \in Seq(Refs) /\ Len(<<>>) <= Len(Requires[p.current])
    BY <1>1, Elements, WishesOfOne
  <2> QED BY <1>4, <2>1, <2>4, <2>6, <2>7, MeteredAnswer
<1> QED BY <1>2, <1>3, <1>4

\* A process that ends.
LEMMA MeterExits ==
  ASSUME World, ProcessesMetered, NEW j \in Projects, Exit(j)
  PROVE  ProcessesMetered'
<1>1. Become(j, Idle) /\ ~Runs(Idle, "install")
  BY IdleIsAProcess DEF Exit, Runs
<1> QED BY <1>1, MeterMoves, MeteredOthers

\* The manifest's own requirements are queued.
LEMMA InstallMeters ==
  ASSUME IsFiniteSet(Refs), World, ProcessesMetered, NEW j \in Projects, Install(j)
  PROVE  ProcessesMetered'
<1>1. PICK c \in Commands :
        Become(j, [Idle EXCEPT !.pc = "resolve", !.command = c, !.manifest = manifest[j],
                               !.locked = IF c.offline THEN ReadLock(j) ELSE Empty,
                               !.pending = Wanted(manifest[j], c)])
  BY DEF Install
<1>2. PICK q : /\ Become(j, q)
               /\ q = [Idle EXCEPT !.pc = "resolve", !.command = c, !.manifest = manifest[j],
                                   !.locked = IF c.offline THEN ReadLock(j) ELSE Empty,
                                   !.pending = Wanted(manifest[j], c)]
  BY <1>1
<1>3. PICK m \in Manifests : m = manifest[j]
  BY DEF World
<1>4. /\ q.pc = "resolve" /\ q.manifest = m /\ q.iterations = 0 /\ q.pending = Wanted(m, c)
      /\ q.fetched = Empty
  BY <1>2, <1>3 DEF Idle
<1>5. m.direct \in Seq(Refs) /\ m.dev \in Seq(Refs)
  BY PackagesAssumption
<1>6. Len(m.direct) \in Nat /\ Len(m.dev) \in Nat /\ Len(Wanted(m, c)) <= Len(m.direct) + Len(m.dev)
      /\ Len(Wanted(m, c)) \in Nat
  <2>1. PICK more \in {<<>>, m.dev} : Wanted(m, c) = m.direct \o more
    BY DEF Wanted
  <2>2. more \in Seq(Refs) /\ Len(more) \in Nat /\ (more = <<>> => Len(more) = 0)
    <3>1. CASE more = <<>>
      BY <3>1, Elements
    <3>2. CASE more # <<>>
      BY <1>5, <3>2, LenProperties
    <3> QED BY <3>1, <3>2
  <2>3. Len(m.direct) \in Nat /\ Len(m.dev) \in Nat /\ Len(m.direct \o more) = Len(m.direct) + Len(more)
    BY <1>5, <2>2, ConcatProperties, LenProperties
  <2>4. Len(more) <= Len(m.dev)
    BY <2>1, <2>2, <2>3
  <2>5. Len(m.direct) + Len(more) \in Nat /\ Len(m.direct) + Len(more) <= Len(m.direct) + Len(m.dev)
    BY <2>2, <2>3, <2>4
  <2> QED BY <2>1, <2>3, <2>5
<1>7. DOMAIN q.fetched = {} /\ Cardinality(Wishes({})) \in Nat
  BY <1>4, EmptyMap, WishesAreFinite
<1>8. q.iterations + Len(q.pending) <=
        Len(q.manifest.direct) + Len(q.manifest.dev) + Cardinality(Wishes(DOMAIN q.fetched))
  <2>1. PICK x, y, z, w \in Nat :
          x = Len(m.direct) /\ y = Len(m.dev) /\ z = Len(Wanted(m, c)) /\ w = Cardinality(Wishes({}))
    BY <1>6, <1>7
  <2>2. z <= x + y
    BY <1>6, <2>1
  <2>3. 0 + z <= x + y + w
    BY <2>2
  <2>4. Len(q.pending) = z /\ Len(q.manifest.direct) = x /\ Len(q.manifest.dev) = y
        /\ Cardinality(Wishes(DOMAIN q.fetched)) = w /\ q.iterations = 0
    BY <1>4, <1>7, <2>1
  <2> QED BY <2>3, <2>4
<1>9. Metered(q)
  BY <1>4, <1>7, <1>8 DEF Metered, Fetching
<1> QED BY <1>2, <1>9, MeterMoves

\* One requirement leaves the queue, and a package that is chosen was never
\* fetched: what was fetched is met.
LEMMA ResolveNextMeters ==
  ASSUME IsFiniteSet(Refs), Inductive, ProcessesMetered, NEW j \in Projects, ResolveNext(j)
  PROVE  ProcessesMetered'
<1>1. PICK p \in Processes : p = proc[j]
  BY DEF Inductive, World
<1>2. World /\ InOrder(p) /\ Metered(p) /\ p.pc = "resolve" /\ p.pending # <<>>
  BY <1>1, Parts DEF ResolveNext, ProcessesMetered
<1>3. PICK r : r = Forced(p.manifest, Head(p.pending))
  OBVIOUS
<1>4. PICK m : m = Bind(p.minimums, r.name, r.version)
  OBVIOUS
<1> DEFINE walked == [p EXCEPT !.pending = Tail(@), !.iterations = @ + 1]
           chosen == [walked EXCEPT !.minimums = m]
<1>5. \/ Exit(j)
      \/ Superseded(p, r) /\ Become(j, walked)
      \/ ~Superseded(p, r) /\ p.command.offline /\ Become(j, Provided(chosen, r, LockedRequires(p, r)))
      \/ ~Superseded(p, r) /\ Become(j, [chosen EXCEPT !.pc = "fetch", !.current = r])
  BY <1>1, <1>3, <1>4 DEF ResolveNext
<1>6. Runs(p, "install") /\ p.manifest \in Manifests /\ p.pending \in Seq(Refs) /\ p.iterations \in Nat
      /\ p.minimums \in Selections /\ p.fetched \in FetchMaps
  BY <1>2 DEF InOrder, Runs, Processes, Queues
<1>7. r \in Refs
  BY <1>2, <1>3, <1>6, Elements, RefsAndNames
<1>8. /\ Tail(p.pending) \in Seq(Refs) /\ Len(Tail(p.pending)) = Len(p.pending) - 1
      /\ Len(p.pending) \in Nat
  BY <1>2, <1>6, HeadTailProperties, EmptySeq, LenProperties
<1>9. (p.iterations + 1) + Len(Tail(p.pending)) = p.iterations + Len(p.pending)
  BY <1>6, <1>8
<1>10. CASE Superseded(p, r) /\ Become(j, walked)
  <2>1. PICK q : q = walked /\ Become(j, q)
    BY <1>10
  <2>2. /\ q.pc = p.pc /\ q.command = p.command /\ q.manifest = p.manifest /\ q.fetched = p.fetched
        /\ q.iterations = p.iterations + 1 /\ q.pending = Tail(p.pending) /\ q.minimums = p.minimums
    BY <2>1 DEF Processes
  <2>3. q.iterations + Len(q.pending) = p.iterations + Len(p.pending)
    BY <1>9, <2>2
  <2>4. Metered(q)
    BY <1>2, <1>6, <2>2, <2>3 DEF Metered, Runs, Superseded, Fetching
  <2> QED BY <1>2, <2>1, <2>4, MeterMoves
<1>11. CASE ~Superseded(p, r) /\ p.command.offline /\ Become(j, Provided(chosen, r, LockedRequires(p, r)))
  <2>1. PICK q : q = Provided(chosen, r, LockedRequires(p, r)) /\ Become(j, q)
    BY <1>11
  <2>2. q.command = p.command
    BY <2>1 DEF Provided, Processes
  <2>3. Metered(q)
    BY <1>11, <2>2 DEF Metered
  <2> QED BY <1>2, <2>1, <2>3, MeterMoves
<1>12. CASE ~Superseded(p, r) /\ Become(j, [chosen EXCEPT !.pc = "fetch", !.current = r])
  <2>1. PICK q : q = [chosen EXCEPT !.pc = "fetch", !.current = r] /\ Become(j, q)
    BY <1>12
  <2>2. /\ q.pc = "fetch" /\ q.command = p.command /\ q.manifest = p.manifest /\ q.fetched = p.fetched
        /\ q.iterations = p.iterations + 1 /\ q.pending = Tail(p.pending) /\ q.minimums = m
        /\ q.current = r
    BY <2>1 DEF Processes
  <2>3. q.iterations + Len(q.pending) = p.iterations + Len(p.pending)
    BY <1>9, <2>2
  <2>4. /\ DOMAIN m = DOMAIN p.minimums \cup {r.name} /\ m[r.name] = r.version
        /\ \A n \in DOMAIN p.minimums : n # r.name => m[n] = p.minimums[n]
    BY <1>4 DEF Bind
  <2>5. r.version \in Nat
    BY <1>7, RefsAndNames
  <2>6. Superseded(q, r)
    BY <2>2, <2>4, <2>5 DEF Superseded
  <2>7. ASSUME ~p.command.offline, NEW x \in DOMAIN p.fetched PROVE Superseded(q, x) /\ x # r
    <3>1. Superseded(p, x) /\ x \in Refs
      BY <1>2, <1>6, <2>7, MapValues DEF Metered, FetchMaps
    <3>2. x # r
      BY <1>12, <3>1
    <3>3. x.version \in Nat /\ p.minimums[x.name] \in Nat
      <4>1. x.name \in DOMAIN p.minimums /\ p.minimums \in Maps(Names, Nat)
        BY <1>6, <3>1 DEF Superseded, Selections
      <4> QED BY <3>1, <4>1, MapValues, RefsAndNames
    <3>4. CASE x.name # r.name
      BY <2>2, <2>4, <3>1, <3>4 DEF Superseded
    <3>5. CASE x.name = r.name
      <4>1. p.minimums[r.name] < r.version /\ x.version <= p.minimums[r.name]
        BY <1>12, <2>5, <3>1, <3>3, <3>5 DEF Superseded
      <4> QED BY <2>2, <2>4, <2>5, <3>2, <3>3, <3>5, <4>1 DEF Superseded
    <3> QED BY <3>2, <3>4, <3>5
  <2>8. Metered(q)
    BY <1>2, <1>6, <2>2, <2>3, <2>6, <2>7 DEF Metered, Runs
  <2> QED BY <1>2, <2>1, <2>8, MeterMoves
<1> QED BY <1>2, <1>5, <1>10, <1>11, <1>12, MeterExits

\* A package that could not be fetched or stored.
LEMMA LackingMeters ==
  ASSUME IsFiniteSet(Refs), Inductive, ProcessesMetered, NEW j \in Projects, proc[j].pc \in Fetching,
         Become(j, Lacking(proc[j]))
  PROVE  ProcessesMetered'
<1>1. World /\ proc[j] \in Processes /\ InOrder(proc[j]) /\ Metered(proc[j])
  BY Parts DEF ProcessesMetered
<1>2. PICK q : q = Lacking(proc[j]) /\ Become(j, q)
  OBVIOUS
<1>3. Metered(q)
  BY <1>1, <1>2, MeteredLacking
<1> QED BY <1>1, <1>2, <1>3, MeterMoves

\* The requires of the stored tree are queued, or none.
LEMMA ReadRequiresMeters ==
  ASSUME IsFiniteSet(Refs), Inductive, ProcessesMetered, NEW j \in Projects, ReadRequires(j)
  PROVE  ProcessesMetered'
<1>1. PICK p \in Processes : p = proc[j]
  BY DEF Inductive, World
<1>2. /\ World /\ InOrder(p) /\ Metered(p) /\ p.pc = "stored" /\ p.pc \in Fetching
      /\ p.command.verb = "install" /\ p.current \in Refs /\ p.hash \in SomeHash
  BY <1>1, Parts DEF ReadRequires, ProcessesMetered, InOrder, Fetching, SomeHash
<1> DEFINE fm == Bind(p.fetched, p.current, p.hash)
           o == [p EXCEPT !.fetched = fm]
<1>3. PICK refs \in {Requires[p.current], <<>>} : Become(j, Provided(o, p.current, refs))
  BY <1>1 DEF ReadRequires
<1>4. refs \in Seq(Refs) /\ Len(refs) <= Len(Requires[p.current])
  <2>1. Requires[p.current] \in Seq(Refs) /\ Len(Requires[p.current]) \in Nat
    BY <1>2, RefsAndNames, WishesOfOne
  <2>2. CASE refs = <<>>
    BY <2>1, <2>2, Elements
  <2>3. CASE refs # <<>>
    BY <2>1, <2>3
  <2> QED BY <2>2, <2>3
<1>5. fm \in FetchMaps
  <2>1. p.fetched \in Maps(Refs, Hashes \cup {None}) /\ p.hash \in Hashes \cup {None}
    BY <1>2 DEF Processes, FetchMaps, SomeHash
  <2> HIDE DEF fm
  <2> QED BY <1>2, <2>1, BoundMap DEF FetchMaps, fm
<1>6. PICK f \in FetchMaps : f = fm
  BY <1>5
<1>7. o = [p EXCEPT !.fetched = f] /\ f = Bind(p.fetched, p.current, p.hash)
  BY <1>6
<1> HIDE DEF o, fm
<1>8. /\ o \in Processes /\ o.fetched = f /\ o.command = p.command /\ o.manifest = p.manifest
      /\ o.pending = p.pending /\ o.minimums = p.minimums /\ o.iterations = p.iterations
  BY <1>7 DEF Processes
<1>9. PICK q : q = Provided(o, p.current, refs) /\ Become(j, q)
  BY <1>3
<1>10. Metered(q)
  BY <1>2, <1>4, <1>7, <1>8, <1>9, MeteredAnswer
<1> QED BY <1>2, <1>9, <1>10, MeterMoves

\* A step of a process that leaves its walk alone.
LEMMA MeterStays ==
  ASSUME World, ProcessesMetered, NEW j \in Projects, proc[j].pc # "idle",
         NEW q, Become(j, q), SameWalk(proc[j], q)
  PROVE  ProcessesMetered'
<1>1. PICK p : p = proc[j]
  OBVIOUS
<1>2. Metered(p) /\ SameWalk(p, q) /\ p.pc # "idle"
  BY <1>1 DEF ProcessesMetered
<1>3. Metered(q)
  BY <1>2, MeteredKept
<1> QED BY <1>3, MeterMoves

\* A process that goes on to another system call.
LEMMA MeterGoes ==
  ASSUME World, ProcessesMetered, NEW j \in Projects, NEW s, proc[j].pc # "idle", Go(j, s),
         s \in Fetching => proc[j].pc \in Fetching
  PROVE  ProcessesMetered'
<1>1. PICK q : q = [proc[j] EXCEPT !.pc = s]
  OBVIOUS
<1>2. Become(j, q)
  BY <1>1 DEF Go, Become
<1>3. proc[j] \in Processes
  BY DEF World
<1>4. SameWalk(proc[j], q)
  BY <1>1, <1>3 DEF Processes, SameWalk
<1> QED BY <1>2, <1>4, MeterStays

\* The steps between the choice of a package and its answer.
LEMMA FetchStepsMeter ==
  ASSUME World, ProcessesMetered, NEW j \in Projects,
         Fetched(j) \/ MakeTree(j) \/ OpenFile(j) \/ FillFile(j) \/ CopyDone(j)
  PROVE  ProcessesMetered'
<1>1. proc[j] \in Processes
  BY SMTT(30) DEF World
<1>2. proc[j].pc \in Fetching
  BY DEF Fetched, Contacted, MakeTree, OpenFile, FillFile, CopyDone, Fetching
<1>3. CASE MakeTree(j)
  <2>1. Go(j, "copy")
    BY <1>3 DEF MakeTree
  <2> QED BY <1>2, <2>1, MeterGoes DEF Fetching
<1>4. CASE Fetched(j)
  <2>1. PICK s, h : Become(j, [proc[j] EXCEPT !.hash = h, !.pc = s])
    BY <1>4 DEF Fetched
  <2>2. SameWalk(proc[j], [proc[j] EXCEPT !.hash = h, !.pc = s])
    BY <1>1, <1>2 DEF Processes, SameWalk
  <2> QED BY <1>2, <2>1, <2>2, MeterStays DEF Fetching
<1>5. CASE OpenFile(j)
  <2>1. PICK f : Become(j, [proc[j] EXCEPT !.pc = "fill", !.file = f])
    BY <1>5 DEF OpenFile
  <2>2. SameWalk(proc[j], [proc[j] EXCEPT !.pc = "fill", !.file = f])
    BY <1>1, <1>2 DEF Processes, SameWalk
  <2> QED BY <1>2, <2>1, <2>2, MeterStays DEF Fetching
<1>6. CASE FillFile(j)
  <2>1. PICK c : Become(j, [proc[j] EXCEPT !.pc = "copy", !.copied = c, !.file = None])
    BY <1>6 DEF FillFile
  <2>2. SameWalk(proc[j], [proc[j] EXCEPT !.pc = "copy", !.copied = c, !.file = None])
    BY <1>1, <1>2 DEF Processes, SameWalk
  <2> QED BY <1>2, <2>1, <2>2, MeterStays DEF Fetching
<1>7. CASE CopyDone(j)
  <2>1. Become(j, [proc[j] EXCEPT !.pc = "stored", !.copied = {}])
    BY <1>7 DEF CopyDone
  <2>2. SameWalk(proc[j], [proc[j] EXCEPT !.pc = "stored", !.copied = {}])
    BY <1>1, <1>2 DEF Processes, SameWalk
  <2> QED BY <1>2, <2>1, <2>2, MeterStays DEF Fetching
<1> QED BY <1>3, <1>4, <1>5, <1>6, <1>7

\* The steps after the walk.
LEMMA PlaceStepsMeter ==
  ASSUME World, ProcessesMetered, NEW j \in Projects, Resolved(j) \/ Place(j)
  PROVE  ProcessesMetered'
<1>1. proc[j] \in Processes /\ proc[j].pc \in {"resolve", "place"}
  BY DEF World, Resolved, Place
<1>2. CASE Resolved(j)
  <2>1. PICK t : Become(j, [proc[j] EXCEPT !.pc = "place", !.todo = t])
    BY <1>2 DEF Resolved
  <2>2. SameWalk(proc[j], [proc[j] EXCEPT !.pc = "place", !.todo = t])
    BY <1>1 DEF Processes, SameWalk, Fetching
  <2> QED BY <1>1, <2>1, <2>2, MeterStays
<1>3. CASE Place(j)
  <2>1. PICK t, l : \/ Become(j, [proc[j] EXCEPT !.todo = t, !.lf = l])
                    \/ Become(j, [[proc[j] EXCEPT !.todo = t, !.lf = l] EXCEPT !.pc = "hook"])
    BY <1>3 DEF Place
  <2>2. /\ SameWalk(proc[j], [proc[j] EXCEPT !.todo = t, !.lf = l])
        /\ SameWalk(proc[j], [[proc[j] EXCEPT !.todo = t, !.lf = l] EXCEPT !.pc = "hook"])
    BY <1>1 DEF Processes, SameWalk, Fetching
  <2> QED BY <1>1, <2>1, <2>2, MeterStays
<1> QED BY <1>2, <1>3

\* The steps that write the lock.
LEMMA LockStepsMeter ==
  ASSUME World, ProcessesMetered, NEW j \in Projects,
         PostFetch(j) \/ Finish(j) \/ OpenTmp(j) \/ FillTmp(j)
  PROVE  ProcessesMetered'
<1>1. /\ proc[j].pc # "idle"
      /\ Exit(j) \/ \E s \in {"place", "write", "fill_tmp", "rename"} : Go(j, s)
  BY DEF PostFetch, Finish, OpenTmp, FillTmp
<1> QED BY <1>1, MeterExits, MeterGoes DEF Fetching

\* The steps of a sync.
LEMMA SyncStepsMeter ==
  ASSUME Inductive, ProcessesMetered, NEW j \in Projects,
         Sync(j) \/ SyncNext(j) \/ Link(j) \/ CompareIntegrity(j)
  PROVE  ProcessesMetered'
<1>1. World /\ proc[j] \in Processes /\ InOrder(proc[j])
  BY Parts
<1>2. PICK q : Become(j, q) /\ q.command.verb = "sync"
  <2>1. CASE Sync(j)
    <3>1. PICK c \in Commands :
            /\ c.verb = "sync"
            /\ \E l, t : Become(j, [Idle EXCEPT !.pc = "sync", !.command = c, !.lf = l, !.todo = t])
      BY <2>1 DEF Sync
    <3>a. PICK l, t : Become(j, [Idle EXCEPT !.pc = "sync", !.command = c, !.lf = l, !.todo = t])
      BY <3>1
    <3>2. [Idle EXCEPT !.pc = "sync", !.command = c, !.lf = l, !.todo = t].command = c
      BY DEF Idle
    <3> QED BY <3>1, <3>2, <3>a
  <2>2. CASE ~Sync(j)
    <3>1. proc[j].command.verb = "sync"
      BY <1>1, <2>2 DEF SyncNext, Link, CompareIntegrity, InOrder
    <3>2. SyncOn(proc[j]).command = proc[j].command
      BY <1>1 DEF SyncOn, Processes
    <3>3. CASE SyncNext(j)
      <4>1. PICK r, h, s : \/ Become(j, [[proc[j] EXCEPT !.current = r, !.hash = h] EXCEPT !.pc = s])
                           \/ Become(j, SyncOn(proc[j]))
        BY <3>3 DEF SyncNext
      <4>2. [[proc[j] EXCEPT !.current = r, !.hash = h] EXCEPT !.pc = s].command = proc[j].command
        BY <1>1 DEF Processes
      <4> QED BY <3>1, <3>2, <4>1, <4>2
    <3>4. CASE Link(j)
      BY <3>1, <3>2, <3>4 DEF Link
    <3>5. CASE CompareIntegrity(j)
      <4>1. Become(j, [proc[j] EXCEPT !.pc = "link"]) \/ Become(j, SyncOn(proc[j]))
        BY <3>5 DEF CompareIntegrity
      <4>2. [proc[j] EXCEPT !.pc = "link"].command = proc[j].command
        BY <1>1 DEF Processes
      <4> QED BY <3>1, <3>2, <4>1, <4>2
    <3> QED BY <2>2, <3>3, <3>4, <3>5
  <2> QED BY <2>1, <2>2
<1>3. Metered(q)
  BY <1>2, MeteredOthers DEF Runs
<1> QED BY <1>1, <1>2, <1>3, MeterMoves

\* Every step keeps the meter.
LEMMA MeteredStep ==
  ASSUME IsFiniteSet(Refs)
  PROVE  Inductive /\ ProcessesMetered /\ [Next]_vars => ProcessesMetered'
<1> SUFFICES ASSUME Inductive, ProcessesMetered, [Next]_vars PROVE ProcessesMetered'
  OBVIOUS
<1>1. World
  BY DEF Inductive
<1>2. ASSUME UNCHANGED proc PROVE ProcessesMetered'
  BY <1>2 DEF ProcessesMetered, Metered, Runs, Superseded
<1>3. CASE UNCHANGED vars \/ CleanCache \/ (\E r \in Refs : Republish(r)) \/ (\E j \in Projects : EditManifest(j))
  BY <1>2, <1>3 DEF vars, CleanCache, Republish, EditManifest
<1>4. ASSUME NEW j \in Projects, Killed(j) \/ Rejected(j) \/ SyncDone(j) \/ Rename(j) \/ LockFails(j)
      PROVE  ProcessesMetered'
  <2>1. Exit(j)
    BY <1>4 DEF Killed, Rejected, SyncDone, Rename, LockFails
  <2> QED BY <1>1, <2>1, MeterExits
<1>5. ASSUME NEW j \in Projects, Unreachable(j) \/ CopyFails(j) PROVE ProcessesMetered'
  <2>1. proc[j].pc \in Fetching /\ Become(j, Lacking(proc[j]))
    BY <1>5 DEF Unreachable, CopyFails, Copying, Fetching
  <2> QED BY <2>1, LackingMeters
<1>6. ASSUME NEW j \in Projects, Install(j) \/ ResolveNext(j) \/ ReadRequires(j) PROVE ProcessesMetered'
  BY <1>1, <1>6, InstallMeters, ResolveNextMeters, ReadRequiresMeters
<1>7. ASSUME NEW j \in Projects, Fetched(j) \/ MakeTree(j) \/ OpenFile(j) \/ FillFile(j) \/ CopyDone(j)
      PROVE  ProcessesMetered'
  BY <1>1, <1>7, FetchStepsMeter
<1>8. ASSUME NEW j \in Projects, Resolved(j) \/ Place(j) PROVE ProcessesMetered'
  BY <1>1, <1>8, PlaceStepsMeter
<1>9. ASSUME NEW j \in Projects, PostFetch(j) \/ Finish(j) \/ OpenTmp(j) \/ FillTmp(j)
      PROVE  ProcessesMetered'
  BY <1>1, <1>9, LockStepsMeter
<1>10. ASSUME NEW j \in Projects, Sync(j) \/ SyncNext(j) \/ Link(j) \/ CompareIntegrity(j)
       PROVE  ProcessesMetered'
  BY <1>10, SyncStepsMeter
<1> QED BY <1>3, <1>4, <1>5, <1>6, <1>7, <1>8, <1>9, <1>10 DEF Next

\* The resolver of an online install looks at no more requirements than the
\* manifest and all packages state together, whatever cycles their graph has
\* and however often a minimum is raised: a package is read once.  So where they
\* are no more than the cap, no walk is given up.
THEOREM WalksEnd == ASSUME IsFiniteSet(Refs) PROVE Spec => []ResolverConverges
<1>1. Init => ProcessesMetered
  <2> SUFFICES ASSUME Init, NEW j \in Projects PROVE Metered(proc[j])
    BY DEF ProcessesMetered
  <2>1. proc[j] = Idle /\ ~Runs(Idle, "install")
    BY IdleIsAProcess DEF Init, Runs
  <2> QED BY <2>1, MeteredOthers
<1>2. ASSUME Inductive, ProcessesMetered PROVE ResolverConverges
  <2> SUFFICES ASSUME NEW j \in Projects, proc[j].pc = "resolve", proc[j].pending # <<>>,
                      ~proc[j].command.offline, GivesUp(proc[j])
               PROVE  Demands(proc[j].manifest) > MaxIterations
    BY DEF ResolverConverges
  <2>1. PICK p \in Processes : p = proc[j]
    BY <1>2 DEF Inductive, World
  <2>2. InOrder(p) /\ Metered(p)
    BY <1>2, <2>1, Parts DEF ProcessesMetered
  <2>3. /\ Runs(p, "install") /\ p.manifest \in Manifests /\ p.pending \in Seq(Refs)
        /\ p.iterations \in Nat /\ p.fetched \in FetchMaps
    BY <2>1, <2>2 DEF InOrder, Runs, Processes, Queues
  <2>4. DOMAIN p.fetched \in SUBSET Refs
    BY <2>3, MapValues DEF FetchMaps
  <2>5. /\ Cardinality(Wishes(DOMAIN p.fetched)) <= Cardinality(Wishes(Refs))
        /\ Cardinality(Wishes(DOMAIN p.fetched)) \in Nat /\ Cardinality(Wishes(Refs)) \in Nat
    BY <2>4, WishesAreFinite
  <2>6. Len(p.manifest.direct) \in Nat /\ Len(p.manifest.dev) \in Nat /\ Len(p.pending) \in Nat \ {0}
    BY <2>1, <2>3, PackagesAssumption, LenProperties, EmptySeq
  <2>7. p.iterations + Len(p.pending) <=
          Len(p.manifest.direct) + Len(p.manifest.dev) + Cardinality(Wishes(DOMAIN p.fetched))
    BY <2>1, <2>2, <2>3 DEF Metered
  <2>8. PICK a, b, c, d, e, f \in Nat :
          /\ a = p.iterations /\ b = Len(p.pending) /\ c = Len(p.manifest.direct)
          /\ d = Len(p.manifest.dev) /\ e = Cardinality(Wishes(DOMAIN p.fetched))
          /\ f = Cardinality(Wishes(Refs))
    BY <2>3, <2>5, <2>6
  <2>9. a + b <= c + d + e /\ e <= f /\ b # 0
    BY <2>5, <2>6, <2>7, <2>8
  <2>10. c + d + f > a
    BY <2>9
  <2>11. a >= MaxIterations /\ MaxIterations \in Nat
    BY <2>1, <2>8, PackagesAssumption DEF GivesUp
  <2>12. c + d + f > MaxIterations
    BY <2>10, <2>11
  <2> QED BY <2>1, <2>8, <2>12 DEF Demands
<1> QED BY <1>1, <1>2, MeteredStep, InductiveHolds, PTL DEF Spec

-----------------------------------------------------------------------------
(* Where the content comes from.                                           *)

\* Content that upstream has served for the package it is named after.
Served(upstream, h) == h = None \/ h.content <= upstream[h.ref]
LinkServed(upstream, r, h) == Served(upstream, h) /\ (h # None => h.ref = r)
TableServed(upstream, table) == \A n \in DOMAIN table : Served(upstream, table[n].integrity)
FileServed(upstream, file) == file = None \/ TableServed(upstream, file.packages)
HandServed(upstream, p) ==
  /\ Served(upstream, p.hash) /\ TableServed(upstream, p.lf)
  /\ \A r \in DOMAIN p.fetched : Served(upstream, p.fetched[r])

\* Every tree of the store, every link, every hash in a lock or in the hands of
\* a process is content upstream has served for that package; and a link is named
\* after the package it leads to.
OnlyServed ==
  /\ \A h \in Hashes : cas[h] # None => Served(published, h)
  /\ \A j \in Projects :
       /\ \A r \in Refs : LinkServed(published, r, lib[j][r])
       /\ FileServed(published, lock[j]) /\ FileServed(published, tmp[j])
       /\ HandServed(published, proc[j])

\* What was served stays so when upstream serves more.
LEMMA ServedStays ==
  ASSUME World, NEW r0 \in Refs, published' = [published EXCEPT ![r0] = @ + 1]
  PROVE  /\ \A h \in SomeHash : Served(published, h) => Served(published', h)
         /\ \A table \in Locks : TableServed(published, table) => TableServed(published', table)
<1>1. \A r \in Refs : published[r] \in Nat /\ published'[r] \in Nat /\ published[r] <= published'[r]
  <2>1. published \in [Refs -> 1 .. events + 1] /\ events \in 0 .. MaxEvents /\ MaxEvents \in Nat
    BY PackagesAssumption DEF World
  <2>2. \A r \in Refs : published[r] \in Nat
    BY <2>1
  <2> QED BY <2>1, <2>2
<1>2. ASSUME NEW h \in SomeHash, Served(published, h) PROVE Served(published', h)
  <2>1. CASE h = None
    BY <2>1 DEF Served
  <2>2. CASE h # None
    <3>1. h.ref \in Refs /\ h.content \in Nat
      BY <2>2, PackagesAssumption DEF SomeHash, Hashes
    <3> QED BY <1>1, <1>2, <2>2, <3>1 DEF Served
  <2> QED BY <2>1, <2>2
<1>3. ASSUME NEW table \in Locks, TableServed(published, table) PROVE TableServed(published', table)
  <2>1. table \in Maps(Names, Entries)
    BY DEF Locks
  <2>2. \A n \in DOMAIN table : table[n] \in Entries
    BY <2>1, MapValues
  <2>3. \A n \in DOMAIN table : table[n].integrity \in SomeHash
    BY <2>2 DEF Entries, SomeHash
  <2> QED BY <1>2, <1>3, <2>3 DEF TableServed
<1> QED BY <1>2, <1>3

\* A step of a process.
LEMMA ServedMoves ==
  ASSUME World, OnlyServed, NEW j \in Projects, NEW q, Become(j, q), HandServed(published, q),
         UNCHANGED published,
         \A k \in Projects : \A r \in Refs :
           lib'[k][r] = lib[k][r] \/ LinkServed(published, r, lib'[k][r]),
         \A h \in Hashes : cas'[h] # None => cas[h] # None \/ Served(published, h),
         \A k \in Projects : lock'[k] = lock[k] \/ FileServed(published, lock'[k]),
         \A k \in Projects : tmp'[k] = tmp[k] \/ FileServed(published, tmp'[k])
  PROVE  OnlyServed'
<1>1. \A k \in Projects : proc'[k] = IF k = j THEN q ELSE proc[k]
  BY DEF World, Become
<1>2. \A k \in Projects : HandServed(published, proc'[k])
  BY <1>1 DEF OnlyServed
<1>3. \A k \in Projects : \A r \in Refs : LinkServed(published, r, lib'[k][r])
  BY DEF OnlyServed
<1>4. \A k \in Projects : FileServed(published, lock'[k]) /\ FileServed(published, tmp'[k])
  BY DEF OnlyServed
<1>5. \A h \in Hashes : cas'[h] # None => Served(published, h)
  BY DEF OnlyServed
<1>6. published' = published
  OBVIOUS
<1> QED BY <1>2, <1>3, <1>4, <1>5, <1>6 DEF OnlyServed

\* A process that is not there has nothing in hand.
LEMMA IdleServed == \A upstream : HandServed(upstream, Idle)
<1>1. Idle.hash = None /\ Idle.fetched = Empty /\ Idle.lf = Empty /\ DOMAIN Empty = {}
  BY EmptyMap DEF Idle
<1> QED BY <1>1 DEF HandServed, TableServed, Served

\* One that keeps what it has, or puts the hash away.
SameHands(p, q) == q.hash \in {p.hash, None} /\ q.lf = p.lf /\ q.fetched = p.fetched

LEMMA SameHandsServed ==
  ASSUME OnlyServed, NEW j \in Projects, NEW q, SameHands(proc[j], q)
  PROVE  HandServed(published, q)
BY DEF OnlyServed, SameHands, HandServed, Served

\* The steps that leave what a process has in hand, or end it.
LEMMA PlainSteps ==
  ASSUME World, NEW j \in Projects,
         \/ Killed(j) \/ Rejected(j) \/ SyncDone(j) \/ LockFails(j) \/ Rename(j)
         \/ ResolveNext(j) \/ Resolved(j) \/ MakeTree(j) \/ OpenFile(j) \/ FillFile(j) \/ CopyDone(j)
         \/ PostFetch(j) \/ Finish(j) \/ OpenTmp(j) \/ FillTmp(j) \/ CompareIntegrity(j) \/ Link(j)
  PROVE  \E q : Become(j, q) /\ (q = Idle \/ SameHands(proc[j], q))
<1>1. PICK p \in Processes : p = proc[j]
  BY DEF World
<1>2. CASE Killed(j) \/ Rejected(j) \/ SyncDone(j) \/ LockFails(j) \/ Rename(j)
  BY <1>2 DEF Killed, Rejected, SyncDone, LockFails, Rename, Exit
<1>3. ASSUME NEW s, Go(j, s) PROVE \E q : Become(j, q) /\ SameHands(p, q)
  <2>1. PICK q : q = [p EXCEPT !.pc = s] /\ Become(j, q)
    BY <1>1, <1>3 DEF Go, Become
  <2>2. SameHands(p, q)
    BY <2>1 DEF Processes, SameHands
  <2> QED BY <2>1, <2>2
<1>4. CASE PostFetch(j) \/ Finish(j) \/ OpenTmp(j) \/ FillTmp(j) \/ MakeTree(j)
  <2>1. Exit(j) \/ \E s : Go(j, s)
    BY <1>4 DEF PostFetch, Finish, OpenTmp, FillTmp, MakeTree
  <2> QED BY <1>1, <1>3, <2>1 DEF Exit
<1>5. CASE Resolved(j)
  <2>1. PICK t : Become(j, [p EXCEPT !.pc = "place", !.todo = t])
    BY <1>1, <1>5 DEF Resolved
  <2>2. SameHands(p, [p EXCEPT !.pc = "place", !.todo = t])
    BY DEF Processes, SameHands
  <2> QED BY <1>1, <2>1, <2>2
<1>6. CASE OpenFile(j)
  <2>1. PICK f : Become(j, [p EXCEPT !.pc = "fill", !.file = f])
    BY <1>1, <1>6 DEF OpenFile
  <2>2. SameHands(p, [p EXCEPT !.pc = "fill", !.file = f])
    BY DEF Processes, SameHands
  <2> QED BY <1>1, <2>1, <2>2
<1>7. CASE FillFile(j)
  <2>1. PICK c : Become(j, [p EXCEPT !.pc = "copy", !.copied = c, !.file = None])
    BY <1>1, <1>7 DEF FillFile
  <2>2. SameHands(p, [p EXCEPT !.pc = "copy", !.copied = c, !.file = None])
    BY DEF Processes, SameHands
  <2> QED BY <1>1, <2>1, <2>2
<1>8. CASE CopyDone(j)
  <2>1. Become(j, [p EXCEPT !.pc = "stored", !.copied = {}])
    BY <1>1, <1>8 DEF CopyDone
  <2>2. SameHands(p, [p EXCEPT !.pc = "stored", !.copied = {}])
    BY DEF Processes, SameHands
  <2> QED BY <1>1, <2>1, <2>2
<1>9. CASE CompareIntegrity(j) \/ Link(j)
  <2>1. Become(j, [p EXCEPT !.pc = "link"]) \/ Become(j, SyncOn(p))
    BY <1>1, <1>9 DEF CompareIntegrity, Link
  <2>2. SameHands(p, [p EXCEPT !.pc = "link"]) /\ SameHands(p, SyncOn(p))
    BY DEF Processes, SameHands, SyncOn
  <2> QED BY <1>1, <2>1, <2>2
<1>10. CASE ResolveNext(j)
  <2> DEFINE walked == [p EXCEPT !.pending = Tail(@), !.iterations = @ + 1]
  <2>1. PICK r, m, refs :
          \/ Exit(j)
          \/ Become(j, walked)
          \/ Become(j, Provided([walked EXCEPT !.minimums = m], r, refs))
          \/ Become(j, [[walked EXCEPT !.minimums = m] EXCEPT !.pc = "fetch", !.current = r])
    BY <1>1, <1>10 DEF ResolveNext
  <2>2. /\ SameHands(p, walked)
        /\ SameHands(p, Provided([walked EXCEPT !.minimums = m], r, refs))
        /\ SameHands(p, [[walked EXCEPT !.minimums = m] EXCEPT !.pc = "fetch", !.current = r])
    BY DEF Processes, SameHands, Provided
  <2> HIDE DEF walked
  <2> QED BY <1>1, <2>1, <2>2 DEF Exit
<1> QED BY <1>2, <1>4, <1>5, <1>6, <1>7, <1>8, <1>9, <1>10

\* They add nothing to the store but the tree of the hash in hand, and nothing
\* to a lock but what the process has in hand.
LEMMA PlainStepsServed ==
  ASSUME Inductive, OnlyServed, NEW j \in Projects,
         \/ Killed(j) \/ Rejected(j) \/ SyncDone(j) \/ LockFails(j) \/ Rename(j)
         \/ ResolveNext(j) \/ Resolved(j) \/ MakeTree(j) \/ OpenFile(j) \/ FillFile(j) \/ CopyDone(j)
         \/ PostFetch(j) \/ Finish(j) \/ OpenTmp(j) \/ FillTmp(j) \/ CompareIntegrity(j)
  PROVE  OnlyServed'
<1>1. World /\ InOrder(proc[j]) /\ proc[j] \in Processes
  BY Parts
<1>2. PICK q : Become(j, q) /\ (q = Idle \/ SameHands(proc[j], q))
  BY <1>1, PlainSteps
<1>3. HandServed(published, q)
  BY <1>2, IdleServed, SameHandsServed
<1>4. UNCHANGED <<published, lib>>
  BY DEF Killed, Rejected, SyncDone, LockFails, Rename, ResolveNext, Resolved, MakeTree, OpenFile,
         FillFile, CopyDone, PostFetch, Finish, OpenTmp, FillTmp, CompareIntegrity, world, disk
<1>5. \A h \in Hashes : cas'[h] # None => cas[h] # None \/ Served(published, h)
  <2>1. CASE MakeTree(j) \/ OpenFile(j) \/ FillFile(j)
    <3>1. Served(published, proc[j].hash)
      BY DEF OnlyServed, HandServed
    <3>2. PICK v : cas' = [cas EXCEPT ![proc[j].hash] = v]
      BY <2>1 DEF MakeTree, OpenFile, FillFile
    <3> QED BY <1>1, <3>1, <3>2 DEF World
  <2>2. CASE ~(MakeTree(j) \/ OpenFile(j) \/ FillFile(j))
    <3>1. cas' = cas
      BY <2>2 DEF Killed, Rejected, SyncDone, LockFails, Rename, ResolveNext, Resolved,
         CopyDone, PostFetch, Finish, OpenTmp, FillTmp, CompareIntegrity, world, disk
    <3> QED BY <3>1
  <2> QED BY <2>1, <2>2
<1>6. /\ \A k \in Projects : lock'[k] = lock[k] \/ FileServed(published, lock'[k])
      /\ \A k \in Projects : tmp'[k] = tmp[k] \/ FileServed(published, tmp'[k])
  <2>1. /\ FileServed(published, None) /\ FileServed(published, [whole |-> FALSE, packages |-> Empty])
        /\ FileServed(published, [whole |-> TRUE, packages |-> proc[j].lf])
        /\ FileServed(published, tmp[j])
    <3>1. TableServed(published, Empty) /\ TableServed(published, proc[j].lf)
      BY EmptyMap DEF OnlyServed, HandServed, TableServed
    <3>2. FileServed(published, tmp[j])
      BY DEF OnlyServed
    <3> QED BY <3>1, <3>2 DEF FileServed
  <2>2. lock \in [Projects -> LockFiles] /\ tmp \in [Projects -> LockFiles]
    BY <1>1 DEF World
  <2>3. CASE Rename(j)
    <3>1. /\ \A k \in Projects : lock'[k] = IF k = j THEN tmp[j] ELSE lock[k]
          /\ \A k \in Projects : tmp'[k] = IF k = j THEN None ELSE tmp[k]
      BY <2>2, <2>3 DEF Rename
    <3> QED BY <2>1, <3>1
  <2>4. CASE LockFails(j)
    <3>1. lock' = lock /\ \A k \in Projects : tmp'[k] = tmp[k] \/ tmp'[k] = None
      BY <2>2, <2>4 DEF LockFails
    <3> QED BY <2>1, <3>1
  <2>5. CASE OpenTmp(j) \/ FillTmp(j)
    <3>1. lock' = lock
      BY <2>5 DEF OpenTmp, FillTmp
    <3>2. \/ tmp' = [tmp EXCEPT ![j] = [whole |-> FALSE, packages |-> Empty]]
          \/ tmp' = [tmp EXCEPT ![j] = [whole |-> TRUE, packages |-> proc[j].lf]]
      BY <2>5 DEF OpenTmp, FillTmp
    <3>3. PICK f : FileServed(published, f) /\ tmp' = [tmp EXCEPT ![j] = f]
      BY <2>1, <3>2
    <3> QED BY <2>2, <3>1, <3>3
  <2>6. CASE ~(Rename(j) \/ LockFails(j) \/ OpenTmp(j) \/ FillTmp(j))
    <3>1. lock' = lock /\ tmp' = tmp
      BY <2>6 DEF Killed, Rejected, SyncDone, ResolveNext, Resolved, MakeTree, OpenFile,
         FillFile, CopyDone, PostFetch, Finish, CompareIntegrity, world, disk
    <3> QED BY <3>1
  <2> QED BY <2>3, <2>4, <2>5, <2>6
<1> QED BY <1>1, <1>2, <1>3, <1>4, <1>5, <1>6, ServedMoves

\* A new hash comes from upstream, from the lock or from what is in hand.
LEMMA NewHandsServed ==
  ASSUME Inductive, OnlyServed, NEW j \in Projects,
         \/ Install(j) \/ Sync(j) \/ Fetched(j) \/ SyncNext(j)
         \/ Unreachable(j) \/ CopyFails(j) \/ ReadRequires(j)
  PROVE  OnlyServed'
<1>1. PICK p \in Processes : p = proc[j]
  BY Parts
<1>2. World /\ InOrder(p) /\ HandServed(published, p)
  BY <1>1, Parts DEF OnlyServed
<1>3. UNCHANGED <<published, lib, cas, lock, tmp>>
  BY DEF Install, Sync, Fetched, SyncNext, Unreachable, CopyFails, ReadRequires, world, disk
<1>4. \E q : Become(j, q) /\ HandServed(published, q)
  <2>1. CASE Install(j)
    <3>1. PICK c, mf, l, w :
            Become(j, [Idle EXCEPT !.pc = "resolve", !.command = c, !.manifest = mf, !.locked = l, !.pending = w])
      BY <2>1 DEF Install
    <3>2. PICK q : /\ Become(j, q)
                   /\ q = [Idle EXCEPT !.pc = "resolve", !.command = c, !.manifest = mf, !.locked = l, !.pending = w]
      BY <3>1
    <3>3. q.hash = None /\ q.fetched = Empty /\ q.lf = Empty /\ DOMAIN Empty = {}
      BY <3>2, EmptyMap DEF Idle
    <3> QED BY <3>2, <3>3 DEF HandServed, TableServed, Served
  <2>2. CASE Sync(j)
    <3>1. PICK c, t : Become(j, [Idle EXCEPT !.pc = "sync", !.command = c, !.lf = ReadLock(j), !.todo = t])
      BY <2>2 DEF Sync
    <3>2. PICK q : /\ Become(j, q)
                   /\ q = [Idle EXCEPT !.pc = "sync", !.command = c, !.lf = ReadLock(j), !.todo = t]
      BY <3>1
    <3>3. q.hash = None /\ q.fetched = Empty /\ q.lf = ReadLock(j) /\ DOMAIN Empty = {}
      BY <3>2, EmptyMap DEF Idle
    <3>4. TableServed(published, ReadLock(j))
      BY <3>3 DEF ReadLock, OnlyServed, FileServed, TableServed
    <3> QED BY <3>2, <3>3, <3>4 DEF HandServed, Served
  <2>3. CASE Fetched(j)
    <3>1. PICK s, h : h = Hash(p.current) /\ Become(j, [p EXCEPT !.hash = h, !.pc = s])
      BY <1>1, <2>3 DEF Fetched
    <3>2. p.current \in Refs
      BY <1>1, <1>2, <2>3 DEF Fetched, Contacted, InOrder, Fetching
    <3>3. Served(published, h)
      <4>1. published[p.current] \in 1 .. events + 1 /\ events \in 0 .. MaxEvents
        BY <1>2, <3>2 DEF World
      <4> QED BY <3>1, <4>1, PackagesAssumption DEF Served, Hash
    <3>4. PICK q : q = [p EXCEPT !.hash = h, !.pc = s] /\ Become(j, q)
      BY <3>1
    <3>5. q.hash = h /\ q.lf = p.lf /\ q.fetched = p.fetched
      BY <3>4 DEF Processes
    <3> QED BY <1>2, <3>3, <3>4, <3>5 DEF HandServed
  <2>4. CASE SyncNext(j)
    <3>1. /\ p.pc = "sync" /\ p.todo # {}
          /\ \/ Become(j, SyncOn(p))
             \/ \E r, s : Become(j, [[p EXCEPT !.current = r, !.hash = p.lf[Min(p.todo)].integrity] EXCEPT !.pc = s])
      BY <1>1, <2>4 DEF SyncNext
    <3>2. SameHands(p, SyncOn(p))
      BY DEF Processes, SameHands, SyncOn
    <3>3. CASE Become(j, SyncOn(p))
      BY <1>1, <3>2, <3>3, SameHandsServed
    <3>4. CASE ~Become(j, SyncOn(p))
      <4>1. PICK n : n = Min(p.todo)
        OBVIOUS
      <4>2. n \in DOMAIN p.lf
        <5>1. p.todo \in SUBSET Names /\ p.todo \subseteq DOMAIN p.lf
          BY <1>2, <3>1 DEF Processes, NameSets, InOrder, Runs
        <5> QED BY <3>1, <4>1, <5>1, LeastName
      <4>3. PICK r, s, q : q = [[p EXCEPT !.current = r, !.hash = p.lf[n].integrity] EXCEPT !.pc = s] /\ Become(j, q)
        BY <3>1, <3>4, <4>1
      <4>4. q.hash = p.lf[n].integrity /\ q.lf = p.lf /\ q.fetched = p.fetched
        BY <4>3 DEF Processes
      <4> QED BY <1>2, <4>2, <4>3, <4>4 DEF HandServed, TableServed
    <3> QED BY <3>3, <3>4
  <2>5. ASSUME NEW f, NEW h, f = Bind(p.fetched, p.current, h), Served(published, h),
               NEW c, NEW g, NEW refs,
               Become(j, Provided([p EXCEPT !.fetched = f, !.copied = c, !.file = g], p.current, refs))
        PROVE  \E q : Become(j, q) /\ HandServed(published, q)
    <3>1. PICK q : /\ q = Provided([p EXCEPT !.fetched = f, !.copied = c, !.file = g], p.current, refs)
                   /\ Become(j, q)
      BY <2>5
    <3>2. q.hash = None /\ q.lf = p.lf /\ q.fetched = f
      BY <3>1 DEF Processes, Provided
    <3>3. \A r \in DOMAIN f : Served(published, f[r])
      BY <1>2, <2>5 DEF Bind, HandServed
    <3> QED BY <1>2, <3>1, <3>2, <3>3 DEF HandServed, Served
  <2>6. CASE Unreachable(j) \/ CopyFails(j)
    <3>1. Become(j, Lacking(p))
      BY <1>1, <2>6 DEF Unreachable, CopyFails
    <3>2. CASE p.command.verb = "sync"
      <4>1. Become(j, SyncOn(p)) /\ SameHands(p, SyncOn(p))
        BY <3>1, <3>2 DEF Lacking, Processes, SameHands, SyncOn
      <4> QED BY <1>1, <4>1, SameHandsServed
    <3>3. CASE p.command.verb # "sync"
      <4>1. PICK f : f = Bind(p.fetched, p.current, None)
        OBVIOUS
      <4>2. Become(j, Provided([p EXCEPT !.fetched = f, !.copied = {}, !.file = None], p.current, <<>>))
        BY <3>1, <3>3, <4>1 DEF Lacking
      <4>3. Served(published, None)
        BY DEF Served
      <4> QED BY <2>5, <4>1, <4>2, <4>3
    <3> QED BY <3>2, <3>3
  <2>7. CASE ReadRequires(j)
    <3>1. PICK f : f = Bind(p.fetched, p.current, p.hash)
      OBVIOUS
    <3>2. PICK refs : Become(j, Provided([p EXCEPT !.fetched = f], p.current, refs))
      BY <1>1, <2>7, <3>1 DEF ReadRequires
    <3>3. [p EXCEPT !.fetched = f] = [p EXCEPT !.fetched = f, !.copied = p.copied, !.file = p.file]
      BY DEF Processes
    <3>4. Served(published, p.hash)
      BY <1>2 DEF HandServed
    <3>5. Become(j, Provided([p EXCEPT !.fetched = f, !.copied = p.copied, !.file = p.file], p.current, refs))
      BY <3>2, <3>3
    <3> QED BY <2>5, <3>1, <3>4, <3>5
  <2> QED BY <2>1, <2>2, <2>3, <2>4, <2>6, <2>7
<1> QED BY <1>1, <1>2, <1>3, <1>4, ServedMoves

\* What is linked is what the process has in hand, under its own name.
LEMMA LinkedServed ==
  ASSUME World, OnlyServed, NEW j \in Projects, NEW h \in SomeHash, Served(published, h), Materialise(j, h)
  PROVE  \A k \in Projects : \A r \in Refs :
           lib'[k][r] = lib[k][r] \/ LinkServed(published, r, lib'[k][r])
<1>1. /\ \A k \in Projects \ {j} : lib'[k] = lib[k]
      /\ \A r : r # h.ref => lib'[j][r] = lib[j][r]
      /\ h.ref \in Refs /\ Has(h) => lib'[j][h.ref] \in {h, None}
  BY Linked
<1>2. CASE ~Has(h)
  BY <1>2 DEF Materialise
<1>3. CASE Has(h)
  BY <1>1, <1>3 DEF LinkServed, Served
<1> QED BY <1>2, <1>3

\* A package is placed, by install or by sync.
LEMMA LinkStepsServed ==
  ASSUME Inductive, OnlyServed, NEW j \in Projects, Place(j) \/ Link(j)
  PROVE  OnlyServed'
<1>1. PICK p \in Processes : p = proc[j]
  BY Parts
<1>2. World /\ InOrder(p) /\ Fetches(p) /\ HandServed(published, p)
  BY <1>1, Parts DEF OnlyServed
<1>3. UNCHANGED <<published, cas, lock, tmp>>
  BY DEF Place, Link, world
<1>4. CASE Link(j)
  <2>1. Served(published, p.hash) /\ p.hash \in SomeHash /\ Materialise(j, p.hash)
    BY <1>1, <1>2, <1>4 DEF HandServed, Processes, Link
  <2>2. PICK q : q = SyncOn(p) /\ Become(j, q)
    BY <1>1, <1>4 DEF Link
  <2>3. SameHands(p, q)
    BY <2>2 DEF Processes, SameHands, SyncOn
  <2>4. HandServed(published, q)
    BY <1>1, <2>3, SameHandsServed
  <2>5. \A k \in Projects : \A r \in Refs :
          lib'[k][r] = lib[k][r] \/ LinkServed(published, r, lib'[k][r])
    BY <1>2, <2>1, LinkedServed
  <2> QED BY <1>2, <1>3, <2>2, <2>4, <2>5, ServedMoves
<1>5. CASE Place(j)
  <2> DEFINE n == Min(p.todo)
             r == [name |-> n, version |-> p.minimums[n]]
             got == IF p.command.offline THEN None ELSE p.fetched[r]
  <2>1. p.pc = "place" /\ p.todo # {}
    BY <1>1, <1>5 DEF Place
  <2>2. got \in SomeHash /\ Served(published, got)
    <3>1. p.todo \in SUBSET Names /\ p.pc \notin Fetching /\ Runs(p, "install") /\ p.todo \subseteq DOMAIN p.minimums
      BY <1>2, <2>1 DEF Processes, NameSets, InOrder, Placing, Fetching, Runs
    <3>2. n \in DOMAIN p.minimums
      BY <2>1, <3>1, LeastName
    <3>3. CASE ~p.command.offline
      <4>1. r \in DOMAIN p.fetched
        BY <1>2, <3>1, <3>2, <3>3 DEF Fetches, Chosen
      <4>2. p.fetched[r] \in SomeHash
        BY <4>1, MapValues DEF Processes, FetchMaps, SomeHash
      <4>3. Served(published, p.fetched[r])
        BY <1>2, <4>1 DEF HandServed
      <4> QED BY <3>3, <4>2, <4>3
    <3>4. CASE p.command.offline
      BY <3>4 DEF SomeHash, Served
    <3> QED BY <3>3, <3>4
  <2>3. \/ /\ got = None /\ UNCHANGED lib
           /\ Become(j, [p EXCEPT !.todo = @ \ {n}, !.lf = Bind(@, n, Entry(p, n, None))])
        \/ /\ Materialise(j, got)
           /\ Become(j, [[p EXCEPT !.todo = @ \ {n}, !.lf = Bind(@, n, Entry(p, n, got))] EXCEPT !.pc = "hook"])
    BY <1>1, <1>5 DEF Place
  <2>4. PICK h \in SomeHash : h = got
    BY <2>2
  <2>5. PICK m : m = n
    OBVIOUS
  <2>6. /\ Served(published, h)
        /\ \/ /\ UNCHANGED lib
              /\ Become(j, [p EXCEPT !.todo = @ \ {m}, !.lf = Bind(@, m, Entry(p, m, h))])
           \/ /\ Materialise(j, h)
              /\ Become(j, [[p EXCEPT !.todo = @ \ {m}, !.lf = Bind(@, m, Entry(p, m, h))] EXCEPT !.pc = "hook"])
    BY <2>2, <2>3, <2>4, <2>5
  <2> HIDE DEF n, r, got
  <2>7. PICK l : l = Bind(p.lf, m, Entry(p, m, h))
    OBVIOUS
  <2>8. TableServed(published, l)
    <3>1. Entry(p, m, h).integrity = h
      BY DEF Entry
    <3> QED BY <1>2, <2>6, <2>7, <3>1 DEF Bind, TableServed, HandServed
  <2>9. \A k \in Projects : \A x \in Refs :
          lib'[k][x] = lib[k][x] \/ LinkServed(published, x, lib'[k][x])
    BY <1>2, <2>6, LinkedServed
  <2>10. PICK q : Become(j, q) /\ q.hash = p.hash /\ q.lf = l /\ q.fetched = p.fetched
    <3>1. PICK q : /\ Become(j, q)
                   /\ \/ q = [p EXCEPT !.todo = @ \ {m}, !.lf = l]
                      \/ q = [[p EXCEPT !.todo = @ \ {m}, !.lf = l] EXCEPT !.pc = "hook"]
      BY <2>6, <2>7
    <3>2. q.hash = p.hash /\ q.lf = l /\ q.fetched = p.fetched
      BY <3>1 DEF Processes
    <3> QED BY <3>1, <3>2
  <2>11. HandServed(published, q)
    BY <1>2, <2>8, <2>10 DEF HandServed
  <2> QED BY <1>2, <1>3, <2>9, <2>10, <2>11, ServedMoves
<1> QED BY <1>4, <1>5

\* Upstream republishes a package.
LEMMA RepublishServed == ASSUME Inductive, OnlyServed, NEW r0 \in Refs, Republish(r0) PROVE OnlyServed'
<1>1. World /\ published' = [published EXCEPT ![r0] = @ + 1] /\ UNCHANGED <<cas, lib, lock, tmp, proc>>
  BY DEF Inductive, Republish, disk
<1>2. /\ \A h \in SomeHash : Served(published, h) => Served(published', h)
      /\ \A table \in Locks : TableServed(published, table) => TableServed(published', table)
  BY <1>1, ServedStays
<1>3. \A h \in Hashes : cas[h] # None => Served(published', h)
  BY <1>2 DEF OnlyServed, SomeHash
<1>4. ASSUME NEW j \in Projects, NEW r \in Refs PROVE LinkServed(published', r, lib[j][r])
  <2>1. lib[j][r] \in SomeHash
    BY <1>1 DEF World, SomeHash
  <2> QED BY <1>2, <2>1 DEF OnlyServed, LinkServed
<1>5. ASSUME NEW file \in LockFiles, FileServed(published, file) PROVE FileServed(published', file)
  <2>1. file # None => file.packages \in Locks
    BY DEF LockFiles
  <2> QED BY <1>2, <1>5, <2>1 DEF FileServed
<1>6. ASSUME NEW j \in Projects PROVE HandServed(published', proc[j])
  <2>1. PICK p \in Processes : p = proc[j]
    BY <1>1 DEF World
  <2>2. p.hash \in SomeHash /\ p.lf \in Locks /\ p.fetched \in Maps(Refs, SomeHash)
    BY DEF Processes, FetchMaps, SomeHash
  <2>3. HandServed(published, p)
    BY <2>1 DEF OnlyServed
  <2>4. \A r \in DOMAIN p.fetched : p.fetched[r] \in SomeHash
    BY <2>2, MapValues
  <2> QED BY <1>2, <2>1, <2>2, <2>3, <2>4 DEF HandServed
<1>7. ASSUME NEW j \in Projects PROVE FileServed(published', lock[j]) /\ FileServed(published', tmp[j])
  <2>1. lock[j] \in LockFiles /\ tmp[j] \in LockFiles
    BY <1>1 DEF World
  <2> QED BY <1>5, <2>1 DEF OnlyServed
<1> QED BY <1>1, <1>3, <1>4, <1>6, <1>7 DEF OnlyServed

\* Every step takes what it stores, links and locks from upstream, or from what
\* was taken from there.
LEMMA ServedStep == Inductive /\ OnlyServed /\ [Next]_vars => OnlyServed'
<1> SUFFICES ASSUME Inductive, OnlyServed, [Next]_vars PROVE OnlyServed'
  OBVIOUS
<1>1. ASSUME UNCHANGED <<published, cas, lib, lock, tmp, proc>> PROVE OnlyServed'
  BY <1>1 DEF OnlyServed
<1>2. CASE UNCHANGED vars \/ \E j \in Projects : EditManifest(j)
  BY <1>1, <1>2 DEF vars, EditManifest, disk
<1>3. CASE CleanCache
  <2>1. UNCHANGED <<published, lib, lock, tmp, proc>> /\ \A h \in Hashes : cas'[h] = None
    BY <1>3 DEF CleanCache
  <2> QED BY <2>1 DEF OnlyServed
<1>4. CASE \E r \in Refs : Republish(r)
  BY <1>4, RepublishServed
<1>5. ASSUME NEW j \in Projects,
             \/ Killed(j) \/ Rejected(j) \/ SyncDone(j) \/ LockFails(j) \/ Rename(j)
             \/ ResolveNext(j) \/ Resolved(j) \/ MakeTree(j) \/ OpenFile(j) \/ FillFile(j) \/ CopyDone(j)
             \/ PostFetch(j) \/ Finish(j) \/ OpenTmp(j) \/ FillTmp(j) \/ CompareIntegrity(j)
      PROVE  OnlyServed'
  BY <1>5, PlainStepsServed
<1>6. ASSUME NEW j \in Projects,
             \/ Install(j) \/ Sync(j) \/ Fetched(j) \/ SyncNext(j)
             \/ Unreachable(j) \/ CopyFails(j) \/ ReadRequires(j)
      PROVE  OnlyServed'
  BY <1>6, NewHandsServed
<1>7. ASSUME NEW j \in Projects, Place(j) \/ Link(j) PROVE OnlyServed'
  BY <1>7, LinkStepsServed
<1> QED BY <1>2, <1>3, <1>4, <1>5, <1>6, <1>7 DEF Next

\* Nothing is stored, linked or locked that upstream has not served for the very
\* package it stands for, whatever was republished, deleted, killed or torn in
\* between and whichever project's process stored it (ensure_in_cas, materialise
\* and write_lockfile of any number of processes).
THEOREM ContentWasServed == Spec => []OnlyServed
<1>1. Init => OnlyServed
  <2> SUFFICES ASSUME Init PROVE OnlyServed
    OBVIOUS
  <2>1. /\ \A h \in Hashes : cas[h] = None
        /\ \A j \in Projects : proc[j] = Idle /\ lock[j] = None /\ tmp[j] = None
        /\ \A j \in Projects : \A r \in Refs : lib[j][r] = None
    BY DEF Init
  <2> QED BY <2>1, IdleServed DEF OnlyServed, LinkServed, FileServed, Served
<1> QED BY <1>1, ServedStep, InductiveHolds, PTL DEF Spec
=============================================================================
