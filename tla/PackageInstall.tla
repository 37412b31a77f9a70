--------------------------- MODULE PackageInstall ---------------------------
(***************************************************************************)
(* `tcl pkg install` and `tcl pkg sync`: the resolver that reads the        *)
(* dependency graph while it fetches it, the content-addressable store all  *)
(* projects of a user share, the links in a project's lib/ and the lock     *)
(* file.  A process runs in one project; processes of different projects    *)
(* run side by side, and any of them may be killed between two system       *)
(* calls or see one fail.                                                   *)
(*                                                                          *)
(* A package reference is a record [name, version] of naturals (a resolved  *)
(* set is walked in the order of the names).  Its content is a number that  *)
(* grows when upstream republishes it, and the integrity hash is the        *)
(* reference with that number: SHA-256 without collisions.  A tree of the   *)
(* store is the set of its files that are complete.  Messages, sizes,       *)
(* licences and package.txt are left out.                                   *)
(***************************************************************************)
EXTENDS Integers, Sequences, SequencesExt, FiniteSetsExt

CONSTANTS
  Projects,       \* directories with a tclpkg.tcl; one process in each
  Refs,           \* the packages that can be asked for
  Requires,       \* [Refs -> Seq(Refs)]: the `require`s in their own manifests
  Manifests,      \* what a project's tclpkg.tcl may say
  Commands,       \* the command lines, with the policy in force, that are tried
  Files,          \* the files of a package
  OwnManifest,    \* the one of them that is tclpkg.tcl
  None,
  MaxIterations,  \* MAX_ITERATIONS, 10000 in the code
  MaxRuns,        \* bound: processes started
  MaxEvents       \* bound: manifest edits, new contents, cache deletions, kills
                  \* and failures, together

\* Whatever is asked for is in Refs, also what a manifest asks for and what it
\* puts in its place; that upstream lacks a package is a fetch that fails.
ASSUME PackagesAssumption ==
  /\ Refs \subseteq [name : Nat, version : Nat]
  /\ Requires \in [Refs -> Seq(Refs)]
  /\ Commands \subseteq [verb : {"install", "sync"}, offline : BOOLEAN, frozen : BOOLEAN,
                         no_dev : BOOLEAN, strict : BOOLEAN, refused : SUBSET Refs]
  /\ \A m \in Manifests :
       /\ m.direct \in Seq(Refs) /\ m.dev \in Seq(Refs)
       /\ \A r \in Refs : r.name \in DOMAIN m.replaces =>
                           [r EXCEPT !.version = m.replaces[r.name]] \in Refs
  /\ OwnManifest \in Files /\ \A fs \in SUBSET Files : fs # None
  /\ MaxIterations \in Nat /\ MaxEvents \in Nat

VARIABLES
  manifest,       \* each project's tclpkg.tcl
  published,      \* the content upstream serves for a reference
  cas,            \* the store: the complete files of each tree/, or None
  torn,           \* history: trees whose copy was cut short
  lib,            \* lib/<name>-<version>: the tree it links to, or None
  lock,           \* tclpkg.lock, or None
  tmp,            \* tclpkg.lock.tmp, or None
  proc,           \* the process running in each project
  runs, events

vars == <<manifest, published, cas, torn, lib, lock, tmp, proc, runs, events>>
disk == <<cas, torn, lib, lock, tmp>>
world == <<manifest, published, runs>>

Empty == [n \in {} |-> None]

Bind(f, x, v) == [y \in DOMAIN f \cup {x} |-> IF y = x THEN v ELSE f[y]]

Hashes == [ref : Refs, content : 1 .. MaxEvents + 1]

\* A process that is not there, and the state a new one starts from.
Idle ==
  [pc |-> "idle", command |-> None, manifest |-> None, locked |-> Empty,
   pending |-> <<>>, minimums |-> Empty, requires_map |-> Empty, iterations |-> 0,
   fetched |-> Empty, current |-> None, hash |-> None, copied |-> {}, file |-> None,
   todo |-> {}, lf |-> Empty]

Init ==
  /\ manifest \in [Projects -> Manifests]
  /\ published = [r \in Refs |-> 1]
  /\ cas = [h \in Hashes |-> None]
  /\ torn = {}
  /\ lib = [j \in Projects |-> [r \in Refs |-> None]]
  /\ lock = [j \in Projects |-> None]
  /\ tmp = [j \in Projects |-> None]
  /\ proc = [j \in Projects |-> Idle]
  /\ runs = 0 /\ events = 0

Become(j, p) == proc' = [proc EXCEPT ![j] = p]
Go(j, pc) == proc' = [proc EXCEPT ![j].pc = pc]

\* The process returns its exit code: nothing it remembers survives.
Exit(j) == Become(j, Idle)

Event == events < MaxEvents /\ events' = events + 1

-----------------------------------------------------------------------------
(* What goes on around the processes *)

EditManifest(j) ==
  /\ Event
  /\ \E m \in Manifests \ {manifest[j]} : manifest' = [manifest EXCEPT ![j] = m]
  /\ UNCHANGED <<published, disk, proc, runs>>

Republish(r) ==
  /\ Event
  /\ published' = [published EXCEPT ![r] = @ + 1]
  /\ UNCHANGED <<manifest, disk, proc, runs>>

\* The user deletes the cache, as a mismatch error tells them to, between runs.
CleanCache ==
  /\ Event
  /\ \A j \in Projects : proc[j].pc = "idle"
  /\ cas' = [h \in Hashes |-> None]
  /\ torn' = {}
  /\ UNCHANGED <<manifest, published, lib, lock, tmp, proc, runs>>

-----------------------------------------------------------------------------
(* Starting *)

\* read_lockfile: only a whole file parses.
ReadLock(j) == IF lock[j] # None /\ lock[j].whole THEN lock[j].packages ELSE Empty

Wanted(m, c) == m.direct \o IF c.no_dev THEN <<>> ELSE m.dev

\* A pre-install hook that refuses ends the run before it has done anything.
Install(j) ==
  \E c \in Commands :
    /\ c.verb = "install"
    /\ proc[j].pc = "idle" /\ runs < MaxRuns
    /\ runs' = runs + 1
    /\ Become(j, [Idle EXCEPT !.pc = "resolve", !.command = c, !.manifest = manifest[j],
                              !.locked = IF c.offline THEN ReadLock(j) ELSE Empty,
                              !.pending = Wanted(manifest[j], c)])
    /\ UNCHANGED <<manifest, published, disk, events>>

Sync(j) ==
  \E c \in Commands :
    /\ c.verb = "sync"
    /\ proc[j].pc = "idle" /\ runs < MaxRuns
    /\ lock[j] # None
    /\ runs' = runs + 1
    /\ Become(j, [Idle EXCEPT !.pc = "sync", !.command = c, !.lf = ReadLock(j),
                              !.todo = DOMAIN ReadLock(j)])
    /\ UNCHANGED <<manifest, published, disk, events>>

-----------------------------------------------------------------------------
(* The resolver: a breadth-first walk that keeps the highest minimum asked  *)
(* for.  Its second step, the convergence pass, has nothing to do: a        *)
(* minimum is never raised without its requires being read in the same      *)
(* iteration.                                                               *)

\* A root `replace` decides the version whatever was asked for.
Forced(m, r) ==
  IF r.name \in DOMAIN m.replaces THEN [r EXCEPT !.version = m.replaces[r.name]] ELSE r

\* Mutant: the version already chosen does not stop the walk.
SupersededStrictly(p, r) == r.name \in DOMAIN p.minimums /\ r.version < p.minimums[r.name]

Superseded(p, r) == r.name \in DOMAIN p.minimums /\ r.version <= p.minimums[r.name]

\* Mutant: a package that was seen before is not walked again when its
\* minimum is raised.
ProvidedOnce(p, r, refs) ==
  [p EXCEPT !.pc = "resolve", !.requires_map = Bind(@, r.name, refs),
            !.pending = IF r.name \in DOMAIN p.requires_map THEN @ ELSE @ \o refs,
            !.hash = None, !.current = None]

\* What the provider answered is recorded and its packages are queued.
Provided(p, r, refs) ==
  [p EXCEPT !.pc = "resolve", !.requires_map = Bind(@, r.name, refs),
            !.pending = @ \o refs, !.hash = None, !.current = None]

\* The offline provider repeats what the lock recorded under that name.
LockedRequires(p, r) == IF r.name \in DOMAIN p.locked THEN p.locked[r.name].requires ELSE <<>>

\* "resolver exceeded maximum iterations (possible cycle)".
GivesUp(p) == p.iterations >= MaxIterations

ResolveNext(j) ==
  LET p == proc[j]
      r == Forced(p.manifest, Head(p.pending))
      q == [p EXCEPT !.pending = Tail(@), !.iterations = @ + 1]
      chosen == [q EXCEPT !.minimums = Bind(@, r.name, r.version)]
  IN /\ p.pc = "resolve" /\ p.pending # <<>>
     /\ \/ /\ GivesUp(p) \/ r \in p.manifest.excludes
           /\ Exit(j)
        \/ /\ ~GivesUp(p) /\ r \notin p.manifest.excludes /\ Superseded(p, r)
           /\ Become(j, q)
        \/ /\ ~GivesUp(p) /\ r \notin p.manifest.excludes /\ ~Superseded(p, r)
           /\ Become(j, IF p.command.offline
                          THEN Provided(chosen, r, LockedRequires(p, r))
                          ELSE [chosen EXCEPT !.pc = "fetch", !.current = r])
     /\ UNCHANGED <<world, disk, events>>

Resolved(j) ==
  /\ proc[j].pc = "resolve" /\ proc[j].pending = <<>>
  /\ Become(j, [proc[j] EXCEPT !.pc = "place", !.todo = DOMAIN proc[j].minimums])
  /\ UNCHANGED <<world, disk, events>>

-----------------------------------------------------------------------------
(* Fetching and the store *)

\* The store calls an entry cached when its tree/ is a directory.
Has(h) == h # None /\ cas[h] # None

Hash(r) == [ref |-> r, content |-> published[r]]

\* Sync goes on to the next package.
SyncOn(p) == [p EXCEPT !.pc = "sync", !.todo = @ \ {Min(@)}, !.current = None,
                       !.hash = None, !.copied = {}, !.file = None]

\* A package that could not be fetched or stored: install remembers that it
\* has none and walks on as if it were a leaf, sync counts a failure.
Lacking(p) ==
  IF p.command.verb = "sync" THEN SyncOn(p)
  ELSE Provided([p EXCEPT !.fetched = Bind(@, p.current, None), !.copied = {}, !.file = None],
                p.current, <<>>)

\* Sync fetches from the source the lock recorded and asks no policy.
Rejected(j) ==
  /\ proc[j].pc = "fetch" /\ proc[j].command.verb = "install"
  /\ proc[j].current \in proc[j].command.refused
  /\ Exit(j)
  /\ UNCHANGED <<world, disk, events>>

Contacted(p) == p.pc = "fetch" /\ (p.command.verb = "sync" \/ p.current \notin p.command.refused)

\* Nothing names a source, which is found before the policy is asked, or the
\* fetch from it fails.
Unreachable(j) ==
  /\ proc[j].pc = "fetch"
  /\ Event
  /\ Become(j, Lacking(proc[j]))
  /\ UNCHANGED <<world, disk>>

\* The worktree is there; its hash decides whether the store has it already.
Fetched(j) ==
  LET h == Hash(proc[j].current) IN
  /\ Contacted(proc[j])
  /\ Become(j, [proc[j] EXCEPT !.hash = h, !.pc = IF Has(h) THEN "stored" ELSE "mkdir"])
  /\ UNCHANGED <<world, disk, events>>

\* create_dir_all does not mind that another process was faster.
MakeTree(j) ==
  LET h == proc[j].hash IN
  /\ proc[j].pc = "mkdir"
  /\ cas' = [cas EXCEPT ![h] = IF @ = None THEN {} ELSE @]
  /\ Go(j, "copy")
  /\ UNCHANGED <<world, torn, lib, lock, tmp, events>>

\* fs::copy opens the destination with truncation, then fills it.
OpenFile(j) ==
  LET p == proc[j] IN
  /\ p.pc = "copy"
  /\ \E f \in Files \ p.copied :
       /\ cas' = [cas EXCEPT ![p.hash] = @ \ {f}]
       /\ Become(j, [p EXCEPT !.pc = "fill", !.file = f])
  /\ UNCHANGED <<world, torn, lib, lock, tmp, events>>

FillFile(j) ==
  LET p == proc[j] IN
  /\ p.pc = "fill"
  /\ cas' = [cas EXCEPT ![p.hash] = @ \cup {p.file}]
  /\ Become(j, [p EXCEPT !.pc = "copy", !.copied = @ \cup {p.file}, !.file = None])
  /\ UNCHANGED <<world, torn, lib, lock, tmp, events>>

\* Mutant: the walk of the worktree leaves out the last file.
CopiedButOne(p) == \E f \in Files : Files \ {f} \subseteq p.copied

Copied(p) == p.copied = Files

CopyDone(j) ==
  /\ proc[j].pc = "copy" /\ Copied(proc[j])
  /\ Become(j, [proc[j] EXCEPT !.pc = "stored", !.copied = {}])
  /\ UNCHANGED <<world, disk, events>>

Copying(p) == p.pc \in {"copy", "fill"}

\* A failed write: the tree stays as it is, and is_dir() will call it cached.
CopyFails(j) ==
  /\ Copying(proc[j])
  /\ Event
  /\ torn' = torn \cup {proc[j].hash}
  /\ Become(j, Lacking(proc[j]))
  /\ UNCHANGED <<world, cas, lib, lock, tmp>>

\* read_package_requires copies the stored tree out and parses its manifest:
\* a tree without one is a leaf, and so is one that cannot be copied.
ReadRequires(j) ==
  LET p == proc[j]
      kept == [p EXCEPT !.fetched = Bind(@, p.current, p.hash)]
      refs == IF OwnManifest \in cas[p.hash] THEN Requires[p.current] ELSE <<>>
  IN /\ p.pc = "stored" /\ p.command.verb = "install"
     /\ \/ Become(j, Provided(kept, p.current, refs)) /\ UNCHANGED events
        \/ Event /\ Become(j, Provided(kept, p.current, <<>>))
     /\ UNCHANGED <<world, disk>>

\* Sync takes nothing but what the lock names.
CompareIntegrity(j) ==
  LET p == proc[j] IN
  /\ p.pc = "stored" /\ p.command.verb = "sync"
  /\ Become(j, IF p.hash = p.lf[p.current.name].integrity THEN [p EXCEPT !.pc = "link"] ELSE SyncOn(p))
  /\ UNCHANGED <<world, disk, events>>

-----------------------------------------------------------------------------
(* Placing what was resolved, and the lock *)

\* cas.materialise fails before it touches anything if the tree is missing.
\* Otherwise what is in the way goes first, so a link that then fails leaves
\* nothing.  Where there are no symbolic links, a copy takes their place.
Materialise(j, h) ==
  IF Has(h)
    THEN \/ lib' = [lib EXCEPT ![j][h.ref] = h] /\ UNCHANGED events
         \/ lib' = [lib EXCEPT ![j][h.ref] = None] /\ Event
    ELSE UNCHANGED <<lib, events>>

\* The entry written for package n of the resolved set.
Entry(p, n, integrity) ==
  [version |-> p.minimums[n], integrity |-> integrity, requires |-> p.requires_map[n]]

\* Without a hash the entry is a placeholder, and a failure to link is only a
\* warning; the post-fetch hook runs either way.
Place(j) ==
  LET p == proc[j]
      n == Min(p.todo)
      r == [name |-> n, version |-> p.minimums[n]]
      got == IF p.command.offline THEN None ELSE p.fetched[r]
      done(h) == [p EXCEPT !.todo = @ \ {n}, !.lf = Bind(@, n, Entry(p, n, h))]
  IN /\ p.pc = "place" /\ p.todo # {}
     /\ \/ /\ got = None
           /\ Become(j, done(None))
           /\ UNCHANGED <<lib, events>>
        \/ /\ got # None
           /\ Materialise(j, got)
           /\ Become(j, [done(got) EXCEPT !.pc = "hook"])
     /\ UNCHANGED <<world, cas, torn, lock, tmp>>

PostFetch(j) ==
  /\ proc[j].pc = "hook"
  /\ Go(j, "place") \/ Exit(j)
  /\ UNCHANGED <<world, disk, events>>

Hashed(p) == \A n \in DOMAIN p.lf : p.lf[n].integrity # None

\* The integrity policy, then the post-install hook, then --frozen, which only
\* compares: each may end the run, and only the last way on writes the lock.
Finish(j) ==
  LET p == proc[j] IN
  /\ p.pc = "place" /\ p.todo = {}
  /\ \/ Exit(j)
     \/ /\ p.command.strict /\ ~p.command.offline => Hashed(p)
        /\ ~p.command.frozen
        /\ Go(j, "write")
  /\ UNCHANGED <<world, disk, events>>

\* Mutant: the lock is written in place.
OpenLock(j) ==
  /\ proc[j].pc = "write"
  /\ lock' = [lock EXCEPT ![j] = [whole |-> FALSE, packages |-> Empty]]
  /\ tmp' = [tmp EXCEPT ![j] = [whole |-> FALSE, packages |-> Empty]]
  /\ Go(j, "fill_tmp")
  /\ UNCHANGED <<world, cas, torn, lib, events>>

\* write_lockfile: fs::write truncates and fills the temporary, rename puts
\* it in place.
OpenTmp(j) ==
  /\ proc[j].pc = "write"
  /\ tmp' = [tmp EXCEPT ![j] = [whole |-> FALSE, packages |-> Empty]]
  /\ Go(j, "fill_tmp")
  /\ UNCHANGED <<world, cas, torn, lib, lock, events>>

FillTmp(j) ==
  /\ proc[j].pc = "fill_tmp"
  /\ tmp' = [tmp EXCEPT ![j] = [whole |-> TRUE, packages |-> proc[j].lf]]
  /\ Go(j, "rename")
  /\ UNCHANGED <<world, cas, torn, lib, lock, events>>

Rename(j) ==
  /\ proc[j].pc = "rename"
  /\ lock' = [lock EXCEPT ![j] = tmp[j]]
  /\ tmp' = [tmp EXCEPT ![j] = None]
  /\ Exit(j)
  /\ UNCHANGED <<world, cas, torn, lib, events>>

\* A failed write leaves the temporary, a failed rename removes it.
LockFails(j) ==
  /\ proc[j].pc \in {"write", "fill_tmp", "rename"}
  /\ Event
  /\ tmp' = IF proc[j].pc = "rename" THEN [tmp EXCEPT ![j] = None] ELSE tmp
  /\ Exit(j)
  /\ UNCHANGED <<world, cas, torn, lib, lock>>

-----------------------------------------------------------------------------
(* Sync, package by package in the order of the names *)

SyncNext(j) ==
  LET p == proc[j]
      n == Min(p.todo)
      h == p.lf[n].integrity
      at == [p EXCEPT !.current = [name |-> n, version |-> p.lf[n].version], !.hash = h]
  IN /\ p.pc = "sync" /\ p.todo # {}
     /\ \/ /\ Has(h)
           /\ Become(j, [at EXCEPT !.pc = "link"])
        \/ /\ ~Has(h) /\ h # None /\ ~p.command.offline
           /\ Become(j, [at EXCEPT !.pc = "fetch"])
        \/ /\ ~Has(h) /\ (h # None => p.command.offline)
           /\ Become(j, SyncOn(p))
     /\ UNCHANGED <<world, disk, events>>

Link(j) ==
  /\ proc[j].pc = "link"
  /\ Materialise(j, proc[j].hash)
  /\ Become(j, SyncOn(proc[j]))
  /\ UNCHANGED <<world, cas, torn, lock, tmp>>

SyncDone(j) ==
  /\ proc[j].pc = "sync" /\ proc[j].todo = {}
  /\ Exit(j)
  /\ UNCHANGED <<world, disk, events>>

-----------------------------------------------------------------------------
(* The process is killed: what is on the disk stays. *)

Killed(j) ==
  /\ proc[j].pc # "idle"
  /\ Event
  /\ torn' = IF Copying(proc[j]) THEN torn \cup {proc[j].hash} ELSE torn
  /\ Exit(j)
  /\ UNCHANGED <<world, cas, lib, lock, tmp>>

Next ==
  \/ CleanCache
  \/ \E r \in Refs : Republish(r)
  \/ \E j \in Projects :
       \/ EditManifest(j) \/ Install(j) \/ Sync(j) \/ Killed(j)
       \/ ResolveNext(j) \/ Resolved(j)
       \/ Rejected(j) \/ Unreachable(j) \/ Fetched(j)
       \/ MakeTree(j) \/ OpenFile(j) \/ FillFile(j) \/ CopyDone(j) \/ CopyFails(j)
       \/ ReadRequires(j) \/ CompareIntegrity(j)
       \/ Place(j) \/ PostFetch(j) \/ Finish(j)
       \/ OpenTmp(j) \/ FillTmp(j) \/ Rename(j) \/ LockFails(j)
       \/ SyncNext(j) \/ Link(j) \/ SyncDone(j)

Spec == Init /\ [][Next]_vars

-----------------------------------------------------------------------------

\* "Writes are atomic - temp file plus rename - so a crash never leaves a
\* partial lockfile": whatever was killed or failed before, a lock that appears
\* is complete, each hash in it has its tree in the store, where sync will look
\* for it, and lib/ holds that content under the package's name or, where the
\* link failed, nothing.
LockIsWhole ==
  [][\A j \in Projects : lock'[j] # lock[j] =>
       /\ lock'[j].whole
       /\ \A n \in DOMAIN lock'[j].packages :
            LET h == lock'[j].packages[n].integrity IN
            h # None => cas'[h] # None /\ lib'[j][h.ref] \in {h, None}]_vars

Placing == {"place", "hook", "write", "fill_tmp", "rename"}

Asked(p) == ToSet(Wanted(p.manifest, p.command))
              \cup UNION {ToSet(p.requires_map[n]) : n \in DOMAIN p.requires_map}

\* What the resolver settles on meets every minimum the manifest and the
\* chosen packages ask for - the replaced ones excepted, which get the
\* replacement - and avoids what the manifest excludes, although minimums rise
\* while the graph is being read and offline runs mix the lock with the manifest.
SelectionSatisfies ==
  \A j \in Projects : LET p == proc[j] IN
    p.pc \in Placing /\ p.command.verb = "install" =>
      /\ \A r \in Asked(p) :
           /\ r.name \in DOMAIN p.minimums
           /\ p.minimums[r.name] >= Forced(p.manifest, r).version
      /\ \A n \in DOMAIN p.minimums :
           [name |-> n, version |-> p.minimums[n]] \notin p.manifest.excludes

\* All that the packages of S state, and what a manifest can lead to.
Wishes(S) == UNION {{r} \X DOMAIN Requires[r] : r \in S}
Demands(m) == Len(m.direct) + Len(m.dev) + Cardinality(Wishes(Refs))

\* A walk that reads the packages is given up as a "possible cycle" only if its
\* project and all the packages there are state more requirements than the cap,
\* never for a cycle: the requires of a reference are queued once.
ResolverConverges ==
  \A j \in Projects : LET p == proc[j] IN
    p.pc = "resolve" /\ p.pending # <<>> /\ ~p.command.offline /\ GivesUp(p) =>
      Demands(p.manifest) > MaxIterations

\* A tree of the store has all its files unless a process is copying into it
\* now, or a copy was cut short and no run will ever repair it: two processes
\* that store the same content at once leave it whole.
TreesFill ==
  \A h \in Hashes : cas[h] # None =>
    \/ cas[h] = Files
    \/ h \in torn
    \/ \E j \in Projects : Copying(proc[j]) /\ proc[j].hash = h
=============================================================================
