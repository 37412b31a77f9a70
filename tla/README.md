# A verification project for tcl-lsp

TLA+ models of the concurrent and the crash-prone parts of tcl-lsp, a Tcl
toolchain written in Rust. Of the language server: how document edits are
ordered, how requests wait for them, how a document's text reaches the database
and the index, how diagnostics are scheduled, computed, published and retired,
how settings are reloaded, and how output leaves the process. Of the virtual
machine: the thread package. Of the package tool: install and sync. Each module
is a translation of code under `src/rust/`; `PROJECT.json` gives the lines
behind every definition. TLC checks small instances; TLAPS proves the results listed
under "Proofs" for every value of the constants.

Paths below are relative to `src/rust/tcl-lsp-server/src/` unless they begin
with a crate's name; a bare number is a line of `lib.rs`. `cmd_thread.rs` is
`tcl-vm/src/cmd_thread.rs`; `cas.rs`, `resolver.rs` and `lockfile.rs` are in
`tcl-pkg/src/`; `pkg.rs` is `tcl-cli/src/commands/pkg.rs`.

## 1. The system

The repository is a language toolchain: lexer, compiler and analyser, a query
database, a VM, a debugger, a package tool, BIG-IP tooling, and a language
server over them. Most of it is sequential transformation of data. What is hard
to test is in the server, where some fifty handlers, detached workers, a
publisher task and a stdout task share state through about forty mutexes and a
few atomics, and where most of the recent fixes cited in comments (#1144, #1213,
#1334, #1651, #1657, #1849) are races, lost work or hangs. Two other places are
hard in the same way: the VM gives scripts OS threads with locks rebuilt from a
state and a condition variable, and the package tool's processes share a store
on disk and may be killed at any system call.

| component | state it keeps | operations | talks to |
|---|---|---|---|
| Edit order barrier (7107-7441) | next_ticket, now_serving, abandoned tickets, holder | take a ticket, wait for the turn, hand it on, abandon | every document-sync handler holds it; every request waits on it |
| Request admission (`transport_liveness.rs`) | a semaphore of permits, pending requests | admit, give back around a publication wait, cancel | in front of every request handler |
| Stall report (10828-10980) | the last position reported | re-read, copy the holder, sample contention, claim, log | reads the barrier |
| Diagnostics scheduler (2677-2930, 3988-4383, 19211-19313) | one slot per document: dirty, generation, running, cached inputs and their epoch | schedule, debounce, take, capture, analyse, deliver, retire, evict | inputs from the configuration; sets to the publisher; peers through reschedule_peers |
| Pull diagnostics (23268-23356) | pull_diag_cache | look up, compute, insert | same cache as the worker |
| Diagnostics publisher (2980-3206) | mailbox, order, pack notices, a stored permit | deposit, notify, pop, send, settle receipts | runs and the pack loader produce; the client consumes |
| Closed-file diagnostics (11747-11952, 12155-12246) | a generation per file, badges, a recency list | close tail, watched change, configuration refresh, clear | source store, publisher |
| Configuration reload (16924-17258, 21942) | dirty/running slot; the applied settings; the epoch | mark, lead, pull, apply, reschedule | client requests; invalidates the scheduler's inputs |
| Spec-pack reload (19461-19800, 20061) | pack set, sequence stamp, notices | discover, load, publish notices | publisher, scheduler |
| Live publication (8552-9822) | publication stage per document, a generation, four gates | open, edit, close, change of dialect: try-lock bundles, wait and retry, publish source and index | every handler that changes a document |
| Workspace index and scan (7458, 8966, 11747) | index, readiness gate | scan, watched event, publish batches | live publication |
| Semantic-token convergence (2289-2545, 21110) | pending refreshes | schedule, settle | client refresh requests |
| Stdout pump (`stdio_pump.rs`) | an unbounded queue, a byte counter | poll_write, shutdown, drain, flush | transport and stdout |
| Thread package (`cmd_thread.rs`) | worker registry and channels, mutexes, readers-writer locks, conditions, pools | create, send, wait, release; lock, unlock, notify; post, get, wait | scripts on several interpreters |
| Package tool (`cas.rs`, `resolver.rs`, `lockfile.rs`, `pkg.rs`) | the shared store, each project's links and lock file | install, sync | upstream, the file system, other projects' processes |

### What makes each part correct

- **Barrier**: one handler in its turn; no number left that nobody releases; no
  lost wake-up; a request reads after every edit received before it.
- **Scheduler**: one worker per document; scheduled work has a worker; cached
  inputs are the configuration their stamp names; what is delivered is about
  the buffer of the moment; the final buffer's set is delivered in the end.
- **Publisher**: bounded, latest-wins, receipts true, notices never lost.
- **Closed files**: a newer run is not overwritten by an older one; badge, store
  and disk agree once all is quiet.
- **Live publication**: a stage is announced only for what the stores hold; a
  publication that gives up leaves nobody's work undone; all of them end.
- **Configuration**: one reload at a time, none skipped, the last settings win.
- **Pump**: nothing dropped or reordered, the counter never wraps, idle means flushed.
- **Threads**: locks exclude; a blocked sender has somebody who will answer or be
  seen to end; scripts without a circle finish.
- **Packages**: what is selected satisfies what was read; the resolver ends on
  cycles; a lock file is complete or absent; a tree named by it gets filled.

### Where it is hard

The hazards are listed with their lines in `PROJECT.json`. In short: handlers
are dropped at any await (cancellation); locks are released between a decision
and its effect (4083, 11747, 11841, 16985, 23339); counters restart while old
holders of their values live (3242, 11937); work is folded into a run already in
progress (4111, 17159); timeouts race late answers (10837); publications try
locks, pause and look again while four other handlers move the document (8758,
9398); two threads share an atomic (`stdio_pump.rs:139`); a worker ends with
senders blocked on it (`cmd_thread.rs:308`); a directory's existence stands for
its contents while another process fills it (`cas.rs:260`).

## 2. Modules

| module | models | composed with |
|---|---|---|
| `EditSequence` | abstract: edits take effect in order or are skipped; reads follow | |
| `EditOrder` | tickets, turns, abandoned tickets, permits, the read barrier | implements `EditSequence` (INSTANCE with a refinement mapping) |
| `StallReport` | report_edit_barrier_stall | extends `EditOrder`: reports run beside the barrier's own steps |
| `LivePublication` | source, index and stage of one document; opens, edits, closes, dialect changes, watched events, scans, runs that deliver | |
| `DiagScheduler` | slot, worker, epoch, currency check, pull cache, close tail | |
| `ClosedDiagnostics` | the diagnostics of one closed file (`ClosedSpec`) | |
| `LatestWins` | abstract: each document's shown set only moves forward | |
| `DiagPublisher` | mailbox, publisher task, receipts, pack notices | implements `LatestWins` |
| `ConfigReload` | coalesced_config_reload and the one-shot pulls | |
| `StdioPump` | PumpedWriter and drain | |
| `TclThreads` | the thread package | |
| `MCThreads` | the scripts its run executes | extends `TclThreads` |
| `PackageInstall` | install and sync, with kills, failures and a second project | |
| `MCPackages` | four packages, four manifests, six command lines | extends `PackageInstall` |
| `EditOrderProofs` | the theorems about `EditOrder` and `StallReport` | extends `StallReport` |
| `ReloadProofs` | the theorems about `ConfigReload` and `ClosedDiagnostics` | extends both |
| `StdioPumpProofs`, `DiagPublisherProofs`, `DiagSchedulerProofs`, `TclThreadsProofs`, `PackageInstallProofs`, `LivePublicationProofs` | the theorems about the module each is named after | each extends its module |

Definitions carry the code's names. A definition whose comment begins with
"Mutant:" is a plausible bug in the definition that follows it; replacing the one
by the other makes the property named in `PROJECT.json` fail, which shows the
property depends on that code.

### Grain and abstraction

- **EditOrder.** One action per atomic operation, critical section of the std
  mutex, or stretch between awaits. tower-lsp polls all handlers on one task
  (`stdio_pump.rs`, module comment), so this is finer than the executor makes
  it; every interleaving of the real system is included. The document's
  contents are not modelled: an edit is applied or skipped.
- **StallReport.** Await to await, because the argument of the code is that
  there is no await between its last read and the swap. The holder is copied
  before the sample of contention sleeps and the position is read after it, two
  steps as in the code. A request in its report takes no other step of the
  barrier; everybody else does.
- **LivePublication.** One document; a step is the code from one await to the
  next, since one task polls all handlers. The locks of a bundle are held only
  inside a step; other tasks that hold one are `contended`, the database clones
  of queries are `snapshots`. A view in the index is the text it was analysed
  from and its writer's revision stamp. A disk file has one content, which no
  buffer has. The walk of a scan and the index's facts are left out.
- **DiagScheduler.** One document. Workers are tokio tasks of their own, so the
  races between handlers and worker are real parallelism. The configuration is
  two knobs, standing for the dozen that diag_inputs reads behind separate
  mutexes. A set of diagnostics is (revision, text, inputs, tier). The ordered
  part of a document-sync handler is one step (that is what EditOrder shows),
  and so is the publication of a source with its index view. PullCompute reads
  the settings in one step. The dialect re-resolution after an edit is left
  out. Peers are one action, PeerReschedules, that re-marks the slot.
- **ClosedDiagnostics.** One file; its contents are write numbers. A deletion
  while the file is open, and the cap on badges, are left out. DidOpen stands
  for the open, its publication and its first delivery.
- **DiagPublisher.** A set is two layers, findings (known by the run) and
  notices (known by a version). Which documents are open is fixed; a reload
  moves one document's notices. A run holds `documents` from assembly through
  deposit; a reload holds spec_pack_reload until its receipt.
- **ConfigReload.** Settings are a change count. A pull is two requests, each of
  which may fail. There is at least one workspace folder. The values a
  notification may carry inline, and the merge of the ini layers, are left out.
- **StdioPump.** A chunk is one byte; the counter wraps at `Word`. The backlog
  warning is logging.
- **TclThreads.** One of each lock, one pool. A step ends where a native mutex is
  released, so another thread can come in. A script is the sequence of thread
  commands it executes; `until` is the usual loop around a condition wait. A
  condition variable may wake a thread for no reason and `notify_one` may choose
  any sleeper. A command that raises a Tcl error (a send to a thread that is
  gone, a pool that was released) lets its script go on, as one under `catch`
  does. `inside` is a history of who is between a lock and its unlock: unlocking
  takes the caller out of it, whoever the mutex has as its owner. What scripts
  compute, and `tsv` apart from one flag, are left out.
- **PackageInstall.** One process per project; projects share the store. Steps
  are system calls: a tree is made, each file is created empty and then filled
  (what fs::copy does), the lock is written to a temporary and renamed. A
  package's content is a number that moves when upstream republishes it; its
  hash is the reference with that number. Kills, full disks, edits of the
  manifest, new contents and a cleaned cache are events. The cache is cleaned
  between runs, so that materialise never finds a tree missing: that branch, in
  which it touches nothing (`cas.rs:280`), is there and is not reached. Archive extraction,
  verify, list, vendor, venv and the hook sandbox are left out; a hook is a set
  of references it refuses.

## 3. Runs

Every run is `tlc -config <cfg> <module>`. States and times are for two workers.

| run | module, cfg | bounds | states | shows |
|---|---|---|---|---|
| edit_order | StallReport, EditOrder | 3 messages of 2 edits and 2 requests, 1 permit; fair | 243k | TurnExclusive, NeverWedged, NoLostWakeup, ReadsFollowEarlierEdits, LineNamesHolder, StallIsAnnounced, OneLinePerPosition, ImplementsSequence, EditsSettle, RequestsAnswered |
| diag_session | DiagScheduler, DiagSession | 2 texts, 2 opens, edit, close, pull, panic | 2.2M | OneWorker, CacheServesLiveText, DeliveriesAreCurrent |
| diag_live | DiagScheduler, DiagLive | open, edit, reload, one cancelled run or re-mark; fair | 594k | StampIsHonest, NoOrphanedWork, Converges |
| diag_orphan | DiagScheduler, DiagOrphan | 2 opens, close, cancelled run | violation | NoOrphanedWork fails when the document is closed and reopened |
| closed_order | ClosedDiagnostics, ClosedOrder | 1 reopen, 1 reload, 1 write, 1 deletion | 3.0M | NewerRunWins |
| publisher | DiagPublisher, Publisher | 3 producers, an open and a closed document, 1 reload; fair | 110k | MailboxAgrees, ReceiptsAreHonest, NoticesSurvive, ImplementsLatestWins, EverySetSettles |
| live_publication | LivePublication | 3 messages of which 2 watched events, 2 texts, 2 dialects, 1 busy lock; fair | 948k | ReadyMeansSource, IndexedMeansView, RestAgrees, PublicationsEnd |
| config_reload | ConfigReload | 3 changes, 1 one-shot, 1 failure; fair | 110k | OneLeader, LastChangeIsCovered, EveryChangeIsReloaded |
| config_stale | ConfigReload, ConfigStale | 1 change, 1 one-shot | violation | LastSettingsWin fails when a one-shot pull overlaps the reload |
| stdio_pump | StdioPump | 4 chunks, word of 8; fair | 579 | BacklogIsExact, NothingDroppedOrReordered, IdleMeansFlushed, EverythingIsDelivered |
| threads | MCThreads, Threads | 37 programs of 2 or 3 threads, 2 pool workers; fair | 170k | LockExcludes, SenderIsBacked, ScriptsFinish |
| package_install | MCPackages, Packages | 2 projects, 4 packages, 4 manifests, 2 processes, 1 event, a cap of 5 iterations | 1.8M | SelectionSatisfies, ResolverConverges, TreesFill, LockIsWhole |

**Why the bounds are enough to meet the interesting cases.** Two edits let one
be abandoned while the other waits or holds the turn, with a request behind
them. Two requests for one permit beside an edit let one wait for the other's,
and report a stall the other has reported before it was cancelled; that they
report at the same moment needs two permits, and is covered by the theorems. The
safety invariants were also checked with all four messages (7.7M states). In the
scheduler one open, one edit and one reload already put three schedules and a
worker in the slot at once; a close and a second open add eviction and
reopening; the constant `Attempts` is the code's own
DIAG_INPUTS_RESOLVE_ATTEMPTS and is large enough never to run out with one
reload. (The run was also made with a cancelled run and a re-mark, 1.3M states.)
Three producers let one set be in flight, one be pending and one replace it.
Three changes let one arrive before, one during and one after a run. Four chunks
let the queue hold more than one while another is in hand; the word is twice the
number of chunks so that a wrapped counter is not mistaken for a small one.
Three messages let a publication be overtaken twice (open, deletion, close;
open, edit, dialect change). The safety invariants of `LivePublication` were
also checked with all four locks busy (2.0M states) and with four messages and
no watched events (4.5M states); the inductive invariant of its proof was
checked at the run's bounds, and along random behaviours of six messages. The
thread programs aim two or three threads at each part of the package, and every
pair of client scripts runs while the pool and the workers are released. Two
installs and a shared store give the interleavings of one copy with another and
with a reader. The four packages have a cycle; of the manifests one raises a
minimum it has walked and needs all five iterations the cap allows, one repeats
a line until its walk is given up, one replaces a version and one excludes a
version that is demanded.

**Deadlock.** It is checked in edit_order, where only `Terminated`, all
messages received and all handlers returned, may stop. The other models have bounded clients, or scripts and
commands that end: their cfgs turn the check off, and the liveness properties,
ScriptsFinish among them, carry the meaning.

**Fairness.** Weak fairness is put on each handler's, worker's, thread's and
task's own steps: tokio polls every woken task, the operating system runs every
thread, timers fire, critical sections end, another task's lock is released and
a query in progress ends. In the barrier, permits get strong fairness because
tokio's semaphore is first come first served, and so does answering, because a
request waits for publication finitely often. The publisher and the pump assume
that the client goes on reading (or, for the pump, hangs up). Nothing is assumed
of the client's messages, of cancellation, dropped futures, failures, new
queries, spurious wake-ups or timed-out waits. The package model states no
fairness: a process may stop anywhere.

### Findings

- **diag_orphan** (4083). A worker takes the dirty bit, finds no inputs because
  a close evicted them, and releases the slot lock before it takes it again to
  retire. A reopen that schedules in between finds `running` still set and
  starts nothing; the worker then clears `running`. The reopened document's
  first run waits for the next edit. The comment at 12166 says "nothing is
  orphaned". It takes a cancelled run, which re-marks the slot after the
  eviction, a close and a reopen.
- **config_stale** (16985). `initialized`, a folder change and the .ini watcher
  pull and apply beside the reload's leader, and nothing spans a pull and its
  apply, so an older answer can be applied after a newer one and stay.

### Further divergences

These properties are stated in the modules and are not checked by a run of
their own. TLC refutes each one, or a checked one without its exception, at the
bounds given (other bounds 0, `Texts` = {t1} unless said).

| property | bounds | what happens |
|---|---|---|
| StallReport!LineNamesHead | 2 edits, 1 request | the stall report copies the holder (10872), sleeps for the contention sample (10935) and then reads the position it prints (10949); if the turn is handed on in between, the line gives a handler that has finished beside the number of its successor. docs/kcs/kcs-issue-vscode-test-timed-out-on-didopen.md:129 reads the line as the notification "at the head of the queue". LineNamesHolder is what does hold |
| DiagScheduler!InputsNeverMixed | 1 open, 1 reload | the epoch moves only after the last setting is written (17253), so a resolve inside an apply sees one epoch on both sides of a mixed snapshot; 2711 says it is "not half from each side of an apply". The reload's own reschedule replaces it |
| DiagScheduler!ClosedSlotReleased | 1 open, 1 close | a schedule that commits after the eviction recreates the slot (19283); 3995 says dropping it "is what bounds closed-file state" |
| the exception (`opening`) in DiagScheduler!DeliveriesAreCurrent | texts {t1, t2}, 2 opens, 1 close | the revision restarts at every open, so a run on the previous opening passes the currency check (3242); 246 says stale workers cannot publish |
| DiagScheduler!CacheMirrorsPush | 1 open, 1 reload, 1 pull | a pull inserts a set computed under the old settings after the worker's (23339); 23296 says pull "mirrors the exact set" |
| ClosedDiagnostics!SourceTracksDisk | 1 write | the close tail reads the file, a watched change commits a newer content, the close tail commits last (11747; cf. 22149) |
| ClosedDiagnostics!BadgeTracksSource | 1 reload, 1 write | the text is taken before the generation (11841), so a run on older text can hold the newer one; cf. 11839 |
| the exception in ClosedDiagnostics!NewerRunWins | 1 reload, 1 deletion | a clear removes the generation (11937), the next run draws 1 again, and an older holder of 1 passes; cf. 11914 |
| DiagPublisher!FindingsSurvive | 2 producers, one closed document, 1 reload | a pack reload publishes a closed file with an empty analysed layer (20134); 3042 says "the other's findings survive it" |

In `LivePublication`, what a publication compares before it writes is repeated by
a later revision in three ways. The properties except exactly the documents for
which one of them happened (`borrowed`).

- publish_open_index_if_current samples the uri's generation after the seed was
  analysed (9195) and compares text, dialect and version. A document closed and
  reopened with the same text, or moved to another dialect and back, repeats all
  three, so the earlier revision's publication advances the later one's stage;
  9184 says "only if this remains the `didOpen` revision that produced
  `analysis`". Without the exception (`"view"` in `borrowed`) TLC refutes
  ReadyMeansSource.
- The revision restarts at every open. A change made while the stage is
  "indexed" carries no seed (21886) and waits at the live gate; if the document
  is meanwhile closed, reopened and changed to the same text, the first change's
  handler has the revision and the text of the new document
  (matches_live_source_publication, 386), takes the gate, samples the generation
  then, commits the source and marks the document "indexed" (9540-9626), though
  its view was retired with the close. Five messages are needed, which is beyond
  the run's bound: the attempt to prove IndexedMeansView found it.
- In the same way a dialect change called for an earlier opening may commit for
  the later one; its commit drops the view from the index with the old source.

IndexedMeansView excepts the documents with any of the three (`borrowed` not
empty).

In `TclThreads`, for programs the run does not contain unless said:

- tpool::wait looks only at results (`cmd_thread.rs:1024`), so a pool released
  under it by another thread leaves it asleep when its jobs were dropped;
  tpool::get has the check.
- The join handle is stored after the thread runs (279); a thread::release in
  between returns without waiting, though 411 says "and wait for it to exit".
  The run's programs reach this; no property claims otherwise.
- A worker that calls thread::wait again after its release blocks for good with
  the thread that joins it, which keeps the channel open (433).
- Synchronous sends in a circle and mutual releases deadlock; a condition wait on
  a recursive mutex held twice gives up one level only; asynchronous jobs queued
  behind a release are dropped.

In `PackageInstall`:

- A copy cut short by a kill or a full disk leaves a directory that counts as
  cached (`cas.rs:260`): the next install succeeds with the partial tree and
  writes its hash to the lock, while `cas.rs:22` has entries "immutable once
  written". TreesFill excepts these trees (`torn`).
- Without any crash, two projects that install at once can meet: the requires of
  a package are read from a tree the other still fills (`pkg.rs:78`), a missing
  manifest reads as no requirements, and the lock lacks the transitive packages.
  `docs/design/contracts/tclpkg-contracts.md:58` promises byte-identical results
  of two invocations. Both may also rewrite each other's files.
- An offline install writes a lock without the hashes and sources the old one had
  (`pkg.rs:506`).
- The resolver keeps packages required only by a superseded version, and skips a
  lower version's requirements if the higher came first, so the selection depends
  on the manifest's order; its convergence pass (`resolver.rs:202`) changes
  nothing. An exclusion refuses any demanded version, selected or not, and the
  error gets an empty chain (`resolver.rs:178`), which the contracts' item 9 says
  it names.
- Two installs in one project share the temporary's name (`lockfile.rs:319`); the
  model runs one process per project.

## 4. Proofs

Checked by tlapm from nothing. The only assumptions on constants are the named
ones below, each evaluated by TLC in the run of its module:

| assumption | says | because |
|---|---|---|
| HandlersAssumption, MaxPermitsAssumption (`EditOrder`) | edits, requests and `Nobody` are disjoint; finitely many requests, at least one permit | they are different handlers; the semaphore has a positive number of permits |
| PumpAssumption | the counter's word is larger than the number of chunks | the counter is a usize, and each byte counted is in memory |
| ReloadAssumption | one-shot events are not numbers | they are different handlers |
| ClosedAssumption (`ClosedDiagnostics`) | `None` is no number and no buffer's text | Option::None is no value |
| PublisherAssumption | `None` is no producer, document or set; the open documents are documents | Option::None is no value |
| SchedulerAssumption | finitely many workers and at least one; `None` is no record; at least one attempt | a task can be spawned; DIAG_INPUTS_RESOLVE_ATTEMPTS is 4 |
| ThreadAssumption | thread identifiers are distinct and positive; scripts are sequences of the thread package's commands | new identifiers come from a counter |
| PackagesAssumption | references, requirements, command lines and manifests are of their types; a replaced reference exists; the cap on iterations is a natural | what the parsers of command line and manifest return |
| PublicationAssumption | `Disk` and `None` are no buffer's text; `None` is no document and no entry; the first dialect is a dialect | Option::None is no value; the model's file has a content no buffer has |

The bounds (MaxOpens and the like) are arbitrary naturals in all of them, so the
theorems hold for any number of messages, changes, events and processes. Five
theorems have a hypothesis of their own, given below: NothingIsOrphaned,
LocksExclude, WalksEnd, LastSettingsWinApart and UndeletedRunsKeepOrder.

**EditOrderProofs**, for any number of handlers and permits. `SequenceInv` is
the inductive invariant: every number drawn and not yet passed has one owner
(Numbered); a waiter's number is not passed, the number of the handler in its
turn is being served, a finished handler's number is passed, abandoned or just
being stepped over (Queued); an abandoned number at the head has a handler about
to drain it (Drained). It is needed because exclusivity alone is not inductive:
abandoning and draining happen in three steps around a mutex while a hand-over
happens outside it. From it follow TurnIsExclusive, SequenceNeverWedged,
HolderIsHonest and WakeupsAreNotLost; ReadsAreOrdered adds that a request's
target is beyond every earlier ticket, PermitsAreRespected counts admitted
requests, and BarrierImplementsSequence maps every step to a step or a stutter
of EditSequence.

**StdioPumpProofs**, for any number of chunks. Four conjuncts: where the two
sides can be (Sides), the counter counts what was offered (Counting, which gives
CounterNeverWraps: the count never exceeds the chunks offered, so neither
addition nor subtraction leaves the word), the chunks taken, in hand and queued
are the accepted ones consecutively (Ordering, which gives OutputIsFaithful),
and only a queue with more to write excuses a missing flush (Flushing, which
gives IdleIsFlushed).

**ReloadProofs**, for any number of changes, events and failures.
OneLeader needs Roles (a one-shot handler never sleeps or reschedules, a
notification not yet sent is idle). LastChangeCovered needs Coverage: while
nothing waits to mark a clean slot, the run in progress, or the last one if none
is, began after the last change. It holds although requests may fail, because it
is about runs, not about what they obtained. What they obtained is
LastSettingsWin, which run config_stale refutes. LastSettingsWinApart proves it
of the behaviours in which no one-shot event is under way beside a waiting
notification or a leader (Apart): the overlap is the only cause. Its invariant,
Fresh, says that nothing in force or in hand is older than the last complete
run, and nothing of the leader's older than the run it is in.

Of a closed file, in the same module and for any number of opens, reloads,
writes and deletions: NewerRunWins is not inductive, because a clear retires the
counter and generations repeat. Numbered says what a generation is, the count of
draws since the last clear, for the counter and for every run that drew since
then; so a run that passes the check and is not from before the clear is the
last to have drawn (ClosedRunsKeepOrder). With no deletion nothing is cleared
(Undeleted) and the exception is void (UndeletedRunsKeepOrder).

**StallReport**, in EditOrderProofs. The reports leave the barrier as it is
(ReportLeavesBarrier: ReportSpec implies Spec), so every theorem above holds
beside them. StallIsAnnounced needs what the barrier may do to a stall under
report: the sequence only moves forward, and a request that has overrun keeps
its target (OverrunLate), at a position the barrier has not left behind
unnoticed (OverrunBehind). LinesAreLimited (OneLinePerPosition) is about a slot
that remembers one position only: it suffices because positions only grow, so
that a line is about the slot's position or an earlier one, and the slot is never
set back. LinesNameHolders rests on HolderIsHonest, that the slot is never left over
from a turn, and follows a copied holder from the read to the line: its
ticket was being served at the read, which is after the overrun, and the
position printed is not before it.

**DiagPublisherProofs**, for any number of producers, documents and reloads. The
inductive invariant has the mailbox's shape (MailboxAgrees); that a set is in
one place, and its receipt is open until it arrives (Owned); that what the
client has, what is being sent and what is pending for a document are in the
order of their deposits (Ordered); who holds the documents lock and the reload
lock (Locked); and that a document whose last set has old notices has a producer
still to deposit one with the new (Fresh). Owned is needed for the receipts,
because one deposit settles another producer's. From it follow MailboxIsBounded,
ReceiptsHonest and NoticesAreKept; PublisherImplementsLatestWins maps every step
to a step or a stutter of LatestWins, by Ordered.

**DiagSchedulerProofs**, for any number of workers, texts, opens, edits, closes,
reloads and pulls. Claim ties the slot's `running` to the one worker that is not
idle (OneWorkerPerDocument). Stamps says that inputs, in a slot or in a
handler's hand, whose epoch is the current one were read since that epoch began;
with Applies (one writer behind the gate, and how far it has come) this gives
StampsAreHonest. Captures says that of one opening nobody holds a later revision
than the buffer's, nor another text of the same revision: PullsServeLiveText and
DeliveriesStayCurrent follow. NothingIsOrphaned has two hypotheses. With closes
(MaxCloses > 0) the property is false, which is the run diag_orphan. With as
many reloads as attempts the resolve may give up, and a slot without inputs
waits for the next schedule; the comment at 487 takes that to be ruled out by
the coalescing of reloads. Its invariant (Backed, Resolving) counts a handler's
retries by the epochs that passed: each retry costs one more reload.

**TclThreadsProofs**, for any set of scripts and any number of threads. Placed
says where a thread can be inside a command. It was inductive only after the
guard of thread::create was made explicit: an identifier being spawned is not
handed out again (the code draws it from a counter). Neither lock checks who
unlocks it (550-563, 640-649): a script that unlocks what another has locked lets
a third in. So LocksExclude, for the mutex and the readers-writer lock, has a
hypothesis, BracketedScripts(deep): a script unlocks only what it has locked, at
most `deep` times over, for any natural `deep`. The run's scripts satisfy it with
2, which TLC evaluates (MCScriptsBracketed in `MCThreads`). The invariant follows
what each thread holds and still has to do with it (Covered) and counts the
readers (Counted). SendersAreBacked: a sender that waits is named by a
message in the queue of a worker that still runs, or by a job that worker has
begun. WakeupsReachSleepers is the safety half of ScriptsFinish, for all
scripts. Every lock of the package changes its state, releases the native mutex
and only then notifies, so there are states in which the mutex is free and its
sleepers sleep. Asleep says at which wait of its own command a sleeper is; Owed,
that what it waits for has not happened, or the thread that made it happen is
still at its notification, or, since `notify_one` wakes one of several, somebody
awake contends for the mutex or serves the pool and will pass it on. A wait on a
condition has no such gap: the generation it sampled is compared under the gate.
tpool::wait is owed the end of its jobs and not a shutdown, which it does not
look at (1024). TLC checked Asleep and Owed on the programs of run threads.

**PackageInstallProofs**, for any graph of packages, set of manifests, number of
projects and of faults. ProcessesAgree is about each process and its project:
its steps come in order (InOrder); all that has been asked is met by the
minimums or still in the queue (Selects); every chosen version has been fetched
before locks are written (Fetches); hashes in hand are in the store and linked
(Backed); the temporary is what the process has in hand before it renames it
(Written). Filling says of a copy in progress that each file it made is filled,
being filled, or in a torn tree. The theorems are SelectionsSatisfy,
TreesAreFilled and LocksAreWhole, an action property: whatever step makes a new
lock appear, it is complete. ContentWasServed is about where things come from:
OnlyServed says of every tree, link, lock, temporary and hash in a process's hand
that upstream has served that content for that package; it is inductive on top
of the invariant, which knows that a fetched hash is looked up under the
reference it was fetched for. WalksEnd says that an online walk reaches the cap
on iterations only if the manifest and the packages state more requirements than
it, for any finite set of references (the hypothesis; a bound on an infinite
graph means nothing) and any cap, with a second layer, Metered: what a process has looked at and has
still queued is no more than the manifest and the requirements of the references
it has read, and it reads each reference once. The bound is the cardinality of a
set of pairs (reference, place in its requires), so that adding a reference adds
a disjoint set and no induction over the graph is needed.

**LivePublicationProofs**, for any number of messages, texts and dialects, and
any busy locks. The stage alone says nothing of the stores, since between the
sample of the generation and the mark come pauses, retries and other handlers.
GatesHeld says which handler holds which gate at which step; Ages, that what a
handler carries is not younger than the document; Sole, that at most one handler
was called for the document's present revision. With these SourceInv is
inductive: the source that `mark` announces is there because the live gate is
held from the commit to the mark, and it stays because nobody else is called for
that revision. ViewInv does the same for the index: while a view is claimed
(announced, or relied on by a change that carries no seed) there is one, and no
retirement, withdrawal or completion in progress meets a claim. Owed is the
invariant behind RestAgrees: for each thing unfinished (a pending document, a
source without its view, a deleted file's view, a closed file's stores) it names
a handler that is still going to do it. That is what lets every other handler
give up. The theorems are PublicationTypeCorrect, ReadersFindTheSource,
PublishedViewStays and NothingIsLeftHalfPublished.

**Only model-checked**

- Liveness: EditsSettle, RequestsAnswered, Converges, EverySetSettles,
  EverythingIsDelivered, EveryChangeIsReloaded, PublicationsEnd, ScriptsFinish.
  They need fairness, which is out of this prover's reach.

Every invariant, action property and refinement that a passing run checks is
also stated by a theorem.

## 5. Not modelled

Feature handlers are functions of one document snapshot; the concurrency they
meet is the barrier and the publication stage, which are modelled. The analyser,
compiler, lexer, registries and BIG-IP tools, most of the repository's lines,
are sequential data transformation and generated tables far beyond a model
checker; the models see the analyser as a deterministic function that may panic
or be cancelled. Of the VM the interpreter and its event loop, of the package
tool the commands that only read, extraction, venv and the sandbox are left out.
The debugger, MCP, CLI and editor front ends are separate programs.

## 6. Plan

1. Proofs: that the scheduler with nothing closed implements a single-worker,
   latest-text specification.
2. Two documents in the scheduler: a superseded delivery returns (6262) before
   it reschedules peers, after their cache entries are gone.
3. `SpecPackReload` (6335, 19461, 19724): the sequence stamp against slow loads;
   composed with DiagPublisher's notices.
4. The closed-badge cap (12190) with several files.
5. `Convergence` (2289-2545, 21110-21208) and the scan's readiness gate (7458).
6. The debugger's session states.
