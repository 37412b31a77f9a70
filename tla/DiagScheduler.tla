--------------------------- MODULE DiagScheduler ---------------------------
(***************************************************************************)
(* The diagnostics scheduler of tcl-lsp-server for one document: the slot  *)
(* (struct DiagSlot) that couples the handlers which schedule work to the  *)
(* detached worker which does it, the configuration epoch that keeps the   *)
(* slot's cached inputs honest, and the currency check that every publish  *)
(* passes.                                                                 *)
(*                                                                         *)
(* The configuration is two knobs, a and b, because diag_inputs reads a    *)
(* dozen of them behind separate mutexes and an apply writes them one by   *)
(* one.  A set of diagnostics is the buffer it was computed from, the      *)
(* revision and inputs it was computed under, and its tier.  Buffers are   *)
(* members of Texts.  The handlers' ordered part is atomic (EditOrder),    *)
(* and so is the publication of a source and its index view.  A step is    *)
(* one critical section, or the code between two awaits.                   *)
(***************************************************************************)
EXTENDS Integers, FiniteSets

CONSTANTS Workers,     \* diagnostics worker tasks
          Texts,       \* buffer contents
          Panicking,   \* the contents on which the analyser panics
          Attempts,    \* DIAG_INPUTS_RESOLVE_ATTEMPTS
          None,        \* Option::None
          MaxOpens, MaxEdits, MaxCloses, MaxReloads, MaxPulls,  \* bounds on messages
          MaxRemarks   \* bound: runs a concurrent source write cancels and times
                       \* evidence or a peer re-marks the slot, together

\* The handler invocations, numbered as their messages arrive.
Handlers == 1 .. (MaxOpens + MaxEdits + MaxCloses + MaxReloads + MaxPulls)

VARIABLES
  doc,       \* documents[uri], with publication = Indexed as `ready`
  slot,      \* diag_slots[uri]
  config,    \* the settings diag_inputs reads
  applying,  \* whether some handler holds analyser_inputs_gate for writing
  epoch,     \* Backend::diag_inputs_epoch
  handler,   \* what each handler invocation is doing
  worker,    \* what each worker task is doing
  cache,     \* pull_diag_cache[uri]
  shown,     \* the set last deposited with the publisher for this document
  remarks

vars == <<doc, slot, config, applying, epoch, handler, worker, cache, shown, remarks>>

Revisions == -1 .. MaxEdits
ClosedRevision == -1   \* the u64::MAX sentinel, which no live revision reaches
Epochs == 0 .. MaxReloads
Inputs == [a : Epochs, b : Epochs]
Docs == [opening : 1 .. MaxOpens, rev : 0 .. MaxEdits, text : Texts, ready : BOOLEAN]
Slots == [dirty : BOOLEAN, generation : Nat, running : BOOLEAN,
          inputs : Inputs \cup {None}, inputs_epoch : Epochs]
Sets == [opening : 0 .. MaxOpens, rev : Revisions, text : Texts \cup {None}, inputs : Inputs \cup {None},
         tier : {"fast", "deep"}]

\* A worker task can always be spawned, and an Option is not its own content.
ASSUME SchedulerAssumption ==
  /\ IsFiniteSet(Workers) /\ Workers # {}
  /\ Panicking \subseteq Texts
  /\ Attempts \in Nat \ {0}
  /\ {MaxOpens, MaxEdits, MaxCloses, MaxReloads, MaxPulls, MaxRemarks} \subseteq Nat
  /\ None \notin Docs \cup Slots \cup Inputs \cup Sets

Kinds == {"none", "open", "edit", "close", "reload", "pull"}
HandlerSteps == {"idle", "publish", "evict", "closed_run", "write_b", "bump", "reload",
                 "load_epoch", "peek", "read_a", "read_b", "verify", "commit",
                 "compute", "insert", "done"}
WorkerSteps == {"idle", "stable", "sleep", "take", "unarmed", "capture", "declined",
                "analyse", "deliver", "settled", "refresh", "cancelled"}

\* `opening` is history: which opening of the document a capture is from.  The
\* code has no such number; its revisions start at 0 again with every opening.
IdleHandler == [pc |-> "idle", kind |-> "none", opening |-> 0, rev |-> 0, text |-> None,
                force |-> FALSE, epoch |-> 0, snap |-> None, tries |-> 0]
IdleWorker == [pc |-> "idle", generation |-> 0, inputs |-> None, opening |-> 0, rev |-> 0,
               text |-> None, fast |-> FALSE]

Init ==
  /\ doc = None
  /\ slot = None
  /\ config = [a |-> 0, b |-> 0]
  /\ applying = FALSE
  /\ epoch = 0
  /\ handler = [h \in Handlers |-> IdleHandler]
  /\ worker = [w \in Workers |-> IdleWorker]
  /\ cache = None
  /\ shown = None
  /\ remarks = 0

-----------------------------------------------------------------------------
(* The slot.                                                               *)

\* entry(uri).or_default()
DefaultSlot == [dirty |-> FALSE, generation |-> 0, running |-> FALSE, inputs |-> None,
                inputs_epoch |-> 0]
SlotOrDefault == IF slot = None THEN DefaultSlot ELSE slot

\* DiagSlot::mark_dirty
MarkDirty(s) == [s EXCEPT !.dirty = TRUE, !.generation = @ + 1]

\* retire_slot
RetireSlot(s) ==
  IF s = None \/ s.inputs = None THEN None ELSE [s EXCEPT !.running = FALSE]

\* evict_diag_slot, and its copy in commit_closed_live_state
EvictSlot(s) ==
  IF s # None /\ s.running THEN [s EXCEPT !.inputs = None, !.dirty = FALSE] ELSE None

\* A worker is spawned unless one already drains the slot: start_worker.
StartWorkerUnless(running) ==
  worker' = IF running THEN worker
            ELSE [worker EXCEPT ![CHOOSE w \in Workers : worker[w].pc = "idle"] =
                    [IdleWorker EXCEPT !.pc = "stable"]]

-----------------------------------------------------------------------------
(* Notifications.  Each is sent by the client when the protocol allows it. *)

Sent(kind) == Cardinality({h \in Handlers : handler[h].kind = kind})
Goto(h, l) == handler' = [handler EXCEPT ![h].pc = l]
\* The handler returns; its locals are gone.
Finish(h) == handler' = [handler EXCEPT ![h] = [IdleHandler EXCEPT !.pc = "done",
                                                                  !.kind = handler[h].kind]]
\* It goes on to schedule_diagnostics_impl.
Schedule(h) == handler' = [handler EXCEPT ![h].pc = "load_epoch", ![h].rev = 0, ![h].text = None]
Start(h, l, kind, rev, text) ==
  /\ handler[h].pc = "idle"
  /\ h > 1 => handler[h - 1].pc # "idle"
  /\ handler' = [handler EXCEPT ![h].pc = l, ![h].kind = kind, ![h].rev = rev,
                                ![h].opening = IF l = "compute" THEN doc.opening ELSE 0,
                                ![h].text = text, ![h].force = kind \in {"open", "reload"}]

\* The ordered part of did_open: a fresh DocumentState, publication pending.
DidOpen(h) ==
  /\ doc = None /\ Sent("open") < MaxOpens
  /\ \E t \in Texts :
       /\ doc' = [opening |-> Sent("open") + 1, rev |-> 0, text |-> t, ready |-> FALSE]
       /\ Start(h, "publish", "open", 0, t)
  /\ UNCHANGED <<slot, config, applying, epoch, worker, cache, shown, remarks>>

\* Mutant: the revision stays.
DidChangeSameRevision(h) ==
  /\ doc # None /\ Sent("edit") < MaxEdits
  /\ \E t \in Texts :
       /\ doc' = [doc EXCEPT !.rev = doc.rev, !.text = t, !.ready = FALSE]
       /\ Start(h, "publish", "edit", doc.rev, t)
  /\ UNCHANGED <<slot, config, applying, epoch, worker, cache, shown, remarks>>

\* The ordered part of did_change: the splice and bump_revision.
DidChange(h) ==
  /\ doc # None /\ Sent("edit") < MaxEdits
  /\ \E t \in Texts :
       /\ doc' = [doc EXCEPT !.rev = doc.rev + 1, !.text = t, !.ready = FALSE]
       /\ Start(h, "publish", "edit", doc.rev + 1, t)
  /\ UNCHANGED <<slot, config, applying, epoch, worker, cache, shown, remarks>>

\* The ordered part of did_close.
DidClose(h) ==
  /\ doc # None /\ Sent("close") < MaxCloses
  /\ doc' = None
  /\ Start(h, "evict", "close", 0, None)
  /\ UNCHANGED <<slot, config, applying, epoch, worker, cache, shown, remarks>>

\* commit_open_document / publish_changed_document: the source and the index
\* view of this revision become current, unless the document has moved on.
Publish(h) ==
  /\ handler[h].pc = "publish"
  /\ IF doc # None /\ doc.rev = handler[h].rev /\ doc.text = handler[h].text
       THEN doc' = [doc EXCEPT !.ready = TRUE] /\ Schedule(h)
       ELSE UNCHANGED doc /\ Finish(h)
  /\ UNCHANGED <<slot, config, applying, epoch, worker, cache, shown, remarks>>

\* commit_closed_live_state, for the slot: nothing if the document is open again.
CloseTail(h) ==
  /\ handler[h].pc = "evict"
  /\ IF doc = None
       THEN slot' = EvictSlot(slot) /\ Goto(h, "closed_run")
       ELSE UNCHANGED slot /\ Finish(h)
  /\ UNCHANGED <<doc, config, applying, epoch, worker, cache, shown, remarks>>

\* publish_closed_file_diagnostics, reduced to its commit (ClosedDiagnostics).
ClosedRun(h) ==
  /\ handler[h].pc = "closed_run"
  /\ Finish(h)
  /\ IF doc = None
       THEN /\ cache' = [opening |-> 0, rev |-> ClosedRevision, text |-> None, inputs |-> None,
                        tier |-> "deep"]
            /\ shown' = cache'
       ELSE UNCHANGED <<cache, shown>>
  /\ UNCHANGED <<doc, slot, config, applying, epoch, worker, remarks>>

-----------------------------------------------------------------------------
(* A configuration reload: under analyser_inputs_gate the knobs are        *)
(* written one by one and the epoch is bumped; then every open document    *)
(* is rescheduled.                                                         *)

BeginApply(h) ==
  /\ ~applying /\ Sent("reload") < MaxReloads
  /\ Start(h, "write_b", "reload", 0, None)
  /\ applying' = TRUE
  /\ config' = [config EXCEPT !.a = @ + 1]
  /\ UNCHANGED <<doc, slot, epoch, worker, cache, shown, remarks>>

ApplyRest(h) ==
  /\ handler[h].pc = "write_b"
  /\ config' = [config EXCEPT !.b = @ + 1]
  /\ Goto(h, "bump")
  /\ UNCHANGED <<doc, slot, applying, epoch, worker, cache, shown, remarks>>

\* Mutant: the contract of invalidate_diag_inputs is forgotten.
ForgetInvalidate(h) ==
  /\ handler[h].pc = "bump"
  /\ applying' = FALSE
  /\ Goto(h, "reload")
  /\ UNCHANGED <<doc, slot, config, epoch, worker, cache, shown, remarks>>

\* invalidate_diag_inputs, then the gate is dropped.
Invalidate(h) ==
  /\ handler[h].pc = "bump"
  /\ epoch' = epoch + 1
  /\ applying' = FALSE
  /\ Goto(h, "reload")
  /\ UNCHANGED <<doc, slot, config, worker, cache, shown, remarks>>

\* reschedule_all_open_documents takes its snapshot.
RescheduleOpen(h) ==
  /\ handler[h].pc = "reload"
  /\ IF doc = None THEN Finish(h) ELSE Schedule(h)
  /\ UNCHANGED <<doc, slot, config, applying, epoch, worker, cache, shown, remarks>>

-----------------------------------------------------------------------------
(* schedule_diagnostics_impl: resolve the inputs under an epoch that does  *)
(* not move, then commit them and the dirty bit together.                  *)

LoadEpoch(h) ==
  /\ handler[h].pc = "load_epoch"
  /\ handler' = [handler EXCEPT ![h].pc = "peek", ![h].epoch = epoch, ![h].snap = None]
  /\ UNCHANGED <<doc, slot, config, applying, epoch, worker, cache, shown, remarks>>

\* need_inputs, peeked under the slot lock.
Peek(h) ==
  /\ handler[h].pc = "peek"
  /\ slot' = SlotOrDefault
  /\ Goto(h, IF handler[h].force \/ slot'.inputs = None \/ slot'.inputs_epoch # handler[h].epoch
             THEN "read_a" ELSE "commit")
  /\ UNCHANGED <<doc, config, applying, epoch, worker, cache, shown, remarks>>

\* diag_inputs, whose settings sit behind separate mutexes.
ReadFirst(h) ==
  /\ handler[h].pc = "read_a"
  /\ handler' = [handler EXCEPT ![h].pc = "read_b", ![h].snap = config]
  /\ UNCHANGED <<doc, slot, config, applying, epoch, worker, cache, shown, remarks>>

ReadRest(h) ==
  /\ handler[h].pc = "read_b"
  /\ handler' = [handler EXCEPT ![h].pc = "verify", ![h].snap.b = config.b]
  /\ UNCHANGED <<doc, slot, config, applying, epoch, worker, cache, shown, remarks>>

\* The epoch is read again; a snapshot it moved under is dropped, and the
\* last attempt gives up.
Verify(h) ==
  /\ handler[h].pc = "verify"
  /\ handler' = [handler EXCEPT
       ![h].tries = @ + 1,
       ![h].snap = IF epoch = handler[h].epoch THEN @ ELSE None,
       ![h].pc = IF epoch = handler[h].epoch \/ handler[h].tries + 1 = Attempts
                 THEN "commit" ELSE "load_epoch"]
  /\ UNCHANGED <<doc, slot, config, applying, epoch, worker, cache, shown, remarks>>

\* The slot after the locked section that ends schedule_diagnostics_impl.
Committed(s, snap, e) ==
  MarkDirty(IF snap # None /\ e >= s.inputs_epoch
            THEN [s EXCEPT !.inputs = snap, !.inputs_epoch = e] ELSE s)

\* Mutant: a worker is started for every schedule.
CommitAlwaysStarts(h) ==
  /\ handler[h].pc = "commit"
  /\ StartWorkerUnless(FALSE)
  /\ slot' = [Committed(SlotOrDefault, handler[h].snap, handler[h].epoch) EXCEPT !.running = TRUE]
  /\ Finish(h)
  /\ UNCHANGED <<doc, config, applying, epoch, cache, shown, remarks>>

Commit(h) ==
  /\ handler[h].pc = "commit"
  /\ StartWorkerUnless(SlotOrDefault.running)
  /\ slot' = [Committed(SlotOrDefault, handler[h].snap, handler[h].epoch) EXCEPT !.running = TRUE]
  /\ Finish(h)
  /\ UNCHANGED <<doc, config, applying, epoch, cache, shown, remarks>>

-----------------------------------------------------------------------------
(* textDocument/diagnostic, the pull request.                              *)

\* read_document waits for the indexed boundary; a cache entry of this
\* revision is served as it is, and the request is over.
Pull(h) ==
  /\ doc # None /\ doc.ready /\ Sent("pull") < MaxPulls
  /\ IF cache # None /\ cache.rev = doc.rev
       THEN Start(h, "done", "pull", 0, None)
       ELSE Start(h, "compute", "pull", doc.rev, doc.text)
  /\ UNCHANGED <<doc, slot, config, applying, epoch, worker, cache, shown, remarks>>

\* full_diagnostics_for, under the settings of the moment.
PullCompute(h) ==
  /\ handler[h].pc = "compute"
  /\ handler' = [handler EXCEPT ![h].pc = "insert", ![h].snap = config]
  /\ UNCHANGED <<doc, slot, config, applying, epoch, worker, cache, shown, remarks>>

\* The cache is primed with the revision the set was computed for.
PullInsert(h) ==
  /\ handler[h].pc = "insert"
  /\ cache' = [opening |-> handler[h].opening, rev |-> handler[h].rev,
               text |-> handler[h].text, inputs |-> handler[h].snap, tier |-> "deep"]
  /\ Finish(h)
  /\ UNCHANGED <<doc, slot, config, applying, epoch, worker, shown, remarks>>

-----------------------------------------------------------------------------
(* spawn_diagnostics_worker: debounce, take, capture, analyse, deliver,    *)
(* refresh the cross-file evidence, and round again until the slot is      *)
(* clean.                                                                  *)

Move(w, l) == worker' = [worker EXCEPT ![w].pc = l]
\* The task ends, or its loop starts over; either way its locals are gone.
Restart(w, l) == worker' = [worker EXCEPT ![w] = [IdleWorker EXCEPT !.pc = l]]

\* The worker releases its claim and returns, in one locked section.
Retire(w) == slot' = RetireSlot(slot) /\ Restart(w, "idle")

\* The slot holds no work, or has gone (which retiring leaves as it is).
Drained == slot = None \/ ~slot.dirty

\* stable_diagnostics_generation, before its sleep ...
SampleGeneration(w) ==
  /\ worker[w].pc = "stable"
  /\ \/ Drained /\ Retire(w)
     \/ /\ ~Drained
        /\ worker' = [worker EXCEPT ![w].pc = "sleep", ![w].generation = slot.generation]
        /\ UNCHANGED slot
  /\ UNCHANGED <<doc, config, applying, epoch, handler, cache, shown, remarks>>

\* ... and after it.
Debounced(w) ==
  /\ worker[w].pc = "sleep"
  /\ \/ Drained /\ Retire(w)
     \/ /\ ~Drained
        /\ IF slot.generation = worker[w].generation THEN Move(w, "take") ELSE Restart(w, "stable")
        /\ UNCHANGED slot
  /\ UNCHANGED <<doc, config, applying, epoch, handler, cache, shown, remarks>>

\* The dirty bit and the inputs are taken together.
Take(w) ==
  /\ worker[w].pc = "take"
  /\ \/ /\ slot # None /\ slot.generation # worker[w].generation
        /\ Restart(w, "stable") /\ UNCHANGED slot
     \/ /\ ~Drained /\ slot.generation = worker[w].generation
        /\ slot' = [slot EXCEPT !.dirty = FALSE]
        /\ worker' = [worker EXCEPT ![w].inputs = slot.inputs,
             ![w].pc = IF slot.inputs = None THEN "unarmed" ELSE "capture"]
     \/ /\ Drained /\ (slot # None => slot.generation = worker[w].generation)
        /\ Retire(w)
  /\ UNCHANGED <<doc, config, applying, epoch, handler, cache, shown, remarks>>

\* No inputs: the slot lock, released since, is taken again to retire.
RetireUnarmed(w) ==
  /\ worker[w].pc = "unarmed"
  /\ Retire(w)
  /\ UNCHANGED <<doc, config, applying, epoch, handler, cache, shown, remarks>>

\* capture_job: the document as it is now, once its source is published.
Capture(w) ==
  /\ worker[w].pc = "capture"
  /\ LET live == doc # None /\ doc.ready IN
     worker' = [worker EXCEPT
       ![w].pc = IF live THEN "analyse" ELSE "declined",
       ![w].opening = IF live THEN doc.opening ELSE 0,
       ![w].rev = IF live THEN doc.rev ELSE 0,
       ![w].text = IF live THEN doc.text ELSE None,
       ![w].fast = FALSE]
  /\ UNCHANGED <<doc, slot, config, applying, epoch, handler, cache, shown, remarks>>

\* Mutant: nothing to analyse, so the worker retires whatever the slot says.
DeclinedRetires(w) ==
  /\ worker[w].pc = "declined"
  /\ Retire(w)
  /\ UNCHANGED <<doc, config, applying, epoch, handler, cache, shown, remarks>>

\* Nothing to analyse: retire, unless the slot was re-armed meanwhile.
Declined(w) ==
  /\ worker[w].pc = "declined"
  /\ IF Drained THEN Retire(w) ELSE Restart(w, "stable") /\ UNCHANGED slot
  /\ UNCHANGED <<doc, config, applying, epoch, handler, cache, shown, remarks>>

\* Mutant: a run delivers whatever the document has become.
StillOpen(w) == doc # None

\* DeliveryCtx::is_current, for a run on an open buffer.
IsCurrent(w) == doc # None /\ doc.rev = worker[w].rev

ResultOf(w, tier) ==
  [opening |-> worker[w].opening, rev |-> worker[w].rev, text |-> worker[w].text,
   inputs |-> worker[w].inputs, tier |-> tier]

\* The budget elapses before the deep pass: publish_fast_tier, which must not
\* touch the pull cache.
DeliverFast(w) ==
  /\ worker[w].pc = "analyse" /\ ~worker[w].fast /\ worker[w].text \notin Panicking
  /\ worker' = [worker EXCEPT ![w].fast = TRUE]
  /\ shown' = IF IsCurrent(w) THEN ResultOf(w, "fast") ELSE shown
  /\ UNCHANGED <<doc, slot, config, applying, epoch, handler, cache, remarks>>

\* The analysis ends: with a result, with a panic that settles the run, or
\* cancelled by a write to the shared database.
Analyse(w) ==
  /\ worker[w].pc = "analyse"
  /\ \/ worker[w].text \notin Panicking /\ Move(w, "deliver") /\ UNCHANGED remarks
     \/ worker[w].text \in Panicking /\ Move(w, "settled") /\ UNCHANGED remarks
     \/ remarks < MaxRemarks /\ remarks' = remarks + 1 /\ Move(w, "cancelled")
  /\ UNCHANGED <<doc, slot, config, applying, epoch, handler, cache, shown>>

\* publish_diagnostics_result: the check, the pull cache and the deposit with
\* the publisher under the documents lock.
Deliver(w) ==
  /\ worker[w].pc = "deliver"
  /\ Move(w, "settled")
  /\ IF IsCurrent(w)
       THEN shown' = ResultOf(w, "deep") /\ cache' = shown'
       ELSE UNCHANGED <<shown, cache>>
  /\ UNCHANGED <<doc, slot, config, applying, epoch, handler, remarks>>

\* Mutant: a cancelled run is taken for a settled one.
CancelledSettles(w) ==
  /\ worker[w].pc = "cancelled"
  /\ Restart(w, "stable")
  /\ UNCHANGED <<doc, slot, config, applying, epoch, handler, cache, shown, remarks>>

\* A cancelled run is retried: the slot, if it is still there, is re-marked.
Cancelled(w) ==
  /\ worker[w].pc = "cancelled"
  /\ slot' = IF slot = None THEN None ELSE MarkDirty(slot)
  /\ Restart(w, "stable")
  /\ UNCHANGED <<doc, config, applying, epoch, handler, cache, shown, remarks>>

\* After a settled run: more work first, the evidence refresh otherwise.
Settled(w) ==
  /\ worker[w].pc = "settled"
  /\ Restart(w, IF Drained THEN "refresh" ELSE "stable")
  /\ UNCHANGED <<doc, slot, config, applying, epoch, handler, cache, shown, remarks>>

\* refresh_cross_file_evidence may have changed this document's own view.
Refresh(w) ==
  /\ worker[w].pc = "refresh"
  /\ Restart(w, "stable")
  /\ \/ UNCHANGED <<slot, remarks>>
     \/ /\ slot # None /\ remarks < MaxRemarks
        /\ slot' = MarkDirty(slot) /\ remarks' = remarks + 1
  /\ UNCHANGED <<doc, config, applying, epoch, handler, cache, shown>>

\* reschedule_peers, called by the worker of another document, whose publish
\* has dropped this document's pull-cache entry if it was open.
PeerReschedules ==
  /\ slot # None /\ slot.inputs # None /\ remarks < MaxRemarks
  /\ remarks' = remarks + 1
  /\ StartWorkerUnless(slot.running)
  /\ slot' = [MarkDirty(slot) EXCEPT !.running = TRUE]
  /\ cache' = IF doc # None THEN None ELSE cache
  /\ UNCHANGED <<doc, config, applying, epoch, handler, shown>>

-----------------------------------------------------------------------------

ClientSends(h) == DidOpen(h) \/ DidChange(h) \/ DidClose(h) \/ BeginApply(h) \/ Pull(h)

HandlerStep(h) ==
  \/ Publish(h) \/ CloseTail(h) \/ ClosedRun(h)
  \/ ApplyRest(h) \/ Invalidate(h) \/ RescheduleOpen(h)
  \/ LoadEpoch(h) \/ Peek(h) \/ ReadFirst(h) \/ ReadRest(h) \/ Verify(h) \/ Commit(h)
  \/ PullCompute(h) \/ PullInsert(h)

WorkerStep(w) ==
  \/ SampleGeneration(w) \/ Debounced(w) \/ Take(w) \/ RetireUnarmed(w)
  \/ Capture(w) \/ Declined(w) \/ DeliverFast(w) \/ Analyse(w) \/ Deliver(w)
  \/ Cancelled(w) \/ Settled(w) \/ Refresh(w)

Next ==
  \/ \E h \in Handlers : ClientSends(h) \/ HandlerStep(h)
  \/ \E w \in Workers : WorkerStep(w)
  \/ PeerReschedules

Spec == Init /\ [][Next]_vars

\* Tokio polls every ready task, and the debounce timer fires.
Fairness ==
  /\ \A h \in Handlers : WF_vars(HandlerStep(h))
  /\ \A w \in Workers : WF_vars(WorkerStep(w))

FairSpec == Spec /\ Fairness

-----------------------------------------------------------------------------
(* Properties.                                                             *)

\* The state variables keep the shape of the code's types.
TypeOK ==
  /\ doc \in Docs \cup {None}
  /\ slot \in Slots \cup {None}
  /\ config \in Inputs
  /\ applying \in BOOLEAN
  /\ epoch \in Epochs
  /\ \A h \in Handlers :
       /\ handler[h].pc \in HandlerSteps
       /\ handler[h].kind \in Kinds
       /\ handler[h].snap \in Inputs \cup {None}
       /\ handler[h].tries \in 0 .. Attempts
  /\ \A w \in Workers :
       /\ worker[w].pc \in WorkerSteps
       /\ worker[w].inputs \in Inputs \cup {None}
  /\ cache \in Sets \cup {None}
  /\ shown \in Sets \cup {None}

Busy == {w \in Workers : worker[w].pc # "idle"}

\* "never runs two analyses for one document concurrently": the slot's running
\* flag is the claim of exactly one worker task.
OneWorker ==
  /\ Cardinality(Busy) <= 1
  /\ Busy # {} <=> (slot # None /\ slot.running)

\* The stamp means what it says: inputs stamped with the current epoch, while
\* no apply is under way, are the current configuration.
StampIsHonest ==
  slot # None /\ slot.inputs # None /\ slot.inputs_epoch = epoch /\ ~applying
    => slot.inputs = config

\* Work that is scheduled has a worker behind it: what evict_diag_slot and the
\* worker's own comments promise ("nothing is orphaned").
NoOrphanedWork == slot # None /\ slot.dirty => slot.running

\* The snapshot a slot holds is never half from each side of an apply.
InputsNeverMixed == slot # None /\ slot.inputs # None => slot.inputs.a = slot.inputs.b

Idle == Busy = {} /\ \A h \in Handlers : handler[h].pc \in {"idle", "done"}

\* Once everything has settled, a closed document keeps no slot (#1144).
ClosedSlotReleased == Idle /\ doc = None => slot = None

\* Within one opening of the document, a delivery is about the buffer the
\* editor has open at that moment: a stale worker cannot publish for an older
\* buffer.  (A worker that outlives a close and a reopening can: the revisions
\* it compares start over.  See the README.)
DeliveriesAreCurrent ==
  [][shown' # shown /\ shown'.rev # ClosedRevision
       => doc # None /\ (shown'.opening = doc.opening => shown'.text = doc.text)]_vars

\* A pull that finds an entry of this opening for the live revision serves the
\* live buffer.
CacheServesLiveText ==
  doc # None /\ cache # None /\ cache.opening = doc.opening /\ cache.rev = doc.rev
    => cache.text = doc.text

\* Once everything has settled, an entry the pull path would serve was computed
\* under the settings in force, as the pushed set was.
CacheMirrorsPush ==
  Idle /\ doc # None /\ doc.ready /\ cache # None /\ cache.rev = doc.rev
    => cache.inputs = config

\* "the final version's diagnostics are always published": the last set shown is
\* the complete one for the final buffer under the final configuration.
FinalStateIsShown ==
  doc # None /\ doc.text \notin Panicking =>
    shown = [opening |-> doc.opening, rev |-> doc.rev, text |-> doc.text, inputs |-> config,
             tier |-> "deep"]

\* However edits, reloads, cancellations and refreshes interleave, it is reached
\* and kept.
Converges == <>[]FinalStateIsShown
=============================================================================
