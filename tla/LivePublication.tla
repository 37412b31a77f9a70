-------------------------- MODULE LivePublication --------------------------
(***************************************************************************)
(* How the text of one document reaches the analysis database and the      *)
(* workspace index: did_open, did_change, did_close, a dialect change and  *)
(* the watched-file events change `documents` in their ordered part and    *)
(* publish afterwards, off the edit barrier, each under a gate, with       *)
(* try-locks and a retry.  A publication that finds the document moved on  *)
(* gives up and leaves the rest to the handler that moved it.              *)
(*                                                                         *)
(* A step is the code between two awaits.  Tokio polls all handlers on one *)
(* task, so no handler intervenes inside a step.  The locks of a bundle    *)
(* are held only inside a step; `contended` is a task outside the model    *)
(* that holds one of them, and `snapshots` the database clones of running  *)
(* queries, which a Salsa setter must not meet.  A seed's reanalysis when  *)
(* the configuration epoch moves starts the same steps over and changes    *)
(* nothing here.  The view in the index is the text it was analysed from   *)
(* and the revision stamp its writer was given.                            *)
(***************************************************************************)
EXTENDS Integers, FiniteSets

Locks == {"database", "files", "index", "documents"}

CONSTANTS Texts,       \* buffer texts
          Dialects,    \* the dialects a text may be read in
          InitialDialect,
          Disk,        \* the file on disk as it is read, never a buffer's content
          None,        \* Option::None
          MaxMessages, MaxWatched,  \* bounds: messages, and watched-file events among them
          BusyLocks,   \* the locks of the bundles that other tasks are seen to hold
          MaxOthers    \* bound: diagnostics runs captured and locks held by other tasks

\* What is analysed and compared: a text in a dialect.
Bodies == Texts \X Dialects

\* DocumentState, and an entry of the workspace index.
Documents == [body : Bodies, version : Nat, rev : Nat, pub : {"pending", "salsa", "indexed"},
              orphan : BOOLEAN, opening : Nat, borrowed : SUBSET {"source", "view"}]
Entries == [body : Bodies \cup {Disk}, stamp : Nat]

ASSUME PublicationAssumption ==
  /\ Disk \notin Bodies /\ None \notin Bodies \cup Documents \cup Entries \cup {Disk}
  /\ InitialDialect \in Dialects /\ BusyLocks \subseteq Locks
  /\ {MaxMessages, MaxWatched, MaxOthers} \subseteq Nat

\* The handler invocations, numbered as their messages arrive.
Handlers == 1 .. MaxMessages

VARIABLES
  doc,         \* documents[uri]
  source,      \* the document's text in the analysis database
  index,       \* the document's view in the workspace index
  dialect,     \* what the settings resolve the document's dialect to
  disk,        \* the file: Disk, or None once it is deleted
  generation,  \* live_publication_uri_generations[uri]
  gate,        \* gate[g]: who holds each of the four publication gates (0: nobody)
  draining,    \* the handlers that hold a SnapshotDrainGuard
  snapshots,   \* database clones outstanding (0 or 1: a clone or a stream of them)
  contended,   \* the lock some other task holds
  run,         \* a diagnostics run that has captured the document
  handler,     \* what each handler invocation is doing
  others       \* how many of the tasks MaxOthers bounds have started

vars == <<doc, source, index, dialect, disk, generation, gate, draining, snapshots, contended, run,
          handler, others>>
outside == <<dialect, disk, snapshots, contended, run, others>>

IdleHandler == [pc |-> "idle", kind |-> "none", body |-> None, version |-> 0, rev |-> 0,
                seed |-> FALSE, gen |-> 0, scan |-> None, deleted |-> -1, opening |-> 0]

Init ==
  /\ doc = None
  /\ source = Disk
  /\ index = [body |-> Disk, stamp |-> 0]
  /\ dialect = InitialDialect
  /\ disk = Disk
  /\ generation = 0
  /\ gate = [g \in {"live", "rehoming", "disk", "watched"} |-> 0]
  /\ draining = {}
  /\ snapshots = 0
  /\ contended = "none"
  /\ run = None
  /\ handler = [h \in Handlers |-> IdleHandler]
  /\ others = 0

-----------------------------------------------------------------------------
(* Handlers, gates and the documents map.                                  *)

Sent(kinds) == Cardinality({h \in Handlers : handler[h].kind \in kinds})
At(h, l) == handler[h].pc = l
Goto(h, l) == handler' = [handler EXCEPT ![h].pc = l]
Start(h, next) ==
  /\ handler[h].pc = "idle"
  /\ h > 1 => handler[h - 1].pc # "idle"
  /\ handler' = [handler EXCEPT ![h] = next]

\* History: which opening of the document a handler belongs to, and what one that
\* was called for another revision has written in this opening: source or view.
Opening == Sent({"open"})
Borrowed(h) == handler[h].opening # doc.opening \/ handler[h].rev # doc.rev
Lent(h, store) == IF Borrowed(h) THEN doc.borrowed \cup {store} ELSE doc.borrowed

\* The handler returns: its guards are dropped, its locals are gone.
Freed(h) == [g \in DOMAIN gate |-> IF gate[g] = h THEN 0 ELSE gate[g]]
Finish(h) ==
  /\ handler' = [handler EXCEPT ![h] = [IdleHandler EXCEPT !.pc = "done",
                                                           !.kind = handler[h].kind]]
  /\ gate' = Freed(h)
  /\ draining' = draining \ {h}

\* The live gate goes at the end of a commit; a watched-file handler keeps its own.
KeepWatched(h) == [gate EXCEPT !["live"] = IF @ = h THEN 0 ELSE @]

Acquire(h, g, l) == gate[g] = 0 /\ gate' = [gate EXCEPT ![g] = h] /\ Goto(h, l)

\* matches_open_publication, matches_live_source_publication and
\* matches_live_publication, for the document h was called for.
SameBody(h) == doc # None /\ doc.body = handler[h].body
MatchesSource(h) ==
  SameBody(h) /\ IF handler[h].kind = "open"
                   THEN doc.version = handler[h].version /\ ~doc.orphan
                   ELSE doc.rev = handler[h].rev
MatchesIndex(h) == MatchesSource(h) /\ ~doc.orphan
Uninvalidated(h) == generation = handler[h].gen

\* Mutant: did_open does not join the index lock's queue before it hands its
\* turn on.
IndexFreeUnqueued == contended # "index"

\* The index lock is fair: a did_open that still has to retire the view queued
\* for it inside its turn, before any writer that comes later.
IndexFree == contended # "index" /\ \A h \in Handlers : ~At(h, "retire")

-----------------------------------------------------------------------------
(* The ordered part of each handler.                                       *)

\* did_open inserts a pending document and bumps the uri's generation.
DidOpen(h) ==
  /\ doc = None
  /\ \E t \in Texts :
       /\ doc' = [body |-> <<t, dialect>>, version |-> 0, rev |-> 0, pub |-> "pending", orphan |-> FALSE,
                  opening |-> Opening + 1, borrowed |-> {}]
       /\ Start(h, [IdleHandler EXCEPT !.pc = "retire", !.kind = "open", !.body = <<t, dialect>>,
                                       !.seed = TRUE, !.opening = Opening + 1])
  /\ generation' = generation + 1
  /\ UNCHANGED <<source, index, gate, draining, outside>>

\* Then it retires the view of the file that was closed until now.
Retire(h) ==
  /\ At(h, "retire") /\ contended # "index"
  /\ index' = None
  /\ Goto(h, "live_gate")
  /\ UNCHANGED <<doc, source, generation, gate, draining, outside>>

\* Mutant: an edit takes the view for granted whatever the publication stage.
DidChangeNeverSeeds(h) ==
  /\ doc # None
  /\ \E t \in Texts :
       /\ doc' = [doc EXCEPT !.body = <<t, @[2]>>, !.version = @ + 1, !.rev = @ + 1, !.pub = "pending"]
       /\ Start(h, [IdleHandler EXCEPT !.pc = "live_gate", !.kind = "change", !.body = <<t, doc.body[2]>>,
                                       !.opening = Opening, !.rev = doc.rev + 1])
  /\ generation' = generation + 1
  /\ UNCHANGED <<source, index, gate, draining, outside>>

\* did_change splices and bumps the revision; the view of the previous revision
\* stands in the index unless none had been published yet.
DidChange(h) ==
  /\ doc # None
  /\ \E t \in Texts :
       /\ doc' = [doc EXCEPT !.body = <<t, @[2]>>, !.version = @ + 1, !.rev = @ + 1, !.pub = "pending"]
       /\ Start(h, [IdleHandler EXCEPT !.pc = "live_gate", !.kind = "change", !.body = <<t, doc.body[2]>>,
                                       !.opening = Opening, !.rev = doc.rev + 1, !.seed = doc.pub # "indexed"])
  /\ generation' = generation + 1
  /\ UNCHANGED <<source, index, gate, draining, outside>>

\* The dialect of an open document is resolved anew: bump_analysis_generation.
Redialect(h) ==
  /\ doc # None
  /\ \E d \in Dialects \ {dialect} :
       /\ dialect' = d
       /\ doc' = [doc EXCEPT !.body = <<@[1], d>>, !.rev = @ + 1, !.pub = "pending"]
       /\ Start(h, [IdleHandler EXCEPT !.pc = "live_gate", !.kind = "dialect",
                                       !.body = <<doc.body[1], d>>, !.opening = Opening,
                                       !.rev = doc.rev + 1, !.seed = TRUE])
  /\ generation' = generation + 1
  /\ UNCHANGED <<source, index, gate, draining, disk, snapshots, contended, run, others>>

DidClose(h) ==
  /\ doc # None
  /\ doc' = None
  /\ Start(h, [IdleHandler EXCEPT !.pc = "live_gate", !.kind = "close"])
  /\ generation' = generation + 1
  /\ UNCHANGED <<source, index, gate, draining, outside>>

-----------------------------------------------------------------------------
(* Committing the source: commit_open_document, commit_live_source,        *)
(* commit_live_dialect and commit_closed_live_state share one loop.        *)

\* The gate is taken, and the uri's generation is sampled under it.
TakeGate(h) ==
  /\ At(h, "live_gate") /\ gate["live"] = 0
  /\ gate' = [gate EXCEPT !["live"] = h]
  /\ handler' = [handler EXCEPT ![h].pc = "try", ![h].gen = generation]
  /\ UNCHANGED <<doc, source, index, generation, draining, outside>>

\* The document this attempt is for is still the current one.
StillWanted(h) ==
  CASE handler[h].kind = "close" -> doc = None
    [] handler[h].kind = "open"  -> MatchesSource(h)
    [] OTHER                     -> MatchesSource(h) /\ Uninvalidated(h)

\* The first lock of the bundle that is not to be had, in the order they are
\* tried; the close takes no database lock, an open and an edit no index lock.
Blocker(h) ==
  CASE contended = "database" /\ handler[h].kind # "close" -> "database"
    [] snapshots > 0 /\ contended # "database" /\ handler[h].kind # "close" -> "snapshots"
    [] contended = "files" /\ handler[h].kind # "close" /\ snapshots = 0 -> "files"
    [] handler[h].kind \in {"close", "dialect"} /\ ~IndexFree
         /\ (handler[h].kind = "close" \/ snapshots = 0) -> "index"
    [] contended = "documents" /\ (handler[h].kind = "close" \/ snapshots = 0) -> "documents"
    [] OTHER -> "none"

\* Mutant: readers keep taking snapshots while a setter waits for zero.
DrainsAfterNothing(h, blocker) == draining

\* update_snapshot_drain: outstanding snapshots start a drain, a busy database
\* keeps one, and any other busy store ends it; the documents map and a close
\* do not touch it.
DrainsAfter(h, blocker) ==
  CASE blocker = "snapshots" -> draining \cup {h}
    [] blocker \in {"files", "index"} -> draining \ {h}
    [] OTHER -> draining

Superseded(h) ==
  /\ At(h, "try") /\ ~StillWanted(h)
  /\ Finish(h)
  /\ UNCHANGED <<doc, source, index, generation, outside>>

\* A lock is busy: nothing is kept but the gate and perhaps the drain.
Refused(h) ==
  /\ At(h, "try") /\ StillWanted(h) /\ Blocker(h) # "none"
  /\ draining' = DrainsAfter(h, Blocker(h))
  /\ Goto(h, "pause")
  /\ UNCHANGED <<doc, source, index, generation, gate, outside>>

\* pause_open_publication: give up if the uri has moved on, sleep and try
\* again, or (every 1024th time) leave the gate to others in between.
Pause(h) ==
  /\ At(h, "pause") \/ At(h, "sleep")
  /\ \/ ~Uninvalidated(h) /\ Finish(h)
     \/ Uninvalidated(h) /\ Goto(h, "try") /\ UNCHANGED <<gate, draining>>
     \/ /\ Uninvalidated(h) /\ At(h, "pause")
        /\ Goto(h, "rejoin") /\ gate' = [gate EXCEPT !["live"] = 0] /\ UNCHANGED draining
  /\ UNCHANGED <<doc, source, index, generation, outside>>

Rejoin(h) ==
  /\ At(h, "rejoin") /\ Acquire(h, "live", "sleep")
  /\ UNCHANGED <<doc, source, index, generation, draining, outside>>

\* Every lock is held: the setter runs.  A dialect change drops the view too.
SetSource(h) ==
  /\ At(h, "try") /\ handler[h].kind # "close" /\ StillWanted(h) /\ Blocker(h) = "none"
  /\ source' = handler[h].body
  /\ index' = IF handler[h].kind = "dialect" THEN None ELSE index
  /\ doc' = [doc EXCEPT !.borrowed = Lent(h, "source")]
  /\ draining' = draining \ {h}
  /\ Goto(h, "mark")
  /\ UNCHANGED <<generation, gate, outside>>

\* Mutant: the stage is advanced without a second look at the document.
MarkUnchecked(h) ==
  /\ At(h, "mark") /\ doc # None
  /\ doc' = [doc EXCEPT !.pub = IF handler[h].seed /\ ~doc.orphan THEN "salsa" ELSE "indexed"]
  /\ Finish(h)
  /\ UNCHANGED <<source, index, generation, outside>>

\* The documents map, locked again, moves to its next stage if the document is
\* still this one; the gate is dropped, and a missing view is seeded.
Mark(h) ==
  /\ At(h, "mark")
  /\ IF ~StillWanted(h) THEN Finish(h) /\ UNCHANGED doc
     ELSE /\ doc' = [doc EXCEPT !.pub =
               IF handler[h].seed /\ ~doc.orphan THEN "salsa" ELSE "indexed"]
          /\ IF handler[h].seed /\ ~doc.orphan
               THEN /\ Goto(h, IF handler[h].kind \in {"open", "dialect"} THEN "seed" ELSE "restore")
                    /\ gate' = KeepWatched(h) /\ UNCHANGED draining
               ELSE Finish(h)
  /\ UNCHANGED <<source, index, generation, outside>>

-----------------------------------------------------------------------------
(* Publishing the view: publish_open_index_if_current and                  *)
(* publish_live_index_if_current, after fresh_analysis_seed.               *)

\* restore_missing_live_index looks at the document before it analyses.
RestoreView(h) ==
  /\ At(h, "restore")
  /\ IF MatchesIndex(h) THEN Goto(h, "seed") /\ UNCHANGED <<gate, draining>> ELSE Finish(h)
  /\ UNCHANGED <<doc, source, index, generation, outside>>

\* The uri's generation is sampled after the analysis.
SeedAnalysed(h) ==
  /\ At(h, "seed")
  /\ handler' = [handler EXCEPT ![h].pc = "rehoming_gate", ![h].gen = generation]
  /\ UNCHANGED <<doc, source, index, generation, gate, draining, outside>>

TakeRehoming(h) ==
  /\ At(h, "rehoming_gate") /\ Acquire(h, "rehoming", "currency")
  /\ UNCHANGED <<doc, source, index, generation, draining, outside>>

CheckCurrency(h) ==
  /\ At(h, "currency")
  /\ IF MatchesIndex(h) /\ Uninvalidated(h)
       THEN Goto(h, "replace") /\ UNCHANGED <<gate, draining>>
       ELSE Finish(h)
  /\ UNCHANGED <<doc, source, index, generation, outside>>

ReplaceView(h) ==
  /\ At(h, "replace") /\ IndexFree
  /\ IF Uninvalidated(h)
       THEN /\ index' = [body |-> handler[h].body, stamp |-> h]
            /\ doc' = [doc EXCEPT !.borrowed = Lent(h, "view")]
            /\ Goto(h, "complete") /\ UNCHANGED <<gate, draining>>
       ELSE Finish(h) /\ UNCHANGED <<doc, index>>
  /\ UNCHANGED <<source, generation, outside>>

Complete(h) ==
  /\ At(h, "complete")
  /\ IF MatchesIndex(h) /\ Uninvalidated(h)
       THEN doc' = [doc EXCEPT !.pub = "indexed"] /\ Finish(h)
       ELSE UNCHANGED <<doc, gate, draining>> /\ Goto(h, "undo")
  /\ UNCHANGED <<source, index, generation, outside>>

\* remove_document_if_revision: a view somebody wrote since stays.
Undo(h) ==
  /\ At(h, "undo") /\ IndexFree
  /\ index' = IF index # None /\ index.stamp = h THEN None ELSE index
  /\ Finish(h)
  /\ UNCHANGED <<doc, source, generation, outside>>
-----------------------------------------------------------------------------
(* The tail of a close, and what the disk says.                            *)

\* commit_closed_live_state: the view of the buffer goes.
RetireClosed(h) ==
  /\ At(h, "try") /\ handler[h].kind = "close" /\ StillWanted(h) /\ Blocker(h) = "none"
  /\ index' = None
  /\ gate' = Freed(h)
  /\ Goto(h, "scan")
  /\ UNCHANGED <<doc, source, generation, draining, outside>>

\* scan_disk_file, outside every lock (reindex_index_from_disk after a close,
\* batch_reindex_from_disk after a watched change).
ScanDisk(h) ==
  /\ At(h, "scan")
  /\ handler' = [handler EXCEPT ![h].pc = "disk_gate", ![h].scan = disk]
  /\ UNCHANGED <<doc, source, index, generation, gate, draining, outside>>

\* publish_disk_results: three gates in this order, then the drain.
TakeDiskGate(h) ==
  /\ At(h, "disk_gate") /\ Acquire(h, "disk", "disk_rehoming")
  /\ UNCHANGED <<doc, source, index, generation, draining, outside>>

TakeDiskRehoming(h) ==
  /\ At(h, "disk_rehoming") /\ Acquire(h, "rehoming", "disk_live")
  /\ UNCHANGED <<doc, source, index, generation, draining, outside>>

TakeDiskLive(h) ==
  /\ At(h, "disk_live") /\ Acquire(h, "live", "disk_try")
  /\ draining' = draining \cup {h}
  /\ UNCHANGED <<doc, source, index, generation, outside>>

DiskBlocked == snapshots > 0 \/ contended # "none" \/ ~IndexFree

\* restart_disk_publication: both inner gates are dropped, the drain is kept.
RestartDisk(h) ==
  /\ At(h, "disk_try") /\ DiskBlocked
  /\ gate' = [gate EXCEPT !["live"] = 0, !["rehoming"] = 0]
  /\ Goto(h, "disk_rehoming")
  /\ UNCHANGED <<doc, source, index, generation, draining, outside>>

\* A handler of a watched event goes on to settle, or is done.
AfterDisk(h) ==
  IF handler[h].kind = "deleted"
    THEN /\ Goto(h, "settle") /\ draining' = draining \ {h}
         /\ gate' = [g \in DOMAIN gate |-> IF gate[g] = h /\ g # "watched" THEN 0 ELSE gate[g]]
    ELSE Finish(h)

\* What the event may remove: the file's source and view, or, for a buffer whose
\* file was deleted and that has been edited since, the view only.  A closed
\* file's scan says nothing about an open buffer.
RemovesSource(h) ==
  IF doc = None THEN handler[h].scan = None
                ELSE handler[h].kind = "deleted" /\ doc.orphan /\ handler[h].deleted = doc.rev
RemovesView(h) == RemovesSource(h) \/ (doc # None /\ handler[h].kind = "deleted" /\ doc.orphan)
ReplacesBoth(h) == doc = None /\ handler[h].scan # None

\* The locks are held: filtered by what is open now, all stores change at once.
ApplyDisk(h) ==
  /\ At(h, "disk_try") /\ ~DiskBlocked
  /\ source' = IF ReplacesBoth(h) THEN handler[h].scan
               ELSE IF RemovesSource(h) THEN None ELSE source
  /\ index' = IF ReplacesBoth(h) THEN [body |-> handler[h].scan, stamp |-> 0]
              ELSE IF RemovesView(h) THEN None ELSE index
  /\ AfterDisk(h)
  /\ UNCHANGED <<doc, generation, outside>>

-----------------------------------------------------------------------------
(* Watched-file events: the file of the document is deleted or comes back. *)

WatchedEvent(h) ==
  /\ Sent({"deleted", "created"}) < MaxWatched
  /\ Start(h, [IdleHandler EXCEPT !.pc = "watched_gate",
                                  !.kind = IF disk = None THEN "created" ELSE "deleted"])
  /\ disk' = IF disk = None THEN Disk ELSE None
  /\ UNCHANGED <<doc, source, index, dialect, generation, gate, draining, snapshots, contended, run,
                 others>>

\* The gate, and the partition of the events by what is open.
Classify(h) ==
  /\ At(h, "watched_gate")
  /\ Acquire(h, "watched", IF doc # None THEN "update"
                           ELSE IF handler[h].kind = "deleted" THEN "disk_gate" ELSE "scan")
  /\ UNCHANGED <<doc, source, index, generation, draining, outside>>

\* The buffer whose file came back: bump_analysis_generation.
Revive(d) == [d EXCEPT !.orphan = FALSE, !.rev = @ + 1, !.pub = "pending"]

\* update_watched_open_paths.
UpdateOpenPath(h) ==
  /\ At(h, "update")
  /\ \/ /\ handler[h].kind = "deleted"
        /\ doc' = IF doc = None THEN None
                  ELSE [doc EXCEPT !.orphan = TRUE, !.pub = IF @ = "pending" THEN @ ELSE "indexed"]
        /\ generation' = generation + 1
        /\ handler' = [handler EXCEPT ![h].pc = "disk_gate",
                                      ![h].deleted = IF doc = None THEN -1 ELSE doc.rev]
        /\ UNCHANGED <<gate, draining>>
     \/ /\ handler[h].kind = "created" /\ doc # None /\ doc.orphan
        /\ doc' = Revive(doc)
        /\ generation' = generation + 1
        /\ handler' = [handler EXCEPT ![h].pc = "live_gate", ![h].body = doc.body,
                                      ![h].rev = doc'.rev, ![h].seed = TRUE, ![h].opening = Opening]
        /\ UNCHANGED <<gate, draining>>
     \/ /\ handler[h].kind = "created" /\ ~(doc # None /\ doc.orphan)
        /\ Finish(h) /\ UNCHANGED <<doc, generation>>
  /\ UNCHANGED <<source, index, outside>>

\* settle_deleted_open_paths: the open or edit that was pending has been told to
\* give up, so the deletion ends the wait of its readers.
Settle(h) ==
  /\ At(h, "settle")
  /\ doc' = IF doc # None /\ doc.orphan /\ doc.rev = handler[h].deleted /\ doc.pub = "pending"
              THEN [doc EXCEPT !.pub = "indexed"] ELSE doc
  /\ Finish(h)
  /\ UNCHANGED <<source, index, generation, outside>>

-----------------------------------------------------------------------------
(* The rest of the server.                                                 *)

\* A diagnostics run captures a published document ...
CaptureRun ==
  /\ run = None /\ doc # None /\ doc.pub = "indexed" /\ others < MaxOthers
  /\ run' = [body |-> doc.body, rev |-> doc.rev]
  /\ others' = others + 1
  /\ UNCHANGED <<doc, source, index, dialect, disk, generation, gate, draining, snapshots, contended,
                 handler>>

\* ... and delivers its facts to the index, under the rehoming gate and the
\* documents map (publish_diagnostics_result).
DeliverRun ==
  /\ run # None /\ gate["rehoming"] = 0 /\ IndexFree
  /\ index' = IF doc = None \/ doc.rev # run.rev THEN index
              ELSE IF doc.orphan THEN None ELSE [body |-> run.body, stamp |-> 0]
  /\ run' = None
  /\ UNCHANGED <<doc, source, dialect, disk, generation, gate, draining, snapshots, contended, handler, others>>

\* A query clones the database, unless a setter is waiting for it.
TakeSnapshot ==
  /\ snapshots = 0 /\ draining = {} /\ contended # "database"
  /\ snapshots' = 1
  /\ UNCHANGED <<doc, source, index, dialect, disk, generation, gate, draining, contended, run, handler, others>>

DropSnapshot ==
  /\ snapshots > 0
  /\ snapshots' = 0
  /\ UNCHANGED <<doc, source, index, dialect, disk, generation, gate, draining, contended, run, handler, others>>

\* Another task holds a lock of the bundles for a while.
Contend ==
  /\ contended = "none" /\ others < MaxOthers
  /\ contended' \in BusyLocks
  /\ others' = others + 1
  /\ UNCHANGED <<doc, source, index, dialect, disk, generation, gate, draining, snapshots, run, handler>>

Release ==
  /\ contended # "none"
  /\ contended' = "none"
  /\ UNCHANGED <<doc, source, index, dialect, disk, generation, gate, draining, snapshots, run, handler, others>>

-----------------------------------------------------------------------------
Arrives(h) ==
  DidOpen(h) \/ DidChange(h) \/ Redialect(h) \/ DidClose(h) \/ WatchedEvent(h)

\* Steps that wait for a gate or a lock with a queue.
Queues(h) ==
  \/ Retire(h) \/ TakeGate(h) \/ Rejoin(h) \/ TakeRehoming(h) \/ ReplaceView(h) \/ Undo(h)
  \/ TakeDiskGate(h) \/ TakeDiskRehoming(h) \/ TakeDiskLive(h) \/ Classify(h)

Proceeds(h) ==
  \/ Superseded(h) \/ Refused(h) \/ Pause(h) \/ SetSource(h) \/ Mark(h)
  \/ RestoreView(h) \/ SeedAnalysed(h) \/ CheckCurrency(h) \/ Complete(h)
  \/ RetireClosed(h) \/ ScanDisk(h) \/ RestartDisk(h) \/ ApplyDisk(h)
  \/ UpdateOpenPath(h) \/ Settle(h)

Next ==
  \/ \E h \in Handlers : Arrives(h) \/ Queues(h) \/ Proceeds(h)
  \/ CaptureRun \/ DeliverRun \/ TakeSnapshot \/ DropSnapshot \/ Contend \/ Release

Spec == Init /\ [][Next]_vars

\* Every ready handler is polled, and tokio's locks are first come, first
\* served.  A query ends, and so does the tenure of another task's lock; nothing
\* stops new queries from starting.
Fairness ==
  /\ \A h \in Handlers : WF_vars(Queues(h) \/ Proceeds(h))
  /\ WF_vars(DeliverRun) /\ WF_vars(DropSnapshot) /\ WF_vars(Release)

FairSpec == Spec /\ Fairness

-----------------------------------------------------------------------------
(* Properties.                                                             *)

Labels == {"idle", "done", "retire", "live_gate", "try", "pause", "rejoin", "sleep", "mark", "restore",
           "seed", "rehoming_gate", "currency", "replace", "complete", "undo", "scan",
           "disk_gate", "disk_rehoming", "disk_live", "disk_try", "watched_gate", "update",
           "settle"}
Stored == Bodies \cup {Disk, None}

\* The state variables keep the shape of the code's types.
TypeOK ==
  /\ doc \in Documents \cup {None} /\ source \in Stored /\ index \in Entries \cup {None}
  /\ dialect \in Dialects /\ disk \in {Disk, None}
  /\ generation \in Nat
  /\ gate \in [{"live", "rehoming", "disk", "watched"} -> Handlers \cup {0}]
  /\ draining \subseteq Handlers
  /\ snapshots \in 0 .. 1
  /\ contended \in Locks \cup {"none"}
  /\ run = None \/ run \in [body : Bodies, rev : Nat]
  /\ \A h \in Handlers : handler[h].pc \in Labels

\* A reader that was let through because the document is published finds its
\* text in the database: the stage never runs ahead of the source, whatever
\* older publications, scans and deletions are still under way.  A buffer
\* whose file was deleted may have no source.
ReadyMeansSource ==
  doc # None /\ doc.pub # "pending" /\ "view" \notin doc.borrowed =>
    source = doc.body \/ (doc.orphan /\ source = None)

\* The last stage means that cross-file features find a view of the document:
\* no retirement, scan or stale writer takes it away afterwards.
IndexedMeansView ==
  doc # None /\ doc.pub = "indexed" /\ ~doc.orphan /\ doc.borrowed = {} => index # None

Quiet == run = None /\ \A h \in Handlers : handler[h].pc \in {"idle", "done"}

\* When all handlers have returned, nothing is left half published although
\* each of them may have given up in favour of another: an open document is
\* fully published, a buffer without a file has no view, and a closed file has
\* in both stores what was read from disk, never its closed buffer.
RestAgrees ==
  Quiet =>
    IF doc = None THEN /\ source \in {Disk, None}
                       /\ source = IF index = None THEN None ELSE index.body
                  ELSE doc.pub = "indexed" /\ (doc.orphan => index = None)

\* Every handler returns: neither the gates, taken in several orders, nor a
\* stream of queries that clone the database can hold a publication up, so
\* when no more messages come the server comes to rest.
PublicationsEnd == <>[]Quiet
=============================================================================
