------------------------- MODULE ClosedDiagnostics -------------------------
(***************************************************************************)
(* The diagnostics a closed file keeps (#865), for one file: the close     *)
(* tail, the watched-file handler and the configuration refresh re-read    *)
(* the file into the source store and publish its diagnostics from there,  *)
(* each run guarded by the per-URI generation (closed_diag_gen).           *)
(*                                                                         *)
(* A disk content is the number of the write that produced it.  A handler  *)
(* is interrupted at its awaits: reading the file, committing the source,  *)
(* starting a run, drawing its generation, delivering.  Watched-file       *)
(* handlers exclude each other (watched_file_change_gate); the others do   *)
(* not.  With one file the recency cap on closed badges is never reached.  *)
(* The names leave room for ConfigReload, whose reloads start the          *)
(* configuration refresh: ReloadProofs extends the two side by side.       *)
(***************************************************************************)
EXTENDS Integers

CONSTANTS None,           \* Option::None, and a file that is not there
          Buffer,         \* the text of the editor's buffer
          MaxOpens,       \* bound: times the editor opens the file again
          MaxReloads,     \* bound: configuration reloads
          MaxWrites,      \* bound: writes to the file by other programs
          MaxDeletes      \* bound: deletions of the file

\* Option::None is no number and no text.
ASSUME ClosedAssumption ==
  /\ {MaxOpens, MaxReloads, MaxWrites, MaxDeletes} \subseteq Nat
  /\ None \notin Int \cup {Buffer}

\* Room for every handler at once: each opening is followed by at most one
\* close, each change is reported at most once.
Refreshers == 1 .. (MaxOpens + 1 + MaxReloads + MaxWrites + MaxDeletes)

VARIABLES
  open,       \* documents.contains_key(uri)
  disk,       \* what the file holds
  writes, deletes, opens, reloads,   \* counted against their bounds
  unseen,     \* the watcher has not reported the last change yet
  gate,       \* watched_file_change_gate is held
  source,     \* the text of the source the store holds for this file
  gens,       \* closed_diag_gen[uri]
  cached,     \* pull_diag_cache.contains_key(uri)
  badge,      \* what the editor shows: the text the diagnostics are about
  handler,
  drawn,      \* history: how many generations have been drawn
  delivered,  \* history: the draw of the run that delivered last
  cleared     \* history: the last draw before the counter was retired

closedVars == <<open, opens, reloads, disk, writes, deletes, unseen, gate, source, gens, cached, badge, handler,
          drawn, delivered, cleared>>
files == <<reloads, opens, disk, writes, deletes, unseen>>
results == <<cached, badge, delivered>>

Contents == 0 .. MaxWrites
IdleHandler == [pc |-> "idle", kind |-> "none", badged |-> FALSE, text |-> None, gen |-> 0,
                draw |-> 0]

ClosedInit ==
  /\ open = TRUE
  /\ opens = 0 /\ reloads = 0
  /\ disk = 0 /\ writes = 0 /\ deletes = 0 /\ unseen = FALSE
  /\ gate = FALSE
  /\ source = Buffer
  /\ gens = None
  /\ cached = TRUE
  /\ badge = source
  /\ handler = [h \in Refreshers |-> IdleHandler]
  /\ drawn = 0 /\ delivered = 0 /\ cleared = 0

GoOn(h, l) == handler' = [handler EXCEPT ![h].pc = l]
Finish(h) ==
  /\ handler' = [handler EXCEPT ![h] = IdleHandler]
  /\ gate' = (gate /\ handler[h].kind # "watch")
Start(h, l, kind) ==
  /\ handler[h].pc = "idle" /\ \A k \in 1 .. h - 1 : handler[k].pc # "idle"
  /\ handler' = [handler EXCEPT ![h].pc = l, ![h].kind = kind,
                                ![h].badged = (kind = "watch" /\ cached)]

-----------------------------------------------------------------------------
(* The environment.                                                        *)

WriteFile ==
  /\ writes < MaxWrites
  /\ writes' = writes + 1 /\ disk' = writes + 1 /\ unseen' = TRUE
  /\ UNCHANGED <<open, opens, reloads, deletes, gate, source, gens, handler, drawn, results, cleared>>

DeleteFile ==
  /\ disk # None /\ deletes < MaxDeletes
  /\ deletes' = deletes + 1 /\ disk' = None /\ unseen' = TRUE
  /\ UNCHANGED <<open, opens, reloads, writes, gate, source, gens, handler, drawn, results, cleared>>

\* did_open, its publication and the diagnostics worker's first delivery.
DidOpen ==
  /\ ~open /\ opens < MaxOpens
  /\ opens' = opens + 1
  /\ open' = TRUE /\ source' = Buffer /\ cached' = TRUE /\ badge' = Buffer
  /\ UNCHANGED <<reloads, disk, writes, deletes, unseen, gate, gens, handler, drawn,
                 delivered, cleared>>

-----------------------------------------------------------------------------
(* The three handlers that refresh a closed file.                          *)

\* did_close, up to the re-read of the file.
DidClose(h) ==
  /\ open
  /\ open' = FALSE
  /\ Start(h, "scan", "close")
  /\ UNCHANGED <<files, gate, source, gens, drawn, results, cleared>>

\* did_change_watched_files: a deletion is committed as reported, a change is
\* re-read; whether the file carries a badge is decided now.  An open buffer
\* is left alone.
Watched(h) ==
  /\ unseen /\ ~gate
  /\ unseen' = FALSE
  /\ IF open THEN UNCHANGED <<handler, gate>>
     ELSE gate' = TRUE /\ Start(h, IF disk = None THEN "index" ELSE "scan", "watch")
  /\ UNCHANGED <<open, opens, reloads, disk, writes, deletes, source, gens, drawn, results, cleared>>

\* reschedule_closed_file_diagnostics, after a configuration reload.
ConfigRefresh(h) ==
  /\ ~open /\ cached /\ reloads < MaxReloads
  /\ reloads' = reloads + 1
  /\ Start(h, "begin", "reload")
  /\ UNCHANGED <<open, opens, disk, writes, deletes, unseen, gate, source, gens, drawn, results, cleared>>

\* scan_disk_file: the file is read (and analysed) holding no lock.
Scan(h) ==
  /\ handler[h].pc = "scan"
  /\ handler' = [handler EXCEPT ![h].pc = "index", ![h].text = disk]
  /\ UNCHANGED <<open, files, gate, source, gens, drawn, results, cleared>>

\* publish_disk_results: commit what was read, unless the file is open.  Then
\* the close tail always starts a run; a watched change only clears or
\* refreshes a badge.
Index(h) ==
  /\ handler[h].pc = "index"
  /\ source' = IF open THEN source ELSE handler[h].text
  /\ IF handler[h].kind = "watch" /\ ~handler[h].badged
       THEN Finish(h)
       ELSE /\ GoOn(h, IF handler[h].kind = "watch" /\ handler[h].text = None THEN "clear" ELSE "begin")
            /\ UNCHANGED gate
  /\ UNCHANGED <<open, files, gens, drawn, results, cleared>>

-----------------------------------------------------------------------------
(* publish_closed_file_diagnostics and clear_closed_diagnostics.           *)

\* The text is taken from the source store ...
Begin(h) ==
  /\ handler[h].pc = "begin"
  /\ IF open THEN Finish(h)
     ELSE /\ handler' = [handler EXCEPT ![h].text = source,
               ![h].pc = IF source = None THEN "clear" ELSE "draw"]
          /\ UNCHANGED gate
  /\ UNCHANGED <<open, files, source, gens, drawn, results, cleared>>

\* ... and only then, after the dialect and the decode evidence have been
\* resolved, is the generation drawn: next_closed_diag_generation.
DrawGeneration(h) ==
  /\ handler[h].pc = "draw"
  /\ gens' = (IF gens = None THEN 0 ELSE gens) + 1
  /\ drawn' = drawn + 1
  /\ handler' = [handler EXCEPT ![h].pc = "deliver", ![h].gen = gens', ![h].draw = drawn']
  /\ UNCHANGED <<open, files, gate, source, results, cleared>>

\* Mutant: the generation is not consulted.
IsCurrentIfClosed(h) == ~open

\* DeliveryCtx::is_current for a run on a closed file.
IsCurrent(h) == ~open /\ gens = handler[h].gen

Deliver(h) ==
  /\ handler[h].pc = "deliver"
  /\ IF IsCurrent(h)
       THEN badge' = handler[h].text /\ cached' = TRUE /\ delivered' = handler[h].draw
       ELSE UNCHANGED results
  /\ Finish(h)
  /\ UNCHANGED <<open, files, source, gens, drawn, cleared>>

\* The badge is cleared and the generation retired with it.
Clear(h) ==
  /\ handler[h].pc = "clear"
  /\ IF open THEN UNCHANGED <<gens, cached, badge, cleared>>
     ELSE cached' = FALSE /\ gens' = None /\ badge' = None /\ cleared' = drawn
  /\ Finish(h)
  /\ UNCHANGED <<open, files, source, drawn, delivered>>

-----------------------------------------------------------------------------

RefreshStep(h) ==
  Scan(h) \/ Index(h) \/ Begin(h) \/ DrawGeneration(h) \/ Deliver(h) \/ Clear(h)

ClosedNext ==
  \/ WriteFile \/ DeleteFile \/ DidOpen
  \/ \E h \in Refreshers :
       DidClose(h) \/ Watched(h) \/ ConfigRefresh(h) \/ RefreshStep(h)

ClosedSpec == ClosedInit /\ [][ClosedNext]_closedVars

-----------------------------------------------------------------------------
(* Properties.                                                             *)

\* The state variables keep their shape; generations are positive, and a
\* generation is only kept for a file the server has run on.
ClosedTypeOK ==
  /\ open \in BOOLEAN /\ unseen \in BOOLEAN /\ gate \in BOOLEAN /\ cached \in BOOLEAN
  /\ disk \in Contents \cup {None}
  /\ source \in Contents \cup {None, Buffer}
  /\ badge \in Contents \cup {None, Buffer}
  /\ gens \in (Nat \ {0}) \cup {None}
  /\ gate => \E h \in Refreshers : handler[h].kind = "watch"
  /\ gens # None => drawn >= gens

\* "an older run finishing after a newer one cannot republish stale
\* diagnostics": deliveries happen in the order the generations were drawn,
\* unless the counter was retired after the older draw.
NewerRunWins == [][delivered' >= delivered \/ delivered' <= cleared]_closedVars

Idle == \A h \in Refreshers : handler[h].pc = "idle"

\* Once every handler has returned, the source the store holds for a closed
\* file is what is on disk, as far as the watcher has reported it.
SourceTracksDisk == Idle /\ ~open /\ ~unseen => source = disk

\* Once every handler has returned, the badge of a closed file is about the
\* text the store holds for it; a file that is gone has no badge.
BadgeTracksSource == Idle /\ ~open /\ ~unseen /\ badge # None => badge = source
=============================================================================
