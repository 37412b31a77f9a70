----------------------- MODULE LivePublicationProofs -----------------------
(***************************************************************************)
(* Live publication of one document, for any number of messages, texts and *)
(* dialects and any tasks beside it.  The inductive invariant:             *)
(*                                                                         *)
(* World       what the state is made of;                                  *)
(* Paths       which kind of handler is at which step;                     *)
(* GatesHeld   which gates a handler holds at which step;                  *)
(* Ages        no handler knows a newer revision than the document's;      *)
(* Sole        one handler was called for the present revision;            *)
(* SourceInv   where a stage is announced, the source is the buffer;       *)
(* ViewInv     nothing takes the view of a published document away;        *)
(* Owed        what is not done yet, some handler still has to do.         *)
(***************************************************************************)
EXTENDS LivePublication, FiniteSetTheorems, TLAPS

Writers == {"open", "change", "dialect", "created"}
Kinds == Writers \cup {"none", "close", "deleted"}
Gates == {"live", "rehoming", "disk", "watched"}

\* The steps that commit the source, those that publish the view, those that
\* publish what the disk says; and those since TakeGate.
Committing == {"live_gate", "try", "pause", "rejoin", "sleep", "mark"}
Viewing == {"restore", "seed", "rehoming_gate", "currency", "replace", "complete", "undo"}
OnDisk == {"disk_gate", "disk_rehoming", "disk_live", "disk_try"}
Gated == {"try", "pause", "rejoin", "sleep", "mark"}
Publishing == Committing \cup Viewing \cup {"retire"}

Calls == [pc : Labels, kind : Kinds, body : Bodies \cup {None}, version : Nat, rev : Nat,
          seed : BOOLEAN, gen : Nat, scan : {Disk, None}, deleted : Int, opening : Nat]

World ==
  /\ TypeOK
  /\ handler \in [Handlers -> Calls]
  /\ doc # None => doc.opening = Opening /\ doc.opening > 0

Path(h) == LET c == handler[h] IN
  /\ c.pc = "idle" => c.kind = "none"
  /\ c.pc = "retire" => c.kind = "open"
  /\ c.pc \in Committing => c.kind \in Writers \cup {"close"}
  /\ c.pc \in Viewing \cup {"mark"} => c.kind \in Writers
  /\ c.pc \in OnDisk => c.kind \in {"close", "deleted", "created"}
  /\ c.pc = "scan" => c.kind \in {"close", "created"}
  /\ c.pc \in {"watched_gate", "update"} => c.kind \in {"deleted", "created"}
  /\ c.pc = "settle" => c.kind = "deleted"
  /\ c.pc \in Publishing /\ c.kind \in Writers => c.body \in Bodies
  /\ c.pc \in Publishing /\ c.kind \in Writers \ {"change"} => c.seed
  /\ c.pc \in Viewing => c.seed
  /\ c.opening > 0 => c.kind \in Writers /\ c.pc \in Publishing
Paths == \A h \in Handlers : Path(h)

Holding(h) == LET c == handler[h] IN
  /\ c.pc \in {"try", "pause", "sleep", "mark", "disk_try"} => gate["live"] = h
  /\ c.pc \in {"currency", "replace", "complete", "undo", "disk_live", "disk_try"} => gate["rehoming"] = h
  /\ c.kind = "deleted" /\ c.pc \in OnDisk \cup {"update", "settle"} => gate["watched"] = h
GatesHeld == \A h \in Handlers : Holding(h)

Age(h) ==
  /\ handler[h].gen <= generation
  /\ handler[h].opening <= Opening
  /\ doc # None /\ handler[h].opening = doc.opening => handler[h].rev <= doc.rev
  /\ doc # None /\ doc.orphan /\ handler[h].kind = "deleted" /\ handler[h].pc \in OnDisk \cup {"settle"}
       => handler[h].deleted <= doc.rev
Ages == \A h \in Handlers : Age(h)

\* h was called for the revision the document has now.
Current(h) == doc # None /\ ~Borrowed(h)
Sole == \A h, k \in Handlers : Current(h) /\ Current(k) => h = k

Sourced(h) ==
  /\ At(h, "mark") => source = handler[h].body
  /\ Current(h) /\ handler[h].pc \in Viewing => doc.pub # "pending"
  /\ handler[h].pc \in {"replace", "complete"} /\ Uninvalidated(h) => MatchesIndex(h)
  /\ At(h, "complete") /\ Uninvalidated(h) /\ "view" \notin doc.borrowed => Current(h)
  /\ At(h, "settle") /\ doc # None /\ doc.orphan /\ doc.rev = handler[h].deleted
       => source \in {None, doc.body}
SourceInv == ReadyMeansSource /\ \A h \in Handlers : Sourced(h)

\* The document has been promised a view: it is announced, or an edit relies on
\* the view of the revision before it.
Relies(h) == Current(h) /\ ~handler[h].seed /\ handler[h].pc \in Committing
Claimed ==
  /\ doc # None /\ ~doc.orphan /\ doc.borrowed = {}
  /\ doc.pub = "indexed" \/ \E h \in Handlers : Relies(h)

Viewed(h) ==
  /\ handler[h].pc \in {"retire", "complete", "undo"} => ~Claimed
  /\ Current(h) /\ handler[h].seed => ~Claimed
  /\ At(h, "mark") /\ handler[h].kind # "open" /\ Uninvalidated(h) /\ doc # None /\ Borrowed(h)
       => "source" \in doc.borrowed
  /\ At(h, "complete") /\ Uninvalidated(h) /\ doc.borrowed = {} => index # None
  /\ At(h, "complete") /\ (\E k \in Handlers : At(k, "retire")) => ~Uninvalidated(h)
ViewInv == (Claimed => index # None) /\ \A h \in Handlers : Viewed(h)

\* What h still has to do: commit the source of a pending document, settle a
\* deleted one, publish the view, remove it, read the closed file.
Fresh(h) == handler[h].pc \in Gated => Uninvalidated(h)
Commits(h) == /\ handler[h].kind \in Writers /\ handler[h].pc \in Committing \cup {"retire"}
              /\ MatchesSource(h) /\ Fresh(h)
Settles(h) == /\ handler[h].kind = "deleted" /\ handler[h].pc \in OnDisk \cup {"settle"}
              /\ doc.orphan /\ handler[h].deleted = doc.rev
Views(h) == /\ handler[h].pc \in Viewing \ {"undo"} /\ MatchesIndex(h)
            /\ handler[h].pc \in {"rehoming_gate", "currency", "replace", "complete"} => Uninvalidated(h)
Deletes(h) == handler[h].kind = "deleted" /\ handler[h].pc \in OnDisk
Closes(h) == /\ doc = None
             /\ \/ handler[h].kind = "close" /\ handler[h].pc \in Committing /\ Fresh(h)
                \/ handler[h].pc \in OnDisk \cup {"scan"}

\* A closed file's stores agree, and nobody is about to disturb them.
Agree == source \in {Disk, None} /\ source = IF index = None THEN None ELSE index.body
Undisturbed(h) ==
  /\ ~At(h, "retire")
  /\ handler[h].pc \in {"complete", "undo"} => index = None \/ index.stamp # h

Owed ==
  /\ doc # None /\ doc.pub = "pending" => \E h \in Handlers : Commits(h) \/ Settles(h)
  /\ doc # None /\ doc.pub = "salsa" => \E h \in Handlers : Views(h)
  /\ doc # None /\ doc.orphan /\ index # None => \E h \in Handlers : Deletes(h)
  /\ doc = None => \/ \E h \in Handlers : Closes(h)
                   \/ Agree /\ \A h \in Handlers : Undisturbed(h)

Inductive == World /\ Paths /\ GatesHeld /\ Ages /\ Sole /\ SourceInv /\ ViewInv /\ Owed

-----------------------------------------------------------------------------
(* What a step does to the handlers.                                       *)

Typed == handler' \in [Handlers -> Calls]
Others(h) == \A k \in Handlers \ {h} : handler'[k] = handler[k]
Stands == UNCHANGED <<doc, source, index, generation>>

\* The call goes on at step l, or returns.
Passes(h, l) ==
  /\ Typed /\ Others(h)
  /\ handler'[h].pc = l /\ handler'[h].kind = handler[h].kind /\ handler'[h].body = handler[h].body
  /\ handler'[h].version = handler[h].version /\ handler'[h].rev = handler[h].rev
  /\ handler'[h].seed = handler[h].seed /\ handler'[h].deleted = handler[h].deleted
  /\ handler'[h].opening = handler[h].opening
Returns(h) ==
  /\ Typed /\ Others(h)
  /\ handler'[h].pc = "done" /\ handler'[h].kind = handler[h].kind
  /\ handler'[h].gen = 0 /\ handler'[h].opening = 0 /\ handler'[h].rev = 0 /\ handler'[h].seed = FALSE

\* A handler that has not been called.
LEMMA IdleCall == IdleHandler \in Calls
BY PublicationAssumption DEF IdleHandler, Calls, Labels, Kinds

\* A call that goes on at another step.
LEMMA GotoPasses ==
  ASSUME World, NEW h \in Handlers, NEW l \in Labels, Goto(h, l)
  PROVE  Passes(h, l) /\ handler'[h].gen = handler[h].gen /\ handler'[h].scan = handler[h].scan
<1>1. handler \in [Handlers -> Calls] /\ handler[h] \in Calls
  BY DEF World
<1>2. [handler[h] EXCEPT !.pc = l] \in Calls
  BY <1>1 DEF Calls
<1>3. handler' = [handler EXCEPT ![h] = [handler[h] EXCEPT !.pc = l]]
  BY DEF Goto
<1>4. Typed /\ Others(h) /\ handler'[h] = [handler[h] EXCEPT !.pc = l]
  BY <1>1, <1>2, <1>3 DEF Typed, Others
<1> QED BY <1>1, <1>4 DEF Passes, Calls

\* A call that goes on with the generation of the moment.
LEMMA SamplePasses ==
  ASSUME World, NEW h \in Handlers, NEW l \in Labels,
         handler' = [handler EXCEPT ![h].pc = l, ![h].gen = generation]
  PROVE  Passes(h, l) /\ handler'[h].gen = generation /\ handler'[h].scan = handler[h].scan
<1> DEFINE c == [handler[h] EXCEPT !.pc = l, !.gen = generation]
<1>1. handler \in [Handlers -> Calls] /\ handler[h] \in Calls /\ generation \in Nat
  BY DEF World, TypeOK
<1>2. c \in Calls
  BY <1>1 DEF Calls
<1>3. handler' = [handler EXCEPT ![h] = c]
  OBVIOUS
<1>4. Typed /\ Others(h) /\ handler'[h] = c
  BY <1>1, <1>2, <1>3 DEF Typed, Others
<1> QED BY <1>1, <1>4 DEF Passes, Calls

\* A call that returns forgets what it was for.
LEMMA FinishReturns ==
  ASSUME World, NEW h \in Handlers, Finish(h)
  PROVE  Returns(h) /\ gate' = Freed(h)
<1> DEFINE c == [IdleHandler EXCEPT !.pc = "done", !.kind = handler[h].kind]
<1>1. handler \in [Handlers -> Calls] /\ handler[h].kind \in Kinds
  BY DEF World, Calls
<1>2. c \in Calls
  BY <1>1, IdleCall DEF Calls, Labels
<1>3. handler' = [handler EXCEPT ![h] = c]
  BY DEF Finish
<1>4. Typed /\ Others(h) /\ handler'[h] = c
  BY <1>1, <1>2, <1>3 DEF Typed, Others
<1>5. c.pc = "done" /\ c.kind = handler[h].kind /\ c.gen = 0 /\ c.opening = 0 /\ c.rev = 0 /\ c.seed = FALSE
  BY DEF IdleHandler
<1> QED BY <1>4, <1>5 DEF Returns, Finish

\* A message's handler starts.
LEMMA StartStarts ==
  ASSUME World, Paths, NEW h \in Handlers, NEW c \in Calls, Start(h, c)
  PROVE  /\ Typed /\ Others(h) /\ handler'[h] = c
         /\ handler[h].pc = "idle" /\ handler[h].kind = "none" /\ handler[h].opening <= 0
<1>1. handler \in [Handlers -> Calls] /\ handler[h] \in Calls
  BY DEF World
<1>2. handler[h].pc = "idle" /\ handler' = [handler EXCEPT ![h] = c]
  BY DEF Start
<1>3. handler[h].kind = "none" /\ ~(handler[h].opening > 0)
  BY <1>2 DEF Paths, Path, Publishing, Writers
<1> QED BY <1>1, <1>2, <1>3 DEF Typed, Others, Calls

\* How often the document has been opened.
LEMMA OpeningIsANumber == Opening \in Nat
<1>1. IsFiniteSet(Handlers)
  BY PublicationAssumption, FS_Interval DEF Handlers
<1> QED BY <1>1, FS_Subset, FS_CardinalityType DEF Opening, Sent

\* No message opens the document ...
LEMMA OpeningKept ==
  ASSUME \A k \in Handlers : handler'[k].kind = "open" <=> handler[k].kind = "open"
  PROVE  Opening' = Opening
<1>1. {k \in Handlers : handler'[k].kind \in {"open"}} = {k \in Handlers : handler[k].kind \in {"open"}}
  OBVIOUS
<1> QED BY <1>1 DEF Opening, Sent

\* ... or h does.
LEMMA OpeningMoves ==
  ASSUME NEW h \in Handlers, Others(h), handler[h].kind # "open", handler'[h].kind = "open"
  PROVE  Opening' = Opening + 1
<1> DEFINE S == {k \in Handlers : handler[k].kind \in {"open"}}
           T == {k \in Handlers : handler'[k].kind \in {"open"}}
<1>1. T = S \cup {h} /\ h \notin S
  BY DEF Others
<1>2. IsFiniteSet(S)
  <2>1. IsFiniteSet(Handlers) /\ S \subseteq Handlers
    BY PublicationAssumption, FS_Interval DEF Handlers
  <2> QED BY <2>1, FS_Subset
<1>3. Cardinality(T) = Cardinality(S) + 1
  BY <1>1, <1>2, FS_AddElement
<1> QED BY <1>3 DEF Opening, Sent

-----------------------------------------------------------------------------
(* Steps that only move a handler on: they look at the document, take and  *)
(* leave gates, sample the generation or give up.                          *)

Walking(h) ==
  \/ TakeGate(h) \/ Superseded(h) \/ Refused(h) \/ Pause(h) \/ Rejoin(h)
  \/ RestoreView(h) \/ SeedAnalysed(h) \/ TakeRehoming(h) \/ CheckCurrency(h)
  \/ ScanDisk(h) \/ TakeDiskGate(h) \/ TakeDiskRehoming(h) \/ TakeDiskLive(h) \/ RestartDisk(h)
  \/ Classify(h)

\* What such a step to l may do.
Ahead(h, l) ==
  /\ l \notin {"idle", "done", "retire", "mark", "complete", "undo", "settle"}
  /\ l = "replace" => MatchesIndex(h)
  /\ l \in Viewing <=> handler[h].pc \in Viewing
  /\ l \in Committing <=> handler[h].pc \in Committing
  /\ l \in OnDisk /\ handler[h].kind = "deleted" => handler[h].pc \in OnDisk \/ doc = None

KeepsDuties(h) ==
  /\ Commits(h) => Commits(h)'
  /\ Settles(h) => Settles(h)'
  /\ Views(h) => Views(h)'
  /\ Deletes(h) => Deletes(h)'
  /\ Closes(h) => Closes(h)'
Undutiful(h) == ~Commits(h) /\ ~Settles(h) /\ ~Views(h) /\ ~Deletes(h) /\ ~Closes(h)

Walks(h) ==
  /\ Stands
  /\ \/ Returns(h) /\ Undutiful(h)
     \/ \E l \in Labels : /\ Passes(h, l) /\ Ahead(h, l) /\ handler'[h].gen \in {handler[h].gen, generation}
                          /\ Path(h)' /\ KeepsDuties(h)

\* Where the document stands and the call goes on, what it compares stays.
LEMMA Compared ==
  ASSUME NEW h \in Handlers, NEW l \in Labels, Passes(h, l), Stands
  PROVE  /\ MatchesSource(h)' = MatchesSource(h) /\ MatchesIndex(h)' = MatchesIndex(h)
         /\ handler'[h].gen = generation => Uninvalidated(h)'
         /\ handler'[h].gen = handler[h].gen => Uninvalidated(h)' = Uninvalidated(h)
<1>1. doc' = doc /\ generation' = generation
  BY DEF Stands
<1>2. SameBody(h)' = SameBody(h)
  BY <1>1 DEF SameBody, Passes
<1>3. MatchesSource(h)' = MatchesSource(h)
  BY <1>1, <1>2 DEF MatchesSource, Passes
<1> QED BY <1>1, <1>3 DEF MatchesIndex, Uninvalidated

\* A handler that is not yet under the gate takes its sample later.
LEMMA DutiesKept ==
  ASSUME NEW h \in Handlers, NEW l \in Labels, Passes(h, l), Stands,
         handler[h].pc \in Committing => l \in Committing,
         handler[h].pc \in OnDisk \cup {"scan"} => l \in OnDisk,
         handler[h].pc \in Viewing => l \in Viewing \ {"undo"},
         handler[h].pc \notin {"retire", "settle"},
         l \in Gated => handler'[h].gen = generation \/ (handler'[h].gen = handler[h].gen /\ handler[h].pc \in Gated),
         l \in {"rehoming_gate", "currency", "replace", "complete"} =>
           \/ handler'[h].gen = generation
           \/ /\ handler'[h].gen = handler[h].gen
              /\ handler[h].pc \in {"rehoming_gate", "currency", "replace", "complete"}
  PROVE  KeepsDuties(h)
<1>1. doc' = doc /\ handler'[h].pc = l /\ handler'[h].kind = handler[h].kind /\ handler'[h].deleted = handler[h].deleted
  BY DEF Stands, Passes
<1>2. Commits(h) => Commits(h)'
  BY <1>1, Compared DEF Commits, Fresh
<1>3. Views(h) => Views(h)'
  BY <1>1, Compared DEF Views
<1>4. (Settles(h) => Settles(h)') /\ (Deletes(h) => Deletes(h)')
  BY <1>1 DEF Settles, Deletes
<1>5. Closes(h) => Closes(h)'
  BY <1>1, Compared DEF Closes, Fresh
<1> QED BY <1>2, <1>3, <1>4, <1>5 DEF KeepsDuties

\* Steps within the source's commit, within the view's publication and within
\* what the disk says.
LEMMA WalksOn ==
  ASSUME World, Paths, NEW h \in Handlers, NEW l \in Labels, Passes(h, l), Stands,
         handler'[h].gen \in {handler[h].gen, generation},
         \/ handler[h].pc \in Committing /\ l \in Committing \ {"mark"}
         \/ /\ handler[h].pc \in Viewing /\ l \in Viewing \ {"complete", "undo"}
            /\ l = "replace" => MatchesIndex(h)
         \/ handler[h].pc \in OnDisk \cup {"scan"} /\ l \in OnDisk,
         KeepsDuties(h)
  PROVE  Walks(h)
<1>1. Ahead(h, l)
  <2>1. handler[h].kind = "deleted" => handler[h].pc # "scan"
    BY DEF Paths, Path
  <2> QED BY <2>1 DEF Ahead, Committing, Viewing, OnDisk
<1>2. Path(h)'
  <2>1. Path(h)
    BY DEF Paths
  <2> QED BY <2>1 DEF Path, Passes, Committing, Viewing, OnDisk, Publishing, Writers
<1> QED BY <1>1, <1>2 DEF Walks

\* The commit loop moves on or gives up without touching a store.
LEMMA CommitWalks ==
  ASSUME World, Paths, NEW h \in Handlers,
         TakeGate(h) \/ Superseded(h) \/ Refused(h) \/ Pause(h) \/ Rejoin(h)
  PROVE  Walks(h)
<1>1. Stands
  BY DEF TakeGate, Superseded, Refused, Pause, Rejoin, Stands
<1>2. {"try", "pause", "rejoin", "sleep"} \subseteq Labels
  BY DEF Labels
<1>3. CASE TakeGate(h)
  <2>1. Passes(h, "try") /\ handler'[h].gen = generation /\ At(h, "live_gate")
    BY <1>2, <1>3, SamplePasses DEF TakeGate
  <2>2. KeepsDuties(h)
    BY <1>1, <1>2, <2>1, DutiesKept DEF At, Committing, Viewing, OnDisk, Gated
  <2> QED BY <1>1, <1>2, <2>1, <2>2, WalksOn DEF At, Committing
<1>4. CASE Superseded(h)
  <2>1. Returns(h) /\ At(h, "try") /\ ~StillWanted(h)
    BY <1>4, FinishReturns DEF Superseded
  <2>2. ~Settles(h) /\ ~Views(h) /\ ~Deletes(h)
    BY <2>1 DEF Settles, Views, Deletes, At, OnDisk, Viewing
  <2>3. ~Commits(h) /\ ~Closes(h)
    BY <2>1 DEF Commits, Closes, StillWanted, At, OnDisk, Fresh, Gated, Writers
  <2> QED BY <1>1, <2>1, <2>2, <2>3 DEF Walks, Undutiful
<1>5. ASSUME NEW l \in {"try", "pause", "rejoin", "sleep"}, Goto(h, l),
             handler[h].pc \in {"try", "pause", "rejoin", "sleep"}
      PROVE  Walks(h)
  <2>1. Passes(h, l) /\ handler'[h].gen = handler[h].gen
    BY <1>2, <1>5, GotoPasses
  <2>2. KeepsDuties(h)
    BY <1>1, <1>2, <1>5, <2>1, DutiesKept DEF Committing, Viewing, OnDisk, Gated
  <2> QED BY <1>1, <1>2, <1>5, <2>1, <2>2, WalksOn DEF Committing
<1>6. CASE Refused(h)
  BY <1>5, <1>6 DEF Refused, At
<1>7. CASE Rejoin(h)
  BY <1>5, <1>7 DEF Rejoin, At, Acquire
<1>8. CASE Pause(h)
  <2>1. CASE ~Uninvalidated(h) /\ Finish(h)
    <3>1. Returns(h) /\ handler[h].pc \in {"pause", "sleep"}
      BY <1>8, <2>1, FinishReturns DEF Pause, At
    <3>2. Undutiful(h)
      BY <2>1, <3>1 DEF Undutiful, Commits, Settles, Views, Deletes, Closes, Fresh, Gated, OnDisk, Viewing
    <3> QED BY <1>1, <3>1, <3>2 DEF Walks
  <2>2. CASE Goto(h, "try") \/ Goto(h, "rejoin")
    BY <1>5, <1>8, <2>2 DEF Pause, At
  <2> QED BY <1>8, <2>1, <2>2 DEF Pause
<1> QED BY <1>3, <1>4, <1>6, <1>7, <1>8

\* So do the steps before the view is written,
LEMMA ViewWalks ==
  ASSUME World, Paths, NEW h \in Handlers,
         RestoreView(h) \/ SeedAnalysed(h) \/ TakeRehoming(h) \/ CheckCurrency(h)
  PROVE  Walks(h)
<1>1. Stands
  BY DEF RestoreView, SeedAnalysed, TakeRehoming, CheckCurrency, Stands
<1>2. {"seed", "rehoming_gate", "currency", "replace"} \subseteq Labels
  BY DEF Labels
<1>3. CASE SeedAnalysed(h)
  <2>1. Passes(h, "rehoming_gate") /\ handler'[h].gen = generation /\ At(h, "seed")
    BY <1>2, <1>3, SamplePasses DEF SeedAnalysed
  <2>2. KeepsDuties(h)
    BY <1>1, <1>2, <2>1, DutiesKept DEF At, Committing, Viewing, OnDisk, Gated
  <2> QED BY <1>1, <1>2, <2>1, <2>2, WalksOn DEF At, Viewing
<1>4. ASSUME NEW l \in {"seed", "currency", "replace"}, Goto(h, l), l = "replace" => MatchesIndex(h),
             \/ handler[h].pc = "restore" /\ l = "seed"
             \/ handler[h].pc \in {"rehoming_gate", "currency"} /\ l \in {"currency", "replace"}
      PROVE  Walks(h)
  <2>1. Passes(h, l) /\ handler'[h].gen = handler[h].gen
    BY <1>2, <1>4, GotoPasses
  <2>2. KeepsDuties(h)
    BY <1>1, <1>2, <1>4, <2>1, DutiesKept DEF Committing, Viewing, OnDisk, Gated
  <2> QED BY <1>1, <1>2, <1>4, <2>1, <2>2, WalksOn DEF Viewing
<1>5. CASE TakeRehoming(h)
  BY <1>4, <1>5 DEF TakeRehoming, At, Acquire
<1>6. CASE RestoreView(h) /\ MatchesIndex(h)
  BY <1>4, <1>6 DEF RestoreView, At
<1>7. CASE CheckCurrency(h) /\ MatchesIndex(h) /\ Uninvalidated(h)
  BY <1>4, <1>7 DEF CheckCurrency, At
<1>8. CASE \/ RestoreView(h) /\ ~MatchesIndex(h)
           \/ CheckCurrency(h) /\ ~(MatchesIndex(h) /\ Uninvalidated(h))
  <2>1. Returns(h) /\ handler[h].pc \in {"restore", "currency"}
    BY <1>8, FinishReturns DEF RestoreView, CheckCurrency, At
  <2>2. ~Views(h)
    BY <1>8 DEF Views, CheckCurrency, At
  <2>3. Undutiful(h)
    BY <2>1, <2>2 DEF Undutiful, Commits, Settles, Deletes, Closes, Committing, OnDisk
  <2> QED BY <1>1, <2>1, <2>3 DEF Walks
<1> QED BY <1>3, <1>5, <1>6, <1>7, <1>8

\* those that wait for the three gates of a scan,
LEMMA DiskWalks ==
  ASSUME World, Paths, NEW h \in Handlers,
         ScanDisk(h) \/ TakeDiskGate(h) \/ TakeDiskRehoming(h) \/ TakeDiskLive(h) \/ RestartDisk(h)
  PROVE  Walks(h)
<1>1. Stands
  BY DEF ScanDisk, TakeDiskGate, TakeDiskRehoming, TakeDiskLive, RestartDisk, Stands
<1>2. OnDisk \subseteq Labels
  BY DEF Labels, OnDisk
<1>3. ASSUME NEW l \in OnDisk, Passes(h, l), handler'[h].gen = handler[h].gen,
             handler[h].pc \in OnDisk \cup {"scan"}
      PROVE  Walks(h)
  <2>1. KeepsDuties(h)
    BY <1>1, <1>2, <1>3, DutiesKept DEF Committing, Viewing, OnDisk, Gated
  <2> QED BY <1>1, <1>2, <1>3, <2>1, WalksOn
<1>4. CASE ScanDisk(h)
  <2> DEFINE c == [handler[h] EXCEPT !.pc = "disk_gate", !.scan = disk]
  <2>1. handler \in [Handlers -> Calls] /\ handler[h] \in Calls /\ disk \in {Disk, None}
    BY DEF World, TypeOK
  <2>2. c \in Calls /\ handler' = [handler EXCEPT ![h] = c]
    BY <1>4, <2>1 DEF Calls, ScanDisk, Labels
  <2>3. Typed /\ Others(h) /\ handler'[h] = c
    BY <2>1, <2>2 DEF Typed, Others
  <2>4. Passes(h, "disk_gate") /\ handler'[h].gen = handler[h].gen
    BY <2>1, <2>3 DEF Passes, Calls
  <2> QED BY <1>3, <1>4, <2>4 DEF ScanDisk, At, OnDisk
<1>5. CASE ~ScanDisk(h)
  <2>1. PICK l \in OnDisk : Goto(h, l) /\ handler[h].pc \in OnDisk
    BY <1>5 DEF TakeDiskGate, TakeDiskRehoming, TakeDiskLive, RestartDisk, At, Acquire, OnDisk
  <2> QED BY <1>2, <1>3, <2>1, GotoPasses
<1> QED BY <1>4, <1>5

\* and the partition of a watched event.
LEMMA ClassifyWalks ==
  ASSUME World, Paths, NEW h \in Handlers, Classify(h)
  PROVE  Walks(h)
<1> DEFINE l == IF doc # None THEN "update" ELSE IF handler[h].kind = "deleted" THEN "disk_gate" ELSE "scan"
<1>1. Stands /\ handler[h].pc = "watched_gate" /\ Goto(h, l) /\ l \in Labels
  BY DEF Classify, Stands, At, Acquire, Labels
<1>2. Passes(h, l) /\ handler'[h].gen = handler[h].gen
  BY <1>1, GotoPasses
<1>3. l \in {"update", "disk_gate", "scan"} /\ (l \in OnDisk => doc = None) /\ (l = "scan" => handler[h].kind # "deleted")
  BY DEF OnDisk
<1> HIDE DEF l
<1>4. Ahead(h, l)
  BY <1>1, <1>3 DEF Ahead, Viewing, Committing, OnDisk
<1>5. Path(h)'
  <2>1. Path(h)
    BY DEF Paths
  <2> QED BY <1>1, <1>2, <1>3, <2>1 DEF Path, Passes, Committing, Viewing, OnDisk, Publishing, Writers
<1>6. KeepsDuties(h)
  BY <1>1 DEF KeepsDuties, Commits, Settles, Views, Deletes, Closes, Committing, Viewing, OnDisk
<1> QED BY <1>1, <1>2, <1>4, <1>5, <1>6 DEF Walks

\* Every such step is one.
LEMMA WalkingWalks ==
  ASSUME World, Paths, NEW h \in Handlers, Walking(h)
  PROVE  Walks(h)
BY CommitWalks, ViewWalks, DiskWalks, ClassifyWalks DEF Walking

-----------------------------------------------------------------------------
(* Steps of one handler, summed up.                                        *)

\* A handler that finds its document moved on.
LEMMA GiveUpWalks ==
  ASSUME World, Paths, NEW h \in Handlers,
         \/ Mark(h) /\ ~StillWanted(h)
         \/ ReplaceView(h) /\ ~Uninvalidated(h)
         \/ UpdateOpenPath(h) /\ handler[h].kind = "created" /\ (doc = None \/ ~doc.orphan)
  PROVE  Walks(h)
<1>1. CASE Mark(h) /\ ~StillWanted(h)
  <2>1. Returns(h) /\ handler[h].pc = "mark" /\ Stands /\ handler[h].kind \in Writers
    BY <1>1, FinishReturns DEF Mark, At, Stands, Paths, Path
  <2>2. ~Commits(h)
    BY <1>1, <2>1 DEF Commits, StillWanted, Fresh, Gated, Writers
  <2>3. Undutiful(h)
    BY <2>1, <2>2 DEF Undutiful, Settles, Views, Deletes, Closes, OnDisk, Viewing, Writers
  <2> QED BY <2>1, <2>3 DEF Walks
<1>2. CASE ReplaceView(h) /\ ~Uninvalidated(h)
  <2>1. Returns(h) /\ handler[h].pc = "replace" /\ Stands
    BY <1>2, FinishReturns DEF ReplaceView, At, Stands
  <2>2. Undutiful(h)
    BY <1>2, <2>1 DEF Undutiful, Commits, Settles, Views, Deletes, Closes, OnDisk, Committing
  <2> QED BY <2>1, <2>2 DEF Walks
<1>3. CASE UpdateOpenPath(h) /\ handler[h].kind = "created" /\ (doc = None \/ ~doc.orphan)
  <2>1. Returns(h) /\ handler[h].pc = "update" /\ Stands
    BY <1>3, FinishReturns DEF UpdateOpenPath, At, Stands
  <2>2. Undutiful(h)
    BY <1>3, <2>1 DEF Undutiful, Commits, Settles, Views, Deletes, Closes, OnDisk, Committing, Viewing
  <2> QED BY <2>1, <2>2 DEF Walks
<1> QED BY <1>1, <1>2, <1>3

\* A call for a text, whatever its message.
Call(l, kd, b, s, o, r) ==
  [IdleHandler EXCEPT !.pc = l, !.kind = kd, !.body = b, !.seed = s, !.opening = o, !.rev = r]

\* Such a call is well formed.
LEMMA CallMade ==
  ASSUME NEW l \in Labels, NEW kd \in Kinds, NEW b \in Bodies, NEW s \in BOOLEAN,
         NEW o \in Nat, NEW r \in Nat
  PROVE  LET c == Call(l, kd, b, s, o, r) IN
         /\ c \in Calls /\ c.pc = l /\ c.kind = kd /\ c.body = b /\ c.seed = s /\ c.opening = o
         /\ c.rev = r /\ c.version = 0 /\ c.gen = 0
<1> DEFINE c == Call(l, kd, b, s, o, r)
<1>1. c \in Calls
  BY IdleCall DEF Call, Calls
<1>2. /\ c.pc = l /\ c.kind = kd /\ c.body = b /\ c.seed = s /\ c.opening = o
      /\ c.rev = r /\ c.version = 0 /\ c.gen = 0
  BY DEF Call, IdleHandler
<1> QED BY <1>1, <1>2

\* The document gets a new revision, and h was called for it.
Revises(h) ==
  /\ Typed /\ Others(h) /\ handler[h].pc \in {"idle", "update"}
  /\ UNCHANGED <<source, index>> /\ generation' = generation + 1
  /\ doc' \in Documents /\ doc'.pub = "pending" /\ doc'.opening = Opening'
  /\ handler'[h].kind \in Writers /\ handler'[h].pc = IF handler'[h].kind = "open" THEN "retire" ELSE "live_gate"
  /\ handler'[h].body = doc'.body /\ handler'[h].rev = doc'.rev /\ handler'[h].opening = doc'.opening
  /\ handler'[h].gen <= generation
  /\ handler'[h].kind = "open" => handler'[h].version = doc'.version /\ ~doc'.orphan
  /\ \/ handler'[h].seed
     \/ /\ handler'[h].kind = "change" /\ doc # None /\ doc.pub = "indexed"
        /\ doc'.orphan = doc.orphan /\ doc'.borrowed = doc.borrowed
  /\ \/ doc = None /\ Opening' = Opening + 1 /\ ~doc'.orphan
     \/ /\ doc # None /\ Opening' = Opening /\ doc'.rev = doc.rev + 1
        /\ doc'.orphan => doc.orphan

\* did_open starts the first revision of an opening.
LEMMA OpenRevises ==
  ASSUME World, Paths, NEW h \in Handlers, DidOpen(h)
  PROVE  Revises(h)
<1> PICK t \in Texts :
       /\ doc' = [body |-> <<t, dialect>>, version |-> 0, rev |-> 0, pub |-> "pending", orphan |-> FALSE,
                  opening |-> Opening + 1, borrowed |-> {}]
       /\ Start(h, [IdleHandler EXCEPT !.pc = "retire", !.kind = "open", !.body = <<t, dialect>>,
                                       !.seed = TRUE, !.opening = Opening + 1])
  BY DEF DidOpen
<1> DEFINE b == <<t, dialect>>
           c == [IdleHandler EXCEPT !.pc = "retire", !.kind = "open", !.body = b,
                                    !.seed = TRUE, !.opening = Opening + 1]
<1>1. doc = None /\ UNCHANGED <<source, index>> /\ generation' = generation + 1 /\ Opening \in Nat
      /\ b \in Bodies /\ generation \in Nat
  BY OpeningIsANumber DEF DidOpen, World, TypeOK, Bodies
<1> HIDE DEF b
<1>4. Start(h, c)
  BY DEF b
<1>2. c \in Calls
  <2>1. "retire" \in Labels /\ "open" \in Kinds /\ Opening + 1 \in Nat
    BY <1>1 DEF Labels, Kinds, Writers
  <2> QED BY <1>1, <2>1, IdleCall DEF Calls
<1>3. /\ c \in Calls /\ c.pc = "retire" /\ c.kind = "open" /\ c.body = b /\ c.seed = TRUE
      /\ c.opening = Opening + 1 /\ c.rev = 0 /\ c.version = 0 /\ c.gen = 0
  BY <1>2 DEF IdleHandler
<1> HIDE DEF c
<1>5. Typed /\ Others(h) /\ handler'[h] = c /\ handler[h].pc = "idle" /\ handler[h].kind = "none"
  BY <1>3, <1>4, StartStarts
<1>6. Opening' = Opening + 1
  BY <1>3, <1>5, OpeningMoves
<1>7. /\ doc' \in Documents /\ doc'.pub = "pending" /\ doc'.opening = Opening + 1 /\ doc'.rev = 0
      /\ doc'.version = 0 /\ doc'.orphan = FALSE /\ doc'.body = b
  BY <1>1 DEF Documents, b
<1> QED BY <1>1, <1>3, <1>5, <1>6, <1>7 DEF Revises, Writers

\* did_change starts a revision; only an edit of an indexed document seeds nothing.
LEMMA ChangeRevises ==
  ASSUME World, Paths, NEW h \in Handlers, DidChange(h)
  PROVE  Revises(h)
<1> PICK t \in Texts :
       /\ doc' = [doc EXCEPT !.body = <<t, @[2]>>, !.version = @ + 1, !.rev = @ + 1, !.pub = "pending"]
       /\ Start(h, [IdleHandler EXCEPT !.pc = "live_gate", !.kind = "change", !.body = <<t, doc.body[2]>>,
                                       !.opening = Opening, !.rev = doc.rev + 1, !.seed = doc.pub # "indexed"])
  BY DEF DidChange
<1> DEFINE b == <<t, doc.body[2]>>
           s == doc.pub # "indexed"
           c == [IdleHandler EXCEPT !.pc = "live_gate", !.kind = "change", !.body = b,
                                    !.opening = Opening, !.rev = doc.rev + 1, !.seed = s]
<1>1. /\ doc # None /\ UNCHANGED <<source, index>> /\ generation' = generation + 1 /\ Opening \in Nat
      /\ doc \in Documents /\ doc.body \in Bodies /\ doc.rev \in Nat /\ doc.version \in Nat /\ generation \in Nat
      /\ doc.opening = Opening
  BY OpeningIsANumber DEF DidChange, World, TypeOK, Documents
<1>2. b \in Bodies /\ s \in BOOLEAN
  BY <1>1 DEF Bodies
<1>3. Start(h, c)
  OBVIOUS
<1>4. doc' = [doc EXCEPT !.body = b, !.version = doc.version + 1, !.rev = doc.rev + 1, !.pub = "pending"]
  BY <1>1 DEF Documents
<1> HIDE DEF b, s
<1>5. doc.rev + 1 \in Nat /\ "live_gate" \in Labels /\ "change" \in Kinds
  BY <1>1 DEF Labels, Kinds, Writers
<1>10. c = Call("live_gate", "change", b, s, Opening, doc.rev + 1)
  BY DEF Call, IdleHandler
<1> HIDE DEF c
<1>6. /\ c \in Calls /\ c.pc = "live_gate" /\ c.kind = "change" /\ c.body = b /\ c.seed = s
      /\ c.opening = Opening /\ c.rev = doc.rev + 1 /\ c.gen = 0
  BY <1>1, <1>2, <1>5, <1>10, CallMade
<1>7. Typed /\ Others(h) /\ handler'[h] = c /\ handler[h].pc = "idle" /\ handler[h].kind = "none"
  BY <1>3, <1>6, StartStarts
<1>8. Opening' = Opening
  BY <1>6, <1>7, OpeningKept DEF Others
<1>9. /\ doc' \in Documents /\ doc'.pub = "pending" /\ doc'.opening = Opening /\ doc'.rev = doc.rev + 1
      /\ doc'.orphan = doc.orphan /\ doc'.body = b /\ doc'.borrowed = doc.borrowed
  <2>1. doc.version + 1 \in Nat
    BY <1>1
  <2> QED BY <1>1, <1>2, <1>4, <1>5, <2>1 DEF Documents
<1>11. c.seed \/ doc.pub = "indexed"
  BY <1>6 DEF s
<1> QED BY <1>1, <1>6, <1>7, <1>8, <1>9, <1>11 DEF Revises, Writers

\* A new dialect starts a revision.
LEMMA RedialectRevises ==
  ASSUME World, Paths, NEW h \in Handlers, Redialect(h)
  PROVE  Revises(h)
<1> PICK d \in Dialects :
       /\ doc' = [doc EXCEPT !.body = <<@[1], d>>, !.rev = @ + 1, !.pub = "pending"]
       /\ Start(h, [IdleHandler EXCEPT !.pc = "live_gate", !.kind = "dialect",
                                       !.body = <<doc.body[1], d>>, !.opening = Opening,
                                       !.rev = doc.rev + 1, !.seed = TRUE])
  BY DEF Redialect
<1> DEFINE b == <<doc.body[1], d>>
           s == TRUE
           c == [IdleHandler EXCEPT !.pc = "live_gate", !.kind = "dialect", !.body = b,
                                    !.opening = Opening, !.rev = doc.rev + 1, !.seed = s]
<1>1. /\ doc # None /\ UNCHANGED <<source, index>> /\ generation' = generation + 1 /\ Opening \in Nat
      /\ doc \in Documents /\ doc.body \in Bodies /\ doc.rev \in Nat /\ generation \in Nat
      /\ doc.opening = Opening
  BY OpeningIsANumber DEF Redialect, World, TypeOK, Documents
<1>2. b \in Bodies /\ s \in BOOLEAN
  BY <1>1 DEF Bodies
<1>3. Start(h, c)
  OBVIOUS
<1>4. doc' = [doc EXCEPT !.body = b, !.rev = doc.rev + 1, !.pub = "pending"]
  BY <1>1 DEF Documents
<1> HIDE DEF b, s
<1>5. doc.rev + 1 \in Nat /\ "live_gate" \in Labels /\ "dialect" \in Kinds
  BY <1>1 DEF Labels, Kinds, Writers
<1>10. c = Call("live_gate", "dialect", b, s, Opening, doc.rev + 1)
  BY DEF Call, IdleHandler
<1> HIDE DEF c
<1>6. /\ c \in Calls /\ c.pc = "live_gate" /\ c.kind = "dialect" /\ c.body = b /\ c.seed = s
      /\ c.opening = Opening /\ c.rev = doc.rev + 1 /\ c.gen = 0
  BY <1>1, <1>2, <1>5, <1>10, CallMade
<1>7. Typed /\ Others(h) /\ handler'[h] = c /\ handler[h].pc = "idle" /\ handler[h].kind = "none"
  BY <1>3, <1>6, StartStarts
<1>8. Opening' = Opening
  BY <1>6, <1>7, OpeningKept DEF Others
<1>9. /\ doc' \in Documents /\ doc'.pub = "pending" /\ doc'.opening = Opening /\ doc'.rev = doc.rev + 1
      /\ doc'.orphan = doc.orphan /\ doc'.body = b
  BY <1>1, <1>2, <1>4, <1>5 DEF Documents
<1> QED BY <1>1, <1>6, <1>7, <1>8, <1>9 DEF Revises, Writers, s

\* A file that came back starts a revision.
LEMMA ReviveRevises ==
  ASSUME World, Paths, Ages, NEW h \in Handlers, UpdateOpenPath(h),
         handler[h].kind = "created", doc # None, doc.orphan
  PROVE  Revises(h)
<1> DEFINE n == doc.rev + 1
           c == [handler[h] EXCEPT !.pc = "live_gate", !.body = doc.body, !.rev = n, !.seed = TRUE,
                                   !.opening = Opening]
<1>1. /\ UNCHANGED <<source, index>> /\ generation' = generation + 1 /\ Opening \in Nat
      /\ doc \in Documents /\ doc.body \in Bodies /\ doc.rev \in Nat /\ generation \in Nat
      /\ doc.opening = Opening /\ handler[h].pc = "update" /\ doc' = Revive(doc)
      /\ handler \in [Handlers -> Calls] /\ handler[h] \in Calls /\ handler[h].gen <= generation
  BY OpeningIsANumber DEF UpdateOpenPath, At, World, TypeOK, Documents, Ages, Age
<1>2. doc' = [doc EXCEPT !.orphan = FALSE, !.rev = n, !.pub = "pending"]
  BY <1>1 DEF Revive, Documents
<1>3. n \in Nat
  BY <1>1
<1>4. doc'.rev = n
  BY <1>1, <1>2, <1>3 DEF Documents
<1>5. handler' = [handler EXCEPT ![h] = c]
  BY <1>1, <1>4 DEF UpdateOpenPath
<1>6. c \in Calls
  BY <1>1, <1>3 DEF Calls, Labels
<1>7. /\ c.pc = "live_gate" /\ c.kind = "created" /\ c.body = doc.body /\ c.seed = TRUE /\ c.opening = Opening
      /\ c.rev = n /\ c.gen = handler[h].gen
  BY <1>1 DEF Calls
<1> HIDE DEF c
<1>8. Typed /\ Others(h) /\ handler'[h] = c
  BY <1>1, <1>5, <1>6 DEF Typed, Others
<1>9. Opening' = Opening
  BY <1>7, <1>8, OpeningKept DEF Others
<1>10. /\ doc' \in Documents /\ doc'.pub = "pending" /\ doc'.opening = Opening
       /\ doc'.orphan = FALSE /\ doc'.body = doc.body
  BY <1>1, <1>2, <1>3 DEF Documents
<1> QED BY <1>1, <1>4, <1>7, <1>8, <1>9, <1>10 DEF Revises, Writers


-----------------------------------------------------------------------------
(* The other steps of one handler.                                         *)

\* The document is closed.
Shuts(h) ==
  /\ Typed /\ Others(h) /\ handler[h].pc = "idle" /\ handler[h].kind = "none"
  /\ UNCHANGED <<source, index>> /\ generation' = generation + 1 /\ doc' = None /\ Opening' = Opening
  /\ handler'[h].kind = "close" /\ handler'[h].pc = "live_gate"
  /\ handler'[h].opening = 0 /\ handler'[h].gen = 0

\* did_close shuts the document.
LEMMA CloseShuts ==
  ASSUME World, Paths, NEW h \in Handlers, DidClose(h)
  PROVE  Shuts(h) /\ doc # None
<1> DEFINE c == [IdleHandler EXCEPT !.pc = "live_gate", !.kind = "close"]
<1>1. c \in Calls
  <2>1. "live_gate" \in Labels /\ "close" \in Kinds
    BY DEF Labels, Kinds
  <2> QED BY <2>1, IdleCall DEF Calls
<1>2. Start(h, c) /\ UNCHANGED <<source, index>> /\ generation' = generation + 1 /\ doc' = None /\ doc # None
  BY DEF DidClose
<1>3. c.pc = "live_gate" /\ c.kind = "close" /\ c.opening = 0 /\ c.gen = 0
  BY DEF IdleHandler
<1> HIDE DEF c
<1>4. Typed /\ Others(h) /\ handler'[h] = c /\ handler[h].pc = "idle" /\ handler[h].kind = "none"
  BY <1>1, <1>2, StartStarts
<1>5. Opening' = Opening
  BY <1>3, <1>4, OpeningKept DEF Others
<1> QED BY <1>2, <1>3, <1>4, <1>5 DEF Shuts

\* The file of the document is deleted or comes back.
Watches(h) ==
  /\ Typed /\ Others(h) /\ handler[h].pc = "idle" /\ handler[h].kind = "none" /\ Stands
  /\ handler'[h].kind \in {"deleted", "created"} /\ handler'[h].pc = "watched_gate"
  /\ handler'[h].opening = 0 /\ handler'[h].gen = 0

\* A watched-file event arrives.
LEMMA EventWatches ==
  ASSUME World, Paths, NEW h \in Handlers, WatchedEvent(h)
  PROVE  Watches(h)
<1> DEFINE kd == IF disk = None THEN "created" ELSE "deleted"
           c == [IdleHandler EXCEPT !.pc = "watched_gate", !.kind = kd]
<1>1. Start(h, c) /\ Stands /\ kd \in {"deleted", "created"}
  BY DEF WatchedEvent, Stands
<1> HIDE DEF kd
<1>2. c \in Calls
  <2>1. "watched_gate" \in Labels /\ kd \in Kinds
    BY <1>1 DEF Labels, Kinds, Writers
  <2> QED BY <2>1, IdleCall DEF Calls
<1>3. c.pc = "watched_gate" /\ c.kind = kd /\ c.opening = 0 /\ c.gen = 0
  BY DEF IdleHandler
<1> HIDE DEF c
<1>4. Typed /\ Others(h) /\ handler'[h] = c /\ handler[h].pc = "idle" /\ handler[h].kind = "none"
  BY <1>1, <1>2, <1>3, StartStarts
<1> QED BY <1>1, <1>3, <1>4 DEF Watches

\* The deletion of the file is told to the open buffer.
Orphaned(d) == [d EXCEPT !.orphan = TRUE, !.pub = IF d.pub = "pending" THEN "pending" ELSE "indexed"]
Orphans(h) ==
  /\ Typed /\ Others(h) /\ handler[h].pc = "update" /\ handler[h].kind = "deleted"
  /\ UNCHANGED <<source, index>> /\ generation' = generation + 1
  /\ doc' = IF doc = None THEN None ELSE Orphaned(doc)
  /\ handler'[h].pc = "disk_gate" /\ handler'[h].kind = "deleted"
  /\ handler'[h].gen = handler[h].gen /\ handler'[h].opening = handler[h].opening
  /\ doc # None => handler'[h].deleted = doc.rev

\* The deleted arm of update_watched_open_paths.
LEMMA DeletedOrphans ==
  ASSUME World, Paths, NEW h \in Handlers, UpdateOpenPath(h), handler[h].kind = "deleted"
  PROVE  Orphans(h)
<1> DEFINE n == IF doc = None THEN -1 ELSE doc.rev
           c == [handler[h] EXCEPT !.pc = "disk_gate", !.deleted = n]
<1>1. /\ handler[h].pc = "update" /\ UNCHANGED <<source, index>> /\ generation' = generation + 1
      /\ handler' = [handler EXCEPT ![h] = c]
      /\ doc' = IF doc = None THEN None
                ELSE [doc EXCEPT !.orphan = TRUE, !.pub = IF @ = "pending" THEN @ ELSE "indexed"]
  BY DEF UpdateOpenPath, At
<1>2. doc # None => doc \in Documents
  BY DEF World, TypeOK
<1>3. doc' = IF doc = None THEN None ELSE Orphaned(doc)
  BY <1>1, <1>2 DEF Orphaned, Documents
<1>4. n \in Int /\ (doc # None => n = doc.rev)
  BY <1>2 DEF Documents
<1> HIDE DEF n
<1>5. handler \in [Handlers -> Calls] /\ handler[h] \in Calls
  BY DEF World
<1>6. c \in Calls
  <2>1. "disk_gate" \in Labels
    BY DEF Labels
  <2> QED BY <1>4, <1>5, <2>1 DEF Calls
<1>7. c.pc = "disk_gate" /\ c.kind = "deleted" /\ c.gen = handler[h].gen /\ c.opening = handler[h].opening /\ c.deleted = n
  BY <1>5 DEF Calls
<1> HIDE DEF c
<1>8. Typed /\ Others(h) /\ handler'[h] = c
  BY <1>1, <1>5, <1>6 DEF Typed, Others
<1> QED BY <1>1, <1>3, <1>4, <1>7, <1>8 DEF Orphans

-----------------------------------------------------------------------------
(* Gates: a handler takes a free one and gives back its own.               *)

GateTyped == gate \in [Gates -> Handlers \cup {0}]
GatesLeft(h) == \A k \in Handlers \ {h} : \A g \in Gates : gate[g] = k => gate'[g] = k

\* A handler that returns frees its own gates.
LEMMA FreedLeaves ==
  ASSUME GateTyped, NEW h \in Handlers, gate' = Freed(h)
  PROVE  GateTyped' /\ GatesLeft(h)
<1>1. gate' = [g \in Gates |-> IF gate[g] = h THEN 0 ELSE gate[g]]
  BY DEF Freed, GateTyped
<1> QED BY <1>1 DEF GateTyped, GatesLeft, Handlers

\* A free gate is taken.
LEMMA AcquireLeaves ==
  ASSUME GateTyped, NEW h \in Handlers, NEW g \in Gates, gate[g] = 0, gate' = [gate EXCEPT ![g] = h]
  PROVE  GateTyped' /\ GatesLeft(h) /\ gate'[g] = h /\ \A x \in Gates : gate[x] = h => gate'[x] = h
BY DEF GateTyped, GatesLeft, Handlers

\* The ways to give gates back before the call returns.
LEMMA DropLeaves ==
  ASSUME GateTyped, NEW h \in Handlers,
         \/ gate["live"] = h /\ gate' = [gate EXCEPT !["live"] = 0]
         \/ gate["live"] = h /\ gate["rehoming"] = h /\ gate' = [gate EXCEPT !["live"] = 0, !["rehoming"] = 0]
         \/ gate' = KeepWatched(h)
         \/ gate' = [g \in DOMAIN gate |-> IF gate[g] = h /\ g # "watched" THEN 0 ELSE gate[g]]
  PROVE  GateTyped' /\ GatesLeft(h) /\ (gate["watched"] = h => gate'["watched"] = h)
<1>1. 0 \in Handlers \cup {0} /\ "live" \in Gates /\ "rehoming" \in Gates /\ "watched" \in Gates /\ DOMAIN gate = Gates
  BY DEF Gates, GateTyped
<1>2. GateTyped'
  BY <1>1 DEF GateTyped, KeepWatched
<1>3. GatesLeft(h) /\ (gate["watched"] = h => gate'["watched"] = h)
  BY <1>1 DEF GateTyped, GatesLeft, KeepWatched, Gates
<1> QED BY <1>2, <1>3

\* What a step of h does to the gates.
Gating(h) == GateTyped' /\ GatesLeft(h) /\ Holding(h)'

\* After the return, none is held.
LEMMA FinishGates ==
  ASSUME World, NEW h \in Handlers, Finish(h)
  PROVE  Gating(h)
<1>1. Returns(h) /\ gate' = Freed(h) /\ GateTyped
  BY FinishReturns DEF World, TypeOK, GateTyped, Gates
<1> QED BY <1>1, FreedLeaves DEF Gating, Holding, Returns, OnDisk

\* The gates stay, and h goes on to a step that holds no more.
LEMMA SameGates ==
  ASSUME World, GatesHeld, NEW h \in Handlers, gate' = gate,
         handler'[h].pc \in {"try", "pause", "sleep", "mark"} => handler[h].pc \in {"try", "pause", "sleep", "mark"},
         handler'[h].pc \in {"currency", "replace", "complete", "undo"} =>
           handler[h].pc \in {"currency", "replace", "complete", "undo"},
         handler'[h].pc \notin {"disk_live", "disk_try"},
         handler'[h].kind = "deleted" /\ handler'[h].pc \in OnDisk \cup {"update", "settle"} =>
           handler[h].kind = "deleted" /\ handler[h].pc \in OnDisk \cup {"update", "settle"}
  PROVE  Gating(h)
<1>1. GateTyped
  BY DEF World, TypeOK, GateTyped, Gates
<1> QED BY <1>1 DEF Gating, GateTyped, GatesLeft, GatesHeld, Holding

\* A new call holds none.
LEMMA ArriveGates ==
  ASSUME World, Paths, GatesHeld, NEW h \in Handlers, Arrives(h)
  PROVE  Gating(h)
<1>1. gate' = gate
  BY DEF Arrives, DidOpen, DidChange, Redialect, DidClose, WatchedEvent, outside
<1>2. handler'[h].pc \in {"retire", "live_gate", "watched_gate"}
  <2>1. CASE DidOpen(h) \/ DidChange(h) \/ Redialect(h)
    BY <2>1, OpenRevises, ChangeRevises, RedialectRevises DEF Revises
  <2>2. CASE DidClose(h) \/ WatchedEvent(h)
    BY <2>2, CloseShuts, EventWatches DEF Shuts, Watches
  <2> QED BY <2>1, <2>2 DEF Arrives
<1> QED BY <1>1, <1>2, SameGates DEF OnDisk

\* The live gate is held from the sample to the mark.
LEMMA CommitGates ==
  ASSUME World, Paths, GatesHeld, NEW h \in Handlers,
         \/ Retire(h) \/ TakeGate(h) \/ Superseded(h) \/ Refused(h) \/ Pause(h) \/ Rejoin(h) \/ SetSource(h) \/ Mark(h)
         \/ RetireClosed(h)
  PROVE  Gating(h)
<1>1. GateTyped /\ "live" \in Gates
  BY DEF World, TypeOK, GateTyped, Gates
<1>2. handler[h].kind = "deleted" => handler[h].pc \notin Committing \cup {"retire"}
  BY DEF Paths, Path, Writers, Committing
<1>3. {"live_gate", "try", "pause", "rejoin", "sleep", "mark", "seed", "restore", "scan"} \subseteq Labels
  BY DEF Labels
<1>4. CASE Finish(h)
  BY <1>4, FinishGates
<1>5. CASE Retire(h) \/ Refused(h) \/ SetSource(h) \/ (Pause(h) /\ Goto(h, "try") /\ gate' = gate)
  <2>1. PICK l \in {"live_gate", "pause", "mark", "try"} :
          Goto(h, l) /\ (l = "live_gate" \/ handler[h].pc \in {"try", "pause", "sleep"}) /\ handler[h].pc \in Committing \cup {"retire"}
    BY <1>5 DEF Retire, Refused, SetSource, Pause, At, Committing
  <2>2. Passes(h, l)
    BY <1>3, <2>1, GotoPasses
  <2>3. gate' = gate
    BY <1>5 DEF Retire, Refused, SetSource
  <2> QED BY <1>2, <2>1, <2>2, <2>3, SameGates DEF Passes, OnDisk
<1>6. CASE TakeGate(h)
  <2>1. Passes(h, "try") /\ handler[h].pc = "live_gate"
    BY <1>3, <1>6, SamplePasses DEF TakeGate, At
  <2>2. GateTyped' /\ GatesLeft(h) /\ gate'["live"] = h
    BY <1>1, <1>6, AcquireLeaves DEF TakeGate
  <2> QED BY <1>2, <2>1, <2>2 DEF Gating, Holding, Passes, OnDisk, Committing
<1>7. CASE Rejoin(h)
  <2>1. Passes(h, "sleep") /\ handler[h].pc = "rejoin"
    BY <1>3, <1>7, GotoPasses DEF Rejoin, At, Acquire
  <2>2. GateTyped' /\ GatesLeft(h) /\ gate'["live"] = h
    BY <1>1, <1>7, AcquireLeaves DEF Rejoin, Acquire
  <2> QED BY <1>2, <2>1, <2>2 DEF Gating, Holding, Passes, OnDisk, Committing
<1>8. CASE Pause(h) /\ Goto(h, "rejoin") /\ gate' = [gate EXCEPT !["live"] = 0] /\ At(h, "pause")
  <2>1. Passes(h, "rejoin") /\ handler[h].pc = "pause"
    BY <1>3, <1>8, GotoPasses DEF At
  <2>2. GateTyped' /\ GatesLeft(h)
    BY <1>1, <1>8, <2>1, DropLeaves DEF GatesHeld, Holding
  <2> QED BY <2>1, <2>2 DEF Gating, Holding, Passes, OnDisk
<1>9. CASE Mark(h) /\ ~Finish(h)
  <2>1. PICK l \in {"seed", "restore"} : Goto(h, l) /\ gate' = KeepWatched(h)
    BY <1>9 DEF Mark
  <2>2. Passes(h, l)
    BY <1>3, <2>1, GotoPasses
  <2>3. GateTyped' /\ GatesLeft(h)
    BY <1>1, <2>1, DropLeaves
  <2> QED BY <2>1, <2>2, <2>3 DEF Gating, Holding, Passes, OnDisk
<1>10. CASE RetireClosed(h)
  <2>1. Passes(h, "scan") /\ gate' = Freed(h)
    BY <1>3, <1>10, GotoPasses DEF RetireClosed
  <2> QED BY <1>1, <2>1, FreedLeaves DEF Gating, Holding, Passes, OnDisk
<1> QED BY <1>4, <1>5, <1>6, <1>7, <1>8, <1>9, <1>10 DEF Superseded, Pause

\* The rehoming gate is held from the check to the withdrawal.
LEMMA ViewGates ==
  ASSUME World, Paths, GatesHeld, NEW h \in Handlers,
         \/ RestoreView(h) \/ SeedAnalysed(h) \/ TakeRehoming(h) \/ CheckCurrency(h) \/ ReplaceView(h)
         \/ Complete(h) \/ Undo(h)
  PROVE  Gating(h)
<1>1. GateTyped /\ "rehoming" \in Gates
  BY DEF World, TypeOK, GateTyped, Gates
<1>2. handler[h].kind = "deleted" => handler[h].pc \notin Viewing
  BY DEF Paths, Path, Writers
<1>3. {"seed", "rehoming_gate", "currency", "replace", "complete", "undo"} \subseteq Labels
  BY DEF Labels
<1>4. CASE Finish(h)
  BY <1>4, FinishGates
<1>5. CASE ~Finish(h) /\ ~TakeRehoming(h)
  <2>1. PICK l \in {"seed", "rehoming_gate", "replace", "complete", "undo"} :
          /\ Passes(h, l) /\ gate' = gate /\ handler[h].pc \in Viewing
          /\ l \in {"replace", "complete", "undo"} => handler[h].pc \in {"currency", "replace", "complete"}
    <3>1. CASE SeedAnalysed(h)
      BY <1>3, <3>1, SamplePasses DEF SeedAnalysed, At, Viewing
    <3>2. CASE ~SeedAnalysed(h)
      <4>1. PICK l \in {"seed", "replace", "complete", "undo"} :
              /\ Goto(h, l) /\ gate' = gate /\ handler[h].pc \in Viewing
              /\ l \in {"replace", "complete", "undo"} => handler[h].pc \in {"currency", "replace", "complete"}
        BY <1>5, <3>2 DEF RestoreView, CheckCurrency, ReplaceView, Complete, Undo, At, Viewing
      <4> QED BY <1>3, <4>1, GotoPasses
    <3> QED BY <3>1, <3>2
  <2> QED BY <1>2, <2>1, SameGates DEF Passes, OnDisk
<1>6. CASE TakeRehoming(h)
  <2>1. Passes(h, "currency") /\ handler[h].pc = "rehoming_gate"
    BY <1>3, <1>6, GotoPasses DEF TakeRehoming, At, Acquire
  <2>2. GateTyped' /\ GatesLeft(h) /\ gate'["rehoming"] = h
    BY <1>1, <1>6, AcquireLeaves DEF TakeRehoming, Acquire
  <2> QED BY <1>2, <2>1, <2>2 DEF Gating, Holding, Passes, OnDisk, Viewing
<1> QED BY <1>4, <1>5, <1>6

\* A scan holds both, and a deletion its watched gate throughout.
LEMMA DiskGates ==
  ASSUME World, Paths, GatesHeld, NEW h \in Handlers,
         \/ ScanDisk(h) \/ TakeDiskGate(h) \/ TakeDiskRehoming(h) \/ TakeDiskLive(h) \/ RestartDisk(h) \/ ApplyDisk(h)
  PROVE  Gating(h)
<1>1. GateTyped /\ Gates = {"live", "rehoming", "disk", "watched"}
  BY DEF World, TypeOK, GateTyped, Gates
<1>2. {"disk_gate", "disk_rehoming", "disk_live", "disk_try", "settle"} \subseteq Labels
  BY DEF Labels
<1>3. handler[h].kind = "deleted" => handler[h].pc # "scan"
  BY DEF Paths, Path
<1>4. handler[h].kind = "deleted" /\ handler[h].pc \in OnDisk => gate["watched"] = h
  BY DEF GatesHeld, Holding
<1>5. CASE Finish(h)
  BY <1>5, FinishGates
<1>6. CASE ScanDisk(h)
  <2>1. handler'[h].pc = "disk_gate" /\ handler'[h].kind = handler[h].kind /\ handler[h].pc = "scan"
    BY <1>6 DEF ScanDisk, World, Calls, At
  <2>2. gate' = gate
    BY <1>6 DEF ScanDisk
  <2> QED BY <1>3, <2>1, <2>2, SameGates
<1>7. ASSUME NEW g \in {"disk", "rehoming", "live"}, NEW l \in {"disk_rehoming", "disk_live", "disk_try"},
             Acquire(h, g, l), handler[h].pc \in OnDisk, l = "disk_live" => g = "rehoming",
             l = "disk_try" => g = "live" /\ gate["rehoming"] = h
      PROVE  Gating(h)
  <2>1. Passes(h, l)
    BY <1>2, <1>7, GotoPasses DEF Acquire
  <2>2. /\ GateTyped' /\ GatesLeft(h) /\ gate'[g] = h
        /\ gate["rehoming"] = h => gate'["rehoming"] = h
        /\ gate["watched"] = h => gate'["watched"] = h
    BY <1>1, <1>7, AcquireLeaves DEF Acquire
  <2> QED BY <1>4, <1>7, <2>1, <2>2 DEF Gating, Holding, Passes
<1>8. CASE TakeDiskGate(h) \/ TakeDiskRehoming(h)
  BY <1>7, <1>8 DEF TakeDiskGate, TakeDiskRehoming, At, OnDisk
<1>9. CASE TakeDiskLive(h)
  <2>1. gate["rehoming"] = h
    BY <1>9 DEF TakeDiskLive, At, GatesHeld, Holding
  <2> QED BY <1>7, <1>9, <2>1 DEF TakeDiskLive, At, OnDisk
<1>10. CASE RestartDisk(h)
  <2>1. Passes(h, "disk_rehoming") /\ handler[h].pc = "disk_try"
    BY <1>2, <1>10, GotoPasses DEF RestartDisk, At
  <2>2. GateTyped' /\ GatesLeft(h) /\ (gate["watched"] = h => gate'["watched"] = h)
    BY <1>1, <1>10, <2>1, DropLeaves DEF RestartDisk, GatesHeld, Holding
  <2> QED BY <1>4, <2>1, <2>2 DEF Gating, Holding, Passes, OnDisk
<1>11. CASE ApplyDisk(h) /\ ~Finish(h)
  <2>1. Goto(h, "settle") /\ handler[h].pc = "disk_try"
        /\ gate' = [g \in DOMAIN gate |-> IF gate[g] = h /\ g # "watched" THEN 0 ELSE gate[g]]
    BY <1>11 DEF ApplyDisk, AfterDisk, At
  <2>2. Passes(h, "settle")
    BY <1>2, <2>1, GotoPasses
  <2>3. GateTyped' /\ GatesLeft(h) /\ (gate["watched"] = h => gate'["watched"] = h)
    BY <1>1, <2>1, DropLeaves
  <2> QED BY <1>4, <2>1, <2>2, <2>3 DEF Gating, Holding, Passes, OnDisk
<1> QED BY <1>5, <1>6, <1>8, <1>9, <1>10, <1>11

\* The watched gate is taken before the event is looked at.
LEMMA WatchedGates ==
  ASSUME World, Paths, GatesHeld, Ages, NEW h \in Handlers, Classify(h) \/ UpdateOpenPath(h) \/ Settle(h)
  PROVE  Gating(h)
<1>1. GateTyped /\ "watched" \in Gates
  BY DEF World, TypeOK, GateTyped, Gates
<1>2. CASE Finish(h)
  BY <1>2, FinishGates
<1>3. CASE Classify(h)
  <2>1. PICK l \in {"update", "disk_gate", "scan"} : Acquire(h, "watched", l)
    BY <1>3 DEF Classify
  <2>2. l \in Labels
    BY DEF Labels
  <2>3. Passes(h, l)
    BY <2>1, <2>2, GotoPasses DEF Acquire
  <2>4. GateTyped' /\ GatesLeft(h) /\ gate'["watched"] = h
    BY <1>1, <2>1, AcquireLeaves DEF Acquire
  <2> QED BY <2>3, <2>4 DEF Gating, Holding, Passes, OnDisk
<1>4. CASE UpdateOpenPath(h) /\ ~Finish(h)
  <2>1. gate' = gate
    BY <1>4 DEF UpdateOpenPath
  <2>2. CASE handler[h].kind = "deleted"
    BY <1>4, <2>1, <2>2, DeletedOrphans, SameGates DEF Orphans, OnDisk
  <2>3. CASE handler[h].kind # "deleted"
    <3>1. handler'[h].pc \in {"retire", "live_gate"}
      BY <1>4, <2>3, ReviveRevises DEF UpdateOpenPath, Revises
    <3> QED BY <2>1, <3>1, SameGates DEF OnDisk
  <2> QED BY <2>2, <2>3
<1> QED BY <1>2, <1>3, <1>4 DEF Settle

\* The gates, for every step of a handler.
LEMMA StepGates ==
  ASSUME World, Paths, GatesHeld, Ages, NEW h \in Handlers, Arrives(h) \/ Queues(h) \/ Proceeds(h)
  PROVE  Gating(h)
<1>1. CASE Arrives(h)
  BY <1>1, ArriveGates
<1>2. CASE Queues(h)
  BY <1>2, CommitGates, ViewGates, DiskGates, WatchedGates DEF Queues
<1>3. CASE Proceeds(h)
  BY <1>3, CommitGates, ViewGates, DiskGates, WatchedGates DEF Proceeds
<1> QED BY <1>1, <1>2, <1>3

-----------------------------------------------------------------------------
(* The state keeps its shape.                                              *)

\* Every step of h leaves the other handlers alone.
LEMMA StepTyped ==
  ASSUME World, Paths, Ages, NEW h \in Handlers, Arrives(h) \/ Queues(h) \/ Proceeds(h)
  PROVE  Typed /\ Others(h)
<1> USE DEF Typed
<1>1. CASE \/ DidOpen(h) \/ DidChange(h) \/ Redialect(h)
  BY <1>1, OpenRevises, ChangeRevises, RedialectRevises DEF Revises
<1>2. CASE DidClose(h) \/ WatchedEvent(h)
  BY <1>2, CloseShuts, EventWatches DEF Shuts, Watches
<1>3. CASE Walking(h)
  BY <1>3, WalkingWalks DEF Walks, Returns, Passes
<1>4. CASE UpdateOpenPath(h)
  <2>1. CASE handler[h].kind = "deleted"
    BY <1>4, <2>1, DeletedOrphans DEF Orphans
  <2>2. CASE handler[h].kind # "deleted" /\ doc # None /\ doc.orphan
    BY <1>4, <2>2, ReviveRevises DEF UpdateOpenPath, Revises
  <2>3. CASE handler[h].kind # "deleted" /\ ~(doc # None /\ doc.orphan)
    BY <1>4, <2>3, FinishReturns DEF UpdateOpenPath, Returns
  <2> QED BY <2>1, <2>2, <2>3
<1>5. CASE Finish(h)
  BY <1>5, FinishReturns DEF Returns
<1>6. CASE Retire(h) \/ ReplaceView(h) \/ Undo(h) \/ SetSource(h) \/ Mark(h) \/ Complete(h) \/ RetireClosed(h)
           \/ ApplyDisk(h) \/ Settle(h)
  <2>1. CASE ~Finish(h)
    <3>1. PICK l \in {"live_gate", "complete", "mark", "seed", "restore", "undo", "scan", "settle"} : Goto(h, l)
      BY <1>6, <2>1 DEF Retire, ReplaceView, Undo, SetSource, Mark, Complete, RetireClosed, ApplyDisk, AfterDisk, Settle
    <3>2. l \in Labels
      BY DEF Labels
    <3> QED BY <3>1, <3>2, GotoPasses DEF Passes
  <2> QED BY <1>5, <2>1
<1> QED BY <1>1, <1>2, <1>3, <1>4, <1>6 DEF Arrives, Queues, Proceeds, Walking

\* What the other tasks do, and what the document is beside its text.
Ambient ==
  /\ dialect \in Dialects /\ disk \in {Disk, None} /\ draining \subseteq Handlers /\ snapshots \in 0 .. 1
  /\ contended \in Locks \cup {"none"} /\ (run = None \/ run \in [body : Bodies, rev : Nat])

\* ... and leaves what belongs to other tasks well formed.
LEMMA StepAmbient ==
  ASSUME World, NEW h \in Handlers, Arrives(h) \/ Queues(h) \/ Proceeds(h)
  PROVE  Ambient'
<1>1. Ambient
  BY DEF World, TypeOK, Ambient
<1>2. CASE Arrives(h)
  BY <1>1, <1>2 DEF Arrives, DidOpen, DidChange, Redialect, DidClose, WatchedEvent, outside, Ambient
<1>3. CASE Queues(h)
  <2>1. UNCHANGED outside
    BY <1>3 DEF Queues, Retire, TakeGate, Rejoin, TakeRehoming, ReplaceView, Undo, TakeDiskGate, TakeDiskRehoming,
                TakeDiskLive, Classify
  <2>2. draining' \subseteq Handlers
    BY <1>1, <1>3 DEF Queues, Retire, TakeGate, Rejoin, TakeRehoming, ReplaceView, Undo, TakeDiskGate, TakeDiskRehoming,
                TakeDiskLive, Classify, Finish, Ambient
  <2> QED BY <1>1, <2>1, <2>2 DEF Ambient, outside
<1>4. CASE Proceeds(h)
  <2>1. UNCHANGED outside
    BY <1>4 DEF Proceeds, Superseded, Refused, Pause, SetSource, Mark, RestoreView, SeedAnalysed, CheckCurrency,
                Complete, RetireClosed, ScanDisk, RestartDisk, ApplyDisk, UpdateOpenPath, Settle
  <2>2. draining' \subseteq Handlers
    <3>1. CASE Finish(h)
      BY <1>1, <3>1 DEF Finish, Ambient
    <3>2. CASE Refused(h)
      BY <1>1, <3>2 DEF Refused, DrainsAfter, Ambient
    <3>3. CASE ~Finish(h) /\ ~Refused(h)
      BY <1>1, <1>4, <3>3 DEF Proceeds, Superseded, Pause, SetSource, Mark, RestoreView, SeedAnalysed, CheckCurrency,
                Complete, RetireClosed, ScanDisk, RestartDisk, ApplyDisk, AfterDisk, UpdateOpenPath, Settle, Ambient
    <3> QED BY <3>1, <3>2, <3>3
  <2> QED BY <1>1, <2>1, <2>2 DEF Ambient, outside
<1> QED BY <1>2, <1>3, <1>4

\* What is stored, and how the document is numbered.
Kept == /\ doc \in Documents \cup {None} /\ source \in Stored /\ index \in Entries \cup {None}
        /\ generation \in Nat
        /\ doc # None => doc.opening = Opening /\ doc.opening > 0

\* What is left to show of a step once its gates and calls are known.
LEMMA StepWorld ==
  ASSUME World, Paths, GatesHeld, Ages, NEW h \in Handlers, Arrives(h) \/ Queues(h) \/ Proceeds(h), Kept'
  PROVE  World' /\ GatesHeld'
<1>1. Typed /\ Others(h) /\ Gating(h) /\ Ambient'
  BY StepTyped, StepGates, StepAmbient
<1>2. \A k \in Handlers : handler'[k].pc \in Labels
  BY <1>1 DEF Typed, Calls
<1>3. World'
  BY <1>1, <1>2 DEF Typed, Gating, GateTyped, Gates, Ambient, Kept, World, TypeOK
<1>4. ASSUME NEW k \in Handlers, k # h
      PROVE  Holding(k)'
  <2>1. Holding(k) /\ handler'[k] = handler[k]
    BY <1>1, <1>4 DEF GatesHeld, Others
  <2> QED BY <1>1, <1>4, <2>1 DEF Holding, Gating, GatesLeft, Gates
<1> QED BY <1>1, <1>3, <1>4 DEF GatesHeld, Gating

-----------------------------------------------------------------------------
(* Steps of h that leave the document its revision.                        *)

SameRevision ==
  /\ generation' = generation
  /\ doc = None => doc' = None
  /\ doc # None =>
       /\ doc' \in Documents /\ doc'.opening = doc.opening /\ doc'.rev = doc.rev /\ doc'.body = doc.body
       /\ doc'.version = doc.version /\ doc'.orphan = doc.orphan

\* A call that is for no revision: it has returned, or it is about the file.
Aside(h) ==
  /\ handler'[h].opening = 0 /\ handler'[h].gen = 0 /\ handler'[h].pc \in {"done", "watched_gate"}
  /\ handler'[h].kind = "open" <=> handler[h].kind = "open"

\* The call goes on, or returns, in order.
Moves(h) ==
  /\ Typed /\ Others(h) /\ Path(h)'
  /\ \/ Aside(h)
     \/ \E l \in Labels :
          /\ Passes(h, l) /\ handler'[h].gen \in {handler[h].gen, generation}
          /\ handler[h].kind = "deleted" /\ l \in OnDisk \cup {"settle"} => handler[h].pc \in OnDisk \/ doc = None

\* An open document, and its opening.
LEMMA DocIsARecord == ASSUME World, doc # None
                      PROVE  /\ doc \in Documents /\ doc.body \in Bodies /\ doc.rev \in Nat /\ doc.opening \in Nat
                             /\ doc.opening > 0 /\ doc.opening = Opening /\ doc.version \in Nat
BY DEF World, TypeOK, Documents

\* A closed document is no document.
LEMMA NoneIsNoDocument == None \notin Documents
BY PublicationAssumption

\* A call that has returned is in order.
LEMMA ReturnsInOrder == ASSUME NEW h \in Handlers, Returns(h)
                        PROVE  Path(h)' /\ Aside(h)
BY DEF Returns, Aside, Path, Publishing, Committing, Viewing, OnDisk

\* The fields of a call.
LEMMA CallTyped == ASSUME World, NEW k \in Handlers
                   PROVE  /\ handler[k] \in Calls /\ handler[k].rev \in Nat /\ handler[k].opening \in Nat
                          /\ handler[k].gen \in Nat /\ handler[k].deleted \in Int /\ handler[k].seed \in BOOLEAN
                          /\ handler[k].kind \in Kinds /\ handler[k].pc \in Labels
                          /\ handler[k].body \in Bodies \cup {None} /\ handler[k].scan \in {Disk, None}
BY DEF World, Calls

\* A step of h keeps the others where they may be.
LEMMA PathsKept == ASSUME Paths, NEW h \in Handlers, Others(h), Path(h)'
                   PROVE  Paths'
<1>1. ASSUME NEW k \in Handlers \ {h}
      PROVE  Path(k)'
  <2>1. Path(k) /\ handler'[k] = handler[k]
    BY DEF Paths, Others
  <2> QED BY <2>1 DEF Path
<1> QED BY <1>1 DEF Paths

\* Such a step opens nothing.
LEMMA MovesKindly == ASSUME NEW h \in Handlers, Moves(h)
                     PROVE  Opening' = Opening
<1>1. handler'[h].kind = "open" <=> handler[h].kind = "open"
  BY DEF Moves, Aside, Passes
<1> QED BY <1>1, OpeningKept DEF Moves, Others

\* No handler becomes the document's, and a call that goes on stays what it was.
LEMMA CurrentStays ==
  ASSUME World, NEW h \in Handlers, Moves(h), SameRevision
  PROVE  /\ \A k \in Handlers : Current(k)' => Current(k)
         /\ \A k \in Handlers \ {h} : Current(k) => Current(k)'
         /\ \A l \in Labels : Passes(h, l) => (Current(h) => Current(h)')
         /\ Aside(h) => ~Current(h)'
<1>1. Aside(h) => ~Current(h)'
  BY DocIsARecord DEF Aside, Current, Borrowed, SameRevision
<1>2. \A k \in Handlers \ {h} : Current(k)' <=> Current(k)
  BY NoneIsNoDocument DEF Moves, Others, Current, Borrowed, SameRevision
<1>3. \A l \in Labels : Passes(h, l) => (Current(h) <=> Current(h)')
  BY NoneIsNoDocument DEF Passes, Current, Borrowed, SameRevision
<1> QED BY <1>1, <1>2, <1>3 DEF Moves

\* So one handler at most is called for the revision,
LEMMA StaysSole ==
  ASSUME World, NEW h \in Handlers, Moves(h), SameRevision, Sole
  PROVE  Sole'
BY CurrentStays DEF Sole

\* and no handler knows a newer one.
LEMMA StaysOld ==
  ASSUME World, NEW h \in Handlers, Moves(h), SameRevision, Ages
  PROVE  Ages'
<1>1. Opening' = Opening /\ generation' = generation /\ Opening \in Nat
  BY MovesKindly, OpeningIsANumber DEF SameRevision
<1>2. ASSUME NEW k \in Handlers, k # h
      PROVE  Age(k)'
  <2>1. Age(k) /\ handler'[k] = handler[k]
    BY <1>2 DEF Ages, Moves, Others
  <2> QED BY <1>1, <2>1, NoneIsNoDocument DEF Age, SameRevision
<1>3. Age(h)'
  <2>1. Age(h) /\ generation \in Nat
    BY DEF Ages, World, TypeOK
  <2>2. CASE Aside(h)
    BY <1>1, <2>1, <2>2, DocIsARecord DEF Age, Aside, OnDisk, SameRevision
  <2>3. CASE ~Aside(h)
    <3>1. PICK l \in Labels :
            /\ Passes(h, l) /\ handler'[h].gen \in {handler[h].gen, generation}
            /\ handler[h].kind = "deleted" /\ l \in OnDisk \cup {"settle"} => handler[h].pc \in OnDisk \/ doc = None
      BY <2>3 DEF Moves
    <3>2. handler'[h].gen <= generation'
      BY <1>1, <2>1, <3>1 DEF Age
    <3>3. handler'[h].opening <= Opening'
      BY <1>1, <2>1, <3>1 DEF Age, Passes
    <3>4. doc' # None => doc # None /\ doc'.opening = doc.opening /\ doc'.rev = doc.rev /\ doc'.orphan = doc.orphan
      BY DEF SameRevision
    <3>5. doc' # None /\ handler'[h].opening = doc'.opening => handler'[h].rev <= doc'.rev
      BY <2>1, <3>1, <3>4 DEF Age, Passes
    <3>6. doc' # None /\ doc'.orphan /\ handler'[h].kind = "deleted" /\ handler'[h].pc \in OnDisk \cup {"settle"}
            => handler'[h].deleted <= doc'.rev
      BY <2>1, <3>1, <3>4 DEF Age, Passes
    <3> QED BY <3>2, <3>3, <3>5, <3>6 DEF Age
  <2> QED BY <2>2, <2>3
<1> QED BY <1>2, <1>3 DEF Ages

\* The other handlers compare and owe what they did.
LEMMA OthersCompare ==
  ASSUME World, NEW h \in Handlers, Moves(h), SameRevision, NEW k \in Handlers, k # h
  PROVE  /\ handler'[k] = handler[k]
         /\ (MatchesSource(k)' <=> MatchesSource(k)) /\ (MatchesIndex(k)' <=> MatchesIndex(k))
         /\ (Uninvalidated(k)' <=> Uninvalidated(k)) /\ (Current(k)' <=> Current(k))
<1>1. handler'[k] = handler[k] /\ (doc' = None <=> doc = None)
  BY NoneIsNoDocument DEF Moves, Others, SameRevision
<1>2. SameBody(k)' <=> SameBody(k)
  BY <1>1 DEF SameBody, SameRevision
<1>3. MatchesSource(k)' <=> MatchesSource(k)
  BY <1>1, <1>2 DEF MatchesSource, SameRevision, SameBody
<1>4. MatchesIndex(k)' <=> MatchesIndex(k)
  BY <1>1, <1>3 DEF MatchesIndex, SameRevision, MatchesSource, SameBody
<1>5. Current(k)' <=> Current(k)
  BY CurrentStays
<1> QED BY <1>1, <1>3, <1>4, <1>5 DEF Uninvalidated, SameRevision

\* What the other handlers owe, they still do.
LEMMA OthersOwe ==
  ASSUME World, NEW h \in Handlers, Moves(h), SameRevision, NEW k \in Handlers, k # h
  PROVE  /\ Commits(k) => Commits(k)'
         /\ doc # None /\ Settles(k) => Settles(k)'
         /\ Views(k) => Views(k)'
         /\ Deletes(k) => Deletes(k)'
         /\ Closes(k) => Closes(k)'
<1>1. /\ handler'[k] = handler[k] /\ (MatchesSource(k)' <=> MatchesSource(k)) /\ (MatchesIndex(k)' <=> MatchesIndex(k))
      /\ (Uninvalidated(k)' <=> Uninvalidated(k))
  BY OthersCompare
<1>2. Fresh(k)' <=> Fresh(k)
  BY <1>1 DEF Fresh
<1>3. (doc = None => doc' = None) /\ (doc # None => doc'.orphan = doc.orphan /\ doc'.rev = doc.rev)
  BY DEF SameRevision
<1>4. (Commits(k) => Commits(k)') /\ (Views(k) => Views(k)') /\ (Deletes(k) => Deletes(k)') /\ (Closes(k) => Closes(k)')
  BY <1>1, <1>2, <1>3 DEF Commits, Views, Deletes, Closes
<1>5. doc # None /\ Settles(k) => Settles(k)'
  BY <1>1, <1>3 DEF Settles
<1> QED BY <1>4, <1>5

-----------------------------------------------------------------------------
(* Steps that change nothing but the handler.                              *)

Quietly(h) ==
  /\ Stands /\ Moves(h) /\ handler[h].pc # "retire"
  /\ handler'[h].pc \notin {"mark", "complete", "settle", "retire"}
  /\ handler'[h].pc = "replace" => MatchesIndex(h)'
  /\ handler'[h].pc = "undo" => handler[h].pc = "complete"
  /\ Current(h)' => /\ handler'[h].pc \in Viewing => handler[h].pc \in Viewing
                    /\ handler'[h].pc \in Committing => handler[h].pc \in Committing
                    /\ handler'[h].seed = handler[h].seed
  /\ KeepsDuties(h) \/ Undutiful(h)

\* A step that leaves the stores alone leaves the revision.
LEMMA StandsStill == ASSUME World, Stands
                     PROVE  SameRevision
BY DocIsARecord DEF Stands, SameRevision

\* The source and the stage stay in step.
LEMMA QuietSource ==
  ASSUME World, NEW h \in Handlers, Quietly(h), SourceInv
  PROVE  SourceInv'
<1>1. Moves(h) /\ SameRevision /\ doc' = doc /\ source' = source /\ generation' = generation
  BY StandsStill DEF Quietly, Stands
<1>2. ReadyMeansSource'
  BY <1>1 DEF SourceInv, ReadyMeansSource
<1>3. ASSUME NEW k \in Handlers, k # h
      PROVE  Sourced(k)'
  <2>1. /\ Sourced(k) /\ handler'[k] = handler[k] /\ (MatchesIndex(k)' <=> MatchesIndex(k))
        /\ (Uninvalidated(k)' <=> Uninvalidated(k)) /\ (Current(k)' <=> Current(k))
    BY <1>1, <1>3, OthersCompare DEF SourceInv
  <2> QED BY <1>1, <2>1 DEF Sourced, At
<1>4. Sourced(h)'
  <2>1. Current(h)' => Current(h)
    BY <1>1, CurrentStays
  <2>2. Current(h)' /\ handler'[h].pc \in Viewing => doc'.pub # "pending"
    BY <1>1, <2>1 DEF Quietly, SourceInv, Sourced
  <2> QED BY <2>2 DEF Quietly, Sourced, At
<1> QED BY <1>2, <1>3, <1>4 DEF SourceInv

\* No view is promised that was not.
LEMMA QuietClaim ==
  ASSUME World, NEW h \in Handlers, Quietly(h)
  PROVE  Claimed' => Claimed
<1>1. Moves(h) /\ SameRevision /\ doc' = doc
  BY StandsStill DEF Quietly, Stands
<1>2. \A k \in Handlers : Relies(k)' => Relies(k)
  <2>1. ASSUME NEW k \in Handlers, k # h, Relies(k)'
        PROVE  Relies(k)
    BY <1>1, <2>1, OthersCompare DEF Relies
  <2>2. Relies(h)' => Relies(h)
    BY <1>1, CurrentStays DEF Relies, Quietly
  <2> QED BY <2>1, <2>2
<1> QED BY <1>1, <1>2 DEF Claimed

\* The promised view stays.
LEMMA QuietView ==
  ASSUME World, NEW h \in Handlers, Quietly(h), ViewInv
  PROVE  ViewInv'
<1>1. Moves(h) /\ SameRevision /\ doc' = doc /\ index' = index
  BY StandsStill DEF Quietly, Stands
<1>2. Claimed' => Claimed
  BY QuietClaim
<1>3. (\E k \in Handlers : At(k, "retire"))' => \E k \in Handlers : At(k, "retire")
  <2>1. \A k \in Handlers : At(k, "retire")' => At(k, "retire")
    BY <1>1 DEF At, Quietly, Moves, Others
  <2> QED BY <2>1
<1>4. ASSUME NEW k \in Handlers, k # h
      PROVE  Viewed(k)'
  <2>1. /\ Viewed(k) /\ handler'[k] = handler[k]
        /\ (Uninvalidated(k)' <=> Uninvalidated(k)) /\ (Current(k)' <=> Current(k))
    BY <1>1, <1>4, OthersCompare DEF ViewInv
  <2>2. Borrowed(k)' <=> Borrowed(k)
    BY <1>1, <2>1 DEF Borrowed
  <2>3. At(k, "complete")' <=> At(k, "complete")
    BY <2>1 DEF At
  <2>4. At(k, "complete")' /\ (\E j \in Handlers : At(j, "retire"))' => ~Uninvalidated(k)'
    BY <1>3, <2>1, <2>3 DEF Viewed
  <2>5. At(k, "complete")' /\ Uninvalidated(k)' /\ doc'.borrowed = {} => index' # None
    BY <1>1, <2>1, <2>3 DEF Viewed
  <2>6. At(k, "mark")' /\ handler'[k].kind # "open" /\ Uninvalidated(k)' /\ doc' # None /\ Borrowed(k)'
          => "source" \in doc'.borrowed
    BY <1>1, <2>1, <2>2 DEF Viewed, At
  <2>7. /\ handler'[k].pc \in {"retire", "complete", "undo"} => ~Claimed'
        /\ Current(k)' /\ handler'[k].seed => ~Claimed'
    BY <1>2, <2>1 DEF Viewed
  <2> QED BY <2>4, <2>5, <2>6, <2>7 DEF Viewed
<1>5. Viewed(h)'
  <2>1. Current(h)' => Current(h)
    BY <1>1, CurrentStays
  <2>2. /\ handler'[h].pc \in {"retire", "complete", "undo"} => ~Claimed'
        /\ Current(h)' /\ handler'[h].seed => ~Claimed'
    BY <1>2, <2>1 DEF Quietly, ViewInv, Viewed
  <2> QED BY <2>2 DEF Quietly, Viewed, At
<1> QED BY <1>1, <1>2, <1>4, <1>5 DEF ViewInv

\* Whoever had something to do still has.
LEMMA QuietOwed ==
  ASSUME World, NEW h \in Handlers, Quietly(h), Owed
  PROVE  Owed'
<1>1. Moves(h) /\ SameRevision /\ doc' = doc /\ index' = index /\ source' = source
  BY StandsStill DEF Quietly, Stands
<1>2. ASSUME NEW k \in Handlers
      PROVE  /\ Commits(k) => Commits(k)'
             /\ doc # None /\ Settles(k) => Settles(k)'
             /\ Views(k) => Views(k)'
             /\ Deletes(k) => Deletes(k)'
             /\ Closes(k) => Closes(k)'
  BY <1>1, OthersOwe DEF Quietly, KeepsDuties, Undutiful
<1>3. doc' # None /\ doc'.pub = "pending" => \E k \in Handlers : Commits(k)' \/ Settles(k)'
  <2>1. doc # None /\ doc.pub = "pending" => \E k \in Handlers : Commits(k) \/ Settles(k)
    BY DEF Owed
  <2> QED BY <1>1, <1>2, <2>1
<1>4. doc' # None /\ doc'.pub = "salsa" => \E k \in Handlers : Views(k)'
  <2>1. doc # None /\ doc.pub = "salsa" => \E k \in Handlers : Views(k)
    BY DEF Owed
  <2> QED BY <1>1, <1>2, <2>1
<1>5. doc' # None /\ doc'.orphan /\ index' # None => \E k \in Handlers : Deletes(k)'
  <2>1. doc # None /\ doc.orphan /\ index # None => \E k \in Handlers : Deletes(k)
    BY DEF Owed
  <2> QED BY <1>1, <1>2, <2>1
<1>6. ASSUME doc' = None
      PROVE  \/ \E k \in Handlers : Closes(k)'
             \/ Agree' /\ \A k \in Handlers : Undisturbed(k)'
  <2>1. \/ \E k \in Handlers : Closes(k)
        \/ Agree /\ \A k \in Handlers : Undisturbed(k)
    BY <1>1, <1>6 DEF Owed
  <2>2. CASE Agree /\ \A k \in Handlers : Undisturbed(k)
    <3>1. Agree'
      BY <1>1, <2>2 DEF Agree
    <3>2. ASSUME NEW k \in Handlers
          PROVE  Undisturbed(k)'
      <4>1. Undisturbed(k)
        BY <2>2
      <4> QED BY <1>1, <4>1 DEF Undisturbed, At, Quietly, Moves, Others
    <3> QED BY <3>1, <3>2
  <2> QED BY <1>2, <2>1, <2>2
<1> QED BY <1>3, <1>4, <1>5, <1>6 DEF Owed

\* A step that changes only its handler keeps the invariant.
LEMMA QuietStep ==
  ASSUME Inductive, NEW h \in Handlers, Quietly(h)
  PROVE  Kept' /\ Paths' /\ Ages' /\ Sole' /\ SourceInv' /\ ViewInv' /\ Owed'
<1>1. Moves(h) /\ SameRevision /\ Stands /\ Others(h) /\ Path(h)'
  BY StandsStill DEF Inductive, Quietly, Moves
<1>2. Kept'
  BY <1>1, MovesKindly DEF Inductive, World, TypeOK, Kept, Stands
<1>3. Ages' /\ Sole' /\ Paths'
  BY <1>1, StaysOld, StaysSole, PathsKept DEF Inductive
<1> QED BY <1>2, <1>3, QuietSource, QuietView, QuietOwed DEF Inductive

\* Which steps are of this kind.
LEMMA ArrivalIsQuiet ==
  ASSUME World, Paths, NEW h \in Handlers, Watches(h)
  PROVE  Quietly(h)
<1>1. Path(h)' /\ Aside(h)
  BY DEF Watches, Path, Aside, Publishing, Committing, Viewing, OnDisk
<1>2. Moves(h) /\ SameRevision
  BY <1>1, StandsStill DEF Watches, Moves
<1>3. ~Current(h)'
  BY <1>1, <1>2, CurrentStays
<1>4. Undutiful(h)
  BY DEF Watches, Undutiful, Commits, Settles, Views, Deletes, Closes, Writers, OnDisk, Viewing
<1> QED BY <1>1, <1>2, <1>3, <1>4 DEF Watches, Quietly

\* A step of the loops and waits.
LEMMA WalkIsQuiet ==
  ASSUME World, Paths, NEW h \in Handlers, Walks(h), handler[h].pc # "retire"
  PROVE  Quietly(h)
<1>1. Stands /\ SameRevision
  BY StandsStill DEF Walks
<1>2. CASE Returns(h) /\ Undutiful(h)
  <2>1. Moves(h) /\ Aside(h)
    BY <1>2, ReturnsInOrder DEF Moves, Returns
  <2>2. ~Current(h)'
    BY <1>1, <2>1, CurrentStays
  <2> QED BY <1>1, <1>2, <2>1, <2>2 DEF Quietly, Returns
<1>3. ASSUME NEW l \in Labels, Passes(h, l), Ahead(h, l), handler'[h].gen \in {handler[h].gen, generation},
             Path(h)', KeepsDuties(h)
      PROVE  Quietly(h)
  <2>1. handler[h].kind = "deleted" /\ l \in OnDisk \cup {"settle"} => handler[h].pc \in OnDisk \/ doc = None
    BY <1>3 DEF Ahead
  <2>2. Moves(h)
    BY <1>3, <2>1 DEF Moves, Passes
  <2>3. l = "replace" => MatchesIndex(h)'
    BY <1>1, <1>3, Compared DEF Ahead
  <2>4. handler'[h].pc = l /\ handler'[h].seed = handler[h].seed
    BY <1>3 DEF Passes
  <2> QED BY <1>1, <1>3, <2>2, <2>3, <2>4 DEF Quietly, Ahead
<1> QED BY <1>2, <1>3 DEF Walks

\* complete_live_publication fails: the view is to be withdrawn.
LEMMA WithdrawalIsQuiet ==
  ASSUME World, Paths, NEW h \in Handlers, Complete(h), ~(MatchesIndex(h) /\ Uninvalidated(h))
  PROVE  Quietly(h)
<1>1. Stands /\ Goto(h, "undo") /\ handler[h].pc = "complete"
  BY DEF Complete, Stands, At
<1>2. Passes(h, "undo") /\ handler'[h].gen = handler[h].gen
  BY <1>1, GotoPasses DEF Labels
<1>3. Path(h)'
  BY <1>1, <1>2 DEF Paths, Path, Passes, Viewing, Committing, OnDisk, Publishing, Writers
<1>4. Moves(h)
  <2>1. "undo" \in Labels
    BY DEF Labels
  <2> QED BY <1>2, <1>3, <2>1 DEF Moves, Passes, OnDisk
<1>5. Undutiful(h)
  BY <1>1 DEF Undutiful, Commits, Settles, Views, Deletes, Closes, Committing, OnDisk
<1> QED BY <1>1, <1>2, <1>4, <1>5 DEF Quietly, Passes, Viewing, Committing

-----------------------------------------------------------------------------
(* Steps that move the uri's generation on.                                *)

\* Every sample of the generation is stale.
LEMMA NobodyIsUpToDate ==
  ASSUME World, Ages, NEW h \in Handlers, Others(h), generation' = generation + 1, handler'[h].gen <= generation
  PROVE  \A k \in Handlers : ~Uninvalidated(k)'
<1>1. ASSUME NEW k \in Handlers
      PROVE  handler'[k].gen # generation'
  <2>1. handler[k].gen <= generation /\ handler[k].gen \in Nat /\ generation \in Nat
    BY CallTyped DEF Ages, Age, World, TypeOK
  <2>2. k # h => handler'[k].gen = handler[k].gen
    BY DEF Others
  <2>3. CASE k = h
    BY <2>1, <2>3
  <2>4. CASE k # h
    BY <2>1, <2>2, <2>4
  <2> QED BY <2>3, <2>4
<1> QED BY <1>1 DEF Uninvalidated

\* Only h is called for the new revision.
LEMMA RevisionIsOwn ==
  ASSUME World, Ages, NEW h \in Handlers, Revises(h)
  PROVE  \A k \in Handlers \ {h} : ~Current(k)'
<1>1. ASSUME NEW k \in Handlers, k # h, Current(k)'
      PROVE  FALSE
  <2>1. handler'[k] = handler[k] /\ handler[k].opening <= Opening /\ Opening \in Nat
        /\ handler[k].opening \in Nat /\ handler[k].rev \in Nat
    BY <1>1, CallTyped, OpeningIsANumber DEF Revises, Others, Ages, Age
  <2>2. handler[k].opening = doc'.opening /\ handler[k].rev = doc'.rev /\ doc'.opening = Opening'
    BY <1>1, <2>1 DEF Current, Borrowed, Revises
  <2>3. CASE doc = None
    BY <2>1, <2>2, <2>3 DEF Revises
  <2>4. CASE doc # None
    <3>1. doc.opening = Opening /\ doc.rev \in Nat /\ doc'.rev = doc.rev + 1 /\ Opening' = Opening
      BY <2>4, DocIsARecord DEF Revises
    <3>2. handler[k].rev <= doc.rev
      BY <2>2, <2>4, <3>1 DEF Ages, Age
    <3> QED BY <2>1, <2>2, <3>1, <3>2
  <2> QED BY <2>3, <2>4
<1> QED BY <1>1

\* Every other handler knows an older revision.
LEMMA RevisionAges ==
  ASSUME World, Ages, NEW h \in Handlers, Revises(h)
  PROVE  Ages'
<1>1. /\ doc' \in Documents /\ doc' # None /\ doc'.rev \in Nat /\ doc'.opening = Opening'
      /\ Opening' \in {Opening, Opening + 1} /\ Opening \in Nat
      /\ generation' = generation + 1 /\ generation \in Nat
  BY OpeningIsANumber, NoneIsNoDocument DEF Revises, Documents, World, TypeOK
<1>2. Age(h)'
  <2>1. handler'[h].gen <= generation' /\ handler'[h].opening <= Opening' /\ handler'[h].rev <= doc'.rev
    <3>1. handler'[h].gen \in Nat
      BY DEF Revises, Typed, Calls
    <3> QED BY <1>1, <3>1 DEF Revises
  <2>2. handler'[h].kind # "deleted"
    BY DEF Revises, Writers
  <2> QED BY <2>1, <2>2 DEF Age
<1>3. ASSUME NEW k \in Handlers, k # h
      PROVE  Age(k)'
  <2>1. /\ handler'[k] = handler[k] /\ Age(k) /\ handler[k].gen \in Nat /\ handler[k].opening \in Nat
        /\ handler[k].rev \in Nat /\ handler[k].deleted \in Int
    BY <1>3, CallTyped DEF Revises, Others, Ages
  <2>2. handler[k].gen <= generation' /\ handler[k].opening <= Opening'
    BY <1>1, <2>1 DEF Age
  <2>3. CASE doc = None
    <3>1. doc'.opening = Opening + 1 /\ ~doc'.orphan
      BY <1>1, <2>3 DEF Revises
    <3>2. handler[k].opening # doc'.opening
      BY <1>1, <2>1, <3>1 DEF Age
    <3> QED BY <2>1, <2>2, <3>1, <3>2 DEF Age
  <2>4. CASE doc # None
    <3>1. doc'.opening = doc.opening /\ doc'.rev = doc.rev + 1 /\ doc.rev \in Nat /\ (doc'.orphan => doc.orphan)
      BY <1>1, <2>4, DocIsARecord DEF Revises
    <3>2. handler[k].opening = doc'.opening => handler[k].rev <= doc'.rev
      BY <2>1, <2>4, <3>1 DEF Age
    <3>3. doc'.orphan /\ handler[k].kind = "deleted" /\ handler[k].pc \in OnDisk \cup {"settle"}
            => handler[k].deleted <= doc'.rev
      BY <2>1, <2>4, <3>1 DEF Age
    <3> QED BY <2>1, <2>2, <3>2, <3>3 DEF Age
  <2> QED BY <2>3, <2>4
<1> QED BY <1>2, <1>3 DEF Ages

\* The stage is pending again.
LEMMA RevisionSource ==
  ASSUME Inductive, NEW h \in Handlers, Revises(h)
  PROVE  SourceInv'
<1> USE DEF Inductive
<1>1. doc' # None /\ doc'.pub = "pending" /\ source' = source
  BY NoneIsNoDocument DEF Revises
<1>2. ReadyMeansSource'
  BY <1>1 DEF ReadyMeansSource
<1>3. \A k \in Handlers : ~Uninvalidated(k)'
  BY NobodyIsUpToDate DEF Revises
<1>4. handler'[h].pc \in {"retire", "live_gate"}
  BY DEF Revises
<1>5. Sourced(h)'
  BY <1>3, <1>4 DEF Sourced, At, Viewing
<1>6. ASSUME NEW k \in Handlers, k # h
      PROVE  Sourced(k)'
  <2>1. handler'[k] = handler[k] /\ Sourced(k) /\ ~Current(k)'
    BY <1>6, RevisionIsOwn DEF Revises, Others, SourceInv
  <2>2. At(k, "settle") => ~(doc'.orphan /\ doc'.rev = handler[k].deleted)
    <3>1. SUFFICES ASSUME At(k, "settle"), doc'.orphan, doc'.rev = handler[k].deleted
                   PROVE  FALSE
      OBVIOUS
    <3>2. doc # None /\ doc.orphan /\ doc'.rev = doc.rev + 1 /\ doc.rev \in Nat
      BY <3>1, DocIsARecord DEF Revises
    <3>3. handler[k].kind = "deleted"
      BY <3>1 DEF At, Paths, Path
    <3>4. handler[k].deleted <= doc.rev
      BY <3>1, <3>2, <3>3 DEF At, Ages, Age
    <3> QED BY <3>1, <3>2, <3>4
  <2> QED BY <1>1, <1>3, <2>1, <2>2 DEF Sourced, At
<1> QED BY <1>2, <1>5, <1>6 DEF SourceInv

\* An edit of an indexed document relies on the view that is there.
LEMMA RevisionView ==
  ASSUME Inductive, NEW h \in Handlers, Revises(h)
  PROVE  ViewInv'
<1> USE DEF Inductive
<1>1. doc' # None /\ doc'.pub = "pending" /\ index' = index
  BY NoneIsNoDocument DEF Revises
<1>2. \A k \in Handlers : ~Uninvalidated(k)'
  BY NobodyIsUpToDate DEF Revises
<1>3. Claimed' => Relies(h)'
  <2>1. \A k \in Handlers \ {h} : ~Relies(k)'
    BY RevisionIsOwn DEF Relies
  <2> QED BY <1>1, <2>1 DEF Claimed
<1>4. Claimed' => Claimed /\ ~handler'[h].seed
  <2>1. SUFFICES ASSUME Claimed'
                 PROVE  Claimed /\ ~handler'[h].seed
    OBVIOUS
  <2>2. ~handler'[h].seed
    BY <1>3, <2>1 DEF Relies
  <2>3. doc # None /\ doc.pub = "indexed" /\ doc'.orphan = doc.orphan /\ doc'.borrowed = doc.borrowed
    BY <2>2 DEF Revises
  <2> QED BY <2>1, <2>2, <2>3 DEF Claimed
<1>5. Viewed(h)'
  <2>1. handler'[h].pc = "retire" => ~Claimed'
    BY <1>3 DEF Relies, Committing
  <2>2. handler'[h].pc \in {"retire", "live_gate"}
    BY DEF Revises
  <2> QED BY <1>2, <1>4, <2>1, <2>2 DEF Viewed, At
<1>6. ASSUME NEW k \in Handlers, k # h
      PROVE  Viewed(k)'
  <2>1. handler'[k] = handler[k] /\ Viewed(k) /\ ~Current(k)'
    BY <1>6, RevisionIsOwn DEF Revises, Others, ViewInv
  <2> QED BY <1>2, <1>4, <2>1 DEF Viewed, At
<1> QED BY <1>1, <1>4, <1>5, <1>6 DEF ViewInv

\* h will commit the new revision.
LEMMA RevisionOwed ==
  ASSUME Inductive, NEW h \in Handlers, Revises(h)
  PROVE  Owed'
<1> USE DEF Inductive
<1>1. doc' # None /\ doc'.pub = "pending" /\ index' = index
  BY NoneIsNoDocument DEF Revises
<1>2. Commits(h)'
  <2>1. SameBody(h)'
    BY <1>1 DEF SameBody, Revises
  <2>2. MatchesSource(h)'
    BY <2>1 DEF MatchesSource, Revises
  <2> QED BY <2>2 DEF Commits, Fresh, Gated, Committing, Revises
<1>3. doc'.orphan /\ index' # None => \E k \in Handlers : Deletes(k)'
  <2>1. SUFFICES ASSUME doc'.orphan, index' # None
                 PROVE  \E k \in Handlers : Deletes(k)'
    OBVIOUS
  <2>2. PICK k \in Handlers : Deletes(k)
    BY <1>1, <2>1 DEF Revises, Owed
  <2>3. k # h
    BY <2>2 DEF Deletes, OnDisk, Revises
  <2> QED BY <2>2, <2>3 DEF Deletes, Revises, Others
<1> QED BY <1>1, <1>2, <1>3 DEF Owed

\* A new revision keeps the invariant.
LEMMA RevisionStep ==
  ASSUME Inductive, NEW h \in Handlers, Revises(h)
  PROVE  Kept' /\ Paths' /\ Ages' /\ Sole' /\ SourceInv' /\ ViewInv' /\ Owed'
<1> USE DEF Inductive
<1>1. Kept'
  <2>1. doc' \in Documents /\ doc'.opening = Opening' /\ Opening' > 0
    BY DocIsARecord, OpeningIsANumber DEF Revises
  <2> QED BY <2>1 DEF Kept, Revises, World, TypeOK
<1>2. Path(h)'
  <2>1. doc'.body \in Bodies
    BY DEF Revises, Documents
  <2> QED BY <2>1 DEF Revises, Path, Committing, Viewing, OnDisk, Publishing, Writers
<1>3. Paths'
  BY <1>2, PathsKept DEF Revises
<1>4. Sole'
  BY RevisionIsOwn DEF Sole
<1> QED BY <1>1, <1>3, <1>4, RevisionAges, RevisionSource, RevisionView, RevisionOwed

\* A close promises nothing, and h will read the disk.
LEMMA ShutStep ==
  ASSUME Inductive, NEW h \in Handlers, Shuts(h)
  PROVE  Kept' /\ Paths' /\ Ages' /\ Sole' /\ SourceInv' /\ ViewInv' /\ Owed'
<1> USE DEF Inductive
<1>1. Kept'
  BY DEF Kept, Shuts, World, TypeOK
<1>2. Paths'
  <2>1. Path(h)'
    BY DEF Shuts, Path, Publishing, Committing, Viewing, OnDisk, Writers
  <2> QED BY <2>1, PathsKept DEF Shuts
<1>3. \A k \in Handlers : ~Uninvalidated(k)'
  <2>1. 0 <= generation
    BY DEF World, TypeOK
  <2> QED BY <2>1, NobodyIsUpToDate DEF Shuts
<1>4. doc' = None /\ ~Claimed' /\ \A k \in Handlers : ~Current(k)'
  BY DEF Shuts, Claimed, Current
<1>5. Ages'
  <2>1. ASSUME NEW k \in Handlers
        PROVE  Age(k)'
    <3>1. handler[k].gen <= generation /\ handler[k].opening <= Opening /\ handler[k].gen \in Nat /\ generation \in Nat
          /\ Opening \in Nat
      BY CallTyped, OpeningIsANumber DEF Ages, Age, World, TypeOK
    <3>2. CASE k = h
      BY <1>4, <3>1, <3>2 DEF Shuts, Age
    <3>3. CASE k # h
      BY <1>4, <3>1, <3>3 DEF Shuts, Others, Age
    <3> QED BY <3>2, <3>3
  <2> QED BY <2>1 DEF Ages
<1>6. SourceInv'
  <2>1. ReadyMeansSource'
    BY <1>4 DEF ReadyMeansSource
  <2>2. ASSUME NEW k \in Handlers
        PROVE  At(k, "mark")' => source' = handler'[k].body
    BY DEF At, Shuts, Others, SourceInv, Sourced
  <2> QED BY <1>3, <1>4, <2>1, <2>2 DEF SourceInv, Sourced
<1>7. ViewInv'
  BY <1>3, <1>4 DEF ViewInv, Viewed
<1>8. Owed'
  <2>1. Closes(h)'
    BY <1>4 DEF Closes, Shuts, Fresh, Gated, Committing
  <2> QED BY <1>4, <2>1 DEF Owed
<1> QED BY <1>1, <1>2, <1>4, <1>5, <1>6, <1>7, <1>8 DEF Sole

\* A deletion: nothing is promised to a buffer without a file, and h will remove its view.
LEMMA OrphanStep ==
  ASSUME Inductive, NEW h \in Handlers, Orphans(h)
  PROVE  Kept' /\ Paths' /\ Ages' /\ Sole' /\ SourceInv' /\ ViewInv' /\ Owed'
<1> USE DEF Inductive
<1>1. /\ doc = None => doc' = None
      /\ doc # None => /\ doc' \in Documents /\ doc' # None /\ doc'.orphan /\ doc'.opening = doc.opening
                       /\ doc'.rev = doc.rev /\ doc'.body = doc.body /\ doc'.version = doc.version
                       /\ doc'.borrowed = doc.borrowed
                       /\ doc'.pub = IF doc.pub = "pending" THEN "pending" ELSE "indexed"
  <2>1. doc # None => doc' \in Documents
    BY DEF Orphans, Orphaned, World, TypeOK, Documents
  <2>2. doc # None => doc' # None
    BY <2>1, NoneIsNoDocument
  <2> QED BY <2>1, <2>2 DEF Orphans, Orphaned, World, TypeOK, Documents
<1>2. Others(h) /\ Opening' = Opening /\ handler'[h].gen <= generation
  BY OpeningKept DEF Orphans, Others, Ages, Age
<1>3. Kept'
  BY <1>1, <1>2 DEF Kept, Orphans, World, TypeOK
<1>4. handler[h].opening <= 0
  <2>1. Path(h) /\ handler[h].opening \in Nat
    BY CallTyped DEF Paths
  <2> QED BY <2>1 DEF Path, Orphans, Publishing, Committing, Viewing
<1>5. Paths'
  <2>1. Path(h)'
    <3>1. handler'[h].opening \in Nat
      BY DEF Orphans, Typed, Calls
    <3> QED BY <1>4, <3>1 DEF Orphans, Path, Publishing, Committing, Viewing, OnDisk
  <2> QED BY <1>2, <2>1, PathsKept
<1>6. \A k \in Handlers : ~Uninvalidated(k)'
  BY <1>2, NobodyIsUpToDate DEF Orphans
<1>7. \A k \in Handlers : Current(k)' => Current(k) /\ k # h
  <2>1. ~Current(h)'
    BY <1>1, <1>4, DocIsARecord, CallTyped DEF Orphans, Current, Borrowed
  <2> QED BY <1>1, <1>2, <2>1 DEF Current, Borrowed, Others
<1>8. \A k \in Handlers \ {h} : handler[k].kind = "deleted" => handler[k].pc \notin OnDisk \cup {"settle"}
  <2>1. gate["watched"] = h
    BY DEF Orphans, GatesHeld, Holding
  <2> QED BY <2>1 DEF GatesHeld, Holding
<1>9. Ages'
  <2>1. generation \in Nat /\ generation' = generation + 1
    BY DEF World, TypeOK, Orphans
  <2>2. ASSUME NEW k \in Handlers, k # h
        PROVE  Age(k)'
    <3>1. handler'[k] = handler[k] /\ Age(k) /\ handler[k].gen \in Nat
      BY <1>2, <2>2, CallTyped DEF Others, Ages
    <3>2. handler[k].gen <= generation' /\ handler[k].opening <= Opening'
      BY <1>2, <2>1, <3>1 DEF Age
    <3> QED BY <1>1, <1>8, <2>2, <3>1, <3>2 DEF Age
  <2>3. Age(h)'
    <3>1. handler'[h].gen <= generation' /\ handler'[h].opening <= Opening'
      <4>1. handler'[h].gen \in Nat /\ handler'[h].opening \in Nat /\ Opening \in Nat
        BY OpeningIsANumber DEF Orphans, Typed, Calls
      <4> QED BY <1>2, <1>4, <2>1, <4>1 DEF Orphans
    <3>2. doc' # None => handler'[h].deleted = doc'.rev /\ doc'.rev \in Nat /\ handler'[h].opening # doc'.opening
      BY <1>1, <1>4, DocIsARecord DEF Orphans
    <3> QED BY <3>1, <3>2 DEF Age
  <2> QED BY <2>2, <2>3 DEF Ages
<1>10. SourceInv'
  <2>1. source' = source
    BY DEF Orphans
  <2>2. ReadyMeansSource'
    BY <1>1, <2>1 DEF SourceInv, ReadyMeansSource
  <2>3. ASSUME NEW k \in Handlers, k # h
        PROVE  Sourced(k)'
    <3>1. handler'[k] = handler[k] /\ Sourced(k)
      BY <1>2, <2>3 DEF Others, SourceInv
    <3>2. Current(k)' /\ handler'[k].pc \in Viewing => doc'.pub # "pending"
      BY <1>1, <1>7, <3>1 DEF Sourced, Current
    <3>3. ~At(k, "settle")
      BY <1>8, <2>3 DEF Paths, Path, At
    <3> QED BY <1>6, <2>1, <3>1, <3>2, <3>3 DEF Sourced, At
  <2>4. Sourced(h)'
    BY <1>6, <1>7 DEF Sourced, At, Orphans
  <2> QED BY <2>2, <2>3, <2>4 DEF SourceInv
<1>11. ViewInv'
  <2>1. ~Claimed'
    BY <1>1 DEF Claimed
  <2> QED BY <1>6, <2>1 DEF ViewInv, Viewed
<1>12. Owed'
  <2>1. doc' # None => Settles(h)' /\ Deletes(h)'
    BY <1>1 DEF Settles, Deletes, Orphans, OnDisk
  <2>2. doc' = None => Closes(h)'
    BY DEF Closes, Orphans, OnDisk
  <2> QED BY <1>1, <2>1, <2>2 DEF Owed
<1> QED BY <1>3, <1>5, <1>7, <1>9, <1>10, <1>11, <1>12 DEF Sole

-----------------------------------------------------------------------------
(* Steps that change a store or the stage of the document.                 *)

\* What a step of h does to the claims of the others.
Grows == doc' = doc \/ (doc # None /\ doc.borrowed \subseteq doc'.borrowed)

\* A step that keeps the revision keeps everything but what it is about.
LEMMA StandingStep ==
  ASSUME Inductive, NEW h \in Handlers, Moves(h), SameRevision,
         source' \in Stored, index' \in Entries \cup {None}
  PROVE  Kept' /\ Paths' /\ Ages' /\ Sole'
<1> USE DEF Inductive
<1>1. Kept'
  <2>1. doc' \in Documents \cup {None} /\ (doc' # None => doc'.opening = doc.opening /\ doc # None)
    BY DEF SameRevision
  <2>2. generation' \in Nat
    BY DEF SameRevision, World, TypeOK
  <2> QED BY <2>1, <2>2, MovesKindly, DocIsARecord DEF Kept
<1>2. Paths'
  BY PathsKept DEF Moves
<1> QED BY <1>1, <1>2, StaysOld, StaysSole

\* What the other handlers rely on of the source.
LEMMA OthersSourced ==
  ASSUME World, NEW h \in Handlers, Moves(h), SameRevision, SourceInv, Grows, NEW k \in Handlers, k # h,
         doc # None => doc'.pub = doc.pub \/ doc'.pub # "pending",
         At(k, "mark") => source' = source,
         At(k, "settle") /\ doc # None /\ doc.orphan /\ doc.rev = handler[k].deleted => source' \in {None, doc.body}
  PROVE  Sourced(k)'
<1>1. /\ handler'[k] = handler[k] /\ (MatchesIndex(k)' <=> MatchesIndex(k))
      /\ (Uninvalidated(k)' <=> Uninvalidated(k)) /\ (Current(k)' <=> Current(k)) /\ Sourced(k)
  BY OthersCompare DEF SourceInv
<1>2. doc' # None => doc # None /\ doc'.orphan = doc.orphan /\ doc'.rev = doc.rev /\ doc'.body = doc.body
  BY DEF SameRevision
<1>3. At(k, "mark")' => source' = handler'[k].body
  BY <1>1 DEF Sourced, At
<1>4. Current(k)' /\ handler'[k].pc \in Viewing => doc'.pub # "pending"
  BY <1>1 DEF Sourced, Current
<1>5. handler'[k].pc \in {"replace", "complete"} /\ Uninvalidated(k)' => MatchesIndex(k)'
  BY <1>1 DEF Sourced
<1>6. At(k, "complete")' /\ Uninvalidated(k)' /\ "view" \notin doc'.borrowed => Current(k)'
  BY <1>1 DEF Sourced, At, Grows
<1>7. At(k, "settle")' /\ doc' # None /\ doc'.orphan /\ doc'.rev = handler'[k].deleted
        => source' \in {None, doc'.body}
  BY <1>1, <1>2 DEF At
<1> QED BY <1>3, <1>4, <1>5, <1>6, <1>7 DEF Sourced

\* Nothing is claimed that was not: neither the stage nor h makes a new promise.
LEMMA NoNewClaim ==
  ASSUME World, NEW h \in Handlers, Moves(h), SameRevision, Grows,
         doc # None => (doc'.pub = "indexed" => doc.pub = "indexed"),
         Relies(h)' => Relies(h)
  PROVE  Claimed' => Claimed
<1>1. \A k \in Handlers : Relies(k)' => Relies(k)
  <2>1. ASSUME NEW k \in Handlers, k # h, Relies(k)'
        PROVE  Relies(k)
    BY <2>1, OthersCompare DEF Relies
  <2> QED BY <2>1
<1>2. doc' # None => doc # None /\ doc'.orphan = doc.orphan
  BY DEF SameRevision
<1>3. doc # None /\ doc'.borrowed = {} => doc.borrowed = {}
  BY DEF Grows
<1> QED BY <1>1, <1>2, <1>3 DEF Claimed

\* What the other handlers rely on of the view.
LEMMA OthersViewed ==
  ASSUME World, NEW h \in Handlers, Moves(h), SameRevision, Grows, NEW k \in Handlers, k # h, Viewed(k),
         handler'[h].pc # "retire",
         handler[k].pc \in {"retire", "complete", "undo"} => (Claimed' => Claimed),
         Current(k) /\ handler[k].seed => (Claimed' => Claimed),
         At(k, "complete") /\ Uninvalidated(k) /\ doc'.borrowed = {} => index' # None
  PROVE  Viewed(k)'
<1>1. /\ handler'[k] = handler[k] /\ (Uninvalidated(k)' <=> Uninvalidated(k)) /\ (Current(k)' <=> Current(k))
  BY OthersCompare
<1>2. /\ handler'[k].pc \in {"retire", "complete", "undo"} => ~Claimed'
      /\ Current(k)' /\ handler'[k].seed => ~Claimed'
  BY <1>1 DEF Viewed
<1>3. At(k, "mark")' /\ handler'[k].kind # "open" /\ Uninvalidated(k)' /\ doc' # None /\ Borrowed(k)'
        => "source" \in doc'.borrowed
  <2>1. doc' # None => doc # None /\ doc'.opening = doc.opening /\ doc'.rev = doc.rev
    BY DEF SameRevision
  <2> QED BY <1>1, <2>1 DEF Viewed, At, Borrowed, Grows
<1>4. At(k, "complete")' /\ Uninvalidated(k)' /\ doc'.borrowed = {} => index' # None
  BY <1>1 DEF At
<1>5. At(k, "complete")' /\ (\E j \in Handlers : At(j, "retire"))' => ~Uninvalidated(k)'
  <2>1. (\E j \in Handlers : At(j, "retire"))' => \E j \in Handlers : At(j, "retire")
    <3>1. \A j \in Handlers : At(j, "retire")' => At(j, "retire")
      BY DEF At, Moves, Others
    <3> QED BY <3>1
  <2>2. At(k, "complete") /\ (\E j \in Handlers : At(j, "retire")) => ~Uninvalidated(k)
    BY DEF Viewed
  <2>3. At(k, "complete")' <=> At(k, "complete")
    BY <1>1 DEF At
  <2> QED BY <1>1, <2>1, <2>2, <2>3
<1> QED BY <1>2, <1>3, <1>4, <1>5 DEF Viewed

\* Two handlers are not at steps that hold the same gate.
LEMMA UnderRehoming ==
  ASSUME GatesHeld, NEW h \in Handlers, NEW k \in Handlers,
         handler[h].pc \in {"currency", "replace", "complete", "undo", "disk_live", "disk_try"},
         handler[k].pc \in {"currency", "replace", "complete", "undo", "disk_live", "disk_try"}
  PROVE  h = k
BY DEF GatesHeld, Holding

\* The same of the live gate.
LEMMA UnderLive ==
  ASSUME GatesHeld, NEW h \in Handlers, NEW k \in Handlers,
         handler[h].pc \in {"try", "pause", "sleep", "mark", "disk_try"},
         handler[k].pc \in {"try", "pause", "sleep", "mark", "disk_try"}
  PROVE  h = k
BY DEF GatesHeld, Holding

\* A view that is about to be completed belongs to an open document.
LEMMA CompletesForADocument ==
  ASSUME SourceInv, NEW k \in Handlers, At(k, "complete"), Uninvalidated(k)
  PROVE  doc # None /\ ~doc.orphan
BY DEF SourceInv, Sourced, At, MatchesIndex, MatchesSource, SameBody

\* What was owed still is, if h keeps its part of it.
LEMMA StillOwed ==
  ASSUME World, NEW h \in Handlers, Moves(h), SameRevision, Owed, doc # None
  PROVE  /\ doc.pub = "pending" /\ (Commits(h) \/ Settles(h) => Commits(h)' \/ Settles(h)')
              => \E k \in Handlers : Commits(k)' \/ Settles(k)'
         /\ doc.pub = "salsa" /\ (Views(h) => Views(h)') => \E k \in Handlers : Views(k)'
         /\ doc.orphan /\ index # None /\ ~Deletes(h) => \E k \in Handlers : Deletes(k)'
<1>1. ASSUME doc.pub = "pending", Commits(h) \/ Settles(h) => Commits(h)' \/ Settles(h)'
      PROVE  \E k \in Handlers : Commits(k)' \/ Settles(k)'
  <2>1. PICK k \in Handlers : Commits(k) \/ Settles(k)
    BY <1>1 DEF Owed
  <2> QED BY <1>1, <2>1, OthersOwe
<1>2. ASSUME doc.pub = "salsa", Views(h) => Views(h)'
      PROVE  \E k \in Handlers : Views(k)'
  <2>1. PICK k \in Handlers : Views(k)
    BY <1>2 DEF Owed
  <2> QED BY <1>2, <2>1, OthersOwe
<1>3. ASSUME doc.orphan, index # None, ~Deletes(h)
      PROVE  \E k \in Handlers : Deletes(k)'
  <2>1. PICK k \in Handlers : Deletes(k)
    BY <1>3 DEF Owed
  <2> QED BY <1>3, <2>1, OthersOwe
<1> QED BY <1>1, <1>2, <1>3

\* A step that goes on at l.
LEMMA GoesOn ==
  ASSUME World, Paths, NEW h \in Handlers, NEW l \in Labels, Goto(h, l), Path(h)',
         handler[h].kind = "deleted" /\ l \in OnDisk \cup {"settle"} => handler[h].pc \in OnDisk
  PROVE  Moves(h) /\ Passes(h, l) /\ handler'[h].gen = handler[h].gen
<1>1. Passes(h, l) /\ handler'[h].gen = handler[h].gen
  BY GotoPasses
<1> QED BY <1>1 DEF Moves, Passes

\* A call that returns, in order.
LEMMA ReturnMoves ==
  ASSUME World, NEW h \in Handlers, Finish(h)
  PROVE  Moves(h) /\ Returns(h)
BY FinishReturns, ReturnsInOrder DEF Moves, Returns

\* did_open drops the view of the closed file, which nobody has promised yet.
LEMMA RetireStep ==
  ASSUME Inductive, NEW h \in Handlers, Retire(h)
  PROVE  Kept' /\ Paths' /\ Ages' /\ Sole' /\ SourceInv' /\ ViewInv' /\ Owed'
<1> USE DEF Inductive
<1>1. /\ handler[h].pc = "retire" /\ Goto(h, "live_gate") /\ index' = None
      /\ doc' = doc /\ source' = source /\ generation' = generation
  BY DEF Retire, At
<1>2. "live_gate" \in Labels
  BY DEF Labels
<1>3. Path(h)'
  BY <1>1, <1>2, GotoPasses DEF Paths, Path, Passes, Publishing, Committing, Viewing, OnDisk, Writers
<1>4. Moves(h) /\ Passes(h, "live_gate") /\ handler'[h].gen = handler[h].gen
  BY <1>1, <1>2, <1>3, GoesOn DEF OnDisk
<1>5. SameRevision /\ Grows
  BY <1>1, DocIsARecord DEF SameRevision, Grows
<1>6. handler'[h].pc = "live_gate" /\ handler'[h].kind = handler[h].kind /\ handler'[h].seed = handler[h].seed
      /\ handler[h].kind = "open" /\ handler[h].seed
  BY <1>1, <1>4 DEF Passes, Paths, Path, Publishing, Writers
<1>7. Claimed' => Claimed
  BY <1>1, <1>4, <1>5, <1>6, NoNewClaim DEF Relies
<1>8. ~Claimed
  BY <1>1 DEF ViewInv, Viewed
<1>9. Kept' /\ Paths' /\ Ages' /\ Sole'
  BY <1>1, <1>4, <1>5, StandingStep DEF World, TypeOK
<1>10. SourceInv'
  <2>1. ReadyMeansSource'
    BY <1>1 DEF SourceInv, ReadyMeansSource
  <2>2. \A k \in Handlers : At(k, "settle") /\ doc # None /\ doc.orphan /\ doc.rev = handler[k].deleted
          => source' \in {None, doc.body}
    BY <1>1 DEF SourceInv, Sourced
  <2>3. \A k \in Handlers \ {h} : Sourced(k)'
    BY <1>1, <1>4, <1>5, <2>2, OthersSourced
  <2>4. Sourced(h)'
    BY <1>6 DEF Sourced, At, Viewing
  <2> QED BY <2>1, <2>3, <2>4 DEF SourceInv
<1>11. ViewInv'
  <2>1. \A k \in Handlers \ {h} : At(k, "complete") => ~Uninvalidated(k)
    BY <1>1 DEF ViewInv, Viewed, At
  <2>2. \A k \in Handlers \ {h} : Viewed(k)'
    BY <1>4, <1>5, <1>6, <1>7, <2>1, OthersViewed DEF ViewInv
  <2>3. Viewed(h)'
    BY <1>6, <1>7, <1>8 DEF Viewed, At
  <2> QED BY <1>7, <1>8, <2>2, <2>3 DEF ViewInv
<1>12. Owed'
  <2>1. Commits(h) => Commits(h)'
    <3>1. MatchesSource(h)' <=> MatchesSource(h)
      BY <1>1, <1>4 DEF MatchesSource, SameBody, Passes
    <3> QED BY <1>6, <3>1 DEF Commits, Fresh, Gated, Committing
  <2>2. ~Settles(h) /\ ~Views(h) /\ ~Deletes(h)
    BY <1>1 DEF Settles, Views, Deletes, OnDisk, Viewing
  <2>3. doc # None /\ doc.pub = "pending" => \E k \in Handlers : Commits(k)' \/ Settles(k)'
    BY <1>4, <1>5, <2>1, <2>2, StillOwed
  <2>4. doc # None /\ doc.pub = "salsa" => \E k \in Handlers : Views(k)'
    BY <1>4, <1>5, <2>2, StillOwed
  <2>5. doc = None => \E k \in Handlers : Closes(k)'
    <3>1. SUFFICES ASSUME doc = None
                   PROVE  \E k \in Handlers : Closes(k)'
      OBVIOUS
    <3>2. PICK k \in Handlers : Closes(k)
      BY <1>1, <3>1 DEF Owed, Undisturbed, At
    <3>3. k # h
      BY <1>1, <3>2 DEF Closes, OnDisk, Committing
    <3> QED BY <1>4, <1>5, <3>2, <3>3, OthersOwe
  <2> QED BY <1>1, <2>3, <2>4, <2>5 DEF Owed
<1> QED BY <1>9, <1>10, <1>11, <1>12

\* The close drops the view of the buffer and will read the disk.
LEMMA RetireClosedStep ==
  ASSUME Inductive, NEW h \in Handlers, RetireClosed(h)
  PROVE  Kept' /\ Paths' /\ Ages' /\ Sole' /\ SourceInv' /\ ViewInv' /\ Owed'
<1> USE DEF Inductive
<1>1. /\ handler[h].pc = "try" /\ handler[h].kind = "close" /\ doc = None /\ Goto(h, "scan") /\ index' = None
      /\ doc' = doc /\ source' = source /\ generation' = generation
  BY DEF RetireClosed, At, StillWanted
<1>2. "scan" \in Labels
  BY DEF Labels
<1>3. Path(h)'
  BY <1>1, <1>2, GotoPasses DEF Paths, Path, Passes, Publishing, Committing, Viewing, OnDisk, Writers
<1>4. Moves(h) /\ Passes(h, "scan") /\ handler'[h].gen = handler[h].gen
  BY <1>1, <1>2, <1>3, GoesOn DEF OnDisk
<1>5. SameRevision /\ Grows
  BY <1>1 DEF SameRevision, Grows
<1>6. handler'[h].pc = "scan" /\ handler'[h].kind = "close"
  BY <1>1, <1>4 DEF Passes
<1>7. ~Claimed' /\ ~Current(h)'
  BY <1>1 DEF Claimed, Current
<1>9. Kept' /\ Paths' /\ Ages' /\ Sole'
  BY <1>1, <1>4, <1>5, StandingStep DEF World, TypeOK
<1>10. SourceInv'
  <2>1. ReadyMeansSource'
    BY <1>1 DEF ReadyMeansSource
  <2>2. \A k \in Handlers \ {h} : Sourced(k)'
    BY <1>1, <1>4, <1>5, OthersSourced
  <2>3. Sourced(h)'
    BY <1>6, <1>7 DEF Sourced, At, Viewing
  <2> QED BY <2>1, <2>2, <2>3 DEF SourceInv
<1>11. ViewInv'
  <2>1. \A k \in Handlers \ {h} : At(k, "complete") => ~Uninvalidated(k)
    BY <1>1, CompletesForADocument
  <2>2. \A k \in Handlers \ {h} : Viewed(k)'
    BY <1>4, <1>5, <1>6, <1>7, <2>1, OthersViewed DEF ViewInv
  <2>3. Viewed(h)'
    BY <1>6, <1>7 DEF Viewed, At
  <2> QED BY <1>7, <2>2, <2>3 DEF ViewInv
<1>12. Owed'
  <2>1. Closes(h)'
    BY <1>1, <1>6 DEF Closes
  <2> QED BY <1>1, <2>1 DEF Owed
<1> QED BY <1>9, <1>10, <1>11, <1>12

\* The setter runs: the source is the body h was called for, which the document has.
LEMMA SetSourceStep ==
  ASSUME Inductive, NEW h \in Handlers, SetSource(h)
  PROVE  Kept' /\ Paths' /\ Ages' /\ Sole' /\ SourceInv' /\ ViewInv' /\ Owed'
<1> USE DEF Inductive
<1>1. /\ handler[h].pc = "try" /\ handler[h].kind \in Writers /\ Goto(h, "mark") /\ MatchesSource(h)
      /\ doc # None /\ doc.body = handler[h].body
      /\ source' = handler[h].body /\ index' = (IF handler[h].kind = "dialect" THEN None ELSE index)
      /\ doc' = [doc EXCEPT !.borrowed = Lent(h, "source")] /\ generation' = generation
  BY DEF SetSource, StillWanted, MatchesSource, SameBody, At, Paths, Path, Committing
<1>2. /\ doc' \in Documents /\ doc'.opening = doc.opening /\ doc'.rev = doc.rev /\ doc'.body = doc.body
      /\ doc'.version = doc.version /\ doc'.orphan = doc.orphan /\ doc'.pub = doc.pub
      /\ doc'.borrowed = Lent(h, "source") /\ doc.borrowed \subseteq doc'.borrowed
  BY <1>1, DocIsARecord DEF Documents, Lent
<1>3. doc' # None
  BY <1>2, NoneIsNoDocument
<1>4. "mark" \in Labels
  BY DEF Labels
<1>5. Path(h)'
  BY <1>1, <1>4, GotoPasses DEF Paths, Path, Passes, Publishing, Committing, Viewing, OnDisk, Writers
<1>6. Moves(h) /\ Passes(h, "mark") /\ handler'[h].gen = handler[h].gen
  BY <1>1, <1>4, <1>5, GoesOn DEF OnDisk
<1>7. SameRevision /\ Grows
  BY <1>1, <1>2 DEF SameRevision, Grows
<1>8. handler'[h].pc = "mark" /\ handler'[h].kind = handler[h].kind /\ handler'[h].seed = handler[h].seed
      /\ handler'[h].body = handler[h].body
  BY <1>6 DEF Passes
<1>9. (Current(h)' <=> Current(h)) /\ (Borrowed(h)' <=> Borrowed(h))
  <2>1. Borrowed(h)' <=> Borrowed(h)
    BY <1>2, <1>6 DEF Borrowed, Passes
  <2> QED BY <1>1, <1>3, <2>1 DEF Current
<1>10. Claimed' => Claimed
  <2>1. Relies(h)' => Relies(h)
    BY <1>1, <1>8, <1>9 DEF Relies, Committing
  <2> QED BY <1>2, <1>6, <1>7, <2>1, NoNewClaim
<1>11. Kept' /\ Paths' /\ Ages' /\ Sole'
  <2>1. source' \in Stored /\ index' \in Entries \cup {None}
    BY <1>1, DocIsARecord DEF World, TypeOK, Stored
  <2> QED BY <1>6, <1>7, <2>1, StandingStep
<1>12. SourceInv'
  <2>1. ReadyMeansSource'
    BY <1>1, <1>2 DEF ReadyMeansSource
  <2>2. \A k \in Handlers \ {h} : ~At(k, "mark")
    BY <1>1, UnderLive DEF At
  <2>3. \A k \in Handlers \ {h} : Sourced(k)'
    BY <1>1, <1>2, <1>6, <1>7, <2>2, OthersSourced
  <2>4. Sourced(h)'
    BY <1>1, <1>8 DEF Sourced, At, Viewing
  <2> QED BY <2>1, <2>3, <2>4 DEF SourceInv
<1>13. doc'.borrowed = {} => Current(h) /\ doc.borrowed = {}
  BY <1>1, <1>2 DEF Lent, Current
<1>14. ViewInv'
  <2>1. Claimed' => index' # None
    <3>1. SUFFICES ASSUME Claimed'
                   PROVE  handler[h].kind # "dialect"
      BY <1>1, <1>10 DEF ViewInv
    <3>2. Current(h)
      BY <1>13, <3>1 DEF Claimed
    <3>3. ~handler[h].seed
      BY <1>10, <3>1, <3>2 DEF ViewInv, Viewed
    <3> QED BY <1>1, <3>3 DEF Paths, Path, Publishing, Committing
  <2>2. ASSUME NEW k \in Handlers, k # h
        PROVE  Viewed(k)'
    <3>1. At(k, "complete") /\ Uninvalidated(k) /\ doc'.borrowed = {} => FALSE
      <4>1. SUFFICES ASSUME At(k, "complete"), Uninvalidated(k), doc'.borrowed = {}
                     PROVE  FALSE
        OBVIOUS
      <4>2. Current(k)
        BY <1>13, <4>1 DEF SourceInv, Sourced
      <4> QED BY <1>13, <2>2, <4>1, <4>2 DEF Sole
    <3> QED BY <1>6, <1>7, <1>8, <1>10, <2>2, <3>1, OthersViewed DEF ViewInv
  <2>3. Viewed(h)'
    <3>1. Current(h)' /\ handler'[h].seed => ~Claimed'
      BY <1>8, <1>9, <1>10 DEF ViewInv, Viewed
    <3>2. Borrowed(h)' => "source" \in doc'.borrowed
      BY <1>2, <1>9 DEF Lent
    <3> QED BY <1>8, <3>1, <3>2 DEF Viewed, At
  <2> QED BY <2>1, <2>2, <2>3 DEF ViewInv
<1>15. Owed'
  <2>1. Commits(h) => Commits(h)'
    <3>1. MatchesSource(h)'
      BY <1>1, <1>2, <1>3, <1>6 DEF MatchesSource, SameBody, Passes
    <3>2. Fresh(h) => Fresh(h)'
      BY <1>1, <1>6 DEF Fresh, Uninvalidated, Gated
    <3> QED BY <1>1, <1>8, <3>1, <3>2 DEF Commits, Committing
  <2>2. ~Settles(h) /\ ~Views(h) /\ ~Deletes(h)
    BY <1>1 DEF Settles, Views, Deletes, OnDisk, Viewing
  <2>3. index' # None => index # None
    BY <1>1
  <2> QED BY <1>1, <1>2, <1>3, <1>6, <1>7, <2>1, <2>2, <2>3, StillOwed DEF Owed
<1> QED BY <1>11, <1>12, <1>14, <1>15

\* The stage is announced: an unseeded one was relied on already.
LEMMA MarkStep ==
  ASSUME Inductive, NEW h \in Handlers, Mark(h), StillWanted(h)
  PROVE  Kept' /\ Paths' /\ Ages' /\ Sole' /\ SourceInv' /\ ViewInv' /\ Owed'
<1> USE DEF Inductive
<1> DEFINE seeds == handler[h].seed /\ ~doc.orphan
<1>1. /\ handler[h].pc = "mark" /\ handler[h].kind \in Writers /\ MatchesSource(h)
      /\ doc # None /\ doc.body = handler[h].body
      /\ doc' = [doc EXCEPT !.pub = IF seeds THEN "salsa" ELSE "indexed"]
      /\ source' = source /\ index' = index /\ generation' = generation
      /\ handler[h].kind # "open" => Uninvalidated(h)
  BY DEF Mark, StillWanted, MatchesSource, SameBody, At, Paths, Path, Writers
<1>2. /\ doc' \in Documents /\ doc'.opening = doc.opening /\ doc'.rev = doc.rev /\ doc'.body = doc.body
      /\ doc'.version = doc.version /\ doc'.orphan = doc.orphan /\ doc'.borrowed = doc.borrowed
      /\ doc'.pub = IF seeds THEN "salsa" ELSE "indexed"
  BY <1>1, DocIsARecord DEF Documents
<1>3. doc' # None
  BY <1>2, NoneIsNoDocument
<1>4. SameRevision /\ Grows
  BY <1>1, <1>2 DEF SameRevision, Grows
<1>5. /\ Moves(h) /\ handler'[h].pc \in {"seed", "restore", "done"}
      /\ seeds => handler'[h].pc # "done" /\ Passes(h, handler'[h].pc)
      /\ ~seeds => Returns(h)
  <2>1. CASE ~seeds
    BY <1>1, <2>1, ReturnMoves DEF Mark, Returns
  <2>2. CASE seeds
    <3>1. PICK l \in {"seed", "restore"} : Goto(h, l)
      BY <1>1, <2>2 DEF Mark
    <3>2. l \in Labels
      BY DEF Labels
    <3>3. Path(h)'
      BY <1>1, <2>2, <3>1, <3>2, GotoPasses DEF Paths, Path, Passes, Publishing, Committing, Viewing, OnDisk, Writers
    <3>4. Moves(h) /\ Passes(h, l)
      BY <1>1, <3>1, <3>2, <3>3, GoesOn DEF Writers
    <3>5. handler'[h].pc = l
      BY <3>4 DEF Passes
    <3> QED BY <2>2, <3>1, <3>4, <3>5
  <2> QED BY <2>1, <2>2
<1> HIDE DEF seeds
<1>6. source = doc.body
  BY <1>1 DEF SourceInv, Sourced, At
<1>7. Kept' /\ Paths' /\ Ages' /\ Sole'
  BY <1>1, <1>4, <1>5, StandingStep DEF World, TypeOK
<1>8. SourceInv'
  <2>1. ReadyMeansSource'
    BY <1>1, <1>2, <1>6 DEF ReadyMeansSource
  <2>2. doc'.pub # "pending"
    BY <1>2
  <2>3. \A k \in Handlers : At(k, "settle") /\ doc # None /\ doc.orphan /\ doc.rev = handler[k].deleted
          => source' \in {None, doc.body}
    BY <1>1 DEF SourceInv, Sourced
  <2>4. \A k \in Handlers \ {h} : Sourced(k)'
    BY <1>1, <1>4, <1>5, <2>2, <2>3, OthersSourced
  <2>5. Sourced(h)'
    BY <1>5, <2>2 DEF Sourced, At
  <2> QED BY <2>1, <2>4, <2>5 DEF SourceInv
<1>9. Claimed' => Claimed
  <2>1. SUFFICES ASSUME Claimed'
                 PROVE  Claimed
    OBVIOUS
  <2>2. ~doc.orphan /\ doc.borrowed = {}
    BY <1>2, <2>1 DEF Claimed
  <2>3. CASE seeds
    <3>1. ~Relies(h)'
      BY <1>5 DEF Relies, Committing
    <3>2. doc'.pub # "indexed"
      BY <1>2, <2>3
    <3> QED BY <1>4, <1>5, <2>1, <3>1, <3>2, NoNewClaim
  <2>4. CASE ~seeds
    <3>1. ~handler[h].seed
      BY <2>2, <2>4 DEF seeds
    <3>2. handler[h].kind = "change"
      BY <1>1, <3>1 DEF Paths, Path, Publishing, Committing
    <3>3. ~Borrowed(h)
      BY <1>1, <2>2, <3>2 DEF ViewInv, Viewed, At
    <3>4. Relies(h)
      BY <1>1, <3>1, <3>3 DEF Relies, Current, Committing
    <3> QED BY <1>1, <2>2, <3>4 DEF Claimed
  <2> QED BY <2>3, <2>4
<1>10. ViewInv'
  <2>1. \A k \in Handlers : At(k, "complete") /\ Uninvalidated(k) /\ doc'.borrowed = {} => index' # None
    BY <1>1, <1>2 DEF ViewInv, Viewed
  <2>2. \A k \in Handlers \ {h} : Viewed(k)'
    BY <1>4, <1>5, <1>9, <2>1, OthersViewed DEF ViewInv
  <2>3. Viewed(h)'
    <3>1. Current(h)' /\ handler'[h].seed => Current(h) /\ handler[h].seed
      BY <1>4, <1>5, CurrentStays DEF Passes, Returns
    <3>2. Current(h)' /\ handler'[h].seed => ~Claimed'
      BY <1>9, <3>1 DEF ViewInv, Viewed
    <3> QED BY <1>5, <3>2 DEF Viewed, At
  <2> QED BY <1>1, <1>9, <2>2, <2>3 DEF ViewInv
<1>11. Owed'
  <2>1. doc'.pub = "salsa" => Views(h)'
    <3>1. SUFFICES ASSUME seeds
                   PROVE  Views(h)'
      BY <1>2
    <3>2. MatchesSource(h)'
      BY <1>1, <1>2, <1>3, <1>5, <3>1 DEF MatchesSource, SameBody, Passes
    <3>3. MatchesIndex(h)'
      BY <1>2, <3>1, <3>2 DEF MatchesIndex, seeds
    <3> QED BY <1>5, <3>1, <3>3 DEF Views, Viewing
  <2>2. ~Deletes(h)
    BY <1>1 DEF Deletes, OnDisk
  <2>3. doc'.orphan /\ index' # None => \E k \in Handlers : Deletes(k)'
    BY <1>1, <1>2, <1>4, <1>5, <2>2, StillOwed
  <2> QED BY <1>2, <1>3, <2>1, <2>3 DEF Owed
<1> QED BY <1>7, <1>8, <1>10, <1>11

\* The view is written, and the stage is not announced yet.
LEMMA ReplaceStep ==
  ASSUME Inductive, NEW h \in Handlers, ReplaceView(h), Uninvalidated(h)
  PROVE  Kept' /\ Paths' /\ Ages' /\ Sole' /\ SourceInv' /\ ViewInv' /\ Owed'
<1> USE DEF Inductive
<1>1. /\ handler[h].pc = "replace" /\ Goto(h, "complete") /\ MatchesIndex(h) /\ doc # None /\ ~doc.orphan
      /\ source' = source /\ index' = [body |-> handler[h].body, stamp |-> h]
      /\ doc' = [doc EXCEPT !.borrowed = Lent(h, "view")] /\ generation' = generation
      /\ \A k \in Handlers : ~At(k, "retire")
  BY DEF ReplaceView, At, IndexFree, SourceInv, Sourced, MatchesIndex, MatchesSource, SameBody
<1>2. /\ doc' \in Documents /\ doc'.opening = doc.opening /\ doc'.rev = doc.rev /\ doc'.body = doc.body
      /\ doc'.version = doc.version /\ doc'.orphan = doc.orphan /\ doc'.pub = doc.pub
      /\ doc'.borrowed = Lent(h, "view") /\ doc.borrowed \subseteq doc'.borrowed
  BY <1>1, DocIsARecord DEF Documents, Lent
<1>3. doc' # None
  BY <1>2, NoneIsNoDocument
<1>4. "complete" \in Labels
  BY DEF Labels
<1>5. handler[h].kind \in Writers /\ handler[h].seed /\ handler[h].body \in Bodies
  BY <1>1 DEF Paths, Path, Viewing, Publishing
<1>6. Path(h)'
  BY <1>1, <1>4, <1>5, GotoPasses DEF Path, Passes, Publishing, Committing, Viewing, OnDisk, Writers
<1>7. Moves(h) /\ Passes(h, "complete") /\ handler'[h].gen = handler[h].gen
  BY <1>1, <1>4, <1>6, GoesOn DEF OnDisk
<1>8. SameRevision /\ Grows
  BY <1>1, <1>2 DEF SameRevision, Grows
<1>9. handler'[h].pc = "complete" /\ handler'[h].seed
  BY <1>5, <1>7 DEF Passes
<1>10. (Current(h)' <=> Current(h)) /\ (Borrowed(h)' <=> Borrowed(h))
  <2>1. Borrowed(h)' <=> Borrowed(h)
    BY <1>2, <1>7 DEF Borrowed, Passes
  <2> QED BY <1>1, <1>3, <2>1 DEF Current
<1>11. MatchesIndex(h)'
  <2>1. MatchesSource(h)'
    BY <1>1, <1>2, <1>3, <1>7 DEF MatchesIndex, MatchesSource, SameBody, Passes
  <2> QED BY <1>1, <1>2, <2>1 DEF MatchesIndex
<1>12. Claimed' => Claimed
  <2>1. ~Relies(h)'
    BY <1>9 DEF Relies, Committing
  <2> QED BY <1>2, <1>7, <1>8, <2>1, NoNewClaim
<1>13. index' \in Entries /\ index' # None
  <2>1. index' \in Entries
    BY <1>1, <1>5 DEF Entries, Handlers
  <2> QED BY <2>1, PublicationAssumption
<1>14. Kept' /\ Paths' /\ Ages' /\ Sole'
  BY <1>1, <1>7, <1>8, <1>13, StandingStep DEF World, TypeOK
<1>15. SourceInv'
  <2>1. ReadyMeansSource'
    BY <1>1, <1>2 DEF SourceInv, ReadyMeansSource
  <2>2. \A k \in Handlers : At(k, "settle") /\ doc # None /\ doc.orphan /\ doc.rev = handler[k].deleted
          => source' \in {None, doc.body}
    BY <1>1
  <2>3. \A k \in Handlers \ {h} : Sourced(k)'
    BY <1>1, <1>2, <1>7, <1>8, <2>2, OthersSourced
  <2>4. Sourced(h)'
    <3>1. Current(h)' => doc'.pub # "pending"
      BY <1>1, <1>2, <1>10 DEF SourceInv, Sourced, Viewing
    <3>2. "view" \notin doc'.borrowed => Current(h)'
      BY <1>1, <1>2, <1>10 DEF Lent, Current
    <3> QED BY <1>9, <1>11, <3>1, <3>2 DEF Sourced, At
  <2> QED BY <2>1, <2>3, <2>4 DEF SourceInv
<1>16. ViewInv'
  <2>1. \A k \in Handlers \ {h} : Viewed(k)'
    BY <1>7, <1>8, <1>9, <1>12, <1>13, OthersViewed DEF ViewInv
  <2>2. ~Claimed'
    <3>1. SUFFICES ASSUME Claimed'
                   PROVE  FALSE
      OBVIOUS
    <3>2. Current(h)
      BY <1>1, <1>2, <3>1 DEF Claimed, Lent, Current
    <3> QED BY <1>5, <1>12, <3>1, <3>2 DEF ViewInv, Viewed
  <2>3. ~(\E k \in Handlers : At(k, "retire"))'
    <3>1. \A k \in Handlers : ~At(k, "retire")'
      BY <1>1, <1>7, <1>9 DEF At, Moves, Others
    <3> QED BY <3>1
  <2>4. Viewed(h)'
    BY <1>9, <1>13, <2>2, <2>3 DEF Viewed, At
  <2> QED BY <1>13, <2>1, <2>4 DEF ViewInv
<1>17. Owed'
  <2>1. Views(h)'
    <3>1. Uninvalidated(h)'
      BY <1>1, <1>7 DEF ReplaceView, Uninvalidated
    <3> QED BY <1>9, <1>11, <3>1 DEF Views, Viewing
  <2>2. ~Commits(h) /\ ~Settles(h)
    BY <1>1 DEF Commits, Settles, OnDisk, Committing
  <2> QED BY <1>1, <1>2, <1>3, <1>7, <1>8, <2>1, <2>2, StillOwed DEF Owed
<1> QED BY <1>14, <1>15, <1>16, <1>17

\* The last stage is announced: the view is there, and nobody is about to drop it.
LEMMA CompleteStep ==
  ASSUME Inductive, NEW h \in Handlers, Complete(h), MatchesIndex(h), Uninvalidated(h)
  PROVE  Kept' /\ Paths' /\ Ages' /\ Sole' /\ SourceInv' /\ ViewInv' /\ Owed'
<1> USE DEF Inductive
<1>1. /\ At(h, "complete") /\ handler[h].pc = "complete" /\ Finish(h) /\ doc # None /\ ~doc.orphan
      /\ source' = source /\ index' = index
      /\ doc' = [doc EXCEPT !.pub = "indexed"] /\ generation' = generation
  BY DEF Complete, At, MatchesIndex, MatchesSource, SameBody
<1>2. /\ doc' \in Documents /\ doc'.opening = doc.opening /\ doc'.rev = doc.rev /\ doc'.body = doc.body
      /\ doc'.version = doc.version /\ doc'.orphan = doc.orphan /\ doc'.pub = "indexed"
      /\ doc'.borrowed = doc.borrowed
  BY <1>1, DocIsARecord DEF Documents
<1>3. doc' # None
  BY <1>2, NoneIsNoDocument
<1>4. Moves(h) /\ Returns(h) /\ handler'[h].pc = "done" /\ ~handler'[h].seed
  BY <1>1, ReturnMoves DEF Returns
<1>5. SameRevision /\ Grows
  BY <1>1, <1>2 DEF SameRevision, Grows
<1>6. "view" \notin doc.borrowed => Current(h)
  BY <1>1 DEF SourceInv, Sourced
<1>7. Kept' /\ Paths' /\ Ages' /\ Sole'
  BY <1>1, <1>4, <1>5, StandingStep DEF World, TypeOK
<1>8. SourceInv'
  <2>1. ReadyMeansSource'
    <3>1. Current(h) => doc.pub # "pending"
      BY <1>1 DEF SourceInv, Sourced, Viewing
    <3> QED BY <1>1, <1>2, <1>6, <3>1 DEF SourceInv, ReadyMeansSource
  <2>2. \A k \in Handlers \ {h} : Sourced(k)'
    BY <1>1, <1>2, <1>4, <1>5, OthersSourced
  <2>3. Sourced(h)'
    BY <1>4, <1>2 DEF Sourced, At
  <2> QED BY <2>1, <2>2, <2>3 DEF SourceInv
<1>9. ViewInv'
  <2>1. Claimed' => index' # None /\ Current(h)
    BY <1>1, <1>2, <1>6 DEF Claimed, ViewInv, Viewed
  <2>2. ASSUME NEW k \in Handlers, k # h
        PROVE  Viewed(k)'
    <3>1. handler[k].pc \notin {"retire", "complete", "undo"}
      <4>1. ~At(k, "retire")
        BY <1>1 DEF ViewInv, Viewed
      <4> QED BY <1>1, <2>2, <4>1, UnderRehoming DEF At
    <3>2. Current(k) => ~Claimed'
      BY <2>1, <2>2 DEF Sole
    <3> QED BY <1>4, <1>5, <2>2, <3>1, <3>2, OthersViewed DEF ViewInv, At
  <2>3. Viewed(h)'
    BY <1>4 DEF Viewed, At
  <2> QED BY <2>1, <2>2, <2>3 DEF ViewInv
<1>10. Owed'
  BY <1>1, <1>2, <1>3 DEF Owed
<1> QED BY <1>7, <1>8, <1>9, <1>10

\* A view is withdrawn that was never announced.
LEMMA UndoStep ==
  ASSUME Inductive, NEW h \in Handlers, Undo(h)
  PROVE  Kept' /\ Paths' /\ Ages' /\ Sole' /\ SourceInv' /\ ViewInv' /\ Owed'
<1> USE DEF Inductive
<1>1. /\ At(h, "undo") /\ handler[h].pc = "undo" /\ Finish(h)
      /\ source' = source /\ index' = (IF index # None /\ index.stamp = h THEN None ELSE index)
      /\ doc' = doc /\ generation' = generation
  BY DEF Undo, At
<1>2. SameRevision /\ Grows
  BY <1>1, DocIsARecord DEF SameRevision, Grows
<1>3. Moves(h) /\ Returns(h) /\ handler'[h].pc = "done" /\ ~handler'[h].seed
  BY <1>1, ReturnMoves DEF Returns
<1>4. Claimed' => Claimed
  BY <1>1, <1>2, <1>3, NoNewClaim DEF Relies, Committing
<1>5. ~Claimed
  BY <1>1 DEF ViewInv, Viewed
<1>6. \A k \in Handlers \ {h} : handler[k].pc \notin {"complete", "undo"}
  BY <1>1, UnderRehoming
<1>7. Kept' /\ Paths' /\ Ages' /\ Sole'
  BY <1>1, <1>2, <1>3, StandingStep DEF World, TypeOK
<1>8. SourceInv'
  <2>1. ReadyMeansSource'
    BY <1>1 DEF SourceInv, ReadyMeansSource
  <2>2. \A k \in Handlers : At(k, "settle") /\ doc # None /\ doc.orphan /\ doc.rev = handler[k].deleted
          => source' \in {None, doc.body}
    BY <1>1 DEF SourceInv, Sourced
  <2>3. \A k \in Handlers \ {h} : Sourced(k)'
    BY <1>1, <1>2, <1>3, <2>2, OthersSourced
  <2>4. Sourced(h)'
    BY <1>3 DEF Sourced, At, Viewing
  <2> QED BY <2>1, <2>3, <2>4 DEF SourceInv
<1>9. ViewInv'
  <2>1. \A k \in Handlers \ {h} : Viewed(k)'
    BY <1>2, <1>3, <1>4, <1>6, OthersViewed DEF ViewInv, At
  <2>2. Viewed(h)'
    BY <1>3, <1>4, <1>5 DEF Viewed, At
  <2> QED BY <1>4, <1>5, <2>1, <2>2 DEF ViewInv
<1>10. Owed'
  <2>1. ~Commits(h) /\ ~Settles(h) /\ ~Views(h) /\ ~Deletes(h) /\ ~Closes(h)
    BY <1>1 DEF Commits, Settles, Views, Deletes, Closes, OnDisk, Committing
  <2>2. index' # None => index # None
    BY <1>1
  <2>3. doc = None => \/ \E k \in Handlers : Closes(k)'
                      \/ Agree' /\ \A k \in Handlers : Undisturbed(k)'
    <3>1. CASE \E k \in Handlers : Closes(k)
      BY <1>2, <1>3, <2>1, <3>1, OthersOwe
    <3>2. CASE Agree /\ \A k \in Handlers : Undisturbed(k)
      <4>1. index' = index
        BY <1>1, <3>2 DEF Undisturbed
      <4>2. \A k \in Handlers : Undisturbed(k)'
        BY <1>3, <3>2, <4>1 DEF Undisturbed, At, Moves, Others
      <4> QED BY <1>1, <3>2, <4>1, <4>2 DEF Agree
    <3> QED BY <3>1, <3>2 DEF Owed
  <2> QED BY <1>1, <1>2, <1>3, <2>1, <2>2, <2>3, StillOwed DEF Owed
<1> QED BY <1>7, <1>8, <1>9, <1>10

\* What the disk says, filtered by what is open at that moment.
LEMMA ApplyStep ==
  ASSUME Inductive, NEW h \in Handlers, ApplyDisk(h)
  PROVE  Kept' /\ Paths' /\ Ages' /\ Sole' /\ SourceInv' /\ ViewInv' /\ Owed'
<1> USE DEF Inductive
<1>1. /\ handler[h].pc = "disk_try" /\ AfterDisk(h) /\ doc' = doc /\ generation' = generation
      /\ \A k \in Handlers : ~At(k, "retire")
      /\ handler[h].scan \in {Disk, None} /\ handler[h].kind \in {"close", "deleted", "created"}
  BY CallTyped DEF ApplyDisk, At, DiskBlocked, IndexFree, Paths, Path, OnDisk
\* What becomes of the stores when the file is closed, and when it is open.
<1>2. doc = None => /\ source' = handler[h].scan
                    /\ index' = IF handler[h].scan = None THEN None ELSE [body |-> handler[h].scan, stamp |-> 0]
  BY DEF ApplyDisk, ReplacesBoth, RemovesSource, RemovesView
<1>3. doc # None /\ handler[h].kind = "deleted" /\ doc.orphan
        => index' = None /\ source' = IF handler[h].deleted = doc.rev THEN None ELSE source
  BY DEF ApplyDisk, ReplacesBoth, RemovesSource, RemovesView
<1>4. doc # None /\ ~(handler[h].kind = "deleted" /\ doc.orphan) => source' = source /\ index' = index
  BY DEF ApplyDisk, ReplacesBoth, RemovesSource, RemovesView
<1>5. SameRevision /\ Grows
  BY <1>1, DocIsARecord DEF SameRevision, Grows
<1>6. Moves(h) /\ handler'[h].pc \in {"settle", "done"}
      /\ (handler[h].kind = "deleted" => Passes(h, "settle")) /\ (handler[h].kind # "deleted" => Returns(h))
  <2>1. CASE handler[h].kind = "deleted"
    <3>1. Goto(h, "settle") /\ "settle" \in Labels
      BY <1>1, <2>1 DEF AfterDisk, Labels
    <3>2. Path(h)'
      BY <1>1, <2>1, <3>1, GotoPasses DEF Paths, Path, Passes, Publishing, Committing, Viewing, OnDisk, Writers
    <3> QED BY <1>1, <2>1, <3>1, <3>2, GoesOn DEF OnDisk, Passes
  <2>2. CASE handler[h].kind # "deleted"
    BY <1>1, <2>2, ReturnMoves DEF AfterDisk, Returns
  <2> QED BY <2>1, <2>2
<1>7. ~Relies(h)'
  BY <1>6 DEF Relies, Committing
<1>8. Claimed' => Claimed
  BY <1>1, <1>5, <1>6, <1>7, NoNewClaim
<1>9. \A k \in Handlers : handler[k].pc \notin {"complete", "undo"}
  BY <1>1, UnderRehoming
<1>10. source' \in {Disk, None, source} /\ index' \in {None, index, [body |-> Disk, stamp |-> 0]}
  BY <1>1, <1>2, <1>3, <1>4
<1>11. Kept' /\ Paths' /\ Ages' /\ Sole'
  <2>1. source' \in Stored /\ index' \in Entries \cup {None}
    BY <1>10 DEF World, TypeOK, Stored, Entries
  <2> QED BY <1>5, <1>6, <2>1, StandingStep
<1>12. SourceInv'
  <2>1. ReadyMeansSource'
    BY <1>1, <1>3, <1>4 DEF SourceInv, ReadyMeansSource
  <2>2. ASSUME NEW k \in Handlers, k # h
        PROVE  Sourced(k)'
    <3>1. ~At(k, "mark")
      BY <1>1, <2>2, UnderLive DEF At
    <3>2. At(k, "settle") /\ doc # None /\ doc.orphan /\ doc.rev = handler[k].deleted => source' \in {None, doc.body}
      BY <1>3, <1>4 DEF SourceInv, Sourced
    <3> QED BY <1>1, <1>5, <1>6, <2>2, <3>1, <3>2, OthersSourced
  <2>3. Sourced(h)'
    <3>1. At(h, "settle")' /\ doc' # None /\ doc'.orphan /\ doc'.rev = handler'[h].deleted => source' = None
      <4>1. SUFFICES ASSUME At(h, "settle")', doc' # None, doc'.orphan, doc'.rev = handler'[h].deleted
                     PROVE  source' = None
        OBVIOUS
      <4>2. handler[h].kind = "deleted" /\ handler'[h].deleted = handler[h].deleted
        BY <1>6, <4>1 DEF At, Passes, Returns
      <4> QED BY <1>1, <1>3, <4>1, <4>2
    <3> QED BY <1>6, <3>1 DEF Sourced, At, Viewing
  <2> QED BY <2>1, <2>2, <2>3 DEF SourceInv
<1>13. ViewInv'
  <2>1. Claimed' => index' # None
    BY <1>4, <1>8 DEF Claimed, ViewInv
  <2>2. \A k \in Handlers \ {h} : Viewed(k)'
    BY <1>5, <1>6, <1>8, <1>9, OthersViewed DEF ViewInv, At
  <2>3. Viewed(h)'
    <3>1. Current(h)' /\ handler'[h].seed => Current(h) /\ handler[h].seed
      BY <1>5, <1>6, CurrentStays DEF Passes, Returns
    <3> QED BY <1>6, <1>8, <3>1 DEF ViewInv, Viewed, At
  <2> QED BY <2>1, <2>2, <2>3 DEF ViewInv
<1>14. Owed'
  <2>1. ~Commits(h) /\ ~Views(h) /\ (doc # None /\ Settles(h) => Settles(h)')
    BY <1>1, <1>6 DEF Commits, Settles, Views, Viewing, Committing, Passes
  <2>2. doc # None /\ doc.orphan /\ index' # None => \E k \in Handlers : Deletes(k)'
    <3>1. doc # None /\ doc.orphan /\ index' # None => handler[h].kind # "deleted" /\ index # None
      BY <1>3, <1>4
    <3> QED BY <1>5, <1>6, <3>1, StillOwed DEF Deletes
  <2>3. doc = None => Agree' /\ \A k \in Handlers : Undisturbed(k)'
    <3>1. doc = None => Agree'
      <4>1. [body |-> Disk, stamp |-> 0] # None
        <5>1. [body |-> Disk, stamp |-> 0] \in Entries
          BY DEF Entries
        <5> QED BY <5>1, PublicationAssumption
      <4>2. CASE handler[h].scan = None
        BY <1>2, <4>2 DEF Agree
      <4>3. CASE handler[h].scan = Disk /\ Disk # None
        BY <1>2, <4>1, <4>3 DEF Agree
      <4> QED BY <1>1, <4>2, <4>3
    <3>2. \A k \in Handlers : Undisturbed(k)'
      BY <1>1, <1>6, <1>9 DEF Undisturbed, At, Moves, Others
    <3> QED BY <3>1, <3>2
  <2> QED BY <1>1, <1>5, <1>6, <2>1, <2>2, <2>3, StillOwed DEF Owed
<1> QED BY <1>11, <1>12, <1>13, <1>14

\* The deletion ends the wait of a document that nobody will commit any more.
LEMMA SettleStep ==
  ASSUME Inductive, NEW h \in Handlers, Settle(h)
  PROVE  Kept' /\ Paths' /\ Ages' /\ Sole' /\ SourceInv' /\ ViewInv' /\ Owed'
<1> USE DEF Inductive
<1> DEFINE ends == doc # None /\ doc.orphan /\ doc.rev = handler[h].deleted /\ doc.pub = "pending"
<1>1. /\ handler[h].pc = "settle" /\ At(h, "settle") /\ Finish(h)
      /\ doc' = (IF ends THEN [doc EXCEPT !.pub = "indexed"] ELSE doc)
      /\ source' = source /\ index' = index /\ generation' = generation
  BY DEF Settle, At
<1>2. doc # None =>
        /\ doc' \in Documents /\ doc' # None /\ doc'.opening = doc.opening /\ doc'.rev = doc.rev /\ doc'.body = doc.body
        /\ doc'.version = doc.version /\ doc'.orphan = doc.orphan /\ doc'.borrowed = doc.borrowed
        /\ doc'.pub = IF ends THEN "indexed" ELSE doc.pub
  <2>1. doc # None => doc' \in Documents
    BY <1>1, DocIsARecord DEF Documents
  <2>2. doc # None => doc' # None
    BY <2>1, NoneIsNoDocument
  <2> QED BY <1>1, <2>1, <2>2, DocIsARecord DEF Documents
<1>3. SameRevision /\ Grows
  BY <1>1, <1>2 DEF SameRevision, Grows
<1>4. Moves(h) /\ Returns(h) /\ handler'[h].pc = "done" /\ ~handler'[h].seed
  BY <1>1, ReturnMoves DEF Returns
<1>5. ends => source \in {None, doc.body}
  BY <1>1 DEF SourceInv, Sourced
<1>6. Kept' /\ Paths' /\ Ages' /\ Sole'
  BY <1>1, <1>3, <1>4, StandingStep DEF World, TypeOK
<1>7. SourceInv'
  <2>1. ReadyMeansSource'
    BY <1>1, <1>2, <1>3, <1>5 DEF SourceInv, ReadyMeansSource, SameRevision
  <2>2. \A k \in Handlers : At(k, "settle") /\ doc # None /\ doc.orphan /\ doc.rev = handler[k].deleted
          => source' \in {None, doc.body}
    BY <1>1 DEF SourceInv, Sourced
  <2>3. doc # None => doc'.pub = doc.pub \/ doc'.pub # "pending"
    BY <1>2
  <2>4. \A k \in Handlers \ {h} : Sourced(k)'
    BY <1>1, <1>3, <1>4, <2>2, <2>3, OthersSourced
  <2>5. Sourced(h)'
    BY <1>4 DEF Sourced, At, Viewing
  <2> QED BY <2>1, <2>4, <2>5 DEF SourceInv
<1>8. Claimed' => Claimed
  <2>1. ~Relies(h)'
    BY <1>4 DEF Relies, Committing
  <2>2. CASE ends
    BY <1>2, <2>2 DEF Claimed
  <2>3. CASE ~ends
    BY <1>1, <1>3, <1>4, <2>1, <2>3, NoNewClaim
  <2> QED BY <2>2, <2>3
<1>9. ViewInv'
  <2>1. ASSUME NEW k \in Handlers, At(k, "complete"), Uninvalidated(k), doc'.borrowed = {}
        PROVE  index' # None
    <3>1. doc.borrowed = {}
      BY <1>2, <2>1, CompletesForADocument
    <3> QED BY <1>1, <2>1, <3>1 DEF ViewInv, Viewed
  <2>2. \A k \in Handlers \ {h} : Viewed(k)'
    BY <1>3, <1>4, <1>8, <2>1, OthersViewed DEF ViewInv
  <2>3. Viewed(h)'
    BY <1>4 DEF Viewed, At
  <2> QED BY <1>1, <1>8, <2>2, <2>3 DEF ViewInv
<1>10. Owed'
  <2>1. ~Commits(h) /\ ~Views(h) /\ ~Deletes(h) /\ ~Closes(h)
    BY <1>1 DEF Commits, Views, Deletes, Closes, OnDisk, Committing, Viewing
  <2>2. doc # None /\ ~ends /\ doc.pub = "pending" => ~Settles(h)
    BY DEF Settles
  <2>3. doc # None /\ doc'.pub = "pending" => \E k \in Handlers : Commits(k)' \/ Settles(k)'
    BY <1>2, <1>3, <1>4, <2>1, <2>2, StillOwed
  <2>4. doc # None /\ doc'.pub = "salsa" => \E k \in Handlers : Views(k)'
    BY <1>2, <1>3, <1>4, <2>1, StillOwed
  <2>5. doc # None /\ doc'.orphan /\ index' # None => \E k \in Handlers : Deletes(k)'
    BY <1>1, <1>2, <1>3, <1>4, <2>1, StillOwed
  <2>6. doc = None => \/ \E k \in Handlers : Closes(k)'
                      \/ Agree' /\ \A k \in Handlers : Undisturbed(k)'
    <3>1. CASE \E k \in Handlers : Closes(k)
      BY <1>3, <1>4, <2>1, <3>1, OthersOwe
    <3>2. CASE Agree /\ \A k \in Handlers : Undisturbed(k)
      <4>1. \A k \in Handlers : Undisturbed(k)'
        BY <1>1, <1>4, <3>2 DEF Undisturbed, At, Moves, Others
      <4> QED BY <1>1, <3>2, <4>1 DEF Agree
    <3> QED BY <3>1, <3>2 DEF Owed
  <2>7. doc' = None <=> doc = None
    BY <1>2, <1>3 DEF SameRevision
  <2> QED BY <2>3, <2>4, <2>5, <2>6, <2>7 DEF Owed
<1> QED BY <1>6, <1>7, <1>9, <1>10

-----------------------------------------------------------------------------
(* The inductive invariant.                                                *)

\* Every step of a handler keeps the invariant.
LEMMA StepKeeps ==
  ASSUME Inductive, NEW h \in Handlers, Arrives(h) \/ Queues(h) \/ Proceeds(h)
  PROVE  Inductive'
<1> USE DEF Inductive
<1> DEFINE Done == Kept' /\ Paths' /\ Ages' /\ Sole' /\ SourceInv' /\ ViewInv' /\ Owed'
<1> SUFFICES Done
  BY StepWorld
<1>1. CASE DidOpen(h) \/ DidChange(h) \/ Redialect(h)
  BY <1>1, OpenRevises, ChangeRevises, RedialectRevises, RevisionStep
<1>2. CASE DidClose(h)
  BY <1>2, CloseShuts, ShutStep
<1>3. CASE WatchedEvent(h)
  BY <1>3, EventWatches, ArrivalIsQuiet, QuietStep
<1>4. CASE Walking(h)
  <2>1. handler[h].pc # "retire"
    BY <1>4 DEF Walking, TakeGate, Superseded, Refused, Pause, Rejoin, RestoreView, SeedAnalysed, TakeRehoming,
                CheckCurrency, ScanDisk, TakeDiskGate, TakeDiskRehoming, TakeDiskLive, RestartDisk, Classify, At
  <2> QED BY <1>4, <2>1, WalkingWalks, WalkIsQuiet, QuietStep
<1>5. CASE Retire(h) \/ RetireClosed(h) \/ SetSource(h) \/ Undo(h) \/ ApplyDisk(h) \/ Settle(h)
  BY <1>5, RetireStep, RetireClosedStep, SetSourceStep, UndoStep, ApplyStep, SettleStep
<1>6. CASE Mark(h)
  <2>1. handler[h].pc # "retire"
    BY <1>6 DEF Mark, At
  <2> QED BY <1>6, <2>1, GiveUpWalks, WalkIsQuiet, QuietStep, MarkStep
<1>7. CASE ReplaceView(h)
  <2>1. handler[h].pc # "retire"
    BY <1>7 DEF ReplaceView, At
  <2> QED BY <1>7, <2>1, GiveUpWalks, WalkIsQuiet, QuietStep, ReplaceStep
<1>8. CASE Complete(h)
  BY <1>8, WithdrawalIsQuiet, QuietStep, CompleteStep
<1>9. CASE UpdateOpenPath(h)
  <2>1. handler[h].pc # "retire" /\ handler[h].kind \in {"deleted", "created"}
    BY <1>9 DEF UpdateOpenPath, At
  <2>2. CASE handler[h].kind = "deleted"
    BY <1>9, <2>2, DeletedOrphans, OrphanStep
  <2>3. CASE handler[h].kind = "created" /\ doc # None /\ doc.orphan
    BY <1>9, <2>3, ReviveRevises, RevisionStep
  <2>4. CASE handler[h].kind = "created" /\ (doc = None \/ ~doc.orphan)
    BY <1>9, <2>1, <2>4, GiveUpWalks, WalkIsQuiet, QuietStep
  <2> QED BY <2>1, <2>2, <2>3, <2>4
<1> QED BY <1>1, <1>2, <1>3, <1>4, <1>5, <1>6, <1>7, <1>8, <1>9 DEF Arrives, Queues, Proceeds, Walking

\* The other tasks: only a delivered run touches what is published.
LEMMA DeliveryKeeps ==
  ASSUME Inductive, DeliverRun
  PROVE  Inductive'
<1> USE DEF Inductive
<1>1. /\ doc' = doc /\ source' = source /\ handler' = handler /\ gate' = gate /\ generation' = generation
      /\ run # None /\ \A k \in Handlers : ~At(k, "retire")
      /\ doc = None => index' = index
      /\ doc # None /\ doc.orphan => index' \in {index, None}
      /\ doc # None /\ ~doc.orphan => index' \in {index, [body |-> run.body, stamp |-> 0]}
  BY DEF DeliverRun, IndexFree
<1>2. [body |-> run.body, stamp |-> 0] \in Entries \ {None}
  <2>1. run.body \in Bodies
    BY <1>1 DEF World, TypeOK
  <2>2. [body |-> run.body, stamp |-> 0] \in Entries
    BY <2>1 DEF Entries
  <2> QED BY <2>2, PublicationAssumption
<1>3. \A k \in Handlers : handler[k].pc \notin {"complete", "undo"}
  <2>1. gate["rehoming"] = 0
    BY DEF DeliverRun
  <2> QED BY <2>1 DEF GatesHeld, Holding, Handlers
<1>4. Opening' = Opening
  BY <1>1 DEF Opening, Sent
<1>5. World' /\ Paths' /\ GatesHeld' /\ Ages' /\ Sole'
  <2>1. World'
    <3>1. index' \in Entries \cup {None}
      BY <1>1, <1>2 DEF World, TypeOK
    <3> QED BY <1>1, <1>4, <3>1 DEF DeliverRun, World, TypeOK
  <2>2. Paths' /\ GatesHeld'
    BY <1>1 DEF Paths, Path, GatesHeld, Holding
  <2>3. Ages' /\ Sole'
    BY <1>1, <1>4 DEF Ages, Age, Sole, Current, Borrowed
  <2> QED BY <2>1, <2>2, <2>3
<1>6. SourceInv'
  BY <1>1 DEF SourceInv, ReadyMeansSource, Sourced, At, Current, Borrowed, Uninvalidated, MatchesIndex,
              MatchesSource, SameBody
<1>7. ViewInv'
  <2>1. Claimed' <=> Claimed
    BY <1>1 DEF Claimed, Relies, Current, Borrowed
  <2>2. Claimed => index' # None
    BY <1>1, <1>2 DEF Claimed, ViewInv
  <2>3. \A k \in Handlers : Viewed(k)'
    BY <1>1, <1>3, <2>1 DEF ViewInv, Viewed, At, Current, Borrowed, Uninvalidated
  <2> QED BY <2>1, <2>2, <2>3 DEF ViewInv
<1>8. Owed'
  <2>1. ASSUME NEW k \in Handlers
        PROVE  /\ Commits(k)' <=> Commits(k)
               /\ Settles(k)' <=> Settles(k)
               /\ Views(k)' <=> Views(k)
               /\ Deletes(k)' <=> Deletes(k)
               /\ Closes(k)' <=> Closes(k)
    BY <1>1 DEF Commits, Settles, Views, Deletes, Closes, Fresh, Uninvalidated, MatchesIndex, MatchesSource, SameBody
  <2>2. doc = None => (Agree' <=> Agree) /\ \A k \in Handlers : Undisturbed(k)' <=> Undisturbed(k)
    BY <1>1 DEF Agree, Undisturbed, At
  <2>3. doc # None /\ doc.orphan /\ index' # None => index # None
    BY <1>1
  <2> QED BY <1>1, <2>1, <2>2, <2>3 DEF Owed
<1> QED BY <1>5, <1>6, <1>7, <1>8

\* Captures, snapshots, busy locks and stuttering.
LEMMA RestKeeps ==
  ASSUME Inductive, UNCHANGED <<doc, source, index, generation, gate, handler>>, Ambient'
  PROVE  Inductive'
<1> USE DEF Inductive
<1>1. Opening' = Opening
  BY DEF Opening, Sent
<1>2. World'
  BY <1>1 DEF World, TypeOK, Ambient
<1>3. Paths' /\ GatesHeld' /\ Ages' /\ Sole'
  BY <1>1 DEF Paths, Path, GatesHeld, Holding, Ages, Age, Sole, Current, Borrowed
<1>4. SourceInv'
  BY DEF SourceInv, ReadyMeansSource, Sourced, At, Current, Borrowed, Uninvalidated, MatchesIndex,
         MatchesSource, SameBody
<1>5. ViewInv'
  <2>1. Claimed' <=> Claimed
    BY DEF Claimed, Relies, Current, Borrowed
  <2> QED BY <2>1 DEF ViewInv, Viewed, At, Current, Borrowed, Uninvalidated
<1>6. Owed'
  <2>1. ASSUME NEW k \in Handlers
        PROVE  /\ Commits(k)' <=> Commits(k)
               /\ Settles(k)' <=> Settles(k)
               /\ Views(k)' <=> Views(k)
               /\ Deletes(k)' <=> Deletes(k)
               /\ Closes(k)' <=> Closes(k)
               /\ Undisturbed(k)' <=> Undisturbed(k)
    BY DEF Commits, Settles, Views, Deletes, Closes, Fresh, Uninvalidated, MatchesIndex, MatchesSource, SameBody,
           Undisturbed, At
  <2>2. Agree' <=> Agree
    BY DEF Agree
  <2> QED BY <2>1, <2>2 DEF Owed
<1> QED BY <1>2, <1>3, <1>4, <1>5, <1>6

\* So does every step of the other tasks.
LEMMA OthersKeep ==
  ASSUME Inductive, CaptureRun \/ DeliverRun \/ TakeSnapshot \/ DropSnapshot \/ Contend \/ Release
  PROVE  Inductive'
<1>1. Ambient
  BY DEF Inductive, World, TypeOK, Ambient
<1>2. CASE CaptureRun
  <2>1. run' \in [body : Bodies, rev : Nat]
    BY <1>2, DocIsARecord DEF CaptureRun, Inductive
  <2>2. Ambient'
    BY <1>1, <1>2, <2>1 DEF CaptureRun, Ambient
  <2> QED BY <1>2, <2>2, RestKeeps DEF CaptureRun
<1>3. CASE Contend
  <2>1. Ambient'
    BY <1>1, <1>3, PublicationAssumption DEF Contend, Ambient
  <2> QED BY <1>3, <2>1, RestKeeps DEF Contend
<1>4. CASE TakeSnapshot \/ DropSnapshot \/ Release
  <2>1. Ambient'
    BY <1>1, <1>4 DEF TakeSnapshot, DropSnapshot, Release, Ambient
  <2> QED BY <1>4, <2>1, RestKeeps DEF TakeSnapshot, DropSnapshot, Release
<1> QED BY <1>2, <1>3, <1>4, DeliveryKeeps

\* The invariant is inductive ...
LEMMA InductiveStep == Inductive /\ [Next]_vars => Inductive'
<1> SUFFICES ASSUME Inductive, [Next]_vars
             PROVE  Inductive'
  OBVIOUS
<1>1. CASE UNCHANGED vars
  <2>1. Ambient'
    BY <1>1 DEF Inductive, World, TypeOK, Ambient, vars
  <2> QED BY <1>1, <2>1, RestKeeps DEF vars
<1>2. CASE Next
  BY <1>2, StepKeeps, OthersKeep DEF Next
<1> QED BY <1>1, <1>2

\* ... and holds at the start.
LEMMA InductiveInit == Init => Inductive
<1> SUFFICES ASSUME Init
             PROVE  Inductive
  OBVIOUS
<1>1. /\ doc = None /\ source = Disk /\ index = [body |-> Disk, stamp |-> 0] /\ generation = 0
      /\ \A h \in Handlers : handler[h] = IdleHandler
  BY DEF Init
<1>2. /\ IdleHandler.pc = "idle" /\ IdleHandler.kind = "none" /\ IdleHandler.gen = 0 /\ IdleHandler.opening = 0
      /\ IdleHandler.seed = FALSE
  BY DEF IdleHandler
<1>3. World
  <2>1. handler \in [Handlers -> Calls]
    BY IdleCall DEF Init
  <2>2. \A h \in Handlers : handler[h].pc \in Labels
    BY <1>1, <1>2 DEF Labels
  <2>3. index \in Entries
    BY <1>1 DEF Entries
  <2> QED BY <1>1, <2>1, <2>2, <2>3, PublicationAssumption DEF Init, World, TypeOK, Stored
<1>4. Paths /\ GatesHeld
  BY <1>1, <1>2 DEF Paths, Path, GatesHeld, Holding, Publishing, Committing, Viewing, OnDisk
<1>5. Ages /\ Sole
  BY <1>1, <1>2, OpeningIsANumber DEF Ages, Age, Sole, Current
<1>6. SourceInv
  BY <1>1, <1>2 DEF SourceInv, ReadyMeansSource, Sourced, Current, At
<1>7. ViewInv
  BY <1>1, <1>2 DEF ViewInv, Viewed, Claimed, Current, At
<1>8. Owed
  <2>1. index # None
    BY <1>1, PublicationAssumption DEF Entries
  <2> QED BY <1>1, <1>2, <2>1 DEF Owed, Agree, Undisturbed, At
<1> QED BY <1>3, <1>4, <1>5, <1>6, <1>7, <1>8 DEF Inductive

\* So it holds throughout.
LEMMA InductiveHolds == Spec => []Inductive
BY InductiveInit, InductiveStep, PTL DEF Spec

-----------------------------------------------------------------------------
(* What it shows.                                                          *)

\* The state variables keep the shape of the code's types: DocumentState, the
\* index entry, the gates and the handlers' program points.
THEOREM PublicationTypeCorrect == Spec => []TypeOK
<1>1. Inductive => TypeOK
  BY DEF Inductive, World
<1> QED BY <1>1, InductiveHolds, PTL

\* Whatever handlers, scans and deletions are under way, a document whose stage
\* lets readers through has its text in the analysis database, unless a call
\* made for another revision wrote the view it was completed with.
THEOREM ReadersFindTheSource == Spec => []ReadyMeansSource
<1>1. Inductive => ReadyMeansSource
  BY DEF Inductive, SourceInv
<1> QED BY <1>1, InductiveHolds, PTL

\* No retirement, scan or withdrawal takes the view of a document whose last
\* stage is announced, unless a call made for another revision published for it.
THEOREM PublishedViewStays == Spec => []IndexedMeansView
<1>1. Inductive => IndexedMeansView
  <2>1. SUFFICES ASSUME Inductive, doc # None, doc.pub = "indexed", ~doc.orphan, doc.borrowed = {}
                 PROVE  index # None
    BY DEF IndexedMeansView
  <2>2. Claimed
    BY <2>1 DEF Claimed
  <2> QED BY <2>1, <2>2 DEF Inductive, ViewInv
<1> QED BY <1>1, InductiveHolds, PTL

\* The handlers that give up leave the rest to somebody who is still under way:
\* once all have returned, an open document is published, a buffer without a
\* file has no view, and both stores hold what the disk said of a closed one.
THEOREM NothingIsLeftHalfPublished == Spec => []RestAgrees
<1>1. Inductive => RestAgrees
  <2>1. SUFFICES ASSUME Inductive, Quiet
                 PROVE  IF doc = None THEN Agree
                        ELSE doc.pub = "indexed" /\ (doc.orphan => index = None)
    BY DEF RestAgrees, Agree
  <2>2. \A h \in Handlers : ~Commits(h) /\ ~Settles(h) /\ ~Views(h) /\ ~Deletes(h) /\ ~Closes(h)
    BY <2>1 DEF Quiet, Commits, Settles, Views, Deletes, Closes, Committing, Viewing, OnDisk
  <2>3. doc # None => doc.pub \in {"pending", "salsa", "indexed"}
    BY <2>1 DEF Inductive, World, TypeOK, Documents
  <2> QED BY <2>1, <2>2, <2>3 DEF Inductive, Owed
<1> QED BY <1>1, InductiveHolds, PTL
=============================================================================
