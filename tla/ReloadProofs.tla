---------------------------- MODULE ReloadProofs ----------------------------
(***************************************************************************)
(* The coalescing of configuration reloads for any number of settings      *)
(* changes, one-shot events and failed requests, and the diagnostics of a  *)
(* closed file for any number of reloads, openings, writes and deletions.  *)
(*                                                                         *)
(* Roles says which handlers can be where.  Coverage explains why a        *)
(* notification may return at once: as long as nothing is waiting to mark  *)
(* the slot and the slot is clean, the run in progress began after the     *)
(* last change, and so did the last one when none is in progress.  Fresh   *)
(* adds what is in force, for runs that no one-shot event overlaps.        *)
(*                                                                         *)
(* Of the closed file: Guarded says who holds the watched-file gate, and   *)
(* Numbered what a generation is, a count that restarts at every clear.    *)
(***************************************************************************)
EXTENDS ConfigReload, ClosedDiagnostics, TLAPS

Running(n) == Leading(n) /\ pc[n] # "sleep"

Roles ==
  /\ settings \in Nat /\ settings <= MaxChanges
  /\ pc \in [Handlers -> {"idle", "mark", "sleep", "pull", "apply", "pull_folders",
                          "apply_folders", "reschedule", "done"}]
  /\ \A n \in Notifications : n > settings => pc[n] = "idle"
  /\ \A h \in OneShots : pc[h] \notin {"mark", "sleep", "reschedule"}

Coverage ==
  /\ ~slot.running => ~slot.dirty
  /\ ~slot.dirty /\ (\A n \in Notifications : pc[n] # "mark") =>
       IF \E n \in Notifications : Running(n) THEN began = settings ELSE covered = settings

SlotShape == slot \in [dirty : BOOLEAN, running : BOOLEAN]

ReloadInv == SlotShape /\ Roles /\ OneLeader /\ Coverage

-----------------------------------------------------------------------------

\* No reload is wanted and none runs at the start.
LEMMA InitReload == Init => ReloadInv
BY ReloadAssumption
DEF Init, ReloadInv, SlotShape, Roles, OneLeader, Coverage, Leading, Running, Handlers,
    Notifications

\* Each step leaves every handler where its kind can be.
LEMMA RolesKept == ReloadInv /\ [Next]_vars => Roles' /\ SlotShape'
<1> SUFFICES ASSUME ReloadInv, [Next]_vars PROVE Roles' /\ SlotShape'
  OBVIOUS
<1> USE ReloadAssumption DEF ReloadInv, SlotShape, Roles, Handlers, Notifications, Goto
<1>1. CASE Change BY <1>1 DEF Change
<1>2. ASSUME NEW h \in Handlers, Event(h) PROVE Roles' /\ SlotShape'
  BY <1>2 DEF Event
<1>3. ASSUME NEW h \in Handlers, Mark(h) PROVE Roles' /\ SlotShape'
  BY <1>3 DEF Mark
<1>4. ASSUME NEW h \in Handlers, Debounced(h) PROVE Roles' /\ SlotShape'
  BY <1>4, ZenonT(40) DEF Debounced
<1>5. ASSUME NEW h \in Handlers, Reschedule(h) PROVE Roles' /\ SlotShape'
  BY <1>5 DEF Reschedule
<1>6. ASSUME NEW h \in Handlers, Pull(h) PROVE Roles' /\ SlotShape'
  <2>1. PICK l \in {"apply", PullEnds(h)} : pc' = [pc EXCEPT ![h] = l]
    BY <1>6 DEF Pull
  <2>2. l \in {"apply", "reschedule", "done"} /\ (h \in OneShots => l # "reschedule")
    BY <2>1 DEF PullEnds
  <2>3. UNCHANGED <<settings, slot>> /\ pc[h] # "idle"
    BY <1>6 DEF Pull
  <2> QED BY <2>1, <2>2, <2>3
<1>7. ASSUME NEW h \in Handlers, Apply(h) PROVE Roles' /\ SlotShape'
  BY <1>7 DEF Apply
<1>8. ASSUME NEW h \in Handlers, PullFolders(h) PROVE Roles' /\ SlotShape'
  <2>1. PICK l \in {"apply_folders", PullEnds(h)} : pc' = [pc EXCEPT ![h] = l]
    BY <1>8 DEF PullFolders
  <2>2. l \in {"apply_folders", "reschedule", "done"} /\ (h \in OneShots => l # "reschedule")
    BY <2>1 DEF PullEnds
  <2>3. UNCHANGED <<settings, slot>> /\ pc[h] # "idle"
    BY <1>8 DEF PullFolders
  <2> QED BY <2>1, <2>2, <2>3
<1>9. ASSUME NEW h \in Handlers, ApplyFolders(h) PROVE Roles' /\ SlotShape'
  BY <1>9 DEF ApplyFolders, PullEnds
<1>10. CASE UNCHANGED vars BY <1>10 DEF vars
<1> QED
  BY <1>1, <1>2, <1>3, <1>4, <1>5, <1>6, <1>7, <1>8, <1>9, <1>10 DEF Next, HandlerStep

\* A leader hands the claim back only when it stops leading.
LEMMA OneLeaderKept == ReloadInv /\ [Next]_vars => OneLeader'
<1> SUFFICES ASSUME ReloadInv, [Next]_vars PROVE OneLeader'
  OBVIOUS
<1> USE ReloadAssumption DEF ReloadInv, SlotShape, Roles, OneLeader, Leading, Handlers,
        Notifications, Goto
<1>1. CASE Change BY <1>1 DEF Change
<1>2. ASSUME NEW h \in Handlers, Event(h) PROVE OneLeader'
  BY <1>2 DEF Event
<1>3. ASSUME NEW h \in Handlers, Mark(h) PROVE OneLeader'
  BY <1>3 DEF Mark
<1>4. ASSUME NEW h \in Handlers, Debounced(h) PROVE OneLeader'
  BY <1>4 DEF Debounced
<1>5. ASSUME NEW h \in Handlers, Reschedule(h) PROVE OneLeader'
  BY <1>5 DEF Reschedule
<1>6. ASSUME NEW h \in Handlers, Pull(h) PROVE OneLeader'
  BY <1>6 DEF Pull, PullEnds
<1>7. ASSUME NEW h \in Handlers, Apply(h) PROVE OneLeader'
  BY <1>7 DEF Apply
<1>8. ASSUME NEW h \in Handlers, PullFolders(h) PROVE OneLeader'
  BY <1>8 DEF PullFolders, PullEnds
<1>9. ASSUME NEW h \in Handlers, ApplyFolders(h) PROVE OneLeader'
  BY <1>9 DEF ApplyFolders, PullEnds
<1>10. CASE UNCHANGED vars BY <1>10 DEF vars
<1> QED
  BY <1>1, <1>2, <1>3, <1>4, <1>5, <1>6, <1>7, <1>8, <1>9, <1>10 DEF Next, HandlerStep

\* The mark is cleared before the run it asks for, so no change is folded into
\* a run that began before it.
LEMMA CoverageKept == ReloadInv /\ [Next]_vars => Coverage'
<1> SUFFICES ASSUME ReloadInv, [Next]_vars PROVE Coverage'
  OBVIOUS
<1> USE ReloadAssumption DEF ReloadInv, SlotShape, Roles, OneLeader, Coverage, Leading,
        Running, Handlers, Notifications, Goto
<1>1. CASE Change BY <1>1 DEF Change
<1>2. ASSUME NEW h \in Handlers, Event(h) PROVE Coverage'
  BY <1>2 DEF Event
<1>3. ASSUME NEW h \in Handlers, Mark(h) PROVE Coverage'
  BY <1>3 DEF Mark
<1>4. ASSUME NEW h \in Handlers, Debounced(h) PROVE Coverage'
  BY <1>4 DEF Debounced
<1>5. ASSUME NEW h \in Handlers, Reschedule(h) PROVE Coverage'
  BY <1>5 DEF Reschedule
<1>6. ASSUME NEW h \in Handlers, Pull(h) PROVE Coverage'
  BY <1>6 DEF Pull, PullEnds
<1>7. ASSUME NEW h \in Handlers, Apply(h) PROVE Coverage'
  BY <1>7 DEF Apply
<1>8. ASSUME NEW h \in Handlers, PullFolders(h) PROVE Coverage'
  BY <1>8 DEF PullFolders, PullEnds
<1>9. ASSUME NEW h \in Handlers, ApplyFolders(h) PROVE Coverage'
  BY <1>9 DEF ApplyFolders, PullEnds
<1>10. CASE UNCHANGED vars BY <1>10 DEF vars
<1> QED
  BY <1>1, <1>2, <1>3, <1>4, <1>5, <1>6, <1>7, <1>8, <1>9, <1>10 DEF Next, HandlerStep

\* The inductive invariant holds throughout.
LEMMA ReloadInvariant == Spec => []ReloadInv
<1>1. Init => ReloadInv
  BY InitReload
<1>2. ReloadInv /\ [Next]_vars => ReloadInv'
  BY RolesKept, OneLeaderKept, CoverageKept DEF ReloadInv
<1> QED BY <1>1, <1>2, PTL DEF Spec

-----------------------------------------------------------------------------

\* However many notifications arrive, coalesced_config_reload has one leader
\* exactly while the slot says it is running.
THEOREM LeaderIsUnique == Spec => []OneLeader
<1>1. ReloadInv => OneLeader
  BY DEF ReloadInv
<1> QED BY <1>1, ReloadInvariant, PTL

\* However many notifications arrive and requests fail, once the leader steps
\* down a whole run has begun after the last change.
THEOREM LastChangeCovered == Spec => []LastChangeIsCovered
<1>1. ReloadInv => LastChangeIsCovered
  BY DEF ReloadInv, OneLeader, Coverage, LastChangeIsCovered, Running
<1> QED BY <1>1, ReloadInvariant, PTL

-----------------------------------------------------------------------------
(* What an overlap costs.                                                  *)

\* A one-shot event pulls and applies only while no notification waits and no
\* leader is at work.
Apart ==
  (\E h \in OneShots : pc[h] \notin {"idle", "done"}) =>
    ~slot.running /\ \A n \in Notifications : pc[n] # "mark"

\* As long as no request has failed: what is in force, and what a handler is
\* about to apply, is no older than the last complete run, and the leader's is
\* no older than the run it is in.
Fresh ==
  /\ settings \in Nat /\ began \in Nat /\ covered \in Nat /\ failures \in Nat
  /\ reply \in [Handlers -> Nat] /\ global \in Nat /\ folders \in Nat
  /\ failures = 0 =>
       /\ covered <= began /\ began <= settings
       /\ {global, folders} \subseteq covered .. settings
       /\ \A h \in Handlers : pc[h] \in {"apply", "apply_folders"} => reply[h] \in covered .. settings
       /\ \A n \in Notifications :
            /\ pc[n] \in {"apply", "apply_folders"} => reply[n] >= began
            /\ pc[n] \in {"pull_folders", "apply_folders", "reschedule"} => global >= began
            /\ pc[n] = "reschedule" => folders >= began

\* While a leader is at work no one-shot event is.
LEMMA LeaderAlone ==
  ASSUME ReloadInv, Apart, NEW n \in Notifications, Leading(n)
  PROVE  /\ \A h \in OneShots : pc[h] \in {"idle", "done"}
         /\ \A m \in Notifications : m # n => ~Leading(m)
BY DEF ReloadInv, OneLeader, Apart

\* Every step keeps what is in force fresh.
LEMMA FreshKept == ReloadInv /\ Apart /\ Fresh /\ [Next]_vars => Fresh'
<1> SUFFICES ASSUME ReloadInv, Apart, Fresh, [Next]_vars PROVE Fresh'
  OBVIOUS
<1> USE ReloadAssumption DEF Handlers, Notifications, Goto
<1>1. Roles
  BY DEF ReloadInv
<1>2. CASE Change
  BY <1>1, <1>2 DEF Change, Fresh, Roles
<1>3. ASSUME NEW h \in Handlers, Event(h) PROVE Fresh'
  BY <1>1, <1>3 DEF Event, Fresh, Roles
<1>4. ASSUME NEW h \in Handlers, Mark(h) PROVE Fresh'
  BY <1>1, <1>4 DEF Mark, Fresh, Roles
<1>5. ASSUME NEW h \in Handlers, Debounced(h) PROVE Fresh'
  <2>1. h \in Notifications /\ Leading(h)
    BY <1>1, <1>5 DEF Debounced, Roles, Leading
  <2>2. \A m \in Notifications : m # h => pc[m] \in {"idle", "mark", "done"}
    BY <2>1, LeaderAlone DEF Leading
  <2> QED BY <1>1, <1>5, <2>1, <2>2 DEF Debounced, Fresh, Roles
<1>6. ASSUME NEW h \in Handlers, Reschedule(h) PROVE Fresh'
  <2>1. h \in Notifications /\ Leading(h)
    BY <1>1, <1>6 DEF Reschedule, Roles, Leading
  <2>2. /\ \A m \in Notifications : m # h => pc[m] \in {"idle", "mark", "done"}
        /\ \A m \in OneShots : pc[m] \in {"idle", "done"}
    BY <2>1, LeaderAlone DEF Leading
  <2> QED BY <1>1, <1>6, <2>1, <2>2 DEF Reschedule, Fresh, Roles
<1>7. ASSUME NEW h \in Handlers, Pull(h) PROVE Fresh'
  <2>1. CASE failures' = failures + 1
    BY <1>7, <2>1 DEF Pull, Fresh
  <2>2. CASE failures' = failures
    <3>1. /\ reply' = [reply EXCEPT ![h] = settings] /\ pc' = [pc EXCEPT ![h] = "apply"]
          /\ UNCHANGED <<settings, global, folders, began, covered>> /\ pc[h] # "mark"
      BY <1>7, <2>2 DEF Pull, Fresh
    <3> QED BY <1>1, <1>7, <2>2, <3>1 DEF Pull, Fresh, Roles
  <2> QED BY <1>7, <2>1, <2>2 DEF Pull
<1>8. ASSUME NEW h \in Handlers, Apply(h) PROVE Fresh'
  <2>1. h \in Notifications => \A m \in Notifications : m # h => pc[m] \in {"idle", "mark", "done"}
    BY <1>8, LeaderAlone DEF Apply, Leading
  <2>2. h \in OneShots => \A m \in Notifications : ~Leading(m)
    BY <1>8 DEF Apply, Apart, ReloadInv, OneLeader
  <2> QED BY <1>1, <1>8, <2>1, <2>2 DEF Apply, Fresh, Roles, Leading
<1>9. ASSUME NEW h \in Handlers, PullFolders(h) PROVE Fresh'
  <2>1. CASE failures' = failures + 1
    BY <1>9, <2>1 DEF PullFolders, Fresh
  <2>2. CASE failures' = failures
    <3>1. /\ reply' = [reply EXCEPT ![h] = settings] /\ pc' = [pc EXCEPT ![h] = "apply_folders"]
          /\ UNCHANGED <<settings, global, folders, began, covered>> /\ pc[h] # "mark"
      BY <1>9, <2>2 DEF PullFolders, Fresh
    <3> QED BY <1>1, <1>9, <2>2, <3>1 DEF PullFolders, Fresh, Roles
  <2> QED BY <1>9, <2>1, <2>2 DEF PullFolders
<1>10. ASSUME NEW h \in Handlers, ApplyFolders(h) PROVE Fresh'
  <2>1. h \in Notifications => \A m \in Notifications : m # h => pc[m] \in {"idle", "mark", "done"}
    BY <1>10, LeaderAlone DEF ApplyFolders, Leading
  <2>2. h \in OneShots => \A m \in Notifications : ~Leading(m)
    BY <1>10 DEF ApplyFolders, Apart, ReloadInv, OneLeader
  <2> QED BY <1>1, <1>10, <2>1, <2>2 DEF ApplyFolders, PullEnds, Fresh, Roles, Leading
<1>11. CASE UNCHANGED vars
  BY <1>11 DEF vars, Fresh
<1> QED
  BY <1>2, <1>3, <1>4, <1>5, <1>6, <1>7, <1>8, <1>9, <1>10, <1>11 DEF Next, HandlerStep

\* What coalesced_config_reload promises of the last notification holds as
\* long as the one-shot events keep out of the leader's way: an event that
\* overlaps it is the only way, without a failed request, to lose settings.
THEOREM LastSettingsWinApart == Spec /\ []Apart => []LastSettingsWin
<1>1. ASSUME Init PROVE Fresh
  <2>1. /\ settings = 0 /\ began = 0 /\ covered = 0 /\ failures = 0 /\ global = 0 /\ folders = 0
        /\ reply \in [Handlers -> Nat]
        /\ \A h \in Handlers : pc[h] = "idle"
    BY <1>1 DEF Init
  <2> QED BY <2>1 DEF Fresh, Handlers
<1>2. ASSUME ReloadInv, Fresh PROVE LastSettingsWin
  <2> SUFFICES ASSUME failures = 0, \A h \in Handlers : pc[h] \in {"idle", "done"}
               PROVE  global = settings /\ folders = settings
    BY DEF LastSettingsWin
  <2>1. \A n \in Notifications : ~Leading(n) /\ pc[n] # "mark"
    BY DEF Handlers, Leading
  <2>2. covered = settings
    BY <1>2, <2>1 DEF ReloadInv, OneLeader, Coverage, Running
  <2>3. {global, folders} \subseteq covered .. settings
    BY <1>2 DEF Fresh
  <2> QED BY <1>2, <2>2, <2>3 DEF Fresh
<1> QED BY <1>1, <1>2, FreshKept, ReloadInvariant, PTL DEF Spec

-----------------------------------------------------------------------------
(* Closed files.                                                            *)

Texts == Contents \cup {None, Buffer}

Calls == [pc : {"idle", "scan", "index", "begin", "draw", "deliver", "clear"},
          kind : {"none", "close", "watch", "reload"}, badged : BOOLEAN, text : Texts,
          gen : Nat, draw : Nat]

\* The stores have their types, and so have the calls.
Stores ==
  /\ open \in BOOLEAN /\ unseen \in BOOLEAN /\ gate \in BOOLEAN /\ cached \in BOOLEAN
  /\ writes \in 0 .. MaxWrites /\ deletes \in Nat
  /\ disk \in Contents \cup {None} /\ source \in Texts /\ badge \in Texts
  /\ handler \in [Refreshers -> Calls]

\* One watched-file handler at a time, and the gate says whether there is one.
Guarded ==
  /\ \A h \in Refreshers : handler[h].pc = "idle" => handler[h].kind = "none"
  /\ \A h, k \in Refreshers : handler[h].kind = "watch" /\ handler[k].kind = "watch" => h = k
  /\ gate <=> \E h \in Refreshers : handler[h].kind = "watch"

\* The generation counts the draws since the counter was last retired, and a
\* run that drew since then holds the number its draw had.
Numbered ==
  /\ drawn \in Nat /\ cleared \in 0 .. drawn /\ delivered \in 0 .. drawn
  /\ gens = IF cleared = drawn THEN None ELSE drawn - cleared
  /\ \A h \in Refreshers : handler[h].pc = "deliver" =>
       /\ handler[h].draw \in 1 .. drawn
       /\ handler[h].draw > cleared => handler[h].gen = handler[h].draw - cleared

\* Where nothing is deleted, nothing is cleared.
Undeleted ==
  /\ disk # None /\ source # None /\ cleared = 0
  /\ \A h \in Refreshers :
       handler[h].pc # "clear" /\ (handler[h].pc = "index" => handler[h].text # None)

\* Only h of the calls changes.
OnlyCall(h) ==
  /\ handler' \in [Refreshers -> Calls]
  /\ \A k \in Refreshers \ {h} : handler'[k] = handler[k]

\* The closed file's server starts with an open file and no runs.
LEMMA ClosedStart ==
  ASSUME ClosedInit
  PROVE  Stores /\ Guarded /\ Numbered
<1>1. MaxWrites \in Nat
  BY ClosedAssumption
<1>2. IdleHandler \in Calls
  BY DEF IdleHandler, Calls, Texts
<1>3. handler \in [Refreshers -> Calls]
  BY <1>2 DEF ClosedInit
<1>4. \A h \in Refreshers : handler[h].pc = "idle" /\ handler[h].kind = "none"
  BY DEF ClosedInit, IdleHandler
<1>5. open \in BOOLEAN /\ unseen \in BOOLEAN /\ gate \in BOOLEAN /\ cached \in BOOLEAN
  BY DEF ClosedInit
<1>6. writes \in 0 .. MaxWrites /\ deletes \in Nat /\ disk \in Contents \cup {None}
  BY <1>1 DEF ClosedInit, Contents
<1>7. Stores
  BY <1>3, <1>5, <1>6 DEF ClosedInit, Stores, Texts
<1> QED BY <1>4, <1>7 DEF ClosedInit, Guarded, Numbered

\* What a message does to the calls.
LEMMA StartedCall ==
  ASSUME Stores, NEW h \in Refreshers, NEW l \in {"scan", "index", "begin"},
         NEW k \in {"close", "watch", "reload"}, Start(h, l, k)
  PROVE  /\ OnlyCall(h) /\ handler[h].pc = "idle"
         /\ handler'[h].pc = l /\ handler'[h].kind = k /\ handler'[h].text = handler[h].text
<1>1. (k = "watch" /\ cached) \in BOOLEAN
  OBVIOUS
<1>2. handler[h] \in Calls
  BY DEF Stores
<1> QED BY <1>1, <1>2 DEF Start, OnlyCall, Stores, Calls

\* What the end of a call does to the calls.
LEMMA FinishedCall ==
  ASSUME Stores, NEW h \in Refreshers, Finish(h)
  PROVE  /\ OnlyCall(h)
         /\ handler'[h].pc = "idle" /\ handler'[h].kind = "none"
         /\ gate' = (gate /\ handler[h].kind # "watch")
BY DEF Finish, IdleHandler, OnlyCall, Stores, Calls, Texts

\* A call goes on to its next step.
LEMMA CallGoesOn ==
  ASSUME Stores, NEW h \in Refreshers, NEW l \in {"index", "begin", "clear"}, GoOn(h, l)
  PROVE  /\ OnlyCall(h) /\ handler'[h].pc = l
         /\ handler'[h].kind = handler[h].kind /\ handler'[h].text = handler[h].text
BY DEF GoOn, OnlyCall, Stores, Calls

\* The stores keep their types: a run's text is a text of the store, which has
\* the buffer's or the disk's.
LEMMA StoresKept ==
  ASSUME Stores, Numbered, [ClosedNext]_closedVars
  PROVE  Stores'
<1> USE DEF Stores, Texts
<1>1. MaxWrites \in Nat
  BY ClosedAssumption
<1>2. CASE WriteFile
  BY <1>1, <1>2 DEF WriteFile, results, Contents
<1>3. CASE DeleteFile
  BY <1>3 DEF DeleteFile, results, Contents
<1>4. CASE DidOpen
  BY <1>4 DEF DidOpen, Contents
<1>5. ASSUME NEW h \in Refreshers, DidClose(h) PROVE Stores'
  BY <1>5, StartedCall DEF DidClose, results, files, OnlyCall, Contents
<1>6. ASSUME NEW h \in Refreshers, Watched(h) PROVE Stores'
  <2>1. CASE open
    BY <1>6, <2>1 DEF Watched, results, Contents
  <2>2. CASE ~open
    <3>1. PICK l \in {"scan", "index"} : Start(h, l, "watch")
      BY <1>6, <2>2 DEF Watched
    <3> QED BY <1>6, <2>2, <3>1, StartedCall DEF Watched, results, OnlyCall, Contents
  <2> QED BY <2>1, <2>2
<1>7. ASSUME NEW h \in Refreshers, ConfigRefresh(h) PROVE Stores'
  BY <1>7, StartedCall DEF ConfigRefresh, results, OnlyCall, Contents
<1>8. ASSUME NEW h \in Refreshers, Scan(h) PROVE Stores'
  <2>1. handler[h] \in Calls /\ disk \in Texts
    OBVIOUS
  <2>2. handler' \in [Refreshers -> Calls]
    BY <1>8, <2>1 DEF Scan, Calls
  <2> QED BY <1>8, <2>2 DEF Scan, results, files, Contents
<1>9. ASSUME NEW h \in Refreshers, Index(h) PROVE Stores'
  <2>1. OnlyCall(h) /\ gate' \in BOOLEAN
    BY <1>9, FinishedCall, CallGoesOn DEF Index
  <2> QED BY <1>9, <2>1 DEF Index, results, files, OnlyCall, Calls, Contents
<1>10. ASSUME NEW h \in Refreshers, Begin(h) PROVE Stores'
  <2>1. CASE open
    BY <1>10, <2>1, FinishedCall DEF Begin, results, files, OnlyCall, Contents
  <2>2. CASE ~open
    BY <1>10, <2>2 DEF Begin, results, files, Calls, Contents
  <2> QED BY <2>1, <2>2
<1>11. ASSUME NEW h \in Refreshers, DrawGeneration(h) PROVE Stores'
  <2>1. handler[h] \in Calls /\ gens' \in Nat /\ drawn' \in Nat
    BY <1>11 DEF DrawGeneration, Numbered
  <2>2. handler' \in [Refreshers -> Calls]
    BY <1>11, <2>1 DEF DrawGeneration, Calls
  <2> QED BY <1>11, <2>2 DEF DrawGeneration, results, files, Contents
<1>12. ASSUME NEW h \in Refreshers, Deliver(h) PROVE Stores'
  BY <1>12, FinishedCall, ZenonT(40) DEF Deliver, results, files, OnlyCall, Calls, Contents
<1>13. ASSUME NEW h \in Refreshers, Clear(h) PROVE Stores'
  BY <1>13, FinishedCall DEF Clear, files, OnlyCall, Contents
<1>14. CASE UNCHANGED closedVars
  BY <1>14 DEF closedVars, Contents
<1> QED BY <1>2, <1>3, <1>4, <1>5, <1>6, <1>7, <1>8, <1>9, <1>10, <1>11, <1>12, <1>13, <1>14
        DEF ClosedNext, RefreshStep

\* The gate is taken by the one watched-file handler that starts and given back
\* when it ends.
LEMMA GuardedKept ==
  ASSUME Stores, Guarded, [ClosedNext]_closedVars
  PROVE  Guarded'
<1> USE DEF Guarded
<1>1. CASE WriteFile \/ DeleteFile \/ DidOpen \/ UNCHANGED closedVars
  BY <1>1 DEF WriteFile, DeleteFile, DidOpen, closedVars
<1>2. ASSUME NEW h \in Refreshers, OnlyCall(h), UNCHANGED gate,
             handler'[h].pc # "idle", handler'[h].kind = handler[h].kind
      PROVE  Guarded'
  BY <1>2 DEF OnlyCall
<1>3. ASSUME NEW h \in Refreshers, Finish(h) PROVE Guarded'
  <2>1. OnlyCall(h) /\ handler'[h].pc = "idle" /\ handler'[h].kind = "none"
    BY <1>3, FinishedCall
  <2>2. gate' <=> gate /\ handler[h].kind # "watch"
    BY <1>3 DEF Finish
  <2> QED BY <2>1, <2>2 DEF OnlyCall
<1>4. ASSUME NEW h \in Refreshers, NEW l \in {"scan", "index", "begin"}, NEW k \in {"close", "reload"},
             Start(h, l, k), UNCHANGED gate
      PROVE  Guarded'
  BY <1>4, StartedCall DEF OnlyCall
<1>5. ASSUME NEW h \in Refreshers, Watched(h) PROVE Guarded'
  <2>1. CASE open
    BY <1>5, <2>1 DEF Watched
  <2>2. CASE ~open
    <3>1. PICK l \in {"scan", "index"} : Start(h, l, "watch")
      BY <1>5, <2>2 DEF Watched
    <3>2. OnlyCall(h) /\ handler'[h].pc = l /\ handler'[h].kind = "watch"
      BY <3>1, StartedCall
    <3>3. ~gate /\ gate'
      BY <1>5, <2>2 DEF Watched
    <3> QED BY <3>1, <3>2, <3>3 DEF OnlyCall
  <2> QED BY <2>1, <2>2
<1>6. ASSUME NEW h \in Refreshers, RefreshStep(h) PROVE Guarded'
  <2>1. CASE Scan(h)
    BY <1>2, <2>1 DEF Scan, Stores, OnlyCall, Calls, Texts
  <2>2. CASE Index(h)
    BY <1>2, <1>3, <2>2, CallGoesOn DEF Index
  <2>3. CASE Begin(h)
    BY <1>2, <1>3, <2>3 DEF Begin, Stores, OnlyCall, Calls
  <2>4. CASE DrawGeneration(h)
    BY <2>4 DEF DrawGeneration, Stores, Calls
  <2>5. CASE Deliver(h)
    BY <1>3, <2>5 DEF Deliver
  <2>6. CASE Clear(h)
    BY <1>3, <2>6 DEF Clear
  <2> QED BY <1>6, <2>1, <2>2, <2>3, <2>4, <2>5, <2>6 DEF RefreshStep
<1> QED BY <1>1, <1>4, <1>5, <1>6 DEF ClosedNext, DidClose, ConfigRefresh

\* Draws count up by one, a clear retires the counter at the last draw.
LEMMA NumberedKept ==
  ASSUME Stores, Numbered, [ClosedNext]_closedVars
  PROVE  Numbered'
<1> USE DEF Numbered
<1>1. CASE WriteFile \/ DeleteFile \/ DidOpen \/ UNCHANGED closedVars
  BY <1>1 DEF WriteFile, DeleteFile, DidOpen, closedVars, results
<1>2. ASSUME NEW h \in Refreshers, OnlyCall(h), handler'[h].pc # "deliver",
             UNCHANGED <<drawn, cleared, delivered, gens>>
      PROVE  Numbered'
  BY <1>2 DEF OnlyCall
<1>3. ASSUME NEW h \in Refreshers, DidClose(h) PROVE Numbered'
  BY <1>2, <1>3, StartedCall DEF DidClose, results
<1>4. ASSUME NEW h \in Refreshers, Watched(h) PROVE Numbered'
  BY <1>2, <1>4, StartedCall DEF Watched, results
<1>5. ASSUME NEW h \in Refreshers, ConfigRefresh(h) PROVE Numbered'
  BY <1>2, <1>5, StartedCall DEF ConfigRefresh, results
<1>6. ASSUME NEW h \in Refreshers, Scan(h) \/ Index(h) \/ Begin(h) PROVE Numbered'
  <2>1. UNCHANGED <<drawn, cleared, delivered, gens>>
    BY <1>6 DEF Scan, Index, Begin, results
  <2>2. \A k \in Refreshers : handler'[k].pc = "deliver" => handler'[k] = handler[k]
    <3>1. CASE Scan(h)
      BY <3>1 DEF Scan, Stores, Calls
    <3>2. CASE Index(h)
      BY <3>2, FinishedCall, CallGoesOn DEF Index, OnlyCall
    <3>3. CASE Begin(h)
      BY <3>3, FinishedCall DEF Begin, OnlyCall, Stores, Calls
    <3> QED BY <1>6, <3>1, <3>2, <3>3
  <2> QED BY <2>1, <2>2
<1>7. ASSUME NEW h \in Refreshers, DrawGeneration(h) PROVE Numbered'
  <2>1. drawn' = drawn + 1 /\ gens' = drawn' - cleared /\ UNCHANGED <<cleared, delivered>>
    BY <1>7, ClosedAssumption DEF DrawGeneration, results
  <2>2. /\ handler'[h].draw = drawn' /\ handler'[h].gen = gens'
        /\ \A k \in Refreshers \ {h} : handler'[k] = handler[k]
    BY <1>7 DEF DrawGeneration, Stores, Calls
  <2>3. gens' = IF cleared' = drawn' THEN None ELSE drawn' - cleared'
    BY <2>1
  <2>4. ASSUME NEW k \in Refreshers, handler'[k].pc = "deliver"
        PROVE  /\ handler'[k].draw \in 1 .. drawn'
               /\ handler'[k].draw > cleared' => handler'[k].gen = handler'[k].draw - cleared'
    <3>1. CASE k = h BY <2>1, <2>2, <3>1
    <3>2. CASE k # h BY <2>1, <2>2, <2>4, <3>2
    <3> QED BY <3>1, <3>2
  <2> QED BY <2>1, <2>3, <2>4
<1>8. ASSUME NEW h \in Refreshers, Deliver(h) PROVE Numbered'
  <2>1. delivered' \in {delivered, handler[h].draw} /\ UNCHANGED <<gens, drawn, cleared>>
    BY <1>8 DEF Deliver, results
  <2>2. handler[h].draw \in 1 .. drawn
    BY <1>8 DEF Deliver
  <2>3. OnlyCall(h) /\ handler'[h].pc = "idle"
    BY <1>8, FinishedCall DEF Deliver
  <2> QED BY <2>1, <2>2, <2>3 DEF OnlyCall
<1>9. ASSUME NEW h \in Refreshers, Clear(h) PROVE Numbered'
  <2>1. OnlyCall(h) /\ handler'[h].pc = "idle" /\ UNCHANGED <<drawn, delivered>>
    BY <1>9, FinishedCall DEF Clear
  <2>2. CASE open
    BY <1>2, <1>9, <2>1, <2>2 DEF Clear
  <2>3. CASE ~open
    BY <1>9, <2>1, <2>3 DEF Clear, OnlyCall
  <2> QED BY <2>2, <2>3
<1> QED BY <1>1, <1>3, <1>4, <1>5, <1>6, <1>7, <1>8, <1>9 DEF ClosedNext, RefreshStep

\* Without deletions the disk and the store always have a text.
LEMMA UndeletedKept ==
  ASSUME MaxDeletes = 0, Stores, Undeleted, [ClosedNext]_closedVars
  PROVE  Undeleted'
<1> USE DEF Undeleted, Stores
<1>1. None \notin Int /\ Buffer # None
  BY ClosedAssumption
<1>2. CASE WriteFile \/ DidOpen \/ UNCHANGED closedVars
  BY <1>1, <1>2 DEF WriteFile, DidOpen, closedVars
<1>3. CASE DeleteFile
  BY <1>3 DEF DeleteFile
<1>4. ASSUME NEW h \in Refreshers, OnlyCall(h), handler'[h].pc \notin {"clear", "index"},
             UNCHANGED <<disk, source, cleared>>
      PROVE  Undeleted'
  BY <1>4 DEF OnlyCall
<1>5. ASSUME NEW h \in Refreshers, DidClose(h) \/ ConfigRefresh(h) PROVE Undeleted'
  BY <1>4, <1>5, StartedCall DEF DidClose, ConfigRefresh, files
<1>6. ASSUME NEW h \in Refreshers, Watched(h) PROVE Undeleted'
  BY <1>4, <1>6, StartedCall DEF Watched
<1>7. ASSUME NEW h \in Refreshers, Scan(h) PROVE Undeleted'
  BY <1>7 DEF Scan, files, Calls
<1>8. ASSUME NEW h \in Refreshers, Index(h) PROVE Undeleted'
  BY <1>8, FinishedCall, CallGoesOn DEF Index, files, OnlyCall
<1>9. ASSUME NEW h \in Refreshers, Begin(h) PROVE Undeleted'
  BY <1>9, FinishedCall DEF Begin, files, OnlyCall, Calls
<1>10. ASSUME NEW h \in Refreshers, DrawGeneration(h) PROVE Undeleted'
  BY <1>10 DEF DrawGeneration, files, Calls
<1>11. ASSUME NEW h \in Refreshers, Deliver(h) PROVE Undeleted'
  BY <1>4, <1>11, FinishedCall DEF Deliver, files
<1>12. ASSUME NEW h \in Refreshers, Clear(h) PROVE Undeleted'
  BY <1>12 DEF Clear
<1> QED BY <1>2, <1>3, <1>5, <1>6, <1>7, <1>8, <1>9, <1>10, <1>11, <1>12 DEF ClosedNext, RefreshStep

\* The stores, the gate and the numbers hold throughout.
LEMMA ClosedInvariant == ClosedSpec => [](Stores /\ Guarded /\ Numbered)
<1>1. ClosedInit => Stores /\ Guarded /\ Numbered
  BY ClosedStart
<1>2. Stores /\ Guarded /\ Numbered /\ [ClosedNext]_closedVars => (Stores /\ Guarded /\ Numbered)'
  BY StoresKept, GuardedKept, NumberedKept
<1> QED BY <1>1, <1>2, PTL DEF ClosedSpec

\* A step that changes what was delivered last is the delivery of a run whose
\* generation is the current one.
LEMMA WhoDelivers ==
  ASSUME Stores, [ClosedNext]_closedVars, delivered' # delivered
  PROVE  \E h \in Refreshers : /\ handler[h].pc = "deliver" /\ gens = handler[h].gen
                               /\ delivered' = handler[h].draw /\ cleared' = cleared
<1>1. PICK h \in Refreshers : Deliver(h)
  BY DEF ClosedNext, RefreshStep, closedVars, results, WriteFile, DeleteFile,
         DidOpen, DidClose, Watched, ConfigRefresh, Scan, Index,
         Begin, DrawGeneration, Clear
<1>2. IsCurrent(h)
  BY <1>1 DEF Deliver, results
<1> QED BY <1>1, <1>2 DEF Deliver, IsCurrent

\* The types of a closed file's state, with the watched-file gate.
THEOREM ClosedTypeCorrect == ClosedSpec => []ClosedTypeOK
<1>1. Stores /\ Guarded /\ Numbered => ClosedTypeOK
  BY ClosedAssumption DEF Stores, Guarded, Numbered, ClosedTypeOK, Contents, Texts
<1> QED BY <1>1, ClosedInvariant, PTL

\* However many handlers refresh a closed file at once, a run that drew its
\* generation earlier never publishes after one that drew it later, unless the
\* counter was retired by a clear since (NewerRunWins).
THEOREM ClosedRunsKeepOrder == ClosedSpec => NewerRunWins
<1>1. Stores /\ Guarded /\ Numbered /\ [ClosedNext]_closedVars =>
        [delivered' >= delivered \/ delivered' <= cleared]_closedVars
  <2> SUFFICES ASSUME Stores, Numbered, [ClosedNext]_closedVars
               PROVE  delivered' >= delivered \/ delivered' <= cleared
    OBVIOUS
  <2>1. CASE delivered' = delivered
    BY <2>1 DEF Numbered
  <2>2. CASE delivered' # delivered
    <3>1. PICK h \in Refreshers : /\ handler[h].pc = "deliver" /\ gens = handler[h].gen
                                  /\ delivered' = handler[h].draw
      BY <2>2, WhoDelivers
    <3>2. handler[h].gen \in Nat
      BY DEF Stores, Calls
    <3>3. CASE handler[h].draw > cleared
      BY <3>1, <3>2, <3>3, ClosedAssumption DEF Numbered
    <3>4. CASE ~(handler[h].draw > cleared)
      BY <3>1, <3>4 DEF Numbered
    <3> QED BY <3>3, <3>4
  <2> QED BY <2>1, <2>2
<1> QED BY <1>1, ClosedInvariant, PTL DEF ClosedSpec, NewerRunWins

\* As long as the file is not deleted nothing is cleared, and closed-file runs
\* publish in the order of their draws without exception.
THEOREM UndeletedRunsKeepOrder ==
  ASSUME MaxDeletes = 0
  PROVE  ClosedSpec => [][delivered' >= delivered]_closedVars
<1>1. ClosedInit => Undeleted
  <2>1. ClosedInit => \A h \in Refreshers : handler[h].pc = "idle"
    BY DEF ClosedInit, IdleHandler
  <2> QED BY <2>1, ClosedAssumption DEF ClosedInit, Undeleted
<1>2. Stores /\ Undeleted /\ [ClosedNext]_closedVars => Undeleted'
  BY UndeletedKept
<1>3. Stores /\ Numbered /\ Undeleted /\ [ClosedNext]_closedVars
        /\ [delivered' >= delivered \/ delivered' <= cleared]_closedVars
        => [delivered' >= delivered]_closedVars
  <2> SUFFICES ASSUME Stores, Numbered, Undeleted, [ClosedNext]_closedVars,
                      delivered' >= delivered \/ delivered' <= cleared
               PROVE  delivered' >= delivered
    BY DEF Numbered, closedVars
  <2>1. CASE delivered' = delivered
    BY <2>1 DEF Numbered
  <2>2. CASE delivered' # delivered
    <3>1. PICK h \in Refreshers : handler[h].pc = "deliver" /\ delivered' = handler[h].draw
      BY <2>2, WhoDelivers
    <3> QED BY <3>1 DEF Numbered, Undeleted
  <2> QED BY <2>1, <2>2
<1> QED BY <1>1, <1>2, <1>3, ClosedInvariant, ClosedRunsKeepOrder, PTL
        DEF ClosedSpec, NewerRunWins
=============================================================================
