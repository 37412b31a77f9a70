---------------------------- MODULE ConfigReload ----------------------------
(***************************************************************************)
(* The configuration reload of tcl-lsp-server: a burst of                  *)
(* didChangeConfiguration notifications is folded into one leader          *)
(* (coalesced_config_reload), which pulls the settings from the client,    *)
(* applies them and re-runs diagnostics; three one-shot events pull and    *)
(* apply beside it.                                                        *)
(*                                                                         *)
(* The client's settings are the number of times they changed; it notifies *)
(* each change.  A pull takes two requests, the global section and the     *)
(* folders', and either may be declined or time out (there is at least one *)
(* folder).  The few values a notification may carry inline are left out.  *)
(* A step is one critical section or one await.                            *)
(***************************************************************************)
EXTENDS Integers, FiniteSets

CONSTANTS MaxChanges,   \* bound: times the client changes its settings
          OneShots,     \* `initialized`, a folder change, the .ini watcher
          MaxFailures   \* bound: requests the client declines or never answers

\* The notification handlers, by the settings they announce.
Notifications == 1 .. MaxChanges
Handlers == Notifications \cup OneShots
Versions == 0 .. MaxChanges

ASSUME ReloadAssumption ==
  /\ MaxChanges \in Nat /\ MaxFailures \in Nat
  /\ OneShots \cap Int = {}

VARIABLES
  settings,   \* what the client would answer
  slot,       \* ConfigReloadSlot
  global,     \* the settings apply_global_config last applied
  folders,    \* the settings apply_folder_configs last applied
  pc,         \* each handler's step
  reply,      \* the answer each handler holds
  failures,   \* requests that failed
  began,      \* history: the settings when the leader's present run began
  covered     \* history: the settings when its last completed run began

vars == <<settings, slot, global, folders, pc, reply, failures, began, covered>>

Init ==
  /\ settings = 0
  /\ slot = [dirty |-> FALSE, running |-> FALSE]
  /\ global = 0 /\ folders = 0
  /\ pc = [h \in Handlers |-> "idle"]
  /\ reply = [h \in Handlers |-> 0]
  /\ failures = 0
  /\ began = 0 /\ covered = 0

Goto(h, l) == pc' = [pc EXCEPT ![h] = l]

-----------------------------------------------------------------------------
(* The client.                                                             *)

\* The settings change and the notification arrives.
Change ==
  /\ settings < MaxChanges
  /\ settings' = settings + 1
  /\ Goto(settings + 1, "mark")
  /\ UNCHANGED <<slot, global, folders, reply, failures, began, covered>>

\* A one-shot event arrives.
Event(h) ==
  /\ h \in OneShots /\ pc[h] = "idle"
  /\ Goto(h, "pull")
  /\ UNCHANGED <<settings, slot, global, folders, reply, failures, began, covered>>

-----------------------------------------------------------------------------
(* coalesced_config_reload.                                                *)

\* Mutant: a notification that finds a leader at work is not recorded.
MarkUnlessRunning(n) ==
  /\ n \in Notifications /\ pc[n] = "mark"
  /\ slot' = IF slot.running THEN slot ELSE [dirty |-> TRUE, running |-> TRUE]
  /\ Goto(n, IF slot.running THEN "done" ELSE "sleep")
  /\ UNCHANGED <<settings, global, folders, reply, failures, began, covered>>

\* Every notification marks the slot; the first becomes the leader.
Mark(n) ==
  /\ n \in Notifications /\ pc[n] = "mark"
  /\ slot' = [dirty |-> TRUE, running |-> TRUE]
  /\ Goto(n, IF slot.running THEN "done" ELSE "sleep")
  /\ UNCHANGED <<settings, global, folders, reply, failures, began, covered>>

\* The debounce is over: another run, or the leader steps down.
Debounced(n) ==
  /\ pc[n] = "sleep"
  /\ IF slot.dirty
       THEN /\ slot' = [slot EXCEPT !.dirty = FALSE]
            /\ Goto(n, "pull")
            /\ began' = settings
       ELSE /\ slot' = [slot EXCEPT !.running = FALSE]
            /\ Goto(n, "done")
            /\ UNCHANGED began
  /\ UNCHANGED <<settings, global, folders, reply, failures, covered>>

\* Mutant: the mark is cleared when the run is over.
RescheduleClears(n) ==
  /\ pc[n] = "reschedule"
  /\ covered' = began
  /\ slot' = [slot EXCEPT !.dirty = FALSE]
  /\ Goto(n, "sleep")
  /\ UNCHANGED <<settings, global, folders, reply, failures, began>>

\* The end of run_config_reload: packs, open documents, closed badges and the
\* client's refreshes follow the applied settings; then the leader sleeps again.
Reschedule(n) ==
  /\ pc[n] = "reschedule"
  /\ covered' = began
  /\ Goto(n, "sleep")
  /\ UNCHANGED <<settings, slot, global, folders, reply, failures, began>>

-----------------------------------------------------------------------------
(* pull_and_apply_config, by a leader or by a one-shot event.  No lock     *)
(* spans a request and the apply of its answer.                            *)

\* Where a pull ends: in the rest of the reload, or in the event's own tail.
PullEnds(h) == IF h \in Notifications THEN "reschedule" ELSE "done"

\* The client answers workspace/configuration with the settings of the moment,
\* declines it, or lets it time out.  Answers to several handlers are applied
\* in any order.
Pull(h) ==
  /\ pc[h] = "pull"
  /\ \/ /\ reply' = [reply EXCEPT ![h] = settings]
        /\ Goto(h, "apply") /\ UNCHANGED failures
     \/ /\ failures < MaxFailures /\ failures' = failures + 1
        /\ Goto(h, PullEnds(h)) /\ UNCHANGED reply
  /\ UNCHANGED <<settings, slot, global, folders, began, covered>>

\* apply_global_config, under analyser_inputs_gate.
Apply(h) ==
  /\ pc[h] = "apply"
  /\ global' = reply[h]
  /\ Goto(h, "pull_folders")
  /\ UNCHANGED <<settings, slot, folders, reply, failures, began, covered>>

\* The folders' request; when it fails the last good folder chain stays.
PullFolders(h) ==
  /\ pc[h] = "pull_folders"
  /\ \/ /\ reply' = [reply EXCEPT ![h] = settings]
        /\ Goto(h, "apply_folders") /\ UNCHANGED failures
     \/ /\ failures < MaxFailures /\ failures' = failures + 1
        /\ Goto(h, PullEnds(h)) /\ UNCHANGED reply
  /\ UNCHANGED <<settings, slot, global, folders, began, covered>>

\* Mutant: the leader returns once it has applied.
ApplyFoldersReturns(h) ==
  /\ pc[h] = "apply_folders"
  /\ folders' = reply[h]
  /\ Goto(h, "done")
  /\ UNCHANGED <<settings, slot, global, reply, failures, began, covered>>

ApplyFolders(h) ==
  /\ pc[h] = "apply_folders"
  /\ folders' = reply[h]
  /\ Goto(h, PullEnds(h))
  /\ UNCHANGED <<settings, slot, global, reply, failures, began, covered>>

-----------------------------------------------------------------------------

HandlerStep(h) ==
  \/ Mark(h) \/ Debounced(h) \/ Reschedule(h)
  \/ Pull(h) \/ Apply(h) \/ PullFolders(h) \/ ApplyFolders(h)

Next == Change \/ \E h \in Handlers : Event(h) \/ HandlerStep(h)

Spec == Init /\ [][Next]_vars

\* Timers fire, and a request is answered or times out.
FairSpec == Spec /\ \A h \in Handlers : WF_vars(HandlerStep(h))

-----------------------------------------------------------------------------
(* Properties.                                                             *)

\* The state variables keep the shape of the code's types.
TypeOK ==
  /\ settings \in Versions
  /\ slot \in [dirty : BOOLEAN, running : BOOLEAN]
  /\ global \in Versions /\ folders \in Versions
  /\ pc \in [Handlers -> {"idle", "mark", "sleep", "pull", "apply", "pull_folders",
                          "apply_folders", "reschedule", "done"}]
  /\ reply \in [Handlers -> Versions]
  /\ failures \in 0 .. MaxFailures
  /\ began \in Versions /\ covered \in Versions

Leading(n) == pc[n] \notin {"idle", "mark", "done"}

\* The running flag is the claim of exactly one leader: a slot that is running
\* has somebody to clear it, and two reloads never overlap.
OneLeader ==
  /\ \A m, n \in Notifications : Leading(m) /\ Leading(n) => m = n
  /\ slot.running <=> \E n \in Notifications : Leading(n)

\* "a superseded generation may be dropped only while a later one is guaranteed
\* to run the whole pipeline": once no notification is on its way and no leader
\* is at work, a whole run has begun after the last change.
LastChangeIsCovered ==
  ~slot.running /\ (\A n \in Notifications : pc[n] # "mark") => covered = settings

\* Every change the client announces is followed by a complete run.
EveryChangeIsReloaded ==
  \A n \in Notifications : pc[n] = "mark" ~> covered >= n

\* "the settings the *last* notification carried must be pulled, applied":
\* once every handler has returned, and no request has failed, the settings in
\* force are the client's.
LastSettingsWin ==
  failures = 0 /\ (\A h \in Handlers : pc[h] \in {"idle", "done"})
    /\ settings > 0 => global = settings /\ folders = settings
=============================================================================
