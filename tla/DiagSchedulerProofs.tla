------------------------- MODULE DiagSchedulerProofs -------------------------
(***************************************************************************)
(* The diagnostics scheduler for any number of workers, buffers, messages  *)
(* and attempts.  The inductive invariant is the shape of the state and:   *)
(*                                                                         *)
(* Counts    openings and reloads are numbered by the messages sent,       *)
(*           revisions never outrun the edits, and attempts the limit;     *)
(* Applies   one handler at a time writes the configuration, and how far   *)
(*           it is shows in the epoch;                                     *)
(* Claim     the slot's running flag is one worker's claim;                *)
(* Stamps    inputs stamped with the current epoch were read since it      *)
(*           began;                                                        *)
(* Captures  what a worker, a pull or the cache holds for the present      *)
(*           opening is no newer than the document, and is its text where  *)
(*           the revision is the same.                                     *)
(***************************************************************************)
EXTENDS DiagScheduler, FiniteSetTheorems, TLAPS

HandlerStates == [pc : HandlerSteps, kind : Kinds, opening : 0 .. MaxOpens, rev : 0 .. MaxEdits,
                  text : Texts \cup {None}, force : BOOLEAN, epoch : Epochs,
                  snap : Inputs \cup {None}, tries : 0 .. Attempts]
WorkerStates == [pc : WorkerSteps, generation : Nat, inputs : Inputs \cup {None},
                 opening : 0 .. MaxOpens, rev : 0 .. MaxEdits, text : Texts \cup {None},
                 fast : BOOLEAN]

Shape ==
  /\ doc \in Docs \cup {None}
  /\ slot \in Slots \cup {None}
  /\ config \in Inputs
  /\ applying \in BOOLEAN
  /\ epoch \in Epochs
  /\ handler \in [Handlers -> HandlerStates]
  /\ worker \in [Workers -> WorkerStates]
  /\ cache \in Sets \cup {None}
  /\ shown \in Sets \cup {None}
  /\ remarks \in Nat

Counts ==
  /\ \A h \in Handlers : /\ handler[h].pc = "idle" => handler[h].kind = "none"
                         /\ handler[h].pc # "commit" => handler[h].tries < Attempts
                         /\ handler[h].pc = "read_b" => handler[h].snap # None
                         /\ handler[h].pc \notin {"compute", "insert"} => handler[h].opening = 0
  /\ config.a = Sent("reload")
  /\ doc # None => doc.opening = Sent("open") /\ doc.rev <= Sent("edit")

\* The handler that holds analyser_inputs_gate.
Writing(h) == handler[h].pc \in {"write_b", "bump"}

Applies ==
  /\ \A h, k \in Handlers : Writing(h) /\ Writing(k) => h = k
  /\ applying <=> \E h \in Handlers : Writing(h)
  /\ ~applying => config.a = epoch /\ config.b = epoch
  /\ \A h \in Handlers :
       /\ handler[h].pc = "write_b" => config.a = epoch + 1 /\ config.b = epoch
       /\ handler[h].pc = "bump" => config.a = epoch + 1 /\ config.b = epoch + 1

Claim ==
  /\ \A v, w \in Workers : worker[v].pc # "idle" /\ worker[w].pc # "idle" => v = w
  /\ (\E w \in Workers : worker[w].pc # "idle") <=> slot # None /\ slot.running

\* Read since the current epoch began.
Recent(i) == i.a \in epoch .. config.a /\ i.b \in epoch .. config.b

Stamps ==
  /\ slot # None => /\ slot.inputs_epoch <= epoch
                    /\ slot.inputs # None /\ slot.inputs_epoch = epoch => Recent(slot.inputs)
  /\ \A h \in Handlers :
       /\ handler[h].epoch <= epoch
       /\ handler[h].pc \in {"peek", "read_a", "read_b", "verify", "commit"} /\ handler[h].snap # None
            /\ handler[h].epoch = epoch => Recent(handler[h].snap)

Honest(c) ==
  /\ c.opening <= Sent("open")
  /\ doc # None /\ c.opening = doc.opening =>
       c.rev <= doc.rev /\ (c.rev = doc.rev => c.text = doc.text)

Captures ==
  /\ \A h \in Handlers : Honest(handler[h])
  /\ \A w \in Workers : Honest(worker[w])
  /\ cache # None => Honest(cache)

SchedulerInv == Shape /\ Counts /\ Applies /\ Claim /\ Stamps /\ Captures

\* The slot's work has a worker, and the worker its inputs.
Backed ==
  slot # None => /\ slot.dirty => slot.running
                 /\ slot.inputs = None => slot.inputs_epoch = 0 /\ ~slot.running

\* A handler never gives up on the inputs: every retry is one more reload.
Resolving(h) ==
  /\ handler[h].pc # "evict"
  /\ handler[h].pc = "commit" /\ handler[h].snap = None => slot # None /\ slot.inputs # None
  /\ handler[h].pc \in {"idle", "publish", "reload", "write_b", "bump"} => handler[h].tries = 0
  /\ handler[h].pc = "load_epoch" => handler[h].tries <= epoch
  /\ handler[h].pc \in {"peek", "read_a", "read_b", "verify"} => handler[h].tries <= handler[h].epoch
  /\ handler[h].pc = "verify" => handler[h].snap # None

\* Where nothing is ever closed and the attempts outnumber the reloads.
Orphanless ==
  /\ Backed
  /\ \A h \in Handlers : Resolving(h)
  /\ \A w \in Workers : worker[w].pc # "unarmed"

-----------------------------------------------------------------------------
(* What the slot's operations do.                                          *)

\* The slot that is looked up, or its default.
LEMMA SlotLookedUp ==
  ASSUME Shape
  PROVE  /\ SlotOrDefault \in Slots
         /\ slot # None => SlotOrDefault = slot
         /\ slot = None => /\ SlotOrDefault.running = FALSE /\ SlotOrDefault.inputs = None
                           /\ SlotOrDefault.inputs_epoch = 0 /\ SlotOrDefault.dirty = FALSE
BY SchedulerAssumption DEF Shape, SlotOrDefault, DefaultSlot, Slots, Epochs

\* MarkDirty touches the dirty bit and the generation only.
LEMMA SlotMarked ==
  ASSUME NEW s \in Slots
  PROVE  /\ MarkDirty(s) \in Slots /\ MarkDirty(s) # None
         /\ MarkDirty(s).running = s.running /\ MarkDirty(s).dirty = TRUE
         /\ MarkDirty(s).inputs = s.inputs /\ MarkDirty(s).inputs_epoch = s.inputs_epoch
<1>1. MarkDirty(s) \in Slots
  <2>1. s.generation + 1 \in Nat
    BY DEF Slots
  <2>2. MarkDirty(s) = [s EXCEPT !.dirty = TRUE, !.generation = s.generation + 1]
    BY DEF MarkDirty, Slots
  <2> QED BY <2>1, <2>2 DEF Slots
<1>2. MarkDirty(s) # None
  BY <1>1, SchedulerAssumption
<1> QED BY <1>1, <1>2 DEF MarkDirty, Slots

\* A slot whose running flag is set or cleared.
LEMMA SlotRuns ==
  ASSUME NEW s \in Slots, NEW b \in BOOLEAN
  PROVE  LET t == [s EXCEPT !.running = b] IN
         /\ t \in Slots /\ t # None /\ t.running = b /\ t.dirty = s.dirty
         /\ t.inputs = s.inputs /\ t.inputs_epoch = s.inputs_epoch
<1> DEFINE t == [s EXCEPT !.running = b]
<1>1. t \in Slots
  BY DEF Slots
<1>2. t # None
  BY <1>1, SchedulerAssumption
<1> QED BY <1>1, <1>2 DEF Slots

\* A slot whose work is taken.
LEMMA SlotTaken ==
  ASSUME NEW s \in Slots
  PROVE  LET t == [s EXCEPT !.dirty = FALSE] IN
         /\ t \in Slots /\ t # None /\ t.running = s.running /\ t.dirty = FALSE
         /\ t.inputs = s.inputs /\ t.inputs_epoch = s.inputs_epoch
<1> DEFINE t == [s EXCEPT !.dirty = FALSE]
<1>1. t \in Slots
  BY DEF Slots
<1>2. t # None
  BY <1>1, SchedulerAssumption
<1> QED BY <1>1, <1>2 DEF Slots

\* retire_slot gives the claim up.
LEMMA SlotRetired ==
  ASSUME NEW s \in Slots \cup {None}
  PROVE  LET t == RetireSlot(s) IN
         /\ t \in Slots \cup {None}
         /\ t # None => /\ s # None /\ t.running = FALSE /\ t.dirty = s.dirty
                        /\ t.inputs = s.inputs /\ t.inputs_epoch = s.inputs_epoch
         /\ t = None => s = None \/ s.inputs = None
<1>1. CASE s = None \/ s.inputs = None
  BY <1>1 DEF RetireSlot
<1>2. CASE s # None /\ s.inputs # None
  BY <1>2, SlotRuns DEF RetireSlot
<1> QED BY <1>1, <1>2

\* evict_diag_slot leaves a running slot to its worker, without its inputs.
LEMMA SlotEvicted ==
  ASSUME NEW s \in Slots \cup {None}
  PROVE  LET t == EvictSlot(s) IN
         /\ t \in Slots \cup {None}
         /\ t # None <=> s # None /\ s.running
         /\ t # None => t.running /\ t.inputs = None /\ t.inputs_epoch = s.inputs_epoch
<1> DEFINE t == [s EXCEPT !.inputs = None, !.dirty = FALSE]
<1>1. CASE s # None /\ s.running
  <2>1. t \in Slots /\ t.running /\ t.inputs = None /\ t.inputs_epoch = s.inputs_epoch
    BY <1>1 DEF Slots
  <2>2. t # None
    BY <2>1, SchedulerAssumption
  <2> QED BY <1>1, <2>1, <2>2 DEF EvictSlot
<1>2. CASE ~(s # None /\ s.running)
  BY <1>2 DEF EvictSlot
<1> QED BY <1>1, <1>2

\* The locked section that ends schedule_diagnostics_impl.
LEMMA SlotCommitted ==
  ASSUME NEW s \in Slots, NEW i \in Inputs \cup {None}, NEW e \in Epochs
  PROVE  LET t == [Committed(s, i, e) EXCEPT !.running = TRUE] IN
         /\ t \in Slots /\ t # None /\ t.running = TRUE
         /\ i # None /\ e >= s.inputs_epoch => t.inputs = i /\ t.inputs_epoch = e
         /\ ~(i # None /\ e >= s.inputs_epoch) =>
              t.inputs = s.inputs /\ t.inputs_epoch = s.inputs_epoch
<1>1. CASE i # None /\ e >= s.inputs_epoch
  <2> DEFINE r == [s EXCEPT !.inputs = i, !.inputs_epoch = e]
  <2>1. r \in Slots /\ r.inputs = i /\ r.inputs_epoch = e
    BY <1>1 DEF Slots
  <2>2. Committed(s, i, e) = MarkDirty(r)
    BY <1>1 DEF Committed
  <2> HIDE DEF r
  <2> DEFINE m == MarkDirty(r)
  <2>3. m \in Slots /\ m.inputs = i /\ m.inputs_epoch = e
    BY <2>1, SlotMarked
  <2> HIDE DEF m
  <2>4. LET t == [m EXCEPT !.running = TRUE] IN
        t \in Slots /\ t # None /\ t.running = TRUE /\ t.inputs = i /\ t.inputs_epoch = e
    BY <2>3, SlotRuns
  <2> QED BY <1>1, <2>2, <2>4 DEF m
<1>2. CASE ~(i # None /\ e >= s.inputs_epoch)
  <2>1. Committed(s, i, e) = MarkDirty(s)
    BY <1>2 DEF Committed
  <2> DEFINE m == MarkDirty(s)
  <2>3. m \in Slots /\ m.inputs = s.inputs /\ m.inputs_epoch = s.inputs_epoch
    BY SlotMarked
  <2> HIDE DEF m
  <2>4. LET t == [m EXCEPT !.running = TRUE] IN
        /\ t \in Slots /\ t # None /\ t.running = TRUE
        /\ t.inputs = s.inputs /\ t.inputs_epoch = s.inputs_epoch
    BY <2>3, SlotRuns
  <2> QED BY <1>2, <2>1, <2>4 DEF m
<1> QED BY <1>1, <1>2

-----------------------------------------------------------------------------
(* What the steps do to the handler or the worker that takes them.         *)

\* Zero is in every range, and the steps are among the steps.
LEMMA Ranges ==
  /\ 0 \in 0 .. MaxOpens /\ 0 \in 0 .. MaxEdits /\ 0 \in Epochs /\ 0 \in 0 .. Attempts
  /\ {"publish", "evict", "closed_run", "write_b", "bump", "reload", "load_epoch", "peek", "read_a",
      "read_b", "verify", "commit", "compute", "insert", "done"} \subseteq HandlerSteps
  /\ WorkerSteps = {"idle", "stable", "sleep", "take", "unarmed", "capture", "declined",
                    "analyse", "deliver", "settled", "refresh", "cancelled"}
  /\ {"none", "open", "edit", "close", "reload", "pull"} = Kinds
BY SchedulerAssumption DEF Epochs, HandlerSteps, WorkerSteps, Kinds

OnlyHandler(h) == \A k \in Handlers \ {h} : handler'[k] = handler[k]
OnlyWorker(w) == \A v \in Workers \ {w} : worker'[v] = worker[v]

\* A handler goes on to another step with what it has.
LEMMA GotoEffect ==
  ASSUME Shape, NEW h \in Handlers, NEW l \in HandlerSteps, Goto(h, l)
  PROVE  /\ handler' \in [Handlers -> HandlerStates] /\ OnlyHandler(h)
         /\ handler'[h].pc = l /\ handler'[h].kind = handler[h].kind
         /\ handler'[h].opening = handler[h].opening /\ handler'[h].rev = handler[h].rev
         /\ handler'[h].text = handler[h].text /\ handler'[h].epoch = handler[h].epoch
         /\ handler'[h].snap = handler[h].snap /\ handler'[h].tries = handler[h].tries
<1> DEFINE r == [handler[h] EXCEPT !.pc = l]
<1>1. handler' = [handler EXCEPT ![h] = r] /\ handler \in [Handlers -> HandlerStates]
  BY DEF Goto, Shape
<1>2. /\ r \in HandlerStates /\ r.pc = l /\ r.kind = handler[h].kind
      /\ r.opening = handler[h].opening /\ r.rev = handler[h].rev /\ r.text = handler[h].text
      /\ r.epoch = handler[h].epoch /\ r.snap = handler[h].snap /\ r.tries = handler[h].tries
  BY <1>1 DEF HandlerStates
<1> HIDE DEF r
<1> QED BY <1>1, <1>2 DEF OnlyHandler

\* A handler returns and forgets.
LEMMA FinishEffect ==
  ASSUME Shape, NEW h \in Handlers, Finish(h)
  PROVE  /\ handler' \in [Handlers -> HandlerStates] /\ OnlyHandler(h)
         /\ handler'[h].pc = "done" /\ handler'[h].kind = handler[h].kind
         /\ handler'[h].opening = 0 /\ handler'[h].epoch = 0 /\ handler'[h].tries = 0
<1> DEFINE r == [IdleHandler EXCEPT !.pc = "done", !.kind = handler[h].kind]
<1>1. handler' = [handler EXCEPT ![h] = r] /\ handler \in [Handlers -> HandlerStates]
  BY DEF Finish, Shape
<1>2. handler[h].kind \in Kinds
  BY <1>1 DEF HandlerStates
<1>3. /\ r \in HandlerStates /\ r.pc = "done" /\ r.kind = handler[h].kind
      /\ r.opening = 0 /\ r.epoch = 0 /\ r.tries = 0
  BY <1>2, Ranges DEF HandlerStates, IdleHandler
<1> HIDE DEF r
<1> QED BY <1>1, <1>3 DEF OnlyHandler

\* A handler goes on to schedule_diagnostics_impl.
LEMMA ScheduleEffect ==
  ASSUME Shape, NEW h \in Handlers, Schedule(h)
  PROVE  /\ handler' \in [Handlers -> HandlerStates] /\ OnlyHandler(h)
         /\ handler'[h].pc = "load_epoch" /\ handler'[h].kind = handler[h].kind
         /\ handler'[h].opening = handler[h].opening /\ handler'[h].rev = 0
         /\ handler'[h].text = None /\ handler'[h].epoch = handler[h].epoch
         /\ handler'[h].tries = handler[h].tries
<1> DEFINE r == [handler[h] EXCEPT !.pc = "load_epoch", !.rev = 0, !.text = None]
<1>1. handler' = [handler EXCEPT ![h] = r] /\ handler \in [Handlers -> HandlerStates]
  BY DEF Schedule, Shape
<1>2. /\ r \in HandlerStates /\ r.pc = "load_epoch" /\ r.kind = handler[h].kind
      /\ r.opening = handler[h].opening /\ r.rev = 0 /\ r.text = None
      /\ r.epoch = handler[h].epoch /\ r.tries = handler[h].tries
  BY <1>1, Ranges DEF HandlerStates
<1> HIDE DEF r
<1> QED BY <1>1, <1>2 DEF OnlyHandler

\* A message has arrived and its handler starts.
LEMMA StartEffect ==
  ASSUME Shape, NEW h \in Handlers, NEW l \in HandlerSteps, NEW kind \in Kinds,
         NEW rev \in 0 .. MaxEdits, NEW text \in Texts \cup {None},
         l = "compute" => doc # None, Start(h, l, kind, rev, text)
  PROVE  /\ handler' \in [Handlers -> HandlerStates] /\ OnlyHandler(h)
         /\ handler[h].pc = "idle"
         /\ handler'[h].pc = l /\ handler'[h].kind = kind
         /\ handler'[h].opening = (IF l = "compute" THEN doc.opening ELSE 0)
         /\ handler'[h].rev = rev /\ handler'[h].text = text
         /\ handler'[h].epoch = handler[h].epoch /\ handler'[h].tries = handler[h].tries
<1> DEFINE o == IF l = "compute" THEN doc.opening ELSE 0
           r == [handler[h] EXCEPT !.pc = l, !.kind = kind, !.rev = rev, !.opening = o,
                                   !.text = text, !.force = kind \in {"open", "reload"}]
<1>1. handler' = [handler EXCEPT ![h] = r] /\ handler \in [Handlers -> HandlerStates]
  BY DEF Start, Shape
<1>2. o \in 0 .. MaxOpens
  BY SchedulerAssumption DEF Shape, Docs
<1>3. handler[h].pc = "idle"
  BY DEF Start
<1>4. r \in HandlerStates
  <2> DEFINE b == kind \in {"open", "reload"}
  <2>1. b \in BOOLEAN /\ handler[h] \in HandlerStates
    BY <1>1
  <2> HIDE DEF o, b
  <2>2. [handler[h] EXCEPT !.pc = l, !.kind = kind, !.rev = rev, !.opening = o,
                          !.text = text, !.force = b] \in HandlerStates
    BY <1>2, <2>1 DEF HandlerStates
  <2> QED BY <2>2 DEF b
<1>5. /\ r.pc = l /\ r.kind = kind /\ r.opening = o /\ r.rev = rev /\ r.text = text
      /\ r.epoch = handler[h].epoch /\ r.tries = handler[h].tries
  <2> HIDE DEF o
  <2> QED BY <1>1 DEF HandlerStates
<1> HIDE DEF r
<1> QED BY <1>1, <1>3, <1>4, <1>5 DEF OnlyHandler

\* The epoch is loaded: LoadEpoch.
LEMMA LoadEpochEffect ==
  ASSUME Shape, NEW h \in Handlers, LoadEpoch(h)
  PROVE  /\ handler' \in [Handlers -> HandlerStates] /\ OnlyHandler(h)
         /\ handler[h].pc = "load_epoch" /\ handler'[h].pc = "peek"
         /\ handler'[h].kind = handler[h].kind
         /\ handler'[h].opening = handler[h].opening /\ handler'[h].rev = handler[h].rev
         /\ handler'[h].text = handler[h].text /\ handler'[h].epoch = epoch
         /\ handler'[h].snap = None /\ handler'[h].tries = handler[h].tries
<1> DEFINE r == [handler[h] EXCEPT !.pc = "peek", !.epoch = epoch, !.snap = None]
<1>1. handler' = [handler EXCEPT ![h] = r] /\ handler[h] \in HandlerStates /\ handler[h].pc = "load_epoch"
  BY DEF LoadEpoch, Shape
<1>2. /\ r \in HandlerStates /\ r.pc = "peek" /\ r.kind = handler[h].kind
      /\ r.opening = handler[h].opening /\ r.rev = handler[h].rev /\ r.text = handler[h].text
      /\ r.epoch = epoch /\ r.snap = None /\ r.tries = handler[h].tries
  BY <1>1, Ranges DEF HandlerStates, Shape
<1> HIDE DEF r
<1> QED BY <1>1, <1>2 DEF OnlyHandler, Shape

\* The settings are read: ReadFirst.
LEMMA ReadFirstEffect ==
  ASSUME Shape, NEW h \in Handlers, ReadFirst(h)
  PROVE  /\ handler' \in [Handlers -> HandlerStates] /\ OnlyHandler(h)
         /\ handler[h].pc = "read_a" /\ handler'[h].pc = "read_b"
         /\ handler'[h].kind = handler[h].kind
         /\ handler'[h].opening = handler[h].opening /\ handler'[h].rev = handler[h].rev
         /\ handler'[h].text = handler[h].text /\ handler'[h].epoch = handler[h].epoch
         /\ handler'[h].snap = config /\ handler'[h].tries = handler[h].tries
<1> DEFINE r == [handler[h] EXCEPT !.pc = "read_b", !.snap = config]
<1>1. handler' = [handler EXCEPT ![h] = r] /\ handler[h] \in HandlerStates /\ handler[h].pc = "read_a"
  BY DEF ReadFirst, Shape
<1>2. /\ r \in HandlerStates /\ r.pc = "read_b" /\ r.kind = handler[h].kind
      /\ r.opening = handler[h].opening /\ r.rev = handler[h].rev /\ r.text = handler[h].text
      /\ r.epoch = handler[h].epoch /\ r.snap = config /\ r.tries = handler[h].tries
  BY <1>1, Ranges DEF HandlerStates, Shape
<1> HIDE DEF r
<1> QED BY <1>1, <1>2 DEF OnlyHandler, Shape

\* The rest of them is read: ReadRest.
LEMMA ReadRestEffect ==
  ASSUME Shape, NEW h \in Handlers, handler[h].snap # None, ReadRest(h)
  PROVE  /\ handler' \in [Handlers -> HandlerStates] /\ OnlyHandler(h)
         /\ handler[h].pc = "read_b" /\ handler'[h].pc = "verify"
         /\ handler'[h].kind = handler[h].kind
         /\ handler'[h].opening = handler[h].opening /\ handler'[h].rev = handler[h].rev
         /\ handler'[h].text = handler[h].text /\ handler'[h].epoch = handler[h].epoch
         /\ handler'[h].snap # None /\ handler'[h].snap.a = handler[h].snap.a
         /\ handler'[h].snap.b = config.b /\ handler'[h].tries = handler[h].tries
<1> DEFINE i == [handler[h].snap EXCEPT !.b = config.b]
           r == [handler[h] EXCEPT !.pc = "verify", !.snap = i]
<1>1. handler' = [handler EXCEPT ![h] = r] /\ handler[h] \in HandlerStates /\ handler[h].pc = "read_b"
  BY DEF ReadRest, Shape
<1>2. handler[h].snap \in Inputs
  BY <1>1 DEF HandlerStates
<1>3. i \in Inputs /\ i.a = handler[h].snap.a /\ i.b = config.b
  BY <1>2 DEF Inputs, Shape
<1>4. i # None
  BY <1>3, SchedulerAssumption
<1> HIDE DEF i
<1>5. /\ r \in HandlerStates /\ r.pc = "verify" /\ r.kind = handler[h].kind
      /\ r.opening = handler[h].opening /\ r.rev = handler[h].rev /\ r.text = handler[h].text
      /\ r.epoch = handler[h].epoch /\ r.snap = i /\ r.tries = handler[h].tries
  BY <1>1, <1>3, Ranges DEF HandlerStates
<1> HIDE DEF r
<1> QED BY <1>1, <1>3, <1>4, <1>5 DEF OnlyHandler, Shape

\* The epoch is compared: Verify.
LEMMA VerifyEffect ==
  ASSUME Shape, NEW h \in Handlers, handler[h].tries < Attempts, Verify(h)
  PROVE  /\ handler' \in [Handlers -> HandlerStates] /\ OnlyHandler(h)
         /\ handler[h].pc = "verify" /\ handler'[h].kind = handler[h].kind
         /\ handler'[h].pc = (IF epoch = handler[h].epoch \/ handler[h].tries + 1 = Attempts
                              THEN "commit" ELSE "load_epoch")
         /\ handler'[h].opening = handler[h].opening /\ handler'[h].rev = handler[h].rev
         /\ handler'[h].text = handler[h].text /\ handler'[h].epoch = handler[h].epoch
         /\ handler'[h].snap = (IF epoch = handler[h].epoch THEN handler[h].snap ELSE None)
         /\ handler'[h].tries = handler[h].tries + 1
<1> DEFINE l == IF epoch = handler[h].epoch \/ handler[h].tries + 1 = Attempts
                THEN "commit" ELSE "load_epoch"
           i == IF epoch = handler[h].epoch THEN handler[h].snap ELSE None
           n == handler[h].tries + 1
           r == [handler[h] EXCEPT !.tries = n, !.snap = i, !.pc = l]
<1>1. handler' = [handler EXCEPT ![h] = r] /\ handler[h] \in HandlerStates /\ handler[h].pc = "verify"
  BY DEF Verify, Shape
<1>2. n \in 0 .. Attempts /\ i \in Inputs \cup {None} /\ l \in HandlerSteps
  BY <1>1, Ranges, SchedulerAssumption DEF HandlerStates
<1> HIDE DEF l, i, n
<1>3. /\ r \in HandlerStates /\ r.pc = l /\ r.kind = handler[h].kind
      /\ r.opening = handler[h].opening /\ r.rev = handler[h].rev /\ r.text = handler[h].text
      /\ r.epoch = handler[h].epoch /\ r.snap = i /\ r.tries = n
  BY <1>1, <1>2 DEF HandlerStates
<1> HIDE DEF r
<1> QED BY <1>1, <1>2, <1>3 DEF OnlyHandler, Shape, l, i, n

\* A pull is answered under the settings of the moment: PullCompute.
LEMMA PullComputeEffect ==
  ASSUME Shape, NEW h \in Handlers, PullCompute(h)
  PROVE  /\ handler' \in [Handlers -> HandlerStates] /\ OnlyHandler(h)
         /\ handler[h].pc = "compute" /\ handler'[h].pc = "insert"
         /\ handler'[h].kind = handler[h].kind
         /\ handler'[h].opening = handler[h].opening /\ handler'[h].rev = handler[h].rev
         /\ handler'[h].text = handler[h].text /\ handler'[h].epoch = handler[h].epoch
         /\ handler'[h].tries = handler[h].tries
<1> DEFINE r == [handler[h] EXCEPT !.pc = "insert", !.snap = config]
<1>1. handler' = [handler EXCEPT ![h] = r] /\ handler[h] \in HandlerStates /\ handler[h].pc = "compute"
  BY DEF PullCompute, Shape
<1>2. /\ r \in HandlerStates /\ r.pc = "insert" /\ r.kind = handler[h].kind
      /\ r.opening = handler[h].opening /\ r.rev = handler[h].rev /\ r.text = handler[h].text
      /\ r.epoch = handler[h].epoch /\ r.tries = handler[h].tries
  BY <1>1, Ranges DEF HandlerStates, Shape
<1> HIDE DEF r
<1> QED BY <1>1, <1>2 DEF OnlyHandler, Shape

\* A worker goes on with what it has.
LEMMA MoveEffect ==
  ASSUME Shape, NEW w \in Workers, NEW l \in WorkerSteps, Move(w, l)
  PROVE  /\ worker' \in [Workers -> WorkerStates] /\ OnlyWorker(w)
         /\ worker'[w].pc = l /\ worker'[w].opening = worker[w].opening
         /\ worker'[w].rev = worker[w].rev /\ worker'[w].text = worker[w].text
<1> DEFINE r == [worker[w] EXCEPT !.pc = l]
<1>1. worker' = [worker EXCEPT ![w] = r] /\ worker \in [Workers -> WorkerStates]
  BY DEF Move, Shape
<1>2. /\ r \in WorkerStates /\ r.pc = l /\ r.opening = worker[w].opening
      /\ r.rev = worker[w].rev /\ r.text = worker[w].text
  BY <1>1 DEF WorkerStates
<1> HIDE DEF r
<1> QED BY <1>1, <1>2 DEF OnlyWorker

\* A worker starts over, or ends, and forgets.
LEMMA RestartEffect ==
  ASSUME Shape, NEW w \in Workers, NEW l \in WorkerSteps, Restart(w, l)
  PROVE  /\ worker' \in [Workers -> WorkerStates] /\ OnlyWorker(w)
         /\ worker'[w].pc = l /\ worker'[w].opening = 0
<1> DEFINE r == [IdleWorker EXCEPT !.pc = l]
<1>1. worker' = [worker EXCEPT ![w] = r] /\ worker \in [Workers -> WorkerStates]
  BY DEF Restart, Shape
<1>2. r \in WorkerStates /\ r.pc = l /\ r.opening = 0
  BY Ranges DEF WorkerStates, IdleWorker
<1> HIDE DEF r
<1> QED BY <1>1, <1>2 DEF OnlyWorker

\* The debounce begins.
LEMMA SleepEffect ==
  ASSUME Shape, NEW w \in Workers, slot # None,
         worker' = [worker EXCEPT ![w].pc = "sleep", ![w].generation = slot.generation]
  PROVE  /\ worker' \in [Workers -> WorkerStates] /\ OnlyWorker(w)
         /\ worker'[w].pc = "sleep" /\ worker'[w].opening = worker[w].opening
         /\ worker'[w].rev = worker[w].rev /\ worker'[w].text = worker[w].text
<1> DEFINE r == [worker[w] EXCEPT !.pc = "sleep", !.generation = slot.generation]
<1>1. worker' = [worker EXCEPT ![w] = r] /\ worker \in [Workers -> WorkerStates]
  BY DEF Shape
<1>2. slot.generation \in Nat
  BY DEF Shape, Slots
<1>3. /\ r \in WorkerStates /\ r.pc = "sleep" /\ r.opening = worker[w].opening
      /\ r.rev = worker[w].rev /\ r.text = worker[w].text
  BY <1>1, <1>2, Ranges DEF WorkerStates
<1> HIDE DEF r
<1> QED BY <1>1, <1>3 DEF OnlyWorker

\* The inputs are taken.
LEMMA TakeEffect ==
  ASSUME Shape, NEW w \in Workers, slot # None,
         worker' = [worker EXCEPT ![w].inputs = slot.inputs,
                                  ![w].pc = IF slot.inputs = None THEN "unarmed" ELSE "capture"]
  PROVE  /\ worker' \in [Workers -> WorkerStates] /\ OnlyWorker(w)
         /\ worker'[w].pc = (IF slot.inputs = None THEN "unarmed" ELSE "capture")
         /\ worker'[w].opening = worker[w].opening
         /\ worker'[w].rev = worker[w].rev /\ worker'[w].text = worker[w].text
<1> DEFINE l == IF slot.inputs = None THEN "unarmed" ELSE "capture"
           i == slot.inputs
           r == [worker[w] EXCEPT !.inputs = i, !.pc = l]
<1>1. worker' = [worker EXCEPT ![w] = r] /\ worker \in [Workers -> WorkerStates]
  BY DEF Shape
<1>2. i \in Inputs \cup {None} /\ l \in WorkerSteps
  BY Ranges DEF Shape, Slots
<1> HIDE DEF l, i
<1>3. r \in WorkerStates
  <2>1. worker[w] \in WorkerStates
    BY <1>1
  <2> QED BY <1>2, <2>1 DEF WorkerStates
<1>4. /\ r.pc = l /\ r.opening = worker[w].opening
      /\ r.rev = worker[w].rev /\ r.text = worker[w].text
  BY <1>1 DEF WorkerStates
<1> HIDE DEF r
<1> QED BY <1>1, <1>3, <1>4 DEF OnlyWorker, l

\* The document is captured as it is: Capture.
LEMMA CaptureEffect ==
  ASSUME Shape, NEW w \in Workers, Capture(w)
  PROVE  /\ worker' \in [Workers -> WorkerStates] /\ OnlyWorker(w)
         /\ worker'[w].pc \in {"analyse", "declined"} /\ worker[w].pc = "capture"
         /\ \/ worker'[w].opening = 0
            \/ /\ doc # None /\ worker'[w].opening = doc.opening
               /\ worker'[w].rev = doc.rev /\ worker'[w].text = doc.text
<1> DEFINE live == doc # None /\ doc.ready
           l == IF live THEN "analyse" ELSE "declined"
           o == IF live THEN doc.opening ELSE 0
           v == IF live THEN doc.rev ELSE 0
           t == IF live THEN doc.text ELSE None
           r == [worker[w] EXCEPT !.pc = l, !.opening = o, !.rev = v, !.text = t, !.fast = FALSE]
<1>1. /\ worker' = [worker EXCEPT ![w] = r] /\ worker \in [Workers -> WorkerStates]
      /\ worker[w].pc = "capture"
  BY DEF Capture, Shape
<1>2. doc # None => doc.opening \in 0 .. MaxOpens /\ doc.rev \in 0 .. MaxEdits /\ doc.text \in Texts
  BY SchedulerAssumption DEF Shape, Docs
<1>3. l \in WorkerSteps /\ o \in 0 .. MaxOpens /\ v \in 0 .. MaxEdits /\ t \in Texts \cup {None}
  BY <1>2, Ranges
<1>4. /\ l \in {"analyse", "declined"}
      /\ o = 0 \/ (doc # None /\ o = doc.opening /\ v = doc.rev /\ t = doc.text)
  <2>1. CASE live
    BY <2>1
  <2>2. CASE ~live
    BY <2>2
  <2> QED BY <2>1, <2>2
<1> HIDE DEF l, o, v, t, live
<1>5. /\ r \in WorkerStates /\ r.pc = l /\ r.opening = o /\ r.rev = v /\ r.text = t
  BY <1>1, <1>3 DEF WorkerStates
<1> HIDE DEF r
<1> QED BY <1>1, <1>4, <1>5 DEF OnlyWorker

\* A worker is started where none runs.
LEMMA StartWorkerEffect ==
  ASSUME Shape, Claim, NEW s, StartWorkerUnless(s.running),
         IF slot = None THEN s.running = FALSE ELSE s = slot
  PROVE  /\ worker' \in [Workers -> WorkerStates]
         /\ \A w \in Workers : worker'[w] = worker[w] \/ worker'[w].opening = 0
         /\ \A w \in Workers : worker'[w] = worker[w] \/ worker'[w].pc = "stable"
         /\ \A v, w \in Workers : worker'[v].pc # "idle" /\ worker'[w].pc # "idle" => v = w
         /\ \E w \in Workers : worker'[w].pc # "idle"
<1>1. CASE s.running
  <2>1. slot # None /\ slot.running
    BY <1>1
  <2> QED BY <1>1, <2>1 DEF Claim, Shape, StartWorkerUnless
<1>2. CASE ~s.running
  <2>1. \A w \in Workers : worker[w].pc = "idle"
    BY <1>2 DEF Claim
  <2>2. PICK w \in Workers : w = CHOOSE v \in Workers : worker[v].pc = "idle"
    BY <2>1, SchedulerAssumption
  <2> DEFINE r == [IdleWorker EXCEPT !.pc = "stable"]
  <2>3. worker' = [worker EXCEPT ![w] = r] /\ worker \in [Workers -> WorkerStates]
    BY <1>2, <2>2 DEF StartWorkerUnless, Shape
  <2>4. r \in WorkerStates /\ r.pc = "stable" /\ r.opening = 0
    BY Ranges DEF WorkerStates, IdleWorker
  <2> HIDE DEF r
  <2> QED BY <2>1, <2>3, <2>4
<1> QED BY <1>1, <1>2

-----------------------------------------------------------------------------
(* Counting the messages.                                                  *)

\* Handlers are finitely many.
LEMMA SentIsNat ==
  ASSUME NEW k
  PROVE  /\ IsFiniteSet({h \in Handlers : handler[h].kind = k}) /\ Sent(k) \in Nat
         /\ IsFiniteSet({h \in Handlers : handler'[h].kind = k}) /\ Sent(k)' \in Nat
<1>1. IsFiniteSet(Handlers)
  <2>1. MaxOpens + MaxEdits + MaxCloses + MaxReloads + MaxPulls \in Int
    BY SchedulerAssumption
  <2> QED BY <2>1, FS_Interval DEF Handlers
<1>2. /\ IsFiniteSet({h \in Handlers : handler[h].kind = k})
      /\ IsFiniteSet({h \in Handlers : handler'[h].kind = k})
  BY <1>1, FS_Subset
<1> QED BY <1>2, FS_CardinalityType DEF Sent

\* A handler that starts adds one to its kind.
LEMMA SentGrows ==
  ASSUME NEW h \in Handlers, NEW k \in Kinds \ {"none"}, OnlyHandler(h),
         handler[h].kind = "none", handler'[h].kind = k
  PROVE  /\ Sent(k)' = Sent(k) + 1
         /\ \A j \in Kinds \ {"none", k} : Sent(j)' = Sent(j)
<1>1. {g \in Handlers : handler'[g].kind = k} = {g \in Handlers : handler[g].kind = k} \cup {h}
  BY DEF OnlyHandler
<1>2. h \notin {g \in Handlers : handler[g].kind = k}
  OBVIOUS
<1>3. Sent(k)' = Sent(k) + 1
  <2> DEFINE S == {g \in Handlers : handler[g].kind = k}
  <2>1. IsFiniteSet(S) /\ h \notin S
    BY <1>2, SentIsNat
  <2>2. Sent(k) = Cardinality(S) /\ Sent(k)' = Cardinality(S \cup {h})
    BY <1>1 DEF Sent
  <2> HIDE DEF S
  <2> QED BY <2>1, <2>2, FS_AddElement
<1>4. ASSUME NEW j \in Kinds \ {"none", k} PROVE Sent(j)' = Sent(j)
  <2>1. {g \in Handlers : handler'[g].kind = j} = {g \in Handlers : handler[g].kind = j}
    BY <1>4 DEF OnlyHandler
  <2> QED BY <2>1 DEF Sent
<1> QED BY <1>3, <1>4

\* Any other step leaves the counts alone.
LEMMA SentStays ==
  ASSUME \A h \in Handlers : handler'[h].kind = handler[h].kind
  PROVE  \A k : Sent(k)' = Sent(k)
<1> SUFFICES ASSUME NEW k PROVE Sent(k)' = Sent(k)
  OBVIOUS
<1>1. {h \in Handlers : handler'[h].kind = k} = {h \in Handlers : handler[h].kind = k}
  OBVIOUS
<1> QED BY <1>1 DEF Sent

-----------------------------------------------------------------------------
(* The steps in summary.                                                   *)

\* The handler keeps what a pull has captured, or holds no capture.
SameCapture(h) ==
  /\ handler'[h].opening = handler[h].opening /\ handler'[h].rev = handler[h].rev
  /\ handler'[h].text = handler[h].text

\* A handler under way keeps its kind, and a pull what it has captured.
LEMMA HandlerSummary ==
  ASSUME Shape, Counts, NEW h \in Handlers, HandlerStep(h)
  PROVE  /\ handler' \in [Handlers -> HandlerStates] /\ OnlyHandler(h)
         /\ handler'[h].kind = handler[h].kind
         /\ handler[h].pc # "idle" /\ handler'[h].pc \notin {"idle", "write_b", "publish", "evict"}
         /\ handler'[h].pc = "bump" => handler[h].pc = "write_b"
         /\ handler'[h].pc # "commit" => handler'[h].tries < Attempts
         /\ handler'[h].pc = "read_b" => handler'[h].snap # None
         /\ handler'[h].pc \in {"compute", "insert"} => SameCapture(h)
         /\ handler'[h].pc \notin {"compute", "insert"} => handler'[h].opening = 0
         /\ handler'[h].epoch \in {0, handler[h].epoch, epoch}
<1> DEFINE Summary ==
         /\ handler' \in [Handlers -> HandlerStates] /\ OnlyHandler(h)
         /\ handler'[h].kind = handler[h].kind
         /\ handler[h].pc # "idle" /\ handler'[h].pc \notin {"idle", "write_b", "publish", "evict"}
         /\ handler'[h].pc = "bump" => handler[h].pc = "write_b"
         /\ handler'[h].pc # "commit" => handler'[h].tries < Attempts
         /\ handler'[h].pc = "read_b" => handler'[h].snap # None
         /\ handler'[h].pc \in {"compute", "insert"} => SameCapture(h)
         /\ handler'[h].pc \notin {"compute", "insert"} => handler'[h].opening = 0
         /\ handler'[h].epoch \in {0, handler[h].epoch, epoch}
<1>a. /\ handler[h] \in HandlerStates
      /\ handler[h].pc # "commit" => handler[h].tries < Attempts
      /\ handler[h].pc \notin {"compute", "insert"} => handler[h].opening = 0
      /\ handler[h].pc = "read_b" => handler[h].snap # None
      /\ 0 < Attempts
  BY SchedulerAssumption DEF Counts, Shape
<1>1. ASSUME Finish(h), handler[h].pc # "idle" PROVE Summary
  BY <1>1, <1>a, FinishEffect
<1>2. ASSUME Schedule(h), handler[h].pc \in {"publish", "reload"} PROVE Summary
  BY <1>2, <1>a, ScheduleEffect
<1>3. ASSUME NEW l \in {"closed_run", "bump", "reload", "read_a", "commit"}, Goto(h, l),
             handler[h].pc \notin {"idle", "commit", "compute", "insert"},
             l = "bump" => handler[h].pc = "write_b"
      PROVE  Summary
  BY <1>3, <1>a, GotoEffect, Ranges
<1>4. CASE Publish(h)
  BY <1>1, <1>2, <1>4 DEF Publish
<1>5. CASE CloseTail(h)
  BY <1>1, <1>3, <1>5 DEF CloseTail
<1>6. CASE ClosedRun(h)
  BY <1>1, <1>6 DEF ClosedRun
<1>7. CASE ApplyRest(h)
  BY <1>3, <1>7 DEF ApplyRest
<1>8. CASE Invalidate(h)
  BY <1>3, <1>8 DEF Invalidate
<1>9. CASE RescheduleOpen(h)
  BY <1>1, <1>2, <1>9 DEF RescheduleOpen
<1>10. CASE LoadEpoch(h)
  BY <1>10, <1>a, LoadEpochEffect
<1>11. CASE Peek(h)
  BY <1>3, <1>11 DEF Peek
<1>12. CASE ReadFirst(h)
  BY <1>12, <1>a, ReadFirstEffect, SchedulerAssumption DEF Shape
<1>13. CASE ReadRest(h)
  <2>1. handler[h].snap # None /\ handler[h].pc = "read_b"
    BY <1>13, <1>a DEF ReadRest
  <2> QED BY <1>13, <1>a, <2>1, ReadRestEffect
<1>14. CASE Verify(h)
  <2>1. handler[h].tries < Attempts /\ handler[h].tries \in Nat /\ Attempts \in Nat
    BY <1>14, <1>a, SchedulerAssumption DEF Verify, HandlerStates
  <2> QED BY <1>14, <1>a, <2>1, VerifyEffect
<1>15. CASE Commit(h)
  BY <1>1, <1>15 DEF Commit
<1>16. CASE PullCompute(h)
  BY <1>16, <1>a, PullComputeEffect DEF SameCapture
<1>17. CASE PullInsert(h)
  BY <1>1, <1>17 DEF PullInsert
<1> QED
  BY <1>4, <1>5, <1>6, <1>7, <1>8, <1>9, <1>10, <1>11, <1>12, <1>13, <1>14, <1>15, <1>16, <1>17
  DEF HandlerStep

\* A message that arrives starts a handler of its kind; a pull captures the
\* document.
LEMMA ClientSummary ==
  ASSUME Shape, Counts, NEW h \in Handlers, ClientSends(h)
  PROVE  /\ handler' \in [Handlers -> HandlerStates] /\ OnlyHandler(h)
         /\ handler[h].pc = "idle" /\ handler'[h].tries = handler[h].tries
         /\ handler'[h].epoch = handler[h].epoch
         /\ UNCHANGED <<slot, epoch, worker, cache, shown, remarks>>
         /\ \/ /\ DidOpen(h) /\ handler'[h].kind = "open" /\ handler'[h].pc = "publish"
               /\ handler'[h].opening = 0 /\ UNCHANGED <<config, applying>>
               /\ doc = None /\ doc' \in Docs /\ doc'.opening = Sent("open") + 1 /\ doc'.rev = 0
            \/ /\ DidChange(h) /\ handler'[h].kind = "edit" /\ handler'[h].pc = "publish"
               /\ handler'[h].opening = 0 /\ UNCHANGED <<config, applying>>
               /\ doc # None /\ doc' \in Docs /\ doc'.opening = doc.opening /\ doc'.rev = doc.rev + 1
            \/ /\ DidClose(h) /\ handler'[h].kind = "close" /\ handler'[h].pc = "evict"
               /\ handler'[h].opening = 0 /\ UNCHANGED <<config, applying>>
               /\ doc' = None /\ Sent("close") < MaxCloses
            \/ /\ BeginApply(h) /\ handler'[h].kind = "reload" /\ handler'[h].pc = "write_b"
               /\ handler'[h].opening = 0 /\ UNCHANGED doc /\ ~applying /\ applying' = TRUE
               /\ config' \in Inputs /\ config'.a = config.a + 1 /\ config'.b = config.b
            \/ /\ Pull(h) /\ handler'[h].kind = "pull" /\ UNCHANGED <<config, applying, doc>>
               /\ \/ handler'[h].pc = "done" /\ handler'[h].opening = 0
                  \/ /\ handler'[h].pc = "compute" /\ doc # None
                     /\ handler'[h].opening = doc.opening /\ handler'[h].rev = doc.rev
                     /\ handler'[h].text = doc.text
<1>a. doc # None => /\ doc \in Docs /\ doc.opening \in 1 .. MaxOpens /\ doc.rev \in 0 .. MaxEdits
                    /\ doc.text \in Texts
  BY DEF Shape, Docs
<1>1. CASE DidOpen(h)
  <2>1. PICK t \in Texts :
          /\ doc' = [opening |-> Sent("open") + 1, rev |-> 0, text |-> t, ready |-> FALSE]
          /\ Start(h, "publish", "open", 0, t)
    BY <1>1 DEF DidOpen
  <2>2. doc' \in Docs /\ doc'.opening = Sent("open") + 1 /\ doc'.rev = 0
    <3>1. Sent("open") \in Nat /\ Sent("open") < MaxOpens /\ MaxOpens \in Nat
      BY <1>1, SentIsNat, SchedulerAssumption DEF DidOpen
    <3> QED BY <2>1, <3>1, Ranges DEF Docs
  <2>3. /\ handler' \in [Handlers -> HandlerStates] /\ OnlyHandler(h)
        /\ handler[h].pc = "idle" /\ handler'[h].tries = handler[h].tries
        /\ handler'[h].epoch = handler[h].epoch
        /\ handler'[h].kind = "open" /\ handler'[h].pc = "publish" /\ handler'[h].opening = 0
    BY <2>1, StartEffect, Ranges
  <2> QED BY <1>1, <2>2, <2>3 DEF DidOpen
<1>2. CASE DidChange(h)
  <2>1. PICK t \in Texts :
          /\ doc' = [doc EXCEPT !.rev = doc.rev + 1, !.text = t, !.ready = FALSE]
          /\ Start(h, "publish", "edit", doc.rev + 1, t)
    BY <1>2 DEF DidChange
  <2>2. doc.rev + 1 \in 0 .. MaxEdits /\ doc \in Docs
    <3>1. doc # None /\ Sent("edit") < MaxEdits /\ doc.rev <= Sent("edit")
      BY <1>2 DEF DidChange, Counts
    <3>2. Sent("edit") \in Nat /\ MaxEdits \in Nat
      BY SentIsNat, SchedulerAssumption
    <3> QED BY <1>a, <3>1, <3>2
  <2>3. doc' \in Docs /\ doc'.opening = doc.opening /\ doc'.rev = doc.rev + 1
    BY <2>1, <2>2 DEF Docs
  <2>4. /\ handler' \in [Handlers -> HandlerStates] /\ OnlyHandler(h)
        /\ handler[h].pc = "idle" /\ handler'[h].tries = handler[h].tries
        /\ handler'[h].epoch = handler[h].epoch
        /\ handler'[h].kind = "edit" /\ handler'[h].pc = "publish" /\ handler'[h].opening = 0
    BY <2>1, <2>2, StartEffect, Ranges
  <2> QED BY <1>2, <2>3, <2>4 DEF DidChange
<1>3. CASE DidClose(h)
  <2>1. /\ handler' \in [Handlers -> HandlerStates] /\ OnlyHandler(h)
        /\ handler[h].pc = "idle" /\ handler'[h].tries = handler[h].tries
        /\ handler'[h].epoch = handler[h].epoch
        /\ handler'[h].kind = "close" /\ handler'[h].pc = "evict" /\ handler'[h].opening = 0
    BY <1>3, StartEffect, Ranges DEF DidClose
  <2> QED BY <1>3, <2>1 DEF DidClose
<1>4. CASE BeginApply(h)
  <2>1. /\ handler' \in [Handlers -> HandlerStates] /\ OnlyHandler(h)
        /\ handler[h].pc = "idle" /\ handler'[h].tries = handler[h].tries
        /\ handler'[h].epoch = handler[h].epoch
        /\ handler'[h].kind = "reload" /\ handler'[h].pc = "write_b" /\ handler'[h].opening = 0
    BY <1>4, StartEffect, Ranges DEF BeginApply
  <2>2. config.a + 1 \in Epochs
    <3>1. Sent("reload") < MaxReloads /\ config.a = Sent("reload")
      BY <1>4 DEF BeginApply, Counts
    <3>2. Sent("reload") \in Nat /\ MaxReloads \in Nat
      BY SentIsNat, SchedulerAssumption
    <3> QED BY <3>1, <3>2 DEF Epochs
  <2>3. config' \in Inputs /\ config'.a = config.a + 1 /\ config'.b = config.b
    BY <1>4, <2>2 DEF BeginApply, Shape, Inputs
  <2> QED BY <1>4, <2>1, <2>3 DEF BeginApply
<1>5. CASE Pull(h)
  <2>1. CASE Start(h, "done", "pull", 0, None)
    <3>1. /\ handler' \in [Handlers -> HandlerStates] /\ OnlyHandler(h)
          /\ handler[h].pc = "idle" /\ handler'[h].tries = handler[h].tries
          /\ handler'[h].epoch = handler[h].epoch
          /\ handler'[h].kind = "pull" /\ handler'[h].pc = "done" /\ handler'[h].opening = 0
      BY <2>1, StartEffect, Ranges
    <3> QED BY <1>5, <3>1 DEF Pull
  <2>2. CASE Start(h, "compute", "pull", doc.rev, doc.text)
    <3>1. doc # None
      BY <1>5 DEF Pull
    <3>2. /\ handler' \in [Handlers -> HandlerStates] /\ OnlyHandler(h)
          /\ handler[h].pc = "idle" /\ handler'[h].tries = handler[h].tries
          /\ handler'[h].epoch = handler[h].epoch
          /\ handler'[h].kind = "pull" /\ handler'[h].pc = "compute"
          /\ handler'[h].opening = doc.opening /\ handler'[h].rev = doc.rev
          /\ handler'[h].text = doc.text
      BY <1>a, <2>2, <3>1, StartEffect, Ranges
    <3> QED BY <1>5, <3>1, <3>2 DEF Pull
  <2> QED BY <1>5, <2>1, <2>2 DEF Pull
<1> QED BY <1>1, <1>2, <1>3, <1>4, <1>5 DEF ClientSends

\* A worker that takes a step was not idle; what it holds afterwards is what it
\* held, nothing, or the document as it is.
LEMMA WorkerSummary ==
  ASSUME Shape, NEW w \in Workers, WorkerStep(w)
  PROVE  /\ worker' \in [Workers -> WorkerStates] /\ OnlyWorker(w)
         /\ worker[w].pc # "idle"
         /\ \/ worker'[w].opening = 0
            \/ /\ worker'[w].opening = worker[w].opening
               /\ worker'[w].rev = worker[w].rev /\ worker'[w].text = worker[w].text
            \/ /\ doc # None /\ worker'[w].opening = doc.opening
               /\ worker'[w].rev = doc.rev /\ worker'[w].text = doc.text
         /\ \/ worker'[w].pc # "idle" /\ slot = None /\ slot' = None
            \/ /\ worker'[w].pc # "idle" /\ slot # None /\ slot' \in Slots /\ slot' # None
               /\ slot'.running = slot.running /\ slot'.inputs = slot.inputs
               /\ slot'.inputs_epoch = slot.inputs_epoch
            \/ /\ worker'[w].pc = "idle" /\ slot' = RetireSlot(slot)
               /\ Drained \/ worker[w].pc = "unarmed"
         /\ worker'[w].pc = "unarmed" => slot # None /\ slot.inputs = None
         /\ UNCHANGED <<doc, config, applying, epoch, handler>>
<1> DEFINE Holds == \/ worker'[w].opening = 0
                    \/ /\ worker'[w].opening = worker[w].opening
                       /\ worker'[w].rev = worker[w].rev /\ worker'[w].text = worker[w].text
                    \/ /\ doc # None /\ worker'[w].opening = doc.opening
                       /\ worker'[w].rev = doc.rev /\ worker'[w].text = doc.text
           Typed == worker' \in [Workers -> WorkerStates] /\ OnlyWorker(w)
           Stays == \/ worker'[w].pc # "idle" /\ slot = None /\ slot' = None
                    \/ /\ worker'[w].pc # "idle" /\ slot # None /\ slot' \in Slots /\ slot' # None
                       /\ slot'.running = slot.running /\ slot'.inputs = slot.inputs
                       /\ slot'.inputs_epoch = slot.inputs_epoch
                    \/ /\ worker'[w].pc = "idle" /\ slot' = RetireSlot(slot)
                       /\ Drained \/ worker[w].pc = "unarmed"
           Armed == worker'[w].pc = "unarmed" => slot # None /\ slot.inputs = None
           Good == Holds /\ Typed /\ Stays /\ Armed
<1>a. slot # None => slot \in Slots
  BY DEF Shape
<1>1. ASSUME NEW l \in WorkerSteps \ {"idle", "unarmed"}, Restart(w, l) \/ Move(w, l), UNCHANGED slot
      PROVE  Good
  BY <1>1, <1>a, RestartEffect, MoveEffect
<1>2. ASSUME Retire(w), Drained \/ worker[w].pc = "unarmed" PROVE Good
  BY <1>2, RestartEffect, Ranges DEF Retire
<1>3. CASE SampleGeneration(w)
  <2>1. ASSUME ~Drained, UNCHANGED slot,
               worker' = [worker EXCEPT ![w].pc = "sleep", ![w].generation = slot.generation]
        PROVE  Good
    <3>1. slot # None
      BY <2>1 DEF Drained
    <3>2. /\ worker' \in [Workers -> WorkerStates] /\ OnlyWorker(w)
          /\ worker'[w].pc = "sleep" /\ worker'[w].opening = worker[w].opening
          /\ worker'[w].rev = worker[w].rev /\ worker'[w].text = worker[w].text
      BY <2>1, <3>1, SleepEffect
    <3> QED BY <1>a, <2>1, <3>1, <3>2
  <2> QED BY <1>2, <1>3, <2>1 DEF SampleGeneration
<1>4. CASE Debounced(w)
  BY <1>1, <1>2, <1>4, Ranges DEF Debounced
<1>5. CASE Take(w)
  <2>1. ASSUME ~Drained, slot' = [slot EXCEPT !.dirty = FALSE],
               worker' = [worker EXCEPT ![w].inputs = slot.inputs,
                            ![w].pc = IF slot.inputs = None THEN "unarmed" ELSE "capture"]
        PROVE  Good
    <3>1. slot # None
      BY <2>1 DEF Drained
    <3>2. /\ worker' \in [Workers -> WorkerStates] /\ OnlyWorker(w)
          /\ worker'[w].pc = (IF slot.inputs = None THEN "unarmed" ELSE "capture")
          /\ worker'[w].opening = worker[w].opening
          /\ worker'[w].rev = worker[w].rev /\ worker'[w].text = worker[w].text
      BY <2>1, <3>1, TakeEffect
    <3>3. /\ slot' \in Slots /\ slot' # None /\ slot'.running = slot.running
          /\ slot'.inputs = slot.inputs /\ slot'.inputs_epoch = slot.inputs_epoch
      BY <1>a, <2>1, <3>1, SlotTaken
    <3> QED BY <3>1, <3>2, <3>3
  <2> QED BY <1>1, <1>2, <1>5, <2>1, Ranges DEF Take
<1>6. CASE RetireUnarmed(w)
  BY <1>2, <1>6 DEF RetireUnarmed
<1>7. CASE Capture(w)
  BY <1>7, <1>a, CaptureEffect DEF Capture
<1>8. CASE Declined(w)
  BY <1>1, <1>2, <1>8, Ranges DEF Declined
<1>9. CASE DeliverFast(w)
  <2> DEFINE r == [worker[w] EXCEPT !.fast = TRUE]
  <2>1. worker' = [worker EXCEPT ![w] = r] /\ worker[w] \in WorkerStates /\ worker[w].pc = "analyse"
    BY <1>9 DEF DeliverFast, Shape
  <2>2. /\ r \in WorkerStates /\ r.pc = "analyse" /\ r.opening = worker[w].opening
        /\ r.rev = worker[w].rev /\ r.text = worker[w].text
    BY <2>1 DEF WorkerStates
  <2> HIDE DEF r
  <2>3. /\ worker' \in [Workers -> WorkerStates] /\ worker'[w].pc = "analyse" /\ Holds /\ OnlyWorker(w)
    BY <2>1, <2>2 DEF OnlyWorker, Shape
  <2> QED BY <1>9, <1>a, <2>3 DEF DeliverFast
<1>10. CASE Analyse(w)
  BY <1>1, <1>10, Ranges DEF Analyse
<1>11. CASE Deliver(w)
  BY <1>1, <1>11, Ranges DEF Deliver
<1>12. CASE Cancelled(w)
  <2>1. /\ worker' \in [Workers -> WorkerStates] /\ OnlyWorker(w)
        /\ worker'[w].pc = "stable" /\ worker'[w].opening = 0
    BY <1>12, RestartEffect, Ranges DEF Cancelled
  <2> QED BY <1>12, <1>a, <2>1, SlotMarked DEF Cancelled
<1>13. CASE Settled(w)
  BY <1>1, <1>13, Ranges DEF Settled
<1>14. CASE Refresh(w)
  <2>1. /\ worker' \in [Workers -> WorkerStates] /\ OnlyWorker(w)
        /\ worker'[w].pc = "stable" /\ worker'[w].opening = 0
    BY <1>14, RestartEffect, Ranges DEF Refresh
  <2> QED BY <1>14, <1>a, <2>1, SlotMarked DEF Refresh
<1> QED
  BY <1>3, <1>4, <1>5, <1>6, <1>7, <1>8, <1>9, <1>10, <1>11, <1>12, <1>13, <1>14 DEF WorkerStep

\* The steps of a handler that touch nothing but the handler.
Quiet(h) == RescheduleOpen(h) \/ LoadEpoch(h) \/ ReadFirst(h) \/ ReadRest(h) \/ Verify(h) \/ PullCompute(h)

\* Steps that only move a handler on.
LEMMA QuietSteps ==
  ASSUME NEW h \in Handlers, Quiet(h)
  PROVE  UNCHANGED <<doc, slot, config, applying, epoch, worker, cache, shown, remarks>>
BY DEF Quiet, RescheduleOpen, LoadEpoch, ReadFirst, ReadRest, Verify, PullCompute

\* The steps that touch the slot.
LEMMA SlotSteps ==
  ASSUME Shape, Claim, NEW h \in Handlers, CloseTail(h) \/ Peek(h) \/ Commit(h)
  PROVE  /\ slot' \in Slots \cup {None}
         /\ worker' \in [Workers -> WorkerStates]
         /\ \A w \in Workers : worker'[w] = worker[w] \/ worker'[w].opening = 0
         /\ \A w \in Workers : worker'[w] = worker[w] \/ worker'[w].pc = "stable"
         /\ Claim'
         /\ UNCHANGED <<doc, config, applying, epoch, cache, shown, remarks>>
<1>1. CASE CloseTail(h)
  <2>1. slot' = EvictSlot(slot) \/ slot' = slot
    BY <1>1 DEF CloseTail
  <2>2. /\ slot' \in Slots \cup {None}
        /\ slot' # None /\ slot'.running <=> slot # None /\ slot.running
    BY <2>1, SlotEvicted DEF Shape
  <2> QED BY <1>1, <2>2 DEF CloseTail, Shape, Claim
<1>2. CASE Peek(h)
  <2>1. slot' \in Slots /\ slot' # None /\ (slot'.running <=> slot # None /\ slot.running)
    BY <1>2, SlotLookedUp, SchedulerAssumption DEF Peek, Shape
  <2> QED BY <1>2, <2>1 DEF Peek, Shape, Claim
<1>3. CASE Commit(h)
  <2> DEFINE s == SlotOrDefault
  <2>1. s \in Slots /\ IF slot = None THEN s.running = FALSE ELSE s = slot
    BY SlotLookedUp
  <2>2. handler[h].snap \in Inputs \cup {None} /\ handler[h].epoch \in Epochs
    BY DEF Shape, HandlerStates
  <2>3. /\ StartWorkerUnless(s.running)
        /\ slot' = [Committed(s, handler[h].snap, handler[h].epoch) EXCEPT !.running = TRUE]
    BY <1>3 DEF Commit
  <2> HIDE DEF s
  <2>4. slot' \in Slots /\ slot' # None /\ slot'.running = TRUE
    BY <2>1, <2>2, <2>3, SlotCommitted
  <2> QED BY <1>3, <2>1, <2>3, <2>4, StartWorkerEffect DEF Commit, Claim
<1> QED BY <1>1, <1>2, <1>3

\* What a peer's worker does to the slot.
LEMMA PeerEffect ==
  ASSUME Shape, Claim, PeerReschedules
  PROVE  /\ slot # None /\ slot.inputs # None
         /\ slot' \in Slots /\ slot' # None /\ slot'.running = TRUE
         /\ slot'.inputs = slot.inputs /\ slot'.inputs_epoch = slot.inputs_epoch
         /\ worker' \in [Workers -> WorkerStates]
         /\ \A w \in Workers : worker'[w] = worker[w] \/ worker'[w].opening = 0
         /\ \A w \in Workers : worker'[w] = worker[w] \/ worker'[w].pc = "stable"
         /\ Claim'
         /\ cache' = cache \/ cache' = None
         /\ remarks' = remarks + 1
         /\ UNCHANGED <<doc, config, applying, epoch, handler, shown>>
<1>1. slot \in Slots /\ slot # None /\ slot.inputs # None
  BY DEF PeerReschedules, Shape
<1> DEFINE m == MarkDirty(slot)
<1>2. m \in Slots /\ m.inputs = slot.inputs /\ m.inputs_epoch = slot.inputs_epoch
  BY <1>1, SlotMarked
<1>3. slot' = [m EXCEPT !.running = TRUE] /\ StartWorkerUnless(slot.running)
  BY DEF PeerReschedules
<1> HIDE DEF m
<1>4. /\ slot' \in Slots /\ slot' # None /\ slot'.running = TRUE
      /\ slot'.inputs = slot.inputs /\ slot'.inputs_epoch = slot.inputs_epoch
  BY <1>2, <1>3, SlotRuns
<1>5. /\ worker' \in [Workers -> WorkerStates]
      /\ \A w \in Workers : worker'[w] = worker[w] \/ worker'[w].opening = 0
      /\ \A w \in Workers : worker'[w] = worker[w] \/ worker'[w].pc = "stable"
      /\ \A v, w \in Workers : worker'[v].pc # "idle" /\ worker'[w].pc # "idle" => v = w
      /\ \E w \in Workers : worker'[w].pc # "idle"
  BY <1>1, <1>3, StartWorkerEffect
<1>6. Claim'
  BY <1>4, <1>5 DEF Claim
<1> QED BY <1>1, <1>4, <1>5, <1>6 DEF PeerReschedules

-----------------------------------------------------------------------------
(* The invariant is kept.                                                  *)

\* Nothing has happened at the start.
LEMMA InitScheduler == Init => SchedulerInv
<1> SUFFICES ASSUME Init PROVE SchedulerInv
  OBVIOUS
<1>1. Shape
  <2>1. IdleHandler \in HandlerStates
    <3>1. "idle" \in HandlerSteps
      BY DEF HandlerSteps
    <3> QED BY <3>1, Ranges DEF HandlerStates, IdleHandler
  <2>2. IdleWorker \in WorkerStates
    BY Ranges DEF WorkerStates, IdleWorker
  <2>3. config \in Inputs /\ epoch \in Epochs
    BY Ranges DEF Init, Inputs
  <2>4. handler \in [Handlers -> HandlerStates] /\ worker \in [Workers -> WorkerStates]
    BY <2>1, <2>2 DEF Init
  <2> QED BY <2>3, <2>4 DEF Init, Shape
<1>2. \A h \in Handlers : /\ handler[h].pc = "idle" /\ handler[h].kind = "none"
                          /\ handler[h].opening = 0 /\ handler[h].epoch = 0 /\ handler[h].tries = 0
                          /\ handler[h].snap = None
  BY DEF Init, IdleHandler
<1>3. \A w \in Workers : worker[w].pc = "idle" /\ worker[w].opening = 0
  BY DEF Init, IdleWorker
<1>4. Counts
  <2>1. {h \in Handlers : handler[h].kind = "reload"} = {}
    BY <1>2
  <2>2. Sent("reload") = 0
    BY <2>1, FS_EmptySet DEF Sent
  <2> QED BY <1>2, <2>2, SchedulerAssumption DEF Init, Counts
<1>5. Applies
  BY <1>2 DEF Init, Applies, Writing
<1>6. Claim
  BY <1>3 DEF Init, Claim
<1>7. Stamps
  BY <1>2 DEF Init, Stamps
<1>8. Captures
  <2>1. Sent("open") \in Nat
    BY SentIsNat
  <2> QED BY <1>2, <1>3, <2>1 DEF Init, Captures, Honest
<1> QED BY <1>1, <1>4, <1>5, <1>6, <1>7, <1>8 DEF SchedulerInv

\* A set of diagnostics has its type.
LEMMA ResultTyped ==
  ASSUME Shape, NEW w \in Workers, NEW t \in {"fast", "deep"}
  PROVE  /\ ResultOf(w, t) \in Sets /\ ResultOf(w, t).opening = worker[w].opening
         /\ ResultOf(w, t).rev = worker[w].rev /\ ResultOf(w, t).text = worker[w].text
<1>1. worker[w] \in WorkerStates /\ 0 .. MaxEdits \subseteq Revisions
  BY SchedulerAssumption DEF Shape, Revisions
<1> QED BY <1>1 DEF ResultOf, WorkerStates, Sets

\* Every step keeps the shape of the state.
LEMMA ShapeKept == SchedulerInv /\ [Next]_vars => Shape'
<1> SUFFICES ASSUME Shape, Counts, Applies, Claim, [Next]_vars PROVE Shape'
  BY DEF SchedulerInv
<1>1. ASSUME NEW h \in Handlers, ClientSends(h) PROVE Shape'
  BY <1>1, ClientSummary DEF Shape
<1>2. ASSUME NEW h \in Handlers, HandlerStep(h) PROVE Shape'
  <2>1. handler' \in [Handlers -> HandlerStates] /\ handler[h] \in HandlerStates
    BY <1>2, HandlerSummary DEF Shape
  <2>2. CASE Quiet(h)
    BY <2>1, <2>2, QuietSteps DEF Shape
  <2>3. CASE CloseTail(h) \/ Peek(h) \/ Commit(h)
    BY <2>1, <2>3, SlotSteps DEF Shape
  <2>4. CASE Publish(h)
    <3>1. doc' \in Docs \cup {None}
      BY <2>4 DEF Publish, Shape, Docs
    <3> QED BY <2>1, <2>4, <3>1 DEF Publish, Shape
  <2>5. CASE ClosedRun(h)
    <3>1. [opening |-> 0, rev |-> ClosedRevision, text |-> None, inputs |-> None, tier |-> "deep"] \in Sets
      BY SchedulerAssumption DEF Sets, Revisions, ClosedRevision
    <3> QED BY <2>1, <2>5, <3>1 DEF ClosedRun, Shape
  <2>6. CASE ApplyRest(h)
    <3>1. config.b + 1 = config.a
      BY <2>6 DEF ApplyRest, Applies, Shape, Inputs, Epochs
    <3>2. config' \in Inputs
      BY <2>6, <3>1 DEF ApplyRest, Shape, Inputs
    <3> QED BY <2>1, <2>6, <3>2 DEF ApplyRest, Shape
  <2>7. CASE Invalidate(h)
    <3>1. epoch + 1 = config.a
      BY <2>7 DEF Invalidate, Applies
    <3>2. config.a \in Epochs
      BY DEF Shape, Inputs
    <3> QED BY <2>1, <2>7, <3>1, <3>2 DEF Invalidate, Shape
  <2>8. CASE PullInsert(h)
    <3>1. 0 .. MaxEdits \subseteq Revisions
      BY SchedulerAssumption DEF Revisions
    <3>2. cache' \in Sets
      BY <2>1, <2>8, <3>1 DEF PullInsert, HandlerStates, Sets
    <3> QED BY <2>1, <2>8, <3>2 DEF PullInsert, Shape
  <2> QED BY <1>2, <2>2, <2>3, <2>4, <2>5, <2>6, <2>7, <2>8 DEF HandlerStep, Quiet
<1>3. ASSUME NEW w \in Workers, WorkerStep(w) PROVE Shape'
  <2>1. /\ worker' \in [Workers -> WorkerStates]
        /\ UNCHANGED <<doc, config, applying, epoch, handler>>
    BY <1>3, WorkerSummary
  <2>2. slot' \in Slots \cup {None}
    BY <1>3, WorkerSummary, SlotRetired DEF Shape
  <2>3. shown' \in Sets \cup {None} /\ cache' \in Sets \cup {None} /\ remarks' \in Nat
    <3>1. /\ shown' \in {shown, ResultOf(w, "fast"), ResultOf(w, "deep")}
          /\ cache' \in {cache, ResultOf(w, "deep")}
          /\ remarks' \in {remarks, remarks + 1}
      BY <1>3 DEF WorkerStep, SampleGeneration, Debounced, Take, RetireUnarmed, Capture, Declined,
                  DeliverFast, Analyse, Deliver, Cancelled, Settled, Refresh
    <3> QED BY <3>1, ResultTyped DEF Shape
  <2> QED BY <2>1, <2>2, <2>3 DEF Shape
<1>4. CASE PeerReschedules
  <2>1. remarks' \in Nat
    BY <1>4 DEF PeerReschedules, Shape
  <2> QED BY <1>4, <2>1, PeerEffect DEF Shape
<1>5. CASE UNCHANGED vars
  BY <1>5 DEF vars, Shape
<1> QED BY <1>1, <1>2, <1>3, <1>4, <1>5 DEF Next

\* Messages are counted where they arrive, and edits and reloads with them.
LEMMA CountsKept == SchedulerInv /\ [Next]_vars => Counts'
<1> SUFFICES ASSUME Shape, Counts, Applies, Claim, [Next]_vars PROVE Counts'
  BY DEF SchedulerInv
<1>a. \A k : Sent(k) \in Nat
  BY SentIsNat
<1>b. doc # None => doc.rev \in Nat
  BY SchedulerAssumption DEF Shape, Docs
<1>1. ASSUME NEW h \in Handlers, ClientSends(h) PROVE Counts'
  <2>1. \A k \in Handlers \ {h} : handler'[k] = handler[k]
    BY <1>1, ClientSummary DEF OnlyHandler
  <2>2. handler[h].kind = "none" /\ handler[h].tries < Attempts /\ handler[h].pc = "idle"
        /\ handler'[h].tries = handler[h].tries
    BY <1>1, ClientSummary DEF Counts
  <2>3. /\ handler'[h].pc \notin {"idle", "read_b"}
        /\ handler'[h].pc \notin {"compute", "insert"} => handler'[h].opening = 0
        /\ handler'[h].kind \in Kinds \ {"none"}
    BY <1>1, ClientSummary DEF Kinds
  <2>4. /\ \A j \in Kinds \ {"none"} :
             Sent(j)' = IF j = handler'[h].kind THEN Sent(j) + 1 ELSE Sent(j)
    BY <2>1, <2>2, <2>3, SentGrows DEF OnlyHandler
  <2>5. \A k \in Handlers : /\ handler'[k].pc = "idle" => handler'[k].kind = "none"
                            /\ handler'[k].pc # "commit" => handler'[k].tries < Attempts
                            /\ handler'[k].pc = "read_b" => handler'[k].snap # None
                            /\ handler'[k].pc \notin {"compute", "insert"} => handler'[k].opening = 0
    BY <2>1, <2>2, <2>3 DEF Counts
  <2>6. /\ Sent("open")' = IF handler'[h].kind = "open" THEN Sent("open") + 1 ELSE Sent("open")
        /\ Sent("edit")' = IF handler'[h].kind = "edit" THEN Sent("edit") + 1 ELSE Sent("edit")
        /\ Sent("reload")' = IF handler'[h].kind = "reload" THEN Sent("reload") + 1 ELSE Sent("reload")
    BY <2>4 DEF Kinds
  <2>7. config'.a = Sent("reload")'
    <3>1. CASE BeginApply(h)
      <4>1. handler'[h].kind = "reload" /\ config'.a = config.a + 1
        BY <1>1, <3>1, ClientSummary DEF BeginApply, Shape, Inputs, Start, Kinds, HandlerStates
      <4> QED BY <2>6, <4>1 DEF Counts
    <3>2. CASE ~BeginApply(h)
      <4>1. handler'[h].kind # "reload" /\ config' = config
        BY <1>1, <3>2, ClientSummary
      <4> QED BY <2>6, <4>1 DEF Counts
    <3> QED BY <3>1, <3>2
  <2>8. doc' # None => doc'.opening = Sent("open")' /\ doc'.rev <= Sent("edit")'
    <3>1. Sent("open") \in Nat /\ Sent("edit") \in Nat
      BY <1>a
    <3>2. \/ handler'[h].kind = "open" /\ doc'.opening = Sent("open") + 1 /\ doc'.rev = 0
          \/ /\ handler'[h].kind = "edit" /\ doc # None
             /\ doc'.opening = doc.opening /\ doc'.rev = doc.rev + 1
          \/ doc' = None
          \/ handler'[h].kind \notin {"open", "edit"} /\ doc' = doc
      BY <1>1, ClientSummary
    <3>3. doc # None => doc.opening = Sent("open") /\ doc.rev <= Sent("edit")
      BY DEF Counts
    <3> HIDE DEF Sent
    <3> QED BY <1>b, <2>6, <3>1, <3>2, <3>3
  <2> QED BY <2>5, <2>7, <2>8 DEF Counts
<1>2. ASSUME NEW h \in Handlers, HandlerStep(h) PROVE Counts'
  <2>1. \A k : Sent(k)' = Sent(k)
    BY <1>2, HandlerSummary, SentStays DEF OnlyHandler
  <2>2. \A k \in Handlers : /\ handler'[k].pc = "idle" => handler'[k].kind = "none"
                            /\ handler'[k].pc # "commit" => handler'[k].tries < Attempts
                            /\ handler'[k].pc = "read_b" => handler'[k].snap # None
                            /\ handler'[k].pc \notin {"compute", "insert"} => handler'[k].opening = 0
    BY <1>2, HandlerSummary DEF OnlyHandler, Counts
  <2>3. config'.a = config.a
    BY <1>2 DEF HandlerStep, Publish, CloseTail, ClosedRun, ApplyRest, Invalidate, RescheduleOpen,
                LoadEpoch, Peek, ReadFirst, ReadRest, Verify, Commit, PullCompute, PullInsert, Shape,
                Inputs
  <2>4. doc' # None => doc # None /\ doc'.opening = doc.opening /\ doc'.rev = doc.rev
    <3>1. doc' = doc \/ (doc' = [doc EXCEPT !.ready = TRUE] /\ doc # None)
      BY <1>2 DEF HandlerStep, Publish, CloseTail, ClosedRun, ApplyRest, Invalidate, RescheduleOpen,
                  LoadEpoch, Peek, ReadFirst, ReadRest, Verify, Commit, PullCompute, PullInsert
    <3> QED BY <3>1 DEF Shape, Docs
  <2> QED BY <2>1, <2>2, <2>3, <2>4 DEF Counts
<1>3. ASSUME UNCHANGED <<doc, config, handler>> PROVE Counts'
  BY <1>3 DEF Counts, Sent
<1>4. ASSUME NEW w \in Workers, WorkerStep(w) PROVE Counts'
  BY <1>3, <1>4, WorkerSummary
<1>5. CASE PeerReschedules
  BY <1>3, <1>5 DEF PeerReschedules
<1>6. CASE UNCHANGED vars
  BY <1>3, <1>6 DEF vars
<1> QED BY <1>1, <1>2, <1>4, <1>5, <1>6 DEF Next

\* The epoch follows the writes it counts.
LEMMA EpochBehind ==
  ASSUME Shape, Applies
  PROVE  /\ epoch \in Nat /\ config.a \in Nat /\ config.b \in Nat
         /\ epoch <= config.a /\ epoch <= config.b
<1>1. epoch \in Nat /\ config.a \in Nat /\ config.b \in Nat
  BY SchedulerAssumption DEF Shape, Epochs, Inputs
<1>2. CASE applying
  <2>1. PICK h \in Handlers : Writing(h)
    BY <1>2 DEF Applies
  <2> QED BY <1>1, <2>1 DEF Applies, Writing
<1>3. CASE ~applying
  BY <1>1, <1>3 DEF Applies
<1> QED BY <1>1, <1>2, <1>3 DEF Shape

\* The gate is held by one handler, from the first write to the bump.
LEMMA AppliesKept == SchedulerInv /\ [Next]_vars => Applies'
<1> SUFFICES ASSUME Shape, Counts, Applies, Claim, [Next]_vars PROVE Applies'
  BY DEF SchedulerInv
<1>a. epoch \in Nat /\ config.a \in Nat /\ config.b \in Nat
  BY EpochBehind
<1>1. ASSUME NEW h \in Handlers, handler[h].pc \notin {"write_b", "bump"},
             handler'[h].pc \notin {"write_b", "bump"}, OnlyHandler(h),
             UNCHANGED <<config, applying, epoch>>
      PROVE  Applies'
  BY <1>1 DEF Applies, Writing, OnlyHandler
<1>2. ASSUME NEW h \in Handlers, ClientSends(h) PROVE Applies'
  <2>1. CASE BeginApply(h)
    <3>1. /\ ~applying /\ applying' = TRUE /\ epoch' = epoch
          /\ config'.a = config.a + 1 /\ config'.b = config.b
          /\ handler'[h].pc = "write_b" /\ OnlyHandler(h)
      <4>1. ~applying /\ applying' = TRUE /\ Start(h, "write_b", "reload", 0, None)
        BY <2>1 DEF BeginApply
      <4>2. handler'[h].pc = "write_b" /\ OnlyHandler(h)
        BY <4>1, StartEffect, Ranges
      <4>3. config'.a = config.a + 1 /\ config'.b = config.b
        BY <2>1 DEF BeginApply, Shape, Inputs
      <4> QED BY <2>1, <4>1, <4>2, <4>3 DEF BeginApply
    <3>2. config.a = epoch /\ config.b = epoch /\ \A k \in Handlers : ~Writing(k)
      BY <3>1 DEF Applies
    <3> QED BY <1>a, <3>1, <3>2 DEF Applies, Writing, OnlyHandler
  <2>2. CASE ~BeginApply(h)
    BY <1>1, <1>2, <2>2, ClientSummary
  <2> QED BY <2>1, <2>2
<1>3. ASSUME NEW h \in Handlers, HandlerStep(h) PROVE Applies'
  <2>1. CASE ApplyRest(h)
    <3>1. handler[h].pc = "write_b" /\ handler'[h].pc = "bump" /\ OnlyHandler(h)
      BY <2>1, GotoEffect, Ranges DEF ApplyRest
    <3>2. config'.a = config.a /\ config'.b = config.b + 1 /\ UNCHANGED <<applying, epoch>>
      BY <2>1 DEF ApplyRest, Shape, Inputs
    <3> QED BY <1>a, <3>1, <3>2 DEF Applies, Writing, OnlyHandler
  <2>2. CASE Invalidate(h)
    <3>1. handler[h].pc = "bump" /\ handler'[h].pc = "reload" /\ OnlyHandler(h)
      BY <2>2, GotoEffect, Ranges DEF Invalidate
    <3>2. epoch' = epoch + 1 /\ applying' = FALSE /\ UNCHANGED config
      BY <2>2 DEF Invalidate
    <3> QED BY <1>a, <3>1, <3>2 DEF Applies, Writing, OnlyHandler
  <2>3. CASE ~ApplyRest(h) /\ ~Invalidate(h)
    <3>1. handler[h].pc \notin {"write_b", "bump"} /\ UNCHANGED <<config, applying, epoch>>
      BY <1>3, <2>3 DEF HandlerStep, Publish, CloseTail, ClosedRun, RescheduleOpen, LoadEpoch, Peek,
                        ReadFirst, ReadRest, Verify, Commit, PullCompute, PullInsert
    <3> QED BY <1>1, <1>3, <3>1, HandlerSummary
  <2> QED BY <2>1, <2>2, <2>3
<1>4. ASSUME UNCHANGED <<config, applying, epoch, handler>> PROVE Applies'
  BY <1>4 DEF Applies, Writing
<1>5. ASSUME NEW w \in Workers, WorkerStep(w) PROVE Applies'
  BY <1>4, <1>5, WorkerSummary
<1>6. CASE PeerReschedules
  BY <1>4, <1>6 DEF PeerReschedules
<1>7. CASE UNCHANGED vars
  BY <1>4, <1>7 DEF vars
<1> QED BY <1>2, <1>3, <1>5, <1>6, <1>7 DEF Next

\* The flag is set where a worker is started and cleared where it ends.
LEMMA ClaimKept == SchedulerInv /\ [Next]_vars => Claim'
<1> SUFFICES ASSUME Shape, Counts, Claim, [Next]_vars PROVE Claim'
  BY DEF SchedulerInv
<1>1. ASSUME UNCHANGED <<slot, worker>> PROVE Claim'
  BY <1>1 DEF Claim
<1>2. ASSUME NEW h \in Handlers, ClientSends(h) PROVE Claim'
  BY <1>1, <1>2, ClientSummary
<1>3. ASSUME NEW h \in Handlers, HandlerStep(h) PROVE Claim'
  <2>1. CASE Quiet(h)
    BY <1>1, <2>1, QuietSteps
  <2>2. CASE CloseTail(h) \/ Peek(h) \/ Commit(h)
    BY <2>2, SlotSteps
  <2>3. CASE Publish(h) \/ ClosedRun(h) \/ ApplyRest(h) \/ Invalidate(h) \/ PullInsert(h)
    BY <1>1, <2>3 DEF Publish, ClosedRun, ApplyRest, Invalidate, PullInsert
  <2> QED BY <1>3, <2>1, <2>2, <2>3 DEF HandlerStep, Quiet
<1>4. ASSUME NEW w \in Workers, WorkerStep(w) PROVE Claim'
  <2>1. worker[w].pc # "idle" /\ OnlyWorker(w)
    BY <1>4, WorkerSummary
  <2>2. slot # None /\ slot.running /\ \A v \in Workers \ {w} : worker'[v].pc = "idle"
    BY <2>1 DEF Claim, OnlyWorker
  <2>3. CASE worker'[w].pc # "idle"
    <3>1. slot' # None /\ slot'.running
      BY <1>4, <2>2, <2>3, WorkerSummary
    <3> QED BY <2>2, <2>3, <3>1 DEF Claim
  <2>4. CASE worker'[w].pc = "idle"
    <3>1. slot' # None => slot'.running = FALSE
      BY <1>4, <2>4, WorkerSummary, SlotRetired DEF Shape
    <3> QED BY <2>2, <2>4, <3>1 DEF Claim
  <2> QED BY <2>3, <2>4
<1>5. CASE PeerReschedules
  BY <1>5, PeerEffect
<1>6. CASE UNCHANGED vars
  BY <1>1, <1>6 DEF vars
<1> QED BY <1>2, <1>3, <1>4, <1>5, <1>6 DEF Next

\* What carries the current epoch has been read since it began: a write adds to
\* what may have been read, and the bump ends the epoch.
LEMMA StampsKept == SchedulerInv /\ [Next]_vars => Stamps'
<1> SUFFICES ASSUME Shape, Counts, Applies, Claim, Stamps, [Next]_vars PROVE Stamps'
  BY DEF SchedulerInv
<1> DEFINE Read == {"peek", "read_a", "read_b", "verify", "commit"}
           RecentNext(i) == i.a \in epoch' .. config'.a /\ i.b \in epoch' .. config'.b
           SlotPart == slot' # None =>
                         /\ slot'.inputs_epoch <= epoch'
                         /\ slot'.inputs # None /\ slot'.inputs_epoch = epoch' => RecentNext(slot'.inputs)
           Part(h) == /\ handler'[h].epoch <= epoch'
                      /\ handler'[h].pc \in Read /\ handler'[h].snap # None /\ handler'[h].epoch = epoch'
                           => RecentNext(handler'[h].snap)
           Kept(h) == \A k \in Handlers \ {h} : Part(k)
<1>a. /\ epoch \in Nat /\ config.a \in Nat /\ config.b \in Nat
      /\ epoch <= config.a /\ epoch <= config.b
  BY EpochBehind
<1>b. SlotPart /\ (\A h \in Handlers : Part(h)) => Stamps'
  BY DEF Stamps, Recent
<1>c. /\ slot # None => slot.inputs_epoch \in Nat /\ (slot.inputs # None => slot.inputs \in Inputs)
      /\ \A h \in Handlers : handler[h].epoch \in Nat
                             /\ (handler[h].snap # None => handler[h].snap \in Inputs)
  BY SchedulerAssumption DEF Shape, Slots, HandlerStates, Epochs
<1>d. \A i \in Inputs : i.a \in Nat /\ i.b \in Nat
  BY SchedulerAssumption DEF Inputs, Epochs
<1>1. ASSUME UNCHANGED <<epoch, config>> PROVE \A i : Recent(i) => RecentNext(i)
  BY <1>1 DEF Recent
<1>2. ASSUME UNCHANGED <<epoch, config>>, NEW h \in Handlers, OnlyHandler(h) PROVE Kept(h)
  BY <1>1, <1>2 DEF OnlyHandler, Stamps
<1>3. ASSUME UNCHANGED <<slot, epoch, config>> PROVE SlotPart
  BY <1>1, <1>3 DEF Stamps
<1>4. ASSUME NEW h \in Handlers, ClientSends(h) PROVE Stamps'
  <2>1. /\ UNCHANGED <<slot, epoch>> /\ OnlyHandler(h) /\ handler'[h].epoch = handler[h].epoch
        /\ handler'[h].pc \notin Read
    BY <1>4, ClientSummary
  <2>2. config'.a \in {config.a, config.a + 1} /\ config'.b = config.b
    BY <1>4, ClientSummary
  <2>3. \A i \in Inputs : Recent(i) => RecentNext(i)
    BY <1>a, <1>d, <2>1, <2>2 DEF Recent
  <2>4. SlotPart
    BY <1>c, <2>1, <2>3 DEF Stamps
  <2>5. \A k \in Handlers : Part(k)
    BY <1>c, <2>1, <2>3 DEF Stamps, OnlyHandler
  <2> QED BY <1>b, <2>4, <2>5
<1>5. ASSUME NEW h \in Handlers, HandlerStep(h) PROVE Stamps'
  <2>a. OnlyHandler(h) /\ handler'[h].epoch \in {0, handler[h].epoch, epoch}
    BY <1>5, HandlerSummary
  <2>b. handler[h].epoch <= epoch /\ handler[h].epoch \in Nat
    BY <1>c DEF Stamps
  <2>c. handler'[h].epoch <= epoch
    BY <1>a, <2>a, <2>b
  <2>1. ASSUME handler'[h].pc \notin Read, UNCHANGED <<slot, epoch, config>> PROVE Stamps'
    BY <1>2, <1>3, <1>b, <2>1, <2>a, <2>c
  <2>2. CASE Publish(h) \/ ClosedRun(h) \/ RescheduleOpen(h) \/ PullInsert(h) \/ PullCompute(h)
    <3>1. UNCHANGED <<slot, epoch, config>>
      BY <2>2 DEF Publish, ClosedRun, RescheduleOpen, PullInsert, PullCompute
    <3>2. handler'[h].pc \in {"done", "load_epoch", "insert"}
      BY <2>2, FinishEffect, ScheduleEffect, PullComputeEffect
      DEF Publish, ClosedRun, RescheduleOpen, PullInsert
    <3> QED BY <2>1, <3>1, <3>2
  <2>3. CASE ApplyRest(h)
    <3>1. handler'[h].pc = "bump" /\ UNCHANGED <<slot, epoch>>
      BY <2>3, GotoEffect, Ranges DEF ApplyRest
    <3>2. config'.a = config.a /\ config'.b = config.b + 1
      BY <2>3 DEF ApplyRest, Shape, Inputs
    <3>3. \A i \in Inputs : Recent(i) => RecentNext(i)
      BY <1>a, <1>d, <3>1, <3>2 DEF Recent
    <3>4. SlotPart
      BY <1>c, <3>1, <3>3 DEF Stamps
    <3>5. \A k \in Handlers : Part(k)
      BY <1>c, <2>a, <2>c, <3>1, <3>3 DEF Stamps, OnlyHandler
    <3> QED BY <1>b, <3>4, <3>5
  <2>4. CASE Invalidate(h)
    <3>1. handler'[h].pc = "reload" /\ UNCHANGED <<slot, config>> /\ epoch' = epoch + 1
      BY <2>4, GotoEffect, Ranges DEF Invalidate
    <3>2. SlotPart
      BY <1>a, <1>c, <3>1 DEF Stamps
    <3>3. \A k \in Handlers : handler'[k].epoch <= epoch /\ handler'[k].epoch \in Nat
      BY <1>a, <1>c, <2>a, <2>c DEF Stamps, OnlyHandler
    <3>4. \A k \in Handlers : Part(k)
      BY <1>a, <3>1, <3>3
    <3> QED BY <1>b, <3>2, <3>4
  <2>5. CASE LoadEpoch(h)
    <3>1. UNCHANGED <<slot, epoch, config>> /\ handler'[h].snap = None
      BY <2>5, LoadEpochEffect DEF LoadEpoch
    <3> QED BY <1>2, <1>3, <1>b, <2>a, <2>c, <3>1
  <2>6. CASE ReadFirst(h)
    <3>1. UNCHANGED <<slot, epoch, config>> /\ handler'[h].snap = config
      BY <2>6, ReadFirstEffect DEF ReadFirst
    <3>2. RecentNext(config)
      BY <1>a, <3>1
    <3> QED BY <1>2, <1>3, <1>b, <2>a, <2>c, <3>1, <3>2
  <2>7. CASE ReadRest(h)
    <3>1. handler[h].snap # None /\ handler[h].pc = "read_b"
      BY <2>7 DEF ReadRest, Counts
    <3>2. /\ UNCHANGED <<slot, epoch, config>> /\ handler'[h].epoch = handler[h].epoch
          /\ handler'[h].snap.a = handler[h].snap.a /\ handler'[h].snap.b = config.b
      BY <2>7, <3>1, ReadRestEffect DEF ReadRest
    <3>3. handler[h].epoch = epoch => Recent(handler[h].snap)
      BY <3>1 DEF Stamps
    <3>4. Part(h)
      BY <1>a, <2>c, <3>2, <3>3 DEF Recent
    <3> QED BY <1>2, <1>3, <1>b, <2>a, <3>2, <3>4
  <2>8. CASE Verify(h)
    <3>1. handler[h].pc = "verify" /\ handler[h].tries < Attempts
      BY <2>8 DEF Verify, Counts
    <3>2. /\ UNCHANGED <<slot, epoch, config>> /\ handler'[h].epoch = handler[h].epoch
          /\ handler'[h].snap \in {handler[h].snap, None}
      BY <2>8, <3>1, VerifyEffect DEF Verify
    <3>3. Part(h)
      BY <1>1, <2>c, <3>1, <3>2 DEF Stamps
    <3> QED BY <1>2, <1>3, <1>b, <2>a, <3>2, <3>3
  <2>9. CASE CloseTail(h)
    <3>1. UNCHANGED <<epoch, config>> /\ (slot' = slot \/ slot' = EvictSlot(slot))
      BY <2>9 DEF CloseTail
    <3>2. handler'[h].pc \in {"closed_run", "done"}
      BY <2>9, GotoEffect, FinishEffect, Ranges DEF CloseTail
    <3>3. SlotPart
      BY <1>1, <3>1, SlotEvicted DEF Stamps, Shape
    <3> QED BY <1>2, <1>b, <2>a, <2>c, <3>1, <3>2, <3>3
  <2>10. CASE Peek(h)
    <3>1. UNCHANGED <<epoch, config>> /\ slot' = SlotOrDefault /\ handler[h].pc = "peek"
      BY <2>10 DEF Peek
    <3>2. handler'[h].snap = handler[h].snap /\ handler'[h].epoch = handler[h].epoch
      BY <2>10, GotoEffect, Ranges DEF Peek
    <3>3. SlotPart
      <4>1. CASE slot = None
        BY <1>a, <3>1, <4>1, SlotLookedUp
      <4>2. CASE slot # None
        BY <1>3, <3>1, <4>2, SlotLookedUp
      <4> QED BY <4>1, <4>2
    <3>4. Part(h)
      BY <1>1, <2>c, <3>1, <3>2 DEF Stamps
    <3> QED BY <1>2, <1>b, <2>a, <3>1, <3>3, <3>4
  <2>11. CASE Commit(h)
    <3>1. UNCHANGED <<epoch, config>> /\ handler[h].pc = "commit"
      BY <2>11 DEF Commit
    <3>2. handler'[h].pc = "done"
      BY <2>11, FinishEffect DEF Commit
    <3> DEFINE s == SlotOrDefault
    <3>3. /\ s \in Slots /\ s.inputs_epoch <= epoch /\ s.inputs_epoch \in Nat
          /\ s.inputs # None /\ s.inputs_epoch = epoch => Recent(s.inputs)
      <4>1. CASE slot = None
        BY <1>a, <4>1, SlotLookedUp
      <4>2. CASE slot # None
        <5>1. s = slot /\ s \in Slots
          BY <4>2, SlotLookedUp
        <5> QED BY <1>c, <4>2, <5>1 DEF Stamps
      <4> QED BY <4>1, <4>2
    <3>4. handler[h].snap \in Inputs \cup {None} /\ handler[h].epoch \in Epochs
      BY DEF Shape, HandlerStates
    <3>5. slot' = [Committed(s, handler[h].snap, handler[h].epoch) EXCEPT !.running = TRUE]
      BY <2>11 DEF Commit
    <3>6. handler[h].snap # None /\ handler[h].epoch = epoch => Recent(handler[h].snap)
      BY <3>1 DEF Stamps
    <3> HIDE DEF s
    <3>7. \/ slot'.inputs = s.inputs /\ slot'.inputs_epoch = s.inputs_epoch
          \/ handler[h].snap # None /\ slot'.inputs = handler[h].snap /\ slot'.inputs_epoch = handler[h].epoch
      BY <3>3, <3>4, <3>5, SlotCommitted
    <3>8. SlotPart
      BY <1>1, <2>b, <3>1, <3>3, <3>6, <3>7
    <3> QED BY <1>2, <1>b, <2>a, <2>c, <3>1, <3>2, <3>8
  <2> QED BY <1>5, <2>2, <2>3, <2>4, <2>5, <2>6, <2>7, <2>8, <2>9, <2>10, <2>11 DEF HandlerStep
<1>6. ASSUME UNCHANGED <<epoch, config, handler>>,
             slot' # None => /\ slot # None /\ slot'.inputs = slot.inputs
                             /\ slot'.inputs_epoch = slot.inputs_epoch
      PROVE  Stamps'
  <2>1. SlotPart
    BY <1>1, <1>6 DEF Stamps
  <2>2. \A h \in Handlers : Part(h)
    BY <1>1, <1>6 DEF Stamps
  <2> QED BY <1>b, <2>1, <2>2
<1>7. ASSUME NEW w \in Workers, WorkerStep(w) PROVE Stamps'
  BY <1>6, <1>7, WorkerSummary, SlotRetired DEF Shape
<1>8. CASE PeerReschedules
  BY <1>6, <1>8, PeerEffect
<1>9. CASE UNCHANGED vars
  BY <1>6, <1>9 DEF vars
<1> QED BY <1>4, <1>5, <1>7, <1>8, <1>9 DEF Next

\* What Honest says after the step.
HonestNext(c) ==
  /\ c.opening <= Sent("open")'
  /\ doc' # None /\ c.opening = doc'.opening =>
       c.rev <= doc'.rev /\ (c.rev = doc'.rev => c.text = doc'.text)

\* No document is captured twice: an edit moves the revision on, and an opening
\* has a number of its own.
LEMMA HonestStep ==
  ASSUME Shape, Counts, Claim, [Next]_vars
  PROVE  /\ \A c : Honest(c) /\ c.opening \in Nat /\ c.rev \in Int => HonestNext(c)
         /\ \A c : c.opening = 0 => HonestNext(c)
<1>a. Sent("open") \in Nat /\ Sent("open")' \in Nat
  BY SentIsNat
<1>b. /\ doc # None => doc.opening \in Nat \ {0} /\ doc.rev \in Nat
      /\ doc # None => doc.opening = Sent("open")
  BY SchedulerAssumption DEF Shape, Docs, Counts
<1> DEFINE n == Sent("open")
           Moves == \/ n' = n + 1 /\ doc' # None /\ doc'.opening = n + 1
                    \/ n' = n /\ doc' # None /\ doc # None /\ doc'.opening = doc.opening /\ doc'.rev = doc.rev + 1
                    \/ n' = n /\ doc' = None
                    \/ n' = n /\ doc' # None /\ doc # None /\ doc'.opening = doc.opening /\ doc'.rev = doc.rev
                       /\ doc'.text = doc.text
<1>1. Moves
  <2>1. ASSUME NEW h \in Handlers, ClientSends(h) PROVE Moves
    <3>1. handler[h].kind = "none" /\ OnlyHandler(h)
      BY <2>1, ClientSummary DEF Counts
    <3>2. ASSUME NEW k \in Kinds \ {"none"}, handler'[h].kind = k
          PROVE  Sent("open")' = IF k = "open" THEN Sent("open") + 1 ELSE Sent("open")
      BY <3>1, <3>2, SentGrows, Ranges
    <3>3. CASE DidOpen(h) /\ handler'[h].kind = "open"
      <4>1. n' = n + 1
        BY <3>2, <3>3, Ranges
      <4>2. doc' # None /\ doc'.opening = n + 1
        BY <2>1, <3>3, ClientSummary, SchedulerAssumption DEF DidOpen
      <4> QED BY <4>1, <4>2
    <3>4. CASE handler'[h].kind \in {"edit", "close", "reload", "pull"}
      <4>1. n' = n
        BY <3>2, <3>4, Ranges
      <4> QED BY <2>1, <3>4, <4>1, ClientSummary, SchedulerAssumption
    <3> QED BY <2>1, <3>3, <3>4, ClientSummary
  <2>2. ASSUME \A h \in Handlers : handler'[h].kind = handler[h].kind,
               doc' = doc \/ (doc # None /\ doc' = [doc EXCEPT !.ready = TRUE])
        PROVE  Moves
    <3>1. n' = n
      BY <2>2, SentStays
    <3>2. doc' # None => doc # None /\ doc'.opening = doc.opening /\ doc'.rev = doc.rev
                         /\ doc'.text = doc.text
      BY <2>2 DEF Shape, Docs
    <3> QED BY <3>1, <3>2
  <2>3. ASSUME NEW h \in Handlers, HandlerStep(h) PROVE Moves
    <3>1. doc' = doc \/ (doc # None /\ doc' = [doc EXCEPT !.ready = TRUE])
      BY <2>3 DEF HandlerStep, Publish, CloseTail, ClosedRun, ApplyRest, Invalidate, RescheduleOpen,
                  LoadEpoch, Peek, ReadFirst, ReadRest, Verify, Commit, PullCompute, PullInsert
    <3> QED BY <2>2, <2>3, <3>1, HandlerSummary DEF OnlyHandler
  <2>4. ASSUME NEW w \in Workers, WorkerStep(w) PROVE Moves
    BY <2>2, <2>4, WorkerSummary
  <2>5. CASE PeerReschedules
    BY <2>2, <2>5 DEF PeerReschedules
  <2>6. CASE UNCHANGED vars
    BY <2>2, <2>6 DEF vars
  <2> QED BY <2>1, <2>3, <2>4, <2>5, <2>6 DEF Next
<1>2. ASSUME NEW c, Honest(c), c.opening \in Nat, c.rev \in Int PROVE HonestNext(c)
  BY <1>a, <1>b, <1>1, <1>2 DEF Honest, HonestNext
<1>3. ASSUME NEW c, c.opening = 0 PROVE HonestNext(c)
  BY <1>a, <1>b, <1>1, <1>3 DEF HonestNext
<1> QED BY <1>2, <1>3

\* A capture is the document as it is, and is then only copied.
LEMMA CapturesKept == SchedulerInv /\ [Next]_vars => Captures'
<1> SUFFICES ASSUME Shape, Counts, Claim, Captures, [Next]_vars PROVE Captures'
  BY DEF SchedulerInv
<1>a. /\ \A c : Honest(c) /\ c.opening \in Nat /\ c.rev \in Int => HonestNext(c)
      /\ \A c : c.opening = 0 => HonestNext(c)
  BY HonestStep
<1>b. /\ \A h \in Handlers : Honest(handler[h]) /\ handler[h].opening \in Nat /\ handler[h].rev \in Int
      /\ \A w \in Workers : Honest(worker[w]) /\ worker[w].opening \in Nat /\ worker[w].rev \in Int
      /\ cache # None => Honest(cache) /\ cache.opening \in Nat /\ cache.rev \in Int
  BY SchedulerAssumption DEF Captures, Shape, HandlerStates, WorkerStates, Sets, Revisions
<1>c. /\ \A h \in Handlers : HonestNext(handler[h])
      /\ \A w \in Workers : HonestNext(worker[w])
      /\ cache # None => HonestNext(cache)
  BY <1>a, <1>b
<1>d. \A c, d : HonestNext(c) /\ d.opening = c.opening /\ d.rev = c.rev /\ d.text = c.text => HonestNext(d)
  BY DEF HonestNext
<1>e. ASSUME NEW c, doc # None, c.opening = doc.opening, c.rev = doc.rev, c.text = doc.text,
             UNCHANGED <<doc, Sent("open")>>
      PROVE  HonestNext(c)
  <2>1. doc.opening = Sent("open") /\ doc.rev \in Nat /\ Sent("open") \in Nat
    BY <1>e, SchedulerAssumption, SentIsNat DEF Counts, Shape, Docs
  <2> QED BY <1>e, <2>1 DEF HonestNext
<1> SUFFICES /\ \A h \in Handlers : HonestNext(handler'[h])
             /\ \A w \in Workers : HonestNext(worker'[w])
             /\ cache' # None => HonestNext(cache')
  BY DEF Captures, Honest, HonestNext
<1>1. ASSUME NEW h \in Handlers, ClientSends(h)
      PROVE  /\ \A k \in Handlers : HonestNext(handler'[k])
             /\ UNCHANGED <<worker, cache>>
  <2>1. UNCHANGED <<worker, cache>> /\ OnlyHandler(h)
    BY <1>1, ClientSummary
  <2>2. HonestNext(handler'[h])
    <3>1. CASE handler'[h].opening = 0
      BY <1>a, <3>1
    <3>2. CASE /\ Pull(h) /\ handler'[h].kind = "pull" /\ doc # None /\ UNCHANGED doc
               /\ handler'[h].opening = doc.opening /\ handler'[h].rev = doc.rev
               /\ handler'[h].text = doc.text
      <4>1. handler[h].kind = "none"
        BY <1>1, ClientSummary DEF Counts
      <4>2. Sent("open")' = Sent("open")
        BY <2>1, <3>2, <4>1, SentGrows, Ranges
      <4> QED BY <1>e, <3>2, <4>2
    <3> QED BY <1>1, <3>1, <3>2, ClientSummary
  <2> QED BY <1>c, <2>1, <2>2 DEF OnlyHandler
<1>2. ASSUME NEW h \in Handlers, HandlerStep(h)
      PROVE  /\ \A k \in Handlers : HonestNext(handler'[k])
             /\ \A w \in Workers : HonestNext(worker'[w])
             /\ cache' # None => HonestNext(cache')
  <2>1. \A k \in Handlers : HonestNext(handler'[k])
    <3>1. OnlyHandler(h) /\ (handler'[h].opening = 0 \/ SameCapture(h))
      BY <1>2, HandlerSummary
    <3>2. HonestNext(handler'[h])
      BY <1>a, <1>c, <1>d, <3>1 DEF SameCapture
    <3> QED BY <1>c, <3>1, <3>2 DEF OnlyHandler
  <2>2. \A w \in Workers : worker'[w] = worker[w] \/ worker'[w].opening = 0
    <3>1. CASE CloseTail(h) \/ Peek(h) \/ Commit(h)
      BY <3>1, SlotSteps
    <3>2. CASE ~(CloseTail(h) \/ Peek(h) \/ Commit(h))
      BY <1>2, <3>2 DEF HandlerStep, Publish, ClosedRun, ApplyRest, Invalidate, RescheduleOpen,
                        LoadEpoch, ReadFirst, ReadRest, Verify, PullCompute, PullInsert
    <3> QED BY <3>1, <3>2
  <2>3. \/ cache' = cache \/ cache'.opening = 0
        \/ /\ cache'.opening = handler[h].opening /\ cache'.rev = handler[h].rev
           /\ cache'.text = handler[h].text
    BY <1>2 DEF HandlerStep, Publish, CloseTail, ClosedRun, ApplyRest, Invalidate, RescheduleOpen,
                LoadEpoch, Peek, ReadFirst, ReadRest, Verify, Commit, PullCompute, PullInsert
  <2>4. cache' # None => HonestNext(cache')
    BY <1>a, <1>c, <1>d, <2>3
  <2>5. \A w \in Workers : HonestNext(worker'[w])
    BY <1>a, <1>c, <2>2
  <2> QED BY <2>1, <2>4, <2>5
<1>3. ASSUME NEW w \in Workers, WorkerStep(w)
      PROVE  /\ UNCHANGED handler
             /\ \A v \in Workers : HonestNext(worker'[v])
             /\ cache' # None => HonestNext(cache')
  <2>1. UNCHANGED <<doc, handler>> /\ OnlyWorker(w)
    BY <1>3, WorkerSummary
  <2>2. Sent("open")' = Sent("open")
    BY <2>1 DEF Sent
  <2>3. HonestNext(worker'[w])
    <3>1. CASE worker'[w].opening = 0
      BY <1>a, <3>1
    <3>2. CASE /\ worker'[w].opening = worker[w].opening
               /\ worker'[w].rev = worker[w].rev /\ worker'[w].text = worker[w].text
      BY <1>c, <1>d, <3>2
    <3>3. CASE /\ doc # None /\ worker'[w].opening = doc.opening
               /\ worker'[w].rev = doc.rev /\ worker'[w].text = doc.text
      BY <1>e, <2>1, <2>2, <3>3
    <3> QED BY <1>3, <3>1, <3>2, <3>3, WorkerSummary
  <2>4. cache' = cache \/ cache' = ResultOf(w, "deep")
    BY <1>3 DEF WorkerStep, SampleGeneration, Debounced, Take, RetireUnarmed, Capture, Declined,
                DeliverFast, Analyse, Deliver, Cancelled, Settled, Refresh
  <2>5. HonestNext(ResultOf(w, "deep"))
    BY <1>c, <1>d, ResultTyped
  <2> QED BY <1>c, <2>1, <2>3, <2>4, <2>5 DEF OnlyWorker
<1>4. ASSUME PeerReschedules
      PROVE  /\ UNCHANGED handler
             /\ \A v \in Workers : HonestNext(worker'[v])
             /\ cache' # None => HonestNext(cache')
  BY <1>a, <1>c, <1>4, PeerEffect
<1>5. ASSUME UNCHANGED vars PROVE UNCHANGED <<handler, worker, cache>>
  BY <1>5 DEF vars
<1> QED BY <1>c, <1>1, <1>2, <1>3, <1>4, <1>5 DEF Next

\* The inductive invariant holds throughout.
LEMMA SchedulerInvariant == Spec => []SchedulerInv
<1>1. SchedulerInv /\ [Next]_vars => SchedulerInv'
  BY ShapeKept, CountsKept, AppliesKept, ClaimKept, StampsKept, CapturesKept DEF SchedulerInv
<1> QED BY <1>1, InitScheduler, PTL DEF Spec

-----------------------------------------------------------------------------
(* What follows.                                                           *)

\* The scheduler's state always has its type (TypeOK): in particular no
\* revision, epoch or attempt leaves its range.
THEOREM SchedulerTypeCorrect == Spec => []TypeOK
<1>1. SchedulerInv => TypeOK
  BY DEF SchedulerInv, Shape, TypeOK, HandlerStates, WorkerStates
<1> QED BY <1>1, SchedulerInvariant, PTL

\* A document never has two diagnostics workers, and has one exactly while its
\* slot says so (OneWorker).
THEOREM OneWorkerPerDocument == Spec => []OneWorker
<1>1. SchedulerInv => OneWorker
  <2> SUFFICES ASSUME Claim PROVE OneWorker
    BY DEF SchedulerInv
  <2>1. CASE Busy = {}
    <3>1. Cardinality(Busy) = 0
      BY <2>1, FS_EmptySet
    <3>2. ~(slot # None /\ slot.running)
      BY <2>1 DEF Claim, Busy
    <3> QED BY <2>1, <3>1, <3>2 DEF OneWorker
  <2>2. CASE Busy # {}
    <3>1. PICK w \in Workers : Busy = {w}
      BY <2>2 DEF Claim, Busy
    <3>2. Cardinality(Busy) = 1
      BY <3>1, FS_Singleton
    <3> QED BY <2>2, <3>2 DEF OneWorker, Claim, Busy
  <2> QED BY <2>1, <2>2
<1> QED BY <1>1, SchedulerInvariant, PTL

\* Inputs stamped with the current epoch are the current configuration whenever
\* no apply is under way (StampIsHonest), however many settings reads, applies
\* and commits overlap.
THEOREM StampsAreHonest == Spec => []StampIsHonest
<1>1. SchedulerInv => StampIsHonest
  <2> SUFFICES ASSUME SchedulerInv, slot # None, slot.inputs # None, slot.inputs_epoch = epoch, ~applying
               PROVE  slot.inputs = config
    BY DEF StampIsHonest
  <2>1. config.a = epoch /\ config.b = epoch /\ Recent(slot.inputs)
    BY DEF SchedulerInv, Applies, Stamps
  <2>2. slot.inputs \in Inputs /\ config \in Inputs /\ epoch \in Nat
    BY SchedulerAssumption DEF SchedulerInv, Shape, Slots, Epochs
  <2>3. slot.inputs.a = config.a /\ slot.inputs.b = config.b
    BY <2>1, <2>2, SchedulerAssumption DEF Recent, Inputs, Epochs
  <2> QED BY <2>2, <2>3 DEF Inputs
<1> QED BY <1>1, SchedulerInvariant, PTL

\* A pull that finds an entry of this opening for the live revision serves the
\* live buffer (CacheServesLiveText): a pull answered late, or a worker that
\* outlived an edit, cannot plant older text under the live revision.
THEOREM PullsServeLiveText == Spec => []CacheServesLiveText
<1>1. SchedulerInv => CacheServesLiveText
  BY DEF SchedulerInv, Captures, Honest, CacheServesLiveText
<1> QED BY <1>1, SchedulerInvariant, PTL

\* No step publishes for an older buffer of this opening
\* (DeliveriesAreCurrent): the check under the documents lock sees to it.
THEOREM DeliveriesStayCurrent == Spec => DeliveriesAreCurrent
<1>1. ASSUME SchedulerInv, [Next]_vars, shown' # shown, shown'.rev # ClosedRevision
      PROVE  doc # None /\ (shown'.opening = doc.opening => shown'.text = doc.text)
  <2>1. PICK w \in Workers : DeliverFast(w) \/ Deliver(w)
    <3>1. ASSUME NEW h \in Handlers, ClientSends(h) PROVE FALSE
      BY <1>1, <3>1, ClientSummary DEF SchedulerInv
    <3>2. ASSUME NEW h \in Handlers, HandlerStep(h) PROVE FALSE
      <4>1. shown' = shown \/ shown'.rev = ClosedRevision
        BY <3>2 DEF HandlerStep, Publish, CloseTail, ClosedRun, ApplyRest, Invalidate, RescheduleOpen,
                    LoadEpoch, Peek, ReadFirst, ReadRest, Verify, Commit, PullCompute, PullInsert
      <4> QED BY <1>1, <4>1
    <3>3. ASSUME NEW w \in Workers, WorkerStep(w) PROVE DeliverFast(w) \/ Deliver(w)
      BY <1>1, <3>3 DEF WorkerStep, SampleGeneration, Debounced, Take, RetireUnarmed, Capture, Declined,
                        Analyse, Cancelled, Settled, Refresh
    <3>4. ~PeerReschedules /\ ~UNCHANGED vars
      BY <1>1 DEF PeerReschedules, vars
    <3> QED BY <1>1, <3>1, <3>2, <3>3, <3>4 DEF Next
  <2>2. IsCurrent(w) /\ shown' \in {ResultOf(w, "fast"), ResultOf(w, "deep")}
    BY <1>1, <2>1 DEF DeliverFast, Deliver
  <2>3. shown'.opening = worker[w].opening /\ shown'.rev = worker[w].rev /\ shown'.text = worker[w].text
    BY <1>1, <2>2, ResultTyped DEF SchedulerInv
  <2> QED BY <1>1, <2>2, <2>3 DEF SchedulerInv, Captures, Honest, IsCurrent
<1>2. SchedulerInv /\ [Next]_vars =>
        [shown' # shown /\ shown'.rev # ClosedRevision
           => doc # None /\ (shown'.opening = doc.opening => shown'.text = doc.text)]_vars
  BY <1>1
<1> QED BY <1>2, SchedulerInvariant, PTL DEF Spec, DeliveriesAreCurrent

-----------------------------------------------------------------------------
(* Where nothing is closed, nothing is orphaned.                           *)

\* Every step keeps the slot's work with its worker, and a slot that has
\* inputs keeps them.
LEMMA BackedKept ==
  ASSUME SchedulerInv, Orphanless, [Next]_vars, MaxCloses = 0
  PROVE  Backed' /\ (slot # None /\ slot.inputs # None => slot' # None /\ slot'.inputs # None)
<1> DEFINE Goal == Backed' /\ (slot # None /\ slot.inputs # None => slot' # None /\ slot'.inputs # None)
<1>a. Shape /\ Counts /\ Claim /\ Backed
  BY DEF SchedulerInv, Orphanless
<1>1. ASSUME UNCHANGED slot PROVE Goal
  BY <1>a, <1>1 DEF Backed
<1>2. ASSUME NEW h \in Handlers, ClientSends(h) PROVE Goal
  BY <1>a, <1>1, <1>2, ClientSummary
<1>3. ASSUME NEW h \in Handlers, HandlerStep(h) PROVE Goal
  <2>1. ~CloseTail(h)
    BY DEF Orphanless, Resolving, CloseTail
  <2>2. CASE Peek(h)
    BY <1>a, <2>2, SlotLookedUp DEF Peek, Backed
  <2>3. CASE Commit(h)
    <3> DEFINE s == SlotOrDefault
               i == handler[h].snap
               e == handler[h].epoch
    <3>1. /\ s \in Slots /\ (slot # None => s = slot)
          /\ slot = None => s.running = FALSE /\ s.inputs = None /\ s.inputs_epoch = 0
      BY <1>a, SlotLookedUp
    <3>2. i \in Inputs \cup {None} /\ e \in Epochs /\ e \in Nat /\ s.inputs_epoch \in Nat
      BY <1>a, <3>1, SchedulerAssumption DEF Shape, HandlerStates, Epochs, Slots
    <3>3. i = None => slot # None /\ slot.inputs # None
      BY <2>3 DEF Orphanless, Resolving, Commit
    <3>4. slot' = [Committed(s, i, e) EXCEPT !.running = TRUE]
      BY <2>3 DEF Commit
    <3>5. s.inputs = None => s.inputs_epoch = 0
      BY <1>a, <3>1 DEF Backed
    <3> HIDE DEF s, i, e
    <3>6. /\ slot' \in Slots /\ slot' # None /\ slot'.running = TRUE
          /\ i # None /\ e >= s.inputs_epoch => slot'.inputs = i /\ slot'.inputs_epoch = e
          /\ ~(i # None /\ e >= s.inputs_epoch) =>
               slot'.inputs = s.inputs /\ slot'.inputs_epoch = s.inputs_epoch
      BY <3>1, <3>2, <3>4, SlotCommitted
    <3>7. slot'.inputs # None
      BY <3>1, <3>2, <3>3, <3>5, <3>6
    <3> QED BY <3>6, <3>7 DEF Backed
  <2>4. CASE ~Peek(h) /\ ~Commit(h)
    <3>1. UNCHANGED slot
      BY <1>3, <2>1, <2>4
      DEF HandlerStep, Publish, ClosedRun, ApplyRest, Invalidate, RescheduleOpen, LoadEpoch,
          ReadFirst, ReadRest, Verify, PullCompute, PullInsert
    <3> QED BY <1>1, <3>1
  <2> QED BY <2>2, <2>3, <2>4
<1>4. ASSUME NEW w \in Workers, WorkerStep(w) PROVE Goal
  <2>1. slot # None /\ slot.running /\ worker[w].pc # "unarmed"
    BY <1>a, <1>4, WorkerSummary DEF Claim, Orphanless
  <2>2. slot.inputs # None
    BY <1>a, <2>1 DEF Backed
  <2>3. CASE worker'[w].pc # "idle"
    <3>1. /\ slot' # None /\ slot'.running = slot.running /\ slot'.inputs = slot.inputs
      BY <1>a, <1>4, <2>1, <2>3, WorkerSummary
    <3> QED BY <2>1, <2>2, <3>1 DEF Backed
  <2>4. CASE worker'[w].pc = "idle"
    <3>1. slot' = RetireSlot(slot) /\ Drained
      BY <1>a, <1>4, <2>1, <2>4, WorkerSummary
    <3>2. slot' # None /\ slot'.running = FALSE /\ slot'.dirty = slot.dirty /\ slot'.inputs = slot.inputs
      BY <1>a, <2>1, <2>2, <3>1, SlotRetired DEF Shape
    <3> QED BY <2>1, <2>2, <3>1, <3>2 DEF Backed, Drained
  <2> QED BY <2>3, <2>4
<1>5. CASE PeerReschedules
  BY <1>a, <1>5, PeerEffect DEF Backed
<1>6. CASE UNCHANGED vars
  BY <1>1, <1>6 DEF vars
<1> QED BY <1>2, <1>3, <1>4, <1>5, <1>6 DEF Next

\* A handler that takes a step keeps count of its retries: each follows a bump
\* of the epoch it had loaded.
LEMMA ResolvingKept ==
  ASSUME SchedulerInv, Orphanless, MaxReloads < Attempts, NEW h \in Handlers, HandlerStep(h)
  PROVE  Resolving(h)'
<1>a. /\ Shape /\ Counts /\ Resolving(h)
      /\ handler[h] \in HandlerStates
      /\ handler[h].tries \in Nat /\ handler[h].epoch \in Nat /\ handler[h].epoch <= epoch
      /\ epoch \in Nat /\ epoch <= MaxReloads /\ MaxReloads \in Nat /\ Attempts \in Nat
  BY SchedulerAssumption DEF SchedulerInv, Orphanless, Shape, HandlerStates, Epochs, Stamps
<1>1. ASSUME Finish(h) PROVE Resolving(h)'
  BY <1>a, <1>1, FinishEffect DEF Resolving
<1>2. ASSUME Schedule(h), handler[h].pc \in {"publish", "reload"}, UNCHANGED epoch PROVE Resolving(h)'
  <2>1. handler'[h].pc = "load_epoch" /\ handler'[h].tries = 0
    BY <1>a, <1>2, ScheduleEffect DEF Resolving
  <2> QED BY <1>a, <1>2, <2>1 DEF Resolving
<1>3. CASE Publish(h)
  BY <1>1, <1>2, <1>3 DEF Publish
<1>4. CASE CloseTail(h)
  BY <1>a, <1>4 DEF CloseTail, Resolving
<1>5. CASE ClosedRun(h)
  BY <1>1, <1>5 DEF ClosedRun
<1>6. CASE ApplyRest(h)
  BY <1>6, <1>a, GotoEffect, Ranges DEF ApplyRest, Resolving
<1>7. CASE Invalidate(h)
  BY <1>7, <1>a, GotoEffect, Ranges DEF Invalidate, Resolving
<1>8. CASE RescheduleOpen(h)
  BY <1>1, <1>2, <1>8 DEF RescheduleOpen
<1>9. CASE LoadEpoch(h)
  <2>1. /\ handler[h].pc = "load_epoch" /\ handler'[h].pc = "peek"
        /\ handler'[h].epoch = epoch /\ handler'[h].tries = handler[h].tries
    BY <1>a, <1>9, LoadEpochEffect
  <2> QED BY <1>a, <2>1 DEF Resolving
<1>10. CASE Peek(h)
  <2>1. PICK l \in {"read_a", "commit"} :
          /\ Goto(h, l) /\ handler[h].pc = "peek" /\ slot' = SlotOrDefault
          /\ l = "commit" => slot'.inputs # None
    BY <1>10 DEF Peek
  <2>2. /\ handler'[h].pc = l /\ handler'[h].epoch = handler[h].epoch
        /\ handler'[h].tries = handler[h].tries
    BY <1>a, <2>1, GotoEffect, Ranges
  <2>3. slot' # None
    BY <1>a, <2>1, SlotLookedUp, SchedulerAssumption
  <2> QED BY <1>a, <2>1, <2>2, <2>3 DEF Resolving
<1>11. CASE ReadFirst(h)
  <2>1. /\ handler[h].pc = "read_a" /\ handler'[h].pc = "read_b"
        /\ handler'[h].epoch = handler[h].epoch /\ handler'[h].tries = handler[h].tries
    BY <1>a, <1>11, ReadFirstEffect
  <2> QED BY <1>a, <2>1 DEF Resolving
<1>12. CASE ReadRest(h)
  <2>1. handler[h].snap # None
    BY <1>a, <1>12 DEF Counts, ReadRest
  <2>2. /\ handler[h].pc = "read_b" /\ handler'[h].pc = "verify" /\ handler'[h].snap # None
        /\ handler'[h].epoch = handler[h].epoch /\ handler'[h].tries = handler[h].tries
    BY <1>a, <1>12, <2>1, ReadRestEffect
  <2> QED BY <1>a, <2>2 DEF Resolving
<1>13. CASE Verify(h)
  <2>1. handler[h].pc = "verify" /\ handler[h].tries <= handler[h].epoch /\ handler[h].snap # None
    BY <1>a, <1>13 DEF Verify, Resolving
  <2>2. handler[h].tries < Attempts
    BY <1>a, <2>1
  <2>3. /\ handler'[h].pc = (IF epoch = handler[h].epoch \/ handler[h].tries + 1 = Attempts
                             THEN "commit" ELSE "load_epoch")
        /\ handler'[h].snap = (IF epoch = handler[h].epoch THEN handler[h].snap ELSE None)
        /\ handler'[h].tries = handler[h].tries + 1 /\ epoch' = epoch
    BY <1>a, <1>13, <2>2, VerifyEffect DEF Verify
  <2>4. CASE epoch = handler[h].epoch
    BY <2>1, <2>3, <2>4 DEF Resolving
  <2>5. CASE epoch # handler[h].epoch
    <3>1. handler[h].tries + 1 <= epoch /\ handler[h].tries + 1 # Attempts
      BY <1>a, <2>1, <2>5
    <3> QED BY <2>3, <2>5, <3>1 DEF Resolving
  <2> QED BY <2>4, <2>5
<1>14. CASE Commit(h)
  BY <1>1, <1>14 DEF Commit
<1>15. CASE PullCompute(h)
  BY <1>a, <1>15, PullComputeEffect DEF Resolving
<1>16. CASE PullInsert(h)
  BY <1>1, <1>16 DEF PullInsert
<1> QED
  BY <1>3, <1>4, <1>5, <1>6, <1>7, <1>8, <1>9, <1>10, <1>11, <1>12, <1>13, <1>14, <1>15, <1>16
  DEF HandlerStep

\* Without closes, and with reloads outnumbered by attempts, no work is orphaned.
LEMMA OrphanlessKept ==
  ASSUME SchedulerInv, Orphanless, [Next]_vars, MaxCloses = 0, MaxReloads < Attempts
  PROVE  Orphanless'
<1>a. Shape /\ Counts /\ Claim /\ Backed
  BY DEF SchedulerInv, Orphanless
<1>b. Backed' /\ (slot # None /\ slot.inputs # None => slot' # None /\ slot'.inputs # None)
  BY BackedKept
<1>c. epoch \in Nat /\ epoch' \in {epoch, epoch + 1}
  <2>1. epoch \in Nat
    BY <1>a, SchedulerAssumption DEF Shape, Epochs
  <2>2. ASSUME NEW h \in Handlers, ClientSends(h) \/ HandlerStep(h) PROVE epoch' \in {epoch, epoch + 1}
    BY <2>2 DEF ClientSends, DidOpen, DidChange, DidClose, BeginApply, Pull, HandlerStep, Publish,
                CloseTail, ClosedRun, ApplyRest, Invalidate, RescheduleOpen, LoadEpoch, Peek, ReadFirst,
                ReadRest, Verify, Commit, PullCompute, PullInsert
  <2>3. ASSUME NEW w \in Workers, WorkerStep(w) PROVE epoch' = epoch
    BY <1>a, <2>3, WorkerSummary
  <2> QED BY <2>1, <2>2, <2>3 DEF Next, PeerReschedules, vars
<1>1. ASSUME NEW h \in Handlers, handler'[h] = handler[h] PROVE Resolving(h)'
  <2>1. handler[h].tries \in Nat
    BY <1>a DEF Shape, HandlerStates
  <2> QED BY <1>1, <1>b, <1>c, <2>1 DEF Orphanless, Resolving
<1>2. ASSUME UNCHANGED handler PROVE \A h \in Handlers : Resolving(h)'
  BY <1>1, <1>2
<1>3. ASSUME \A w \in Workers : worker'[w] = worker[w] \/ worker'[w].pc = "stable"
      PROVE  \A w \in Workers : worker'[w].pc # "unarmed"
  BY <1>3 DEF Orphanless
<1>4. ASSUME NEW h \in Handlers, ClientSends(h) PROVE Orphanless'
  <2>1. handler[h].tries = 0
    BY <1>4, <1>a, ClientSummary DEF Orphanless, Resolving
  <2>2. ~DidClose(h)
    <3>1. Sent("close") \in Nat
      BY SentIsNat
    <3> QED BY <3>1 DEF DidClose
  <2>3. /\ handler'[h].tries = 0 /\ handler'[h].pc \in {"publish", "write_b", "done", "compute"}
        /\ OnlyHandler(h) /\ UNCHANGED worker
    BY <1>4, <1>a, <2>1, <2>2, ClientSummary
  <2>4. Resolving(h)'
    BY <2>3 DEF Resolving
  <2> QED BY <1>1, <1>3, <1>b, <2>3, <2>4 DEF Orphanless, OnlyHandler
<1>5. ASSUME NEW h \in Handlers, HandlerStep(h) PROVE Orphanless'
  <2>1. \A k \in Handlers : Resolving(k)'
    BY <1>1, <1>5, <1>a, ResolvingKept, HandlerSummary DEF OnlyHandler
  <2>2. \A w \in Workers : worker'[w] = worker[w] \/ worker'[w].pc = "stable"
    <3>1. CASE Commit(h)
      BY <1>a, <3>1, SlotSteps
    <3>2. CASE ~Commit(h)
      BY <1>5, <3>2
      DEF HandlerStep, Publish, CloseTail, ClosedRun, ApplyRest, Invalidate, RescheduleOpen,
          LoadEpoch, Peek, ReadFirst, ReadRest, Verify, PullCompute, PullInsert
    <3> QED BY <3>1, <3>2
  <2> QED BY <1>3, <1>b, <2>1, <2>2 DEF Orphanless
<1>6. ASSUME NEW w \in Workers, WorkerStep(w) PROVE Orphanless'
  <2>1. worker'[w].pc # "unarmed"
    <3>1. slot # None /\ slot.running
      BY <1>6, <1>a, WorkerSummary DEF Claim
    <3> QED BY <1>6, <1>a, <3>1, WorkerSummary DEF Backed
  <2>2. UNCHANGED handler /\ OnlyWorker(w)
    BY <1>6, <1>a, WorkerSummary
  <2> QED BY <1>2, <1>b, <2>1, <2>2 DEF Orphanless, OnlyWorker
<1>7. CASE PeerReschedules
  BY <1>2, <1>3, <1>7, <1>a, <1>b, PeerEffect DEF Orphanless
<1>8. CASE UNCHANGED vars
  BY <1>2, <1>3, <1>8, <1>b DEF Orphanless, vars
<1> QED BY <1>4, <1>5, <1>6, <1>7, <1>8 DEF Next

\* As long as no document is closed, and a reload is not what exhausts the
\* attempts, scheduled work always has a worker behind it (NoOrphanedWork): the
\* run diag_orphan shows that closing and reopening is what loses it.
THEOREM NothingIsOrphaned ==
  ASSUME MaxCloses = 0, MaxReloads < Attempts
  PROVE  Spec => []NoOrphanedWork
<1>1. Init => Orphanless
  <2> SUFFICES ASSUME Init PROVE Orphanless
    OBVIOUS
  <2>1. \A h \in Handlers : handler[h].pc = "idle" /\ handler[h].tries = 0
    BY DEF Init, IdleHandler
  <2>2. \A w \in Workers : worker[w].pc = "idle"
    BY DEF Init, IdleWorker
  <2> QED BY <2>1, <2>2 DEF Init, Orphanless, Backed, Resolving
<1>2. SchedulerInv /\ Orphanless /\ [Next]_vars => Orphanless'
  BY OrphanlessKept
<1>3. Orphanless => NoOrphanedWork
  BY DEF Orphanless, Backed, NoOrphanedWork
<1> QED BY <1>1, <1>2, <1>3, SchedulerInvariant, PTL DEF Spec
=============================================================================
