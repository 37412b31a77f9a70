----------------------------- MODULE EditOrder -----------------------------
(***************************************************************************)
(* The document-sync barrier of tcl-lsp-server (struct EditOrder) and the  *)
(* request admission in front of it (DeferredConcurrency).                 *)
(*                                                                         *)
(* A document-sync handler draws a ticket the first time it is polled,     *)
(* waits until now_serving reaches it, mutates its document while holding  *)
(* the turn, and hands the turn on.  A handler dropped while it is parked  *)
(* records its ticket as abandoned.  A request takes one of MaxPermits     *)
(* permits, snapshots next_ticket and waits until now_serving has reached  *)
(* that number.                                                            *)
(*                                                                         *)
(* Each action is one step between two points at which another thread can  *)
(* intervene: an atomic operation, a critical section of a std Mutex, or   *)
(* the code between two awaits.                                            *)
(***************************************************************************)
EXTENDS Integers, FiniteSets

CONSTANTS Edits,       \* document-sync handler invocations
          Requests,    \* request handler invocations
          MaxPermits,  \* DEFAULT_HANDLER_CONCURRENCY
          MaxReceived, \* bound: messages received
          Nobody       \* "no handler": a free mutex, an empty holder slot

Handlers == Edits \cup Requests

ASSUME HandlersAssumption ==
  /\ Edits \cap Requests = {}
  /\ Nobody \notin Handlers
  /\ IsFiniteSet(Requests)

ASSUME MaxPermitsAssumption == MaxPermits \in Nat \ {0}

VARIABLES
  next_ticket,     \* EditOrder::next_ticket
  now_serving,     \* EditOrder::now_serving
  abandoned,       \* EditOrder::abandoned, the set under the mutex
  abandoned_lock,  \* who holds that mutex across several steps
  holder,          \* EditOrder::holder, the handler granted the turn
  waiters,         \* handlers registered with EditOrder::advanced, not yet woken
  pc,              \* the next step of each handler
  ticket,          \* ticket[e]: the number drawn by e (-1: none yet)
  target,          \* target[r]: the number request r waits for
  admitted,        \* requests holding a permit
  stalled,         \* requests whose first wait has timed out
  applied,         \* history: edits that took effect
  preceding        \* history: preceding[r], the edits received before request r

order == <<next_ticket, now_serving, abandoned, abandoned_lock, holder, ticket>>
admission == <<target, admitted, stalled, preceding>>
vars == <<next_ticket, now_serving, abandoned, abandoned_lock, holder, waiters,
          pc, ticket, target, admitted, stalled, applied, preceding>>

Goto(p, l) == pc' = [pc EXCEPT ![p] = l]

\* The client goes on sending.
Receiving == Cardinality({p \in Handlers : pc[p] # "unsent"}) < MaxReceived

Init ==
  /\ next_ticket = 0
  /\ now_serving = 0
  /\ abandoned = {}
  /\ abandoned_lock = Nobody
  /\ holder = Nobody
  /\ waiters = {}
  /\ pc = [p \in Handlers |-> "unsent"]
  /\ ticket = [e \in Edits |-> -1]
  /\ target = [r \in Requests |-> 0]
  /\ admitted = {}
  /\ stalled = {}
  /\ applied = {}
  /\ preceding = [r \in Requests |-> {}]

-----------------------------------------------------------------------------
(* Both kinds of waiter: register with `advanced`, look at now_serving,    *)
(* and only then park.                                                     *)

\* Mutant: a waiter is let in one ticket early.
TurnReachedEarly(p) ==
  IF p \in Edits THEN now_serving + 1 >= ticket[p] ELSE now_serving >= target[p]

\* What the waiter of wait_turn or settled_to is looking for.
TurnReached(p) ==
  IF p \in Edits THEN now_serving = ticket[p] ELSE now_serving >= target[p]

\* `advanced.as_mut().enable()`
Register(p) ==
  /\ pc[p] = "register"
  /\ waiters' = waiters \cup {p}
  /\ Goto(p, "check")
  /\ UNCHANGED <<order, admission, applied>>

\* The read after registering; leaving the loop drops the registration.
Check(p) ==
  /\ pc[p] = "check"
  /\ IF TurnReached(p)
       THEN /\ waiters' = waiters \ {p}
            /\ Goto(p, IF p \in Edits THEN "granted" ELSE "serve")
       ELSE /\ Goto(p, "parked")
            /\ UNCHANGED waiters
  /\ UNCHANGED <<order, admission, applied>>

\* `advanced.await` completes once the registration has been notified.
Wake(p) ==
  /\ pc[p] = "parked"
  /\ p \notin waiters
  /\ Goto(p, "register")
  /\ UNCHANGED <<order, admission, applied, waiters>>

-----------------------------------------------------------------------------
(* Document-sync handlers.                                                 *)

\* The first poll of a notification handler.  It needs no permit, and draws
\* its ticket before its first await.
TakeTicket(e) ==
  /\ pc[e] = "unsent" /\ Receiving
  /\ ticket' = [ticket EXCEPT ![e] = next_ticket]
  /\ next_ticket' = next_ticket + 1
  /\ Goto(e, "register")
  /\ UNCHANGED <<now_serving, abandoned, abandoned_lock, holder, waiters,
                 admission, applied>>

\* The grant publishes its holder in a critical section of its own.
SetHolder(e) ==
  /\ pc[e] = "granted"
  /\ holder' = e
  /\ Goto(e, "turn")
  /\ UNCHANGED <<next_ticket, now_serving, abandoned, abandoned_lock, ticket,
                 waiters, admission, applied>>

\* The ordered mutation the turn is for (splice, insert or remove a document).
ApplyEdit(e) ==
  /\ pc[e] = "turn"
  /\ applied' = applied \cup {e}
  /\ Goto(e, "release")
  /\ UNCHANGED <<order, admission, waiters>>

\* No mutation: no content changes, a document that is not open, or a handler
\* dropped at an await inside the turn.
SkipEdit(e) ==
  /\ pc[e] = "turn"
  /\ Goto(e, "release")
  /\ UNCHANGED <<order, admission, waiters, applied>>

\* Mutant: the holder slot is not emptied.
ClearHolderForgotten(e) ==
  /\ pc[e] = "release"
  /\ Goto(e, "advance")
  /\ UNCHANGED <<order, waiters, admission, applied>>

\* EditTurn::drop, first half.
ClearHolder(e) ==
  /\ pc[e] = "release"
  /\ holder' = Nobody
  /\ Goto(e, "advance")
  /\ UNCHANGED <<next_ticket, now_serving, abandoned, abandoned_lock, ticket,
                 waiters, admission, applied>>

\* EditTurn::drop, second half: the increment is not under the mutex.
HandTurnOn(e) ==
  /\ pc[e] = "advance"
  /\ now_serving' = now_serving + 1
  /\ Goto(e, "drain")
  /\ UNCHANGED <<next_ticket, abandoned, abandoned_lock, holder, ticket,
                 waiters, admission, applied>>

\* The handler's future is dropped while it is parked in wait_turn.
DropParkedHandler(e) ==
  /\ pc[e] = "parked"
  /\ waiters' = waiters \ {e}
  /\ Goto(e, "abandon")
  /\ UNCHANGED <<order, admission, applied>>

\* Mutant: an abandoned ticket is recorded, but nobody looks at the head.
RecordAbandonedOnly(e) ==
  /\ pc[e] = "abandon"
  /\ abandoned_lock = Nobody
  /\ abandoned' = abandoned \cup {ticket[e]}
  /\ Goto(e, "done")
  /\ UNCHANGED <<next_ticket, now_serving, abandoned_lock, holder, ticket,
                 waiters, admission, applied>>

\* EditTicket::drop of an armed ticket.
RecordAbandoned(e) ==
  /\ pc[e] = "abandon"
  /\ abandoned_lock = Nobody
  /\ abandoned' = abandoned \cup {ticket[e]}
  /\ Goto(e, "drain")
  /\ UNCHANGED <<next_ticket, now_serving, abandoned_lock, holder, ticket,
                 waiters, admission, applied>>

\* drain_abandoned: one pass of the while loop takes the head out of the set ...
LockAbandoned(e) ==
  /\ pc[e] = "drain"
  /\ abandoned_lock = Nobody
  /\ abandoned_lock' = e
  /\ Goto(e, "test")
  /\ UNCHANGED <<next_ticket, now_serving, abandoned, holder, ticket,
                 waiters, admission, applied>>

RemoveHead(e) ==
  /\ pc[e] = "test"
  /\ now_serving \in abandoned
  /\ abandoned' = abandoned \ {now_serving}
  /\ Goto(e, "step")
  /\ UNCHANGED <<next_ticket, now_serving, abandoned_lock, holder, ticket,
                 waiters, admission, applied>>

\* ... and then steps over it.
StepOver(e) ==
  /\ pc[e] = "step"
  /\ now_serving' = now_serving + 1
  /\ Goto(e, "test")
  /\ UNCHANGED <<next_ticket, abandoned, abandoned_lock, holder, ticket,
                 waiters, admission, applied>>

\* Mutant: the waiters are not woken.
UnlockAbandonedSilently(e) ==
  /\ pc[e] = "test"
  /\ now_serving \notin abandoned
  /\ abandoned_lock' = Nobody
  /\ Goto(e, "done")
  /\ UNCHANGED <<next_ticket, now_serving, abandoned, holder, ticket,
                 waiters, admission, applied>>

UnlockAbandoned(e) ==
  /\ pc[e] = "test"
  /\ now_serving \notin abandoned
  /\ abandoned_lock' = Nobody
  /\ Goto(e, "notify")
  /\ UNCHANGED <<next_ticket, now_serving, abandoned, holder, ticket,
                 waiters, admission, applied>>

\* notify_waiters wakes the registered waiters and leaves no permit behind.
NotifyWaiters(e) ==
  /\ pc[e] = "notify"
  /\ waiters' = {}
  /\ Goto(e, "done")
  /\ UNCHANGED <<order, admission, applied>>

-----------------------------------------------------------------------------
(* Requests.                                                               *)

\* The first poll of a request: it queues for a permit.
QueueRequest(r) ==
  /\ pc[r] = "unsent" /\ Receiving
  /\ preceding' = [preceding EXCEPT ![r] = {e \in Edits : pc[e] # "unsent"}]
  /\ Goto(r, "admit")
  /\ UNCHANGED <<order, target, admitted, stalled, applied, waiters>>

AcquirePermit(r) ==
  /\ pc[r] \in {"admit", "readmit"}
  /\ Cardinality(admitted) < MaxPermits
  /\ admitted' = admitted \cup {r}
  /\ Goto(r, IF pc[r] = "admit" THEN "settle" ELSE "serve")
  /\ UNCHANGED <<order, target, preceding, stalled, applied, waiters>>

\* Mutant: the target is the last ticket drawn, not the next one.
SnapshotLastTicket(r) ==
  /\ pc[r] = "settle"
  /\ target' = [target EXCEPT ![r] = next_ticket - 1]
  /\ Goto(r, "served")
  /\ UNCHANGED <<order, admitted, preceding, stalled, applied, waiters>>

\* edits_settled: snapshot the target.
SnapshotTarget(r) ==
  /\ pc[r] = "settle"
  /\ target' = [target EXCEPT ![r] = next_ticket]
  /\ Goto(r, "served")
  /\ UNCHANGED <<order, admitted, preceding, stalled, applied, waiters>>

\* Its fast path, a second atomic load.
FastPath(r) ==
  /\ pc[r] = "served"
  /\ Goto(r, IF now_serving >= target[r] THEN "serve" ELSE "register")
  /\ UNCHANGED <<order, admission, applied, waiters>>

\* The first wait overruns EDIT_BARRIER_STALL_WARN: the stall is reported (see
\* StallReport) and the same target is waited for again, without a limit.
StallTimeout(r) ==
  /\ pc[r] = "parked"
  /\ r \notin stalled
  /\ stalled' = stalled \cup {r}
  /\ waiters' = waiters \ {r}
  /\ Goto(r, "register")
  /\ UNCHANGED <<order, target, admitted, preceding, applied>>

\* A served request may give its permit back while it waits for its document
\* to be published (await_outside_request_admission) and must queue again.
StepOutside(r) ==
  /\ pc[r] = "serve"
  /\ admitted' = admitted \ {r}
  /\ Goto(r, "readmit")
  /\ UNCHANGED <<order, target, preceding, stalled, applied, waiters>>

Respond(r) ==
  /\ pc[r] = "serve"
  /\ admitted' = admitted \ {r}
  /\ Goto(r, "done")
  /\ UNCHANGED <<order, target, preceding, stalled, applied, waiters>>

\* Mutant: a cancelled request keeps its permit.
CancelKeepsPermit(r) ==
  /\ \/ pc[r] \in {"admit", "parked", "serve", "readmit"}
     \/ pc[r] = "register" /\ r \in stalled
  /\ waiters' = waiters \ {r}
  /\ Goto(r, "done")
  /\ UNCHANGED <<order, target, admitted, preceding, stalled, applied>>

\* $/cancelRequest drops the request's future at an await; a request that has
\* overrun its wait awaits in its report before it registers again.
CancelRequest(r) ==
  /\ \/ pc[r] \in {"admit", "parked", "serve", "readmit"}
     \/ pc[r] = "register" /\ r \in stalled
  /\ admitted' = admitted \ {r}
  /\ waiters' = waiters \ {r}
  /\ Goto(r, "done")
  /\ UNCHANGED <<order, target, preceding, stalled, applied>>

-----------------------------------------------------------------------------
Wait(p) == Register(p) \/ Check(p) \/ Wake(p)

Turn(e) ==
  \/ SetHolder(e) \/ ApplyEdit(e) \/ SkipEdit(e) \/ ClearHolder(e) \/ HandTurnOn(e)

Drain(e) ==
  \/ LockAbandoned(e) \/ RemoveHead(e) \/ StepOver(e)
  \/ UnlockAbandoned(e) \/ NotifyWaiters(e)

EditNext(e) ==
  \/ TakeTicket(e) \/ Turn(e) \/ DropParkedHandler(e) \/ RecordAbandoned(e) \/ Drain(e)

RequestNext(r) ==
  \/ QueueRequest(r) \/ AcquirePermit(r) \/ SnapshotTarget(r) \/ FastPath(r)
  \/ StallTimeout(r) \/ StepOutside(r) \/ Respond(r) \/ CancelRequest(r)

\* The input stream has ended and every handler has returned.
Terminated ==
  /\ ~Receiving /\ \A p \in Handlers : pc[p] \in {"unsent", "done"}
  /\ UNCHANGED vars

Next ==
  \/ \E p \in Handlers : Wait(p)
  \/ \E e \in Edits : EditNext(e)
  \/ \E r \in Requests : RequestNext(r)
  \/ Terminated

\* The executor polls every woken future, a handler inside its turn reaches
\* the end of it, and a critical section ends.  The semaphore is first come,
\* first served, and a request's publication waits are finitely many: strong
\* fairness of AcquirePermit and Respond stands for these.  Nothing is assumed
\* of the client (arrivals, cancellation), of dropped futures or of timeouts.
Fairness ==
  /\ \A e \in Edits : WF_vars(Wait(e) \/ Turn(e) \/ RecordAbandoned(e) \/ Drain(e))
  /\ \A r \in Requests :
       /\ WF_vars(Wait(r) \/ SnapshotTarget(r) \/ FastPath(r))
       /\ SF_vars(AcquirePermit(r))
       /\ SF_vars(Respond(r))

Spec == Init /\ [][Next]_vars
FairSpec == Spec /\ Fairness

-----------------------------------------------------------------------------
(* Properties.                                                             *)

Waiting == {"register", "check", "parked", "abandon"}
InTurn == {"granted", "turn", "release", "advance"}
Handed == {"drain", "test", "step", "notify", "done"}
EditLabels == {"unsent"} \cup Waiting \cup InTurn \cup Handed
RequestLabels ==
  {"unsent", "admit", "settle", "served", "register", "check", "parked",
   "serve", "readmit", "done"}

\* The state variables keep the shape of the code's types; a handler that has
\* been polled has a ticket.
TypeOK ==
  /\ next_ticket \in Nat
  /\ now_serving \in Nat
  /\ abandoned \subseteq Nat
  /\ abandoned_lock \in Edits \cup {Nobody}
  /\ holder \in Edits \cup {Nobody}
  /\ waiters \subseteq Handlers
  /\ pc \in [Handlers -> EditLabels \cup RequestLabels]
  /\ \A e \in Edits : pc[e] \in EditLabels
  /\ \A r \in Requests : pc[r] \in RequestLabels
  /\ ticket \in [Edits -> Nat \cup {-1}]
  /\ \A e \in Edits : pc[e] # "unsent" => ticket[e] \in Nat
  /\ target \in [Requests -> Nat]
  /\ admitted \subseteq Requests
  /\ stalled \subseteq Requests
  /\ applied \subseteq Edits
  /\ preceding \in [Requests -> SUBSET Edits]

\* At most one document-sync handler is between the grant and the hand-over of
\* the turn, whatever the order in which the executor resumes the handlers.
TurnExclusive ==
  \A d, e \in Edits : pc[d] \in InTurn /\ pc[e] \in InTurn => d = e

\* The holder slot is never left over from a turn that has been handed on: it
\* is empty or names the handler the sequence stands at, although it is written
\* and cleared apart from now_serving.
HolderIsServed ==
  holder # Nobody => pc[holder] \in {"turn", "release"} /\ ticket[holder] = now_serving

\* The sequence never stands at a number nobody will release (issue #1657):
\* the ticket being served belongs to a handler that is waiting or in its turn,
\* or a handler is about to drain it.
NeverWedged ==
  now_serving < next_ticket =>
    \/ \E e \in Edits : ticket[e] = now_serving /\ pc[e] \in Waiting \cup InTurn
    \/ \E e \in Edits : pc[e] \in {"drain", "test", "step"}

\* No wake-up is lost between the read of now_serving and the await: a waiter
\* parked although its number has come up is about to be notified.
NoLostWakeup ==
  \A p \in waiters :
    pc[p] = "parked" /\ TurnReached(p) =>
      \E e \in Edits : pc[e] \in {"drain", "test", "step", "notify"}

\* A request that reads documents reads them after every notification that was
\* received before it took effect or was abandoned, even if the request queued
\* for a permit in between.
ReadsFollowEarlierEdits ==
  \A r \in Requests :
    pc[r] \in {"serve", "readmit"} =>
      \A e \in preceding[r] : e \in applied \/ pc[e] \in Handed

\* At most MaxPermits requests are at work at a time, and a request at work
\* holds a permit.
PermitsRespected ==
  /\ Cardinality(admitted) <= MaxPermits
  /\ \A r \in Requests :
       pc[r] \notin {"unsent", "admit", "readmit", "done"} => r \in admitted

\* The argument behind these invariants, in one inductive statement about the
\* numbers: every number drawn and not yet passed has one owner; a waiter's
\* number is not passed, the number of the handler in its turn is being served,
\* and the number of one that has finished is passed, abandoned or just being
\* stepped over; and an abandoned number at the head is about to be drained.
Numbered ==
  /\ now_serving <= next_ticket
  /\ \A e \in Edits : IF pc[e] = "unsent" THEN ticket[e] = -1
                                          ELSE ticket[e] \in 0 .. next_ticket - 1
  /\ \A d, e \in Edits : ticket[d] = ticket[e] /\ pc[d] # "unsent" => d = e
  /\ \A t \in 0 .. next_ticket - 1 : \E e \in Edits : ticket[e] = t

Queued ==
  \A e \in Edits :
    /\ pc[e] \in Waiting => ticket[e] >= now_serving
    /\ pc[e] \in InTurn => ticket[e] = now_serving
    /\ pc[e] \in Handed =>
         \/ ticket[e] < now_serving
         \/ ticket[e] \in abandoned
         \/ ticket[e] = now_serving /\ \E d \in Edits : pc[d] = "step"

Drained ==
  /\ \A t \in abandoned :
       t >= now_serving /\ \E e \in Edits : ticket[e] = t /\ pc[e] \in Handed
  /\ \A e \in Edits : pc[e] \in {"test", "step"} <=> abandoned_lock = e
  /\ \A e \in Edits : pc[e] = "step" =>
       /\ now_serving \notin abandoned
       /\ \E d \in Edits : ticket[d] = now_serving /\ pc[d] \in Handed
  /\ now_serving \in abandoned => \E e \in Edits : pc[e] \in {"drain", "test"}

SequenceInv == Numbered /\ Queued /\ Drained

\* Every notification is eventually accounted for: nothing stops the sequence.
EditsSettle ==
  \A e \in Edits : pc[e] = "register" ~> pc[e] = "done"

\* Every request is eventually answered: the edits it waits for end, and so do
\* the requests that hold the permits it waits for.
RequestsAnswered ==
  \A r \in Requests : pc[r] = "admit" ~> pc[r] = "done"

\* The refinement mapping: what became of an edit, and where a request stands.
Fate(e) ==
  CASE pc[e] = "unsent" -> "unsent"
    [] e \in applied -> "applied"
    [] e \notin applied /\ pc[e] \in Waiting \cup {"granted", "turn"} -> "pending"
    [] OTHER -> "skipped"

Reader(r) ==
  CASE pc[r] = "unsent" -> "unsent"
    [] pc[r] = "done" -> "gone"
    [] pc[r] \in {"serve", "readmit"} -> "reading"
    [] OTHER -> "waiting"

Sequence == INSTANCE EditSequence WITH
  fate <- [e \in Edits |-> Fate(e)],
  rank <- [e \in Edits |-> IF pc[e] = "unsent" THEN 0 ELSE ticket[e]],
  received <- next_ticket,
  seen <- preceding,
  reader <- [r \in Requests |-> Reader(r)]

\* The ticket barrier implements the abstract sequence of edits: edits take
\* effect in the order their tickets were drawn, and a request reads only when
\* the edits received before it are accounted for.
ImplementsSequence == Sequence!Spec
=============================================================================
