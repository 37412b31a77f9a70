--------------------------- MODULE DiagPublisher ---------------------------
(***************************************************************************)
(* The persistent diagnostics publisher of tcl-lsp-server (struct          *)
(* DiagnosticPublisher): a mailbox with at most one pending set per        *)
(* document, filled by the diagnostics runs and by the spec-pack loader,   *)
(* drained by one task that sends to the client.                           *)
(*                                                                         *)
(* A set is two layers: what the analyser found (known by the producer     *)
(* that ran it; None when the producer has no findings of its own) and the *)
(* pack-load notices standing on the document (known by a version).  Each  *)
(* producer makes one publication: a diagnostics run makes it holding      *)
(* `documents`, a pack reload holding spec_pack_reload.  Which documents   *)
(* are open is fixed.  A step is one critical section, one atomic          *)
(* operation or one await.                                                 *)
(***************************************************************************)
EXTENDS Naturals, Sequences, SequencesExt

CONSTANTS Producers, Uris, None,
          Open,        \* the documents the editor has open
          MaxReloads   \* bound: pack reloads that move a document's notices

VARIABLES
  pending,    \* DiagnosticMailboxState::pending
  order,      \* DiagnosticMailboxState::order
  notices,    \* pack_notices, as a version per document
  permit,     \* the permit stored in `ready` (tokio::sync::Notify)
  started,    \* DiagnosticPublisher::started
  consumer,   \* the publisher task: its step and the set it is sending
  producer,   \* each producer: its step and its set
  receipt,    \* the outcome each producer's receipt carries
  client,     \* the set the client has for each document
  documents,  \* who holds the `documents` lock
  reload,     \* who holds spec_pack_reload
  commits     \* history: sets deposited so far

locks == <<documents, reload>>
vars == <<pending, order, notices, permit, started, consumer, producer, receipt, client, locks,
          commits>>

Sets == [uri : Uris, by : Producers, analysed : Producers \cup {None},
         notices : 0 .. MaxReloads, commit : Nat]

ASSUME PublisherAssumption ==
  /\ None \notin Producers \cup Uris \cup Sets
  /\ Open \subseteq Uris /\ MaxReloads \in Nat

Init ==
  /\ pending = [u \in Uris |-> None]
  /\ order = <<>>
  /\ notices = [u \in Uris |-> 0]
  /\ permit = FALSE
  /\ started = FALSE
  /\ consumer = [pc |-> "unborn", set |-> None]
  /\ producer = [p \in Producers |-> [pc |-> "idle", uri |-> None, set |-> None]]
  /\ receipt = [p \in Producers |-> "open"]
  /\ client = [u \in Uris |-> None]
  /\ documents = None /\ reload = None
  /\ commits = 0

-----------------------------------------------------------------------------
(* Producers.                                                              *)

\* with_pack_notices: the set is assembled before the mailbox is locked.
Assembled(p, u, analysed) ==
  [uri |-> u, by |-> p, analysed |-> analysed, notices |-> notices[u], commit |-> 0]

\* Mutant: the set is assembled before `documents` is taken.
AssembleRunUnlocked(p, u) ==
  /\ producer[p].pc = "idle" \/ (producer[p].pc = "rerun" /\ u = producer[p].uri)
  /\ producer' = [producer EXCEPT ![p] = [pc |-> "deposit", uri |-> u,
                                          set |-> Assembled(p, u, p)]]
  /\ UNCHANGED <<pending, order, notices, permit, started, consumer, receipt, client, locks,
                 commits>>

\* A diagnostics run delivers: cache_and_enqueue, or the fast tier.
AssembleRun(p, u) ==
  /\ producer[p].pc = "idle" \/ (producer[p].pc = "rerun" /\ u = producer[p].uri)
  /\ documents = None
  /\ documents' = p
  /\ producer' = [producer EXCEPT ![p] = [pc |-> "deposit", uri |-> u,
                                          set |-> Assembled(p, u, p)]]
  /\ UNCHANGED <<pending, order, notices, permit, started, consumer, receipt, client, reload,
                 commits>>

\* A pack reload moves the notices of one document: set_pack_notices.
SetNotices(p, u) ==
  /\ producer[p].pc = "idle"
  /\ reload = None /\ notices[u] < MaxReloads
  /\ reload' = p
  /\ notices' = [notices EXCEPT ![u] = @ + 1]
  /\ producer' = [producer EXCEPT ![p] = [pc |-> "look_up", uri |-> u, set |-> None]]
  /\ UNCHANGED <<pending, order, permit, started, consumer, receipt, client, documents, commits>>

\* publish_spec_pack_notices looks the document up.  An open one is
\* rescheduled, and its next run assembles both layers ...
LookUp(p) ==
  /\ producer[p].pc = "look_up"
  /\ documents = None
  /\ \/ /\ producer[p].uri \in Open
        /\ producer' = [producer EXCEPT ![p].pc = "rerun"]
        /\ reload' = None
     \/ /\ producer[p].uri \notin Open
        /\ producer' = [producer EXCEPT ![p].pc = "assemble"]
        /\ UNCHANGED reload
  /\ UNCHANGED <<pending, order, notices, permit, started, consumer, receipt, client, documents,
                 commits>>

\* ... any other is published here, with an empty analysed layer.
AssembleNotices(p) ==
  /\ producer[p].pc = "assemble"
  /\ producer' = [producer EXCEPT ![p].pc = "deposit",
                                  ![p].set = Assembled(p, producer[p].uri, None)]
  /\ UNCHANGED <<pending, order, notices, permit, started, consumer, receipt, client, locks,
                 commits>>

\* Mutant: the replaced set keeps its old place as well.
OrderWithoutRetain(u) == Append(order, u)

\* Replacing a document's set moves it to the tail: `retain` drops the one
\* place it had (MailboxAgrees).
PlaceOf(u) == CHOOSE i \in DOMAIN order : order[i] = u
OrderAfter(u) == Append(IF pending[u] = None THEN order ELSE RemoveAt(order, PlaceOf(u)), u)

\* Mutant: the set being sent is settled along with the replaced one.
SupersedesInFlight(u) ==
  [p \in Producers |->
     IF \E s \in {pending[u], consumer.set} \ {None} : s.uri = u /\ s.by = p
       THEN "superseded" ELSE receipt[p]]

\* A replaced set is settled as superseded.
ReceiptsAfter(u) ==
  IF pending[u] = None THEN receipt ELSE [receipt EXCEPT ![pending[u].by] = "superseded"]

\* Mutant: a set already in the mailbox keeps its place.
DepositKeepsFirst(p) ==
  /\ producer[p].pc = "deposit"
  /\ LET u == producer[p].uri IN
     IF pending[u] # None
       THEN receipt' = [receipt EXCEPT ![p] = "superseded"] /\ UNCHANGED <<pending, order>>
       ELSE /\ pending' = [pending EXCEPT ![u] = [producer[p].set EXCEPT !.commit = commits + 1]]
            /\ order' = Append(order, u)
            /\ UNCHANGED receipt
  /\ commits' = commits + 1
  /\ producer' = [producer EXCEPT ![p].pc = "start"]
  /\ UNCHANGED <<notices, permit, started, consumer, client, locks>>

\* The locked section of enqueue_assembled.
Deposit(p) ==
  /\ producer[p].pc = "deposit"
  /\ LET u == producer[p].uri IN
     /\ receipt' = ReceiptsAfter(u)
     /\ pending' = [pending EXCEPT ![u] = [producer[p].set EXCEPT !.commit = commits + 1]]
     /\ order' = OrderAfter(u)
  /\ commits' = commits + 1
  /\ producer' = [producer EXCEPT ![p].pc = "start"]
  /\ UNCHANGED <<notices, permit, started, consumer, client, locks>>

\* ensure_started: the first producer spawns the publisher task.
EnsureStarted(p) ==
  /\ producer[p].pc = "start"
  /\ started' = TRUE
  /\ consumer' = IF started THEN consumer ELSE [consumer EXCEPT !.pc = "pop"]
  /\ producer' = [producer EXCEPT ![p].pc = "notify"]
  /\ UNCHANGED <<pending, order, notices, permit, receipt, client, locks, commits>>

\* The producer goes on: a run lets go of `documents`, a pack reload waits for
\* the receipt.
Notified(p) ==
  /\ documents' = IF documents = p THEN None ELSE documents
  /\ producer' = [producer EXCEPT ![p].pc = IF reload = p THEN "receipt" ELSE "done"]

\* Mutant: only a parked task is woken; the permit is not kept.
NotifyParkedOnly(p) ==
  /\ producer[p].pc = "notify"
  /\ consumer' = IF consumer.pc = "parked" THEN [consumer EXCEPT !.pc = "pop"] ELSE consumer
  /\ Notified(p)
  /\ UNCHANGED <<pending, order, notices, permit, started, receipt, client, reload, commits>>

\* ready.notify_one(): a parked task is woken, otherwise the permit is kept.
Notify(p) ==
  /\ producer[p].pc = "notify"
  /\ IF consumer.pc = "parked"
       THEN consumer' = [consumer EXCEPT !.pc = "pop"] /\ UNCHANGED permit
       ELSE permit' = TRUE /\ UNCHANGED consumer
  /\ Notified(p)
  /\ UNCHANGED <<pending, order, notices, started, receipt, client, reload, commits>>

\* The receipt arrives, and the reload ends.
ReceiptArrives(p) ==
  /\ producer[p].pc = "receipt"
  /\ receipt[p] # "open"
  /\ reload' = None
  /\ producer' = [producer EXCEPT ![p].pc = "done"]
  /\ UNCHANGED <<pending, order, notices, permit, started, consumer, receipt, client, documents,
                 commits>>

-----------------------------------------------------------------------------
(* The publisher task.                                                     *)

\* pop, whose skipping of an entry without a set never happens (MailboxAgrees).
Pop ==
  /\ consumer.pc = "pop"
  /\ IF order = <<>>
       THEN consumer' = [consumer EXCEPT !.pc = "await"] /\ UNCHANGED <<pending, order>>
       ELSE /\ order' = Tail(order)
            /\ consumer' = [pc |-> "send", set |-> pending[Head(order)]]
            /\ pending' = [pending EXCEPT ![Head(order)] = None]
  /\ UNCHANGED <<notices, permit, started, producer, receipt, client, locks, commits>>

\* ready.await: a stored permit is consumed, otherwise the task parks.
Await ==
  /\ consumer.pc = "await"
  /\ permit' = FALSE
  /\ consumer' = [consumer EXCEPT !.pc = IF permit THEN "pop" ELSE "parked"]
  /\ UNCHANGED <<pending, order, notices, started, producer, receipt, client, locks, commits>>

\* deliver_diagnostics returns and the receipt is settled.
Send ==
  /\ consumer.pc = "send"
  /\ client' = [client EXCEPT ![consumer.set.uri] = consumer.set]
  /\ receipt' = [receipt EXCEPT ![consumer.set.by] = "delivered"]
  /\ consumer' = [pc |-> "pop", set |-> None]
  /\ UNCHANGED <<pending, order, notices, permit, started, producer, locks, commits>>

-----------------------------------------------------------------------------

ProducerStep(p) ==
  \/ LookUp(p) \/ AssembleNotices(p)
  \/ producer[p].pc = "rerun" /\ AssembleRun(p, producer[p].uri)
  \/ Deposit(p) \/ EnsureStarted(p) \/ Notify(p) \/ ReceiptArrives(p)

ConsumerStep == Pop \/ Await \/ Send

Next ==
  \/ \E p \in Producers :
       \/ \E u \in Uris : (producer[p].pc = "idle" /\ AssembleRun(p, u)) \/ SetNotices(p, u)
       \/ ProducerStep(p)
  \/ ConsumerStep

Spec == Init /\ [][Next]_vars

\* A producer past its first step finishes, and the client keeps reading.
FairSpec == Spec /\ WF_vars(ConsumerStep) /\ \A p \in Producers : WF_vars(ProducerStep(p))

-----------------------------------------------------------------------------
(* Properties.                                                             *)

\* The state variables keep the shape of the code's types.
TypeOK ==
  /\ pending \in [Uris -> Sets \cup {None}]
  /\ order \in Seq(Uris)
  /\ notices \in [Uris -> 0 .. MaxReloads]
  /\ permit \in BOOLEAN /\ started \in BOOLEAN
  /\ consumer \in [pc : {"unborn", "pop", "await", "parked", "send"}, set : Sets \cup {None}]
  /\ producer \in [Producers -> [pc : {"idle", "look_up", "rerun", "assemble", "deposit", "start",
                                       "notify", "receipt", "done"},
                                 uri : Uris \cup {None}, set : Sets \cup {None}]]
  /\ receipt \in [Producers -> {"open", "delivered", "superseded"}]
  /\ client \in [Uris -> Sets \cup {None}]
  /\ documents \in Producers \cup {None} /\ reload \in Producers \cup {None}
  /\ commits \in Nat

\* The mailbox is bounded: one place in the order for each pending set, and
\* none without one.
MailboxAgrees ==
  /\ IsInjective(order)
  /\ \A u \in Uris :
       /\ pending[u] # None <=> \E i \in DOMAIN order : order[i] = u
       /\ pending[u] # None => pending[u].uri = u

\* A receipt tells the truth: what the client has was reported delivered, and a
\* superseded set is neither waiting, nor in flight, nor shown.
ReceiptsAreHonest ==
  \A p \in Producers :
    LET held == {client[u] : u \in Uris} \cup {pending[u] : u \in Uris} \cup {consumer.set} IN
    /\ receipt[p] = "superseded" => \A s \in held \ {None} : s.by # p
    /\ \A u \in Uris : client[u] # None /\ client[u].by = p => receipt[p] = "delivered"

CommitOf(s) == IF s = None THEN 0 ELSE s.commit
Latest(u) ==
  IF pending[u] # None THEN pending[u].commit
  ELSE IF consumer.set # None /\ consumer.set.uri = u THEN consumer.set.commit
  ELSE CommitOf(client[u])

Abstract == INSTANCE LatestWins WITH
  committed <- [u \in Uris |-> Latest(u)],
  shown <- [u \in Uris |-> CommitOf(client[u])]

\* The publisher implements latest-wins delivery: no document ever goes back to
\* an older set, whatever is replaced while the client is slow.
ImplementsLatestWins == Abstract!Spec

\* Every publication is settled one way or the other, and the last set
\* committed for each document is the one the client ends up with.
EverySetSettles ==
  /\ \A p \in Producers : producer[p].pc = "start" ~> receipt[p] # "open"
  /\ <>[](order = <<>> /\ consumer.set = None)

Quiet == order = <<>> /\ consumer.set = None /\ \A p \in Producers : producer[p].pc \in {"idle", "done"}

\* When all is quiet, what the client shows carries the standing notices: no
\* run's older view of them is delivered last.
NoticesSurvive ==
  Quiet => \A u \in Uris : client[u] # None => client[u].notices = notices[u]

\* "whichever producer moved last, the other's findings survive it": when all is
\* quiet, a document that was run on still shows a run's findings.
FindingsSurvive ==
  Quiet => \A p \in Producers :
             producer[p].pc = "done" /\ producer[p].set.analysed # None
               => client[producer[p].uri].analysed # None
=============================================================================
