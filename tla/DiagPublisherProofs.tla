------------------------ MODULE DiagPublisherProofs ------------------------
(***************************************************************************)
(* The diagnostics publisher for any number of producers, documents and    *)
(* reloads.  Five facts make one inductive invariant with the types and    *)
(* the mailbox's agreement:                                                *)
(*                                                                         *)
(* Born     the task has taken no step before it is started;               *)
(* Owned    a set that waits or is in flight is its producer's only one,   *)
(*          and its receipt is open;                                       *)
(* Ordered  for one document the client's set, the set in flight and the   *)
(*          pending one carry increasing commit numbers;                   *)
(* Locked   who holds `documents` and spec_pack_reload at which step;      *)
(* Fresh    as long as the last set deposited for a document has old       *)
(*          notices, some producer is still to deposit a newer one.        *)
(***************************************************************************)
EXTENDS DiagPublisher, SequenceTheorems, TLAPS

\* The producer has not deposited its set.
Before == {"idle", "look_up", "rerun", "assemble", "deposit"}

Owned ==
  /\ consumer.pc = "send" <=> consumer.set # None
  /\ \A p \in Producers :
       /\ producer[p].pc \in Before =>
            /\ receipt[p] = "open"
            /\ \A u \in Uris : pending[u] # None => pending[u].by # p
            /\ consumer.set # None => consumer.set.by # p
       /\ producer[p].pc = "deposit" =>
            producer[p].set # None /\ producer[p].set.by = p /\ producer[p].set.uri = producer[p].uri
       /\ producer[p].pc # "idle" => producer[p].uri \in Uris
  /\ \A u \in Uris :
       /\ pending[u] # None => receipt[pending[u].by] = "open"
       /\ client[u] # None => receipt[client[u].by] = "delivered"
       /\ pending[u] # None /\ consumer.set # None => pending[u].by # consumer.set.by
       /\ \A v \in Uris : pending[u] # None /\ pending[v] # None /\ pending[u].by = pending[v].by
                            => u = v
  /\ consumer.set # None => receipt[consumer.set.by] = "open"

Ordered ==
  \A u \in Uris :
    /\ CommitOf(client[u]) <= commits
    /\ pending[u] # None => CommitOf(client[u]) < pending[u].commit /\ pending[u].commit <= commits
    /\ consumer.set # None /\ consumer.set.uri = u =>
         /\ CommitOf(client[u]) < consumer.set.commit /\ consumer.set.commit <= commits
         /\ pending[u] # None => consumer.set.commit < pending[u].commit

\* The task exists from the first start on.
Born == ~started => consumer.pc = "unborn"

Locked ==
  \A p \in Producers :
    /\ producer[p].pc \in {"look_up", "assemble", "receipt"} => reload = p
    /\ producer[p].pc \in {"deposit", "start", "notify"} => documents = p \/ reload = p

\* The set that was deposited last for u.
LastSet(u) ==
  IF pending[u] # None THEN pending[u]
  ELSE IF consumer.set # None /\ consumer.set.uri = u THEN consumer.set
  ELSE client[u]

\* p is still to deposit a set for u with the notices of the moment.
Refreshes(p, u) ==
  /\ producer[p].uri = u
  /\ \/ producer[p].pc \in {"look_up", "rerun", "assemble"}
     \/ producer[p].pc = "deposit" /\ producer[p].set.notices = notices[u]

Fresh ==
  /\ \A q \in Producers : producer[q].pc = "deposit" =>
       \/ producer[q].set.notices = notices[producer[q].uri]
       \/ \E p \in Producers : producer[p].pc = "look_up" /\ producer[p].uri = producer[q].uri
  /\ \A u \in Uris :
       LastSet(u) # None /\ LastSet(u).notices # notices[u] => \E p \in Producers : Refreshes(p, u)

PublisherInv == TypeOK /\ MailboxAgrees /\ Born /\ Owned /\ Ordered /\ Locked /\ Fresh

-----------------------------------------------------------------------------
(* Sequences without repetition.                                           *)

Holds(s, x) == \E i \in DOMAIN s : s[i] = x

\* Taking one place out of a sequence without repetition.
LEMMA RemoveOne ==
  ASSUME NEW S, NEW s \in Seq(S), IsInjective(s), NEW i \in DOMAIN s
  PROVE  /\ RemoveAt(s, i) \in Seq(S) /\ IsInjective(RemoveAt(s, i))
         /\ \A x : Holds(RemoveAt(s, i), x) <=> Holds(s, x) /\ x # s[i]
<1> DEFINE r == RemoveAt(s, i)
<1>1. i \in 1 .. Len(s) /\ DOMAIN s = 1 .. Len(s) /\ Len(s) \in Nat
  BY LenProperties
<1>2. /\ r \in Seq(S) /\ Len(r) = Len(s) - 1
      /\ \A j \in 1 .. Len(r) : r[j] = IF j < i THEN s[j] ELSE s[j + 1]
  <2>1. /\ SubSeq(s, 1, i - 1) \in Seq(S) /\ Len(SubSeq(s, 1, i - 1)) = i - 1
        /\ \A j \in 1 .. i - 1 : SubSeq(s, 1, i - 1)[j] = s[j]
    BY <1>1
  <2>2. /\ SubSeq(s, i + 1, Len(s)) \in Seq(S) /\ Len(SubSeq(s, i + 1, Len(s))) = Len(s) - i
        /\ \A j \in 1 .. Len(s) - i : SubSeq(s, i + 1, Len(s))[j] = s[i + j]
    BY <1>1
  <2>3. r = SubSeq(s, 1, i - 1) \o SubSeq(s, i + 1, Len(s))
    BY DEF RemoveAt
  <2> DEFINE a == SubSeq(s, 1, i - 1)  b == SubSeq(s, i + 1, Len(s))
  <2>a. /\ a \in Seq(S) /\ Len(a) = i - 1 /\ \A j \in 1 .. i - 1 : a[j] = s[j]
        /\ b \in Seq(S) /\ Len(b) = Len(s) - i /\ \A j \in 1 .. Len(s) - i : b[j] = s[i + j]
        /\ r = a \o b
    BY <2>1, <2>2, <2>3
  <2> HIDE DEF r, a, b
  <2>4. /\ r \in Seq(S) /\ Len(r) = (i - 1) + (Len(s) - i)
        /\ \A j \in 1 .. Len(r) : r[j] = IF j <= i - 1 THEN a[j] ELSE b[j - (i - 1)]
    <3>1. /\ a \o b \in Seq(S) /\ Len(a \o b) = Len(a) + Len(b)
          /\ \A j \in 1 .. Len(a) + Len(b) : (a \o b)[j] = IF j <= Len(a) THEN a[j] ELSE b[j - Len(a)]
      BY <2>a, ConcatProperties
    <3> QED BY <2>a, <3>1
  <2>5. ASSUME NEW j \in 1 .. Len(r) PROVE r[j] = IF j < i THEN s[j] ELSE s[j + 1]
    <3>1. CASE j < i
      BY <1>1, <2>a, <2>4, <3>1
    <3>2. CASE j >= i
      <4>1. j - (i - 1) \in 1 .. Len(s) - i
        BY <1>1, <2>4, <3>2
      <4>2. r[j] = b[j - (i - 1)] /\ b[j - (i - 1)] = s[i + (j - (i - 1))]
        BY <1>1, <2>a, <2>4, <3>2, <4>1
      <4>3. i + (j - (i - 1)) = j + 1
        BY <1>1, <2>4
      <4> QED BY <1>1, <2>4, <3>2, <4>2, <4>3
    <3> QED BY <1>1, <3>1, <3>2
  <2> QED BY <1>1, <2>4, <2>5
<1>3. DOMAIN r = 1 .. Len(s) - 1
  BY <1>2, LenProperties
<1> HIDE DEF r
<1>4. IsInjective(r)
  <2> SUFFICES ASSUME NEW j \in DOMAIN r, NEW k \in DOMAIN r, r[j] = r[k] PROVE j = k
    BY DEF IsInjective
  <2> DEFINE at(n) == IF n < i THEN n ELSE n + 1
  <2>1. at(j) \in DOMAIN s /\ at(k) \in DOMAIN s /\ s[at(j)] = s[at(k)]
    BY <1>1, <1>2, <1>3
  <2>2. at(j) = at(k)
    BY <2>1 DEF IsInjective
  <2> QED BY <1>1, <1>3, <2>2
<1>5. ASSUME NEW x, Holds(r, x) PROVE Holds(s, x) /\ x # s[i]
  BY <1>1, <1>2, <1>3, <1>5 DEF Holds, IsInjective
<1>6. ASSUME NEW x, Holds(s, x), x # s[i] PROVE Holds(r, x)
  <2>1. PICK j \in 1 .. Len(s) : s[j] = x
    BY <1>1, <1>6 DEF Holds
  <2>2. CASE j < i
    BY <1>1, <1>2, <1>3, <2>1, <2>2 DEF Holds
  <2>3. CASE j > i
    <3>1. j - 1 \in 1 .. Len(s) - 1 /\ r[j - 1] = x
      BY <1>1, <1>2, <2>1, <2>3
    <3> QED BY <1>3, <3>1 DEF Holds
  <2> QED BY <1>1, <1>6, <2>1, <2>2, <2>3
<1> QED BY <1>2, <1>4, <1>5, <1>6 DEF r

\* Putting a new element at the end.
LEMMA AppendOne ==
  ASSUME NEW S, NEW s \in Seq(S), IsInjective(s), NEW e \in S, ~Holds(s, e)
  PROVE  /\ Append(s, e) \in Seq(S) /\ IsInjective(Append(s, e))
         /\ \A x : Holds(Append(s, e), x) <=> Holds(s, x) \/ x = e
<1> DEFINE r == Append(s, e)
<1>1. /\ r \in Seq(S) /\ Len(r) = Len(s) + 1 /\ r[Len(s) + 1] = e
      /\ \A i \in 1 .. Len(s) : r[i] = s[i]
  BY AppendProperties
<1>2. DOMAIN s = 1 .. Len(s) /\ DOMAIN r = 1 .. Len(s) + 1 /\ Len(s) \in Nat
  BY <1>1, LenProperties
<1> HIDE DEF r
<1>3. IsInjective(r)
  BY <1>1, <1>2 DEF IsInjective, Holds
<1>4. ASSUME NEW x PROVE Holds(r, x) <=> Holds(s, x) \/ x = e
  <2>1. ASSUME Holds(s, x) PROVE Holds(r, x)
    BY <1>1, <1>2, <2>1 DEF Holds
  <2>2. Len(s) + 1 \in DOMAIN r
    BY <1>2
  <2> QED BY <1>1, <1>2, <2>1, <2>2 DEF Holds
<1> QED BY <1>1, <1>3, <1>4 DEF r

\* Taking the first element.
LEMMA TailOne ==
  ASSUME NEW S, NEW s \in Seq(S), IsInjective(s), s # <<>>
  PROVE  /\ Tail(s) \in Seq(S) /\ IsInjective(Tail(s)) /\ Holds(s, Head(s)) /\ Head(s) \in S
         /\ \A x : Holds(Tail(s), x) <=> Holds(s, x) /\ x # Head(s)
<1> DEFINE r == Tail(s)
<1>1. /\ r \in Seq(S) /\ Len(r) = Len(s) - 1 /\ Head(s) \in S
      /\ \A i \in 1 .. Len(r) : r[i] = s[i + 1]
  BY HeadTailProperties
<1>2. /\ DOMAIN s = 1 .. Len(s) /\ DOMAIN r = 1 .. Len(s) - 1 /\ Len(s) \in Nat \ {0}
      /\ Head(s) = s[1]
  BY <1>1, LenProperties, EmptySeq
<1> HIDE DEF r
<1>3. IsInjective(r)
  BY <1>1, <1>2 DEF IsInjective
<1>4. ASSUME NEW x PROVE Holds(r, x) <=> Holds(s, x) /\ x # Head(s)
  <2>1. ASSUME Holds(s, x), x # Head(s) PROVE Holds(r, x)
    <3>1. PICK i \in 1 .. Len(s) : s[i] = x
      BY <1>2, <2>1 DEF Holds
    <3>2. i - 1 \in 1 .. Len(s) - 1 /\ r[i - 1] = x
      BY <1>1, <1>2, <2>1, <3>1
    <3> QED BY <1>2, <3>2 DEF Holds
  <2>2. ASSUME Holds(r, x) PROVE Holds(s, x) /\ x # Head(s)
    BY <1>1, <1>2, <2>2 DEF Holds, IsInjective
  <2> QED BY <2>1, <2>2
<1> QED BY <1>1, <1>2, <1>3, <1>4 DEF r, Holds

\* The mailbox's invariant in terms of membership.
LEMMA MailboxHolds ==
  MailboxAgrees <=> /\ IsInjective(order)
                    /\ \A u \in Uris : /\ pending[u] # None <=> Holds(order, u)
                                       /\ pending[u] # None => pending[u].uri = u
BY DEF MailboxAgrees, Holds

\* What `retain` and push_back do to the order.
LEMMA OrderAfterDeposit ==
  ASSUME TypeOK, MailboxAgrees, NEW u \in Uris
  PROVE  /\ OrderAfter(u) \in Seq(Uris) /\ IsInjective(OrderAfter(u))
         /\ \A x : Holds(OrderAfter(u), x) <=> Holds(order, x) \/ x = u
<1>1. order \in Seq(Uris)
  BY DEF TypeOK
<1>2. CASE pending[u] = None
  BY <1>1, <1>2, MailboxHolds, AppendOne DEF OrderAfter
<1>3. CASE pending[u] # None
  <2>1. PlaceOf(u) \in DOMAIN order /\ order[PlaceOf(u)] = u
    BY <1>3, MailboxHolds DEF Holds, PlaceOf
  <2> DEFINE r == RemoveAt(order, PlaceOf(u))
  <2>2. r \in Seq(Uris) /\ IsInjective(r) /\ \A x : Holds(r, x) <=> Holds(order, x) /\ x # u
    BY <1>1, <2>1, MailboxHolds, RemoveOne
  <2>3. OrderAfter(u) = Append(r, u)
    BY <1>3 DEF OrderAfter
  <2> HIDE DEF r
  <2>4. Holds(order, u)
    BY <2>1 DEF Holds
  <2> QED BY <2>2, <2>3, <2>4, AppendOne
<1> QED BY <1>2, <1>3

-----------------------------------------------------------------------------
(* What each step does.                                                    *)

\* The fields of a set.
LEMMA SetFields ==
  ASSUME NEW s \in Sets
  PROVE  /\ s # None /\ s.uri \in Uris /\ s.by \in Producers
         /\ s.notices \in 0 .. MaxReloads /\ s.commit \in Nat
BY PublisherAssumption DEF Sets

\* A set that is given its commit number is otherwise the same.
LEMMA Stamped ==
  ASSUME NEW s \in Sets, NEW n \in Nat
  PROVE  LET r == [s EXCEPT !.commit = n] IN
         r \in Sets /\ r.uri = s.uri /\ r.by = s.by /\ r.notices = s.notices /\ r.commit = n
BY DEF Sets

\* A set is assembled with the notices of the moment.
LEMMA AssembledSet ==
  ASSUME TypeOK, NEW p \in Producers, NEW u \in Uris, NEW a \in Producers \cup {None}
  PROVE  LET s == Assembled(p, u, a) IN
         s \in Sets /\ s.uri = u /\ s.by = p /\ s.notices = notices[u]
BY DEF TypeOK, Assembled, Sets

\* No producer but p takes a step.
OnlyMoves(p) == \A q \in Producers \ {p} : producer'[q] = producer[q]

\* A run takes `documents` and assembles its set.
LEMMA AssembleRunEffect ==
  ASSUME TypeOK, NEW p \in Producers, NEW u \in Uris, AssembleRun(p, u)
  PROVE  /\ producer[p].pc = "idle" \/ (producer[p].pc = "rerun" /\ producer[p].uri = u)
         /\ producer'[p].pc = "deposit" /\ producer'[p].uri = u /\ producer'[p].set \in Sets
         /\ producer'[p].set.uri = u /\ producer'[p].set.by = p
         /\ producer'[p].set.notices = notices[u]
         /\ OnlyMoves(p) /\ documents = None /\ documents' = p
         /\ UNCHANGED <<pending, order, notices, consumer, receipt, client, reload, commits>>
<1>1. producer' = [producer EXCEPT ![p] = [pc |-> "deposit", uri |-> u, set |-> Assembled(p, u, p)]]
  BY DEF AssembleRun
<1>2. producer'[p] = [pc |-> "deposit", uri |-> u, set |-> Assembled(p, u, p)] /\ OnlyMoves(p)
  BY <1>1 DEF TypeOK, OnlyMoves
<1>3. producer'[p].pc = "deposit" /\ producer'[p].uri = u /\ producer'[p].set = Assembled(p, u, p)
  BY <1>2
<1> QED BY <1>2, <1>3, AssembledSet DEF AssembleRun

\* A reload takes its lock and moves the notices.
LEMMA SetNoticesEffect ==
  ASSUME TypeOK, NEW p \in Producers, NEW u \in Uris, SetNotices(p, u)
  PROVE  /\ producer[p].pc = "idle" /\ producer'[p].pc = "look_up" /\ producer'[p].uri = u
         /\ OnlyMoves(p) /\ reload = None /\ reload' = p
         /\ \A v \in Uris \ {u} : notices'[v] = notices[v]
         /\ UNCHANGED <<pending, order, consumer, receipt, client, documents, commits>>
BY DEF SetNotices, TypeOK, OnlyMoves

\* The reload looks the document up while nobody holds `documents`.
LEMMA LookUpEffect ==
  ASSUME TypeOK, NEW p \in Producers, LookUp(p)
  PROVE  /\ producer[p].pc = "look_up" /\ producer'[p].pc \in {"rerun", "assemble"}
         /\ producer'[p].uri = producer[p].uri
         /\ OnlyMoves(p) /\ documents = None
         /\ reload' = IF producer'[p].pc = "rerun" THEN None ELSE reload
         /\ UNCHANGED <<pending, order, notices, consumer, receipt, client, documents, commits>>
<1>1. CASE producer' = [producer EXCEPT ![p].pc = "rerun"] /\ reload' = None
  BY <1>1 DEF LookUp, TypeOK, OnlyMoves
<1>2. CASE producer' = [producer EXCEPT ![p].pc = "assemble"] /\ reload' = reload
  BY <1>2 DEF LookUp, TypeOK, OnlyMoves
<1> QED BY <1>1, <1>2 DEF LookUp

\* The reload assembles the notices of a document that is not open.
LEMMA AssembleNoticesEffect ==
  ASSUME TypeOK, Owned, NEW p \in Producers, AssembleNotices(p)
  PROVE  /\ producer[p].pc = "assemble" /\ producer'[p].pc = "deposit"
         /\ producer'[p].uri = producer[p].uri /\ producer[p].uri \in Uris
         /\ producer'[p].set \in Sets /\ producer'[p].set.uri = producer[p].uri
         /\ producer'[p].set.by = p /\ producer'[p].set.notices = notices[producer[p].uri]
         /\ OnlyMoves(p)
         /\ UNCHANGED <<pending, order, notices, consumer, receipt, client, documents, reload, commits>>
<1> DEFINE u == producer[p].uri
<1>1. u \in Uris /\ producer[p].pc = "assemble"
  BY DEF AssembleNotices, Owned
<1>2. /\ producer'[p].pc = "deposit" /\ producer'[p].uri = u
      /\ producer'[p].set = Assembled(p, u, None) /\ OnlyMoves(p)
  BY DEF AssembleNotices, TypeOK, OnlyMoves
<1> QED BY <1>1, <1>2, AssembledSet DEF AssembleNotices, locks

\* The locked section of enqueue_assembled.
LEMMA DepositEffect ==
  ASSUME TypeOK, Owned, MailboxAgrees, NEW p \in Producers, Deposit(p)
  PROVE  LET u == producer[p].uri IN
         /\ u \in Uris /\ producer[p].pc = "deposit"
         /\ producer'[p].pc = "start" /\ producer'[p].uri = u /\ OnlyMoves(p)
         /\ pending'[u] \in Sets /\ pending'[u].uri = u /\ pending'[u].by = p
         /\ pending'[u].commit = commits + 1 /\ pending'[u].notices = producer[p].set.notices
         /\ \A v \in Uris \ {u} : pending'[v] = pending[v]
         /\ receipt' = ReceiptsAfter(u) /\ commits' = commits + 1
         /\ order' \in Seq(Uris) /\ IsInjective(order')
         /\ \A x : Holds(order', x) <=> Holds(order, x) \/ x = u
         /\ UNCHANGED <<notices, consumer, client, documents, reload>>
<1> DEFINE u == producer[p].uri
<1>1. /\ u \in Uris /\ producer[p].set \in Sets /\ producer[p].pc = "deposit"
      /\ producer[p].set.uri = u /\ producer[p].set.by = p
  BY DEF Deposit, Owned, TypeOK
<1>2. producer'[p].pc = "start" /\ producer'[p].uri = u /\ OnlyMoves(p)
  BY DEF Deposit, TypeOK, OnlyMoves
<1>3. /\ pending'[u] = [producer[p].set EXCEPT !.commit = commits + 1]
      /\ \A v \in Uris \ {u} : pending'[v] = pending[v]
  BY <1>1 DEF Deposit, TypeOK
<1>4. commits + 1 \in Nat
  BY DEF TypeOK
<1>5. order' = OrderAfter(u) /\ receipt' = ReceiptsAfter(u) /\ commits' = commits + 1
  BY DEF Deposit
<1>6. UNCHANGED <<notices, consumer, client, documents, reload>>
  BY DEF Deposit, locks
<1> HIDE DEF u
<1>7. /\ pending'[u] \in Sets /\ pending'[u].uri = u /\ pending'[u].by = p
      /\ pending'[u].commit = commits + 1 /\ pending'[u].notices = producer[p].set.notices
  BY <1>1, <1>3, <1>4, Stamped
<1>8. /\ order' \in Seq(Uris) /\ IsInjective(order')
      /\ \A x : Holds(order', x) <=> Holds(order, x) \/ x = u
  BY <1>1, <1>5, OrderAfterDeposit
<1> QED BY <1>1, <1>2, <1>3, <1>5, <1>6, <1>7, <1>8 DEF u

\* The task is started, notified, or the receipt read: no set moves.
LEMMA EnsureStartedEffect ==
  ASSUME TypeOK, Born, NEW p \in Producers, EnsureStarted(p)
  PROVE  /\ producer[p].pc = "start" /\ producer'[p].pc = "notify"
         /\ producer'[p].uri = producer[p].uri /\ OnlyMoves(p)
         /\ consumer'.set = consumer.set
         /\ (consumer.pc = "send" <=> consumer'.pc = "send")
         /\ UNCHANGED <<pending, order, notices, receipt, client, documents, reload, commits>>
BY DEF EnsureStarted, TypeOK, OnlyMoves, locks, Born

\* The wake-up goes out; a run lets go of `documents`.
LEMMA NotifyEffect ==
  ASSUME TypeOK, NEW p \in Producers, Notify(p)
  PROVE  /\ producer[p].pc = "notify"
         /\ producer'[p].pc = IF reload = p THEN "receipt" ELSE "done"
         /\ producer'[p].uri = producer[p].uri /\ OnlyMoves(p)
         /\ consumer'.set = consumer.set
         /\ consumer'.pc = (IF consumer.pc = "parked" THEN "pop" ELSE consumer.pc)
         /\ documents' = (IF documents = p THEN None ELSE documents)
         /\ UNCHANGED <<pending, order, notices, receipt, client, reload, commits>>
BY DEF Notify, Notified, TypeOK, OnlyMoves

\* The reload reads its receipt and ends.
LEMMA ReceiptArrivesEffect ==
  ASSUME TypeOK, NEW p \in Producers, ReceiptArrives(p)
  PROVE  /\ producer[p].pc = "receipt" /\ producer'[p].pc = "done"
         /\ producer'[p].uri = producer[p].uri /\ OnlyMoves(p) /\ reload' = None
         /\ UNCHANGED <<pending, order, notices, consumer, receipt, client, documents, commits>>
BY DEF ReceiptArrives, TypeOK, OnlyMoves

\* The first set of the mailbox goes to the task.
LEMMA PopEffect ==
  ASSUME TypeOK, Owned, MailboxAgrees, Pop, order # <<>>
  PROVE  LET h == Head(order) IN
         /\ h \in Uris /\ pending[h] \in Sets /\ pending[h].uri = h
         /\ consumer.set = None /\ consumer'.set = pending[h] /\ consumer'.pc = "send"
         /\ pending'[h] = None /\ \A v \in Uris \ {h} : pending'[v] = pending[v]
         /\ order' \in Seq(Uris) /\ IsInjective(order')
         /\ \A x : Holds(order', x) <=> Holds(order, x) /\ x # h
         /\ UNCHANGED <<notices, producer, receipt, client, documents, reload, commits>>
<1> DEFINE h == Head(order)
<1>1. order \in Seq(Uris) /\ IsInjective(order)
  BY DEF TypeOK, MailboxAgrees
<1>2. /\ h \in Uris /\ Holds(order, h) /\ Tail(order) \in Seq(Uris) /\ IsInjective(Tail(order))
      /\ \A x : Holds(Tail(order), x) <=> Holds(order, x) /\ x # h
  BY <1>1, TailOne
<1>3. pending[h] \in Sets /\ pending[h].uri = h
  BY <1>2, MailboxHolds DEF TypeOK
<1>4. order' = Tail(order) /\ consumer' = [pc |-> "send", set |-> pending[h]]
      /\ pending' = [pending EXCEPT ![h] = None] /\ consumer.pc = "pop"
  BY DEF Pop
<1>5. consumer.set = None
  BY <1>4 DEF Owned
<1> HIDE DEF h
<1>6. pending'[h] = None /\ \A v \in Uris \ {h} : pending'[v] = pending[v]
  BY <1>2, <1>4 DEF TypeOK
<1> QED BY <1>2, <1>3, <1>4, <1>5, <1>6 DEF Pop, locks, h

\* The client has taken the set in flight.
LEMMA SendEffect ==
  ASSUME TypeOK, Owned, Send
  PROVE  LET s == consumer.set IN
         /\ s \in Sets /\ s.uri \in Uris /\ s.by \in Producers /\ s.commit \in Nat
         /\ consumer'.set = None /\ consumer'.pc = "pop"
         /\ client'[s.uri] = s /\ \A v \in Uris \ {s.uri} : client'[v] = client[v]
         /\ receipt'[s.by] = "delivered"
         /\ \A p \in Producers \ {s.by} : receipt'[p] = receipt[p]
         /\ UNCHANGED <<pending, order, notices, producer, documents, reload, commits>>
<1>1. consumer.set \in Sets
  BY DEF Send, Owned, TypeOK
<1>2. consumer.set.uri \in Uris /\ consumer.set.by \in Producers /\ consumer.set.commit \in Nat
  BY <1>1, SetFields
<1> QED BY <1>1, <1>2 DEF Send, TypeOK, locks

\* The task waits; no set moves.
LEMMA AwaitEffect ==
  ASSUME TypeOK, Await
  PROVE  /\ consumer.pc = "await" /\ consumer'.pc \in {"pop", "parked"}
         /\ consumer'.set = consumer.set
         /\ UNCHANGED <<pending, order, notices, producer, receipt, client, documents, reload, commits>>
BY DEF Await, TypeOK, locks

\* So it does when the mailbox is empty.
LEMMA PopNothing ==
  ASSUME TypeOK, Pop, order = <<>>
  PROVE  /\ consumer.pc = "pop" /\ consumer'.pc = "await" /\ consumer'.set = consumer.set
         /\ UNCHANGED <<pending, order, notices, producer, receipt, client, documents, reload, commits>>
BY DEF Pop, TypeOK, locks

-----------------------------------------------------------------------------
(* The invariant is kept.                                                  *)

\* The states of a producer and of the task, as TypeOK has them.
ProducerSteps == {"idle", "look_up", "rerun", "assemble", "deposit", "start", "notify", "receipt", "done"}
ProducerStates == [pc : ProducerSteps, uri : Uris \cup {None}, set : Sets \cup {None}]
ConsumerSteps == {"unborn", "pop", "await", "parked", "send"}
ConsumerStates == [pc : ConsumerSteps, set : Sets \cup {None}]

\* A typed state in two halves.
LEMMA TypeParts ==
  TypeOK <=> /\ producer \in [Producers -> ProducerStates] /\ consumer \in ConsumerStates
             /\ /\ pending \in [Uris -> Sets \cup {None}]
                /\ order \in Seq(Uris)
                /\ notices \in [Uris -> 0 .. MaxReloads]
                /\ permit \in BOOLEAN /\ started \in BOOLEAN
                /\ receipt \in [Producers -> {"open", "delivered", "superseded"}]
                /\ client \in [Uris -> Sets \cup {None}]
                /\ documents \in Producers \cup {None} /\ reload \in Producers \cup {None}
                /\ commits \in Nat
BY DEF TypeOK, ProducerStates, ProducerSteps, ConsumerStates, ConsumerSteps

\* A producer that moves on.
LEMMA ProducerMoves ==
  ASSUME NEW f \in [Producers -> ProducerStates], NEW p \in Producers, NEW l \in ProducerSteps
  PROVE  [f EXCEPT ![p].pc = l] \in [Producers -> ProducerStates]
<1>1. [f[p] EXCEPT !.pc = l] \in ProducerStates
  BY DEF ProducerStates
<1>2. [f EXCEPT ![p].pc = l] = [f EXCEPT ![p] = [f[p] EXCEPT !.pc = l]]
  OBVIOUS
<1> QED BY <1>1, <1>2

\* A producer that takes a set along.
LEMMA ProducerTakes ==
  ASSUME NEW f \in [Producers -> ProducerStates], NEW p \in Producers, NEW l \in ProducerSteps,
         NEW s \in Sets \cup {None}
  PROVE  [f EXCEPT ![p].pc = l, ![p].set = s] \in [Producers -> ProducerStates]
<1>1. [[f[p] EXCEPT !.pc = l] EXCEPT !.set = s] \in ProducerStates
  BY DEF ProducerStates
<1>2. [f EXCEPT ![p].pc = l, ![p].set = s] = [f EXCEPT ![p] = [[f[p] EXCEPT !.pc = l] EXCEPT !.set = s]]
  OBVIOUS
<1> QED BY <1>1, <1>2

\* Nothing is pending, in flight or shown at the start.
LEMMA InitPublisher == Init => PublisherInv
<1> SUFFICES ASSUME Init PROVE PublisherInv
  OBVIOUS
<1> USE PublisherAssumption DEF Init
<1>1. TypeOK
  <2>1. order \in Seq(Uris)
    BY EmptySeq
  <2>2. producer \in [Producers -> ProducerStates] /\ consumer \in ConsumerStates
    BY DEF ProducerStates, ProducerSteps, ConsumerStates, ConsumerSteps
  <2>3. /\ pending \in [Uris -> Sets \cup {None}] /\ client \in [Uris -> Sets \cup {None}]
        /\ notices \in [Uris -> 0 .. MaxReloads]
    OBVIOUS
  <2> QED BY <2>1, <2>2, <2>3, TypeParts
<1>2. MailboxAgrees
  BY DEF MailboxAgrees, IsInjective
<1>3. Born /\ Owned /\ Ordered /\ Locked /\ Fresh
  BY DEF Born, Owned, Ordered, Locked, Fresh, LastSet, CommitOf
<1> QED BY <1>1, <1>2, <1>3 DEF PublisherInv

\* Every step keeps the shape of the state.
LEMMA TypeKept == PublisherInv /\ [Next]_vars => TypeOK'
<1> SUFFICES ASSUME TypeOK, MailboxAgrees, Owned, [Next]_vars PROVE TypeOK'
  BY DEF PublisherInv
<1> DEFINE P == producer' \in [Producers -> ProducerStates]
           C == consumer' \in ConsumerStates
           R == /\ pending' \in [Uris -> Sets \cup {None}]
                /\ order' \in Seq(Uris)
                /\ notices' \in [Uris -> 0 .. MaxReloads]
                /\ permit' \in BOOLEAN /\ started' \in BOOLEAN
                /\ receipt' \in [Producers -> {"open", "delivered", "superseded"}]
                /\ client' \in [Uris -> Sets \cup {None}]
                /\ documents' \in Producers \cup {None} /\ reload' \in Producers \cup {None}
                /\ commits' \in Nat
<1>a. /\ producer \in [Producers -> ProducerStates] /\ consumer \in ConsumerStates
      /\ /\ pending \in [Uris -> Sets \cup {None}]
         /\ order \in Seq(Uris)
         /\ notices \in [Uris -> 0 .. MaxReloads]
         /\ permit \in BOOLEAN /\ started \in BOOLEAN
         /\ receipt \in [Producers -> {"open", "delivered", "superseded"}]
         /\ client \in [Uris -> Sets \cup {None}]
         /\ documents \in Producers \cup {None} /\ reload \in Producers \cup {None}
         /\ commits \in Nat
  BY TypeParts
<1>b. \A l \in ConsumerSteps : [consumer EXCEPT !.pc = l] \in ConsumerStates
  BY <1>a DEF ConsumerStates
<1>c. \A l \in ConsumerSteps, s \in Sets \cup {None} : [pc |-> l, set |-> s] \in ConsumerStates
  BY DEF ConsumerStates
<1> SUFFICES P /\ C /\ R
  BY DEF TypeOK, ProducerStates, ProducerSteps, ConsumerStates, ConsumerSteps
<1>1. ASSUME NEW p \in Producers, NEW u \in Uris, AssembleRun(p, u) PROVE P /\ C /\ R
  <2>1. Assembled(p, u, p) \in Sets
    BY AssembledSet
  <2>2. P
    BY <1>a, <1>1, <2>1 DEF AssembleRun, ProducerStates, ProducerSteps
  <2> QED BY <1>a, <1>1, <2>2 DEF AssembleRun
<1>2. ASSUME NEW p \in Producers, NEW u \in Uris, SetNotices(p, u) PROVE P /\ C /\ R
  <2>1. notices' \in [Uris -> 0 .. MaxReloads]
    BY <1>a, <1>2, PublisherAssumption DEF SetNotices
  <2>2. P
    BY <1>a, <1>2 DEF SetNotices, ProducerStates, ProducerSteps
  <2> QED BY <1>a, <1>2, <2>1, <2>2 DEF SetNotices
<1>3. ASSUME NEW p \in Producers, LookUp(p) PROVE P /\ C /\ R
  <2>1. PICK l \in {"rerun", "assemble"} : producer' = [producer EXCEPT ![p].pc = l]
    BY <1>3 DEF LookUp
  <2>2. reload' \in Producers \cup {None}
    BY <1>a, <1>3 DEF LookUp
  <2>3. P
    BY <1>a, <2>1, ProducerMoves DEF ProducerSteps
  <2> QED BY <1>a, <1>3, <2>2, <2>3 DEF LookUp
<1>4. ASSUME NEW p \in Producers, AssembleNotices(p) PROVE P /\ C /\ R
  <2>1. Assembled(p, producer[p].uri, None) \in Sets
    BY <1>4, AssembledSet DEF AssembleNotices, Owned
  <2>2. P
    BY <1>a, <1>4, <2>1, ProducerTakes DEF AssembleNotices, ProducerSteps
  <2> QED BY <1>a, <1>4, <2>2 DEF AssembleNotices, locks
<1>5. ASSUME NEW p \in Producers, Deposit(p) PROVE P /\ C /\ R
  <2>1. producer[p].uri \in Uris /\ producer[p].set \in Sets /\ commits + 1 \in Nat
    BY <1>5 DEF Deposit, Owned, TypeOK
  <2>2. order' \in Seq(Uris)
    BY <1>5, DepositEffect
  <2>3. [producer[p].set EXCEPT !.commit = commits + 1] \in Sets
    BY <2>1, Stamped
  <2>4. pending' \in [Uris -> Sets \cup {None}]
    BY <1>a, <1>5, <2>1, <2>3 DEF Deposit
  <2>5. receipt' \in [Producers -> {"open", "delivered", "superseded"}]
    BY <1>a, <1>5 DEF Deposit, ReceiptsAfter
  <2>6. P
    BY <1>a, <1>5, ProducerMoves DEF Deposit, ProducerSteps
  <2> QED BY <1>a, <1>5, <2>1, <2>2, <2>4, <2>5, <2>6 DEF Deposit, locks
<1>6. ASSUME NEW p \in Producers, EnsureStarted(p) PROVE P /\ C /\ R
  <2>1. P
    BY <1>a, <1>6, ProducerMoves DEF EnsureStarted, ProducerSteps
  <2>2. C
    BY <1>a, <1>b, <1>6 DEF EnsureStarted, ConsumerSteps
  <2> QED BY <1>a, <1>6, <2>1, <2>2 DEF EnsureStarted, locks
<1>7. ASSUME NEW p \in Producers, Notify(p) PROVE P /\ C /\ R
  <2>1. PICK l \in {"receipt", "done"} : producer' = [producer EXCEPT ![p].pc = l]
    BY <1>7 DEF Notify, Notified
  <2>2. documents' \in Producers \cup {None} /\ permit' \in BOOLEAN
    BY <1>a, <1>7 DEF Notify, Notified
  <2>3. P
    BY <1>a, <2>1, ProducerMoves DEF ProducerSteps
  <2>4. C
    BY <1>a, <1>b, <1>7 DEF Notify, ConsumerSteps
  <2> QED BY <1>a, <1>7, <2>2, <2>3, <2>4 DEF Notify
<1>8. ASSUME NEW p \in Producers, ReceiptArrives(p) PROVE P /\ C /\ R
  <2>1. P
    BY <1>a, <1>8, ProducerMoves DEF ReceiptArrives, ProducerSteps
  <2> QED BY <1>a, <1>8, <2>1 DEF ReceiptArrives
<1>9. CASE Pop
  <2>1. CASE order = <<>>
    <3>1. C
      BY <1>b, <1>9, <2>1 DEF Pop, ConsumerSteps
    <3> QED BY <1>a, <1>9, <2>1, <3>1 DEF Pop, locks
  <2>2. CASE order # <<>>
    <3>1. Head(order) \in Uris /\ Tail(order) \in Seq(Uris)
      BY <1>a, <2>2, HeadTailProperties
    <3>2. consumer' = [pc |-> "send", set |-> pending[Head(order)]]
      BY <1>9, <2>2 DEF Pop
    <3>3. C
      BY <1>a, <1>c, <3>1, <3>2 DEF ConsumerSteps
    <3>4. pending' \in [Uris -> Sets \cup {None}]
      BY <1>a, <1>9, <2>2, <3>1 DEF Pop
    <3> QED BY <1>a, <1>9, <2>2, <3>1, <3>3, <3>4 DEF Pop, locks
  <2> QED BY <2>1, <2>2
<1>10. CASE Await
  <2>1. C
    BY <1>b, <1>10 DEF Await, ConsumerSteps
  <2> QED BY <1>a, <1>10, <2>1 DEF Await, locks
<1>11. CASE Send
  <2>1. consumer.set \in Sets
    BY <1>11, SendEffect
  <2>2. C
    BY <1>c, <1>11 DEF Send, ConsumerSteps
  <2>3. client' \in [Uris -> Sets \cup {None}] /\ receipt' \in [Producers -> {"open", "delivered", "superseded"}]
    BY <1>a, <1>11, <2>1 DEF Send
  <2> QED BY <1>a, <1>11, <2>2, <2>3 DEF Send, locks
<1>12. CASE UNCHANGED vars
  BY <1>a, <1>12 DEF vars, locks
<1> QED
  BY <1>1, <1>2, <1>3, <1>4, <1>5, <1>6, <1>7, <1>8, <1>9, <1>10, <1>11, <1>12
  DEF Next, ProducerStep, ConsumerStep, Owned

\* The task is born once.
LEMMA BornKept == PublisherInv /\ [Next]_vars => Born'
<1> SUFFICES ASSUME Born, [Next]_vars PROVE Born'
  BY DEF PublisherInv
<1>1. started' = started \/ started' = TRUE
  BY DEF Next, ProducerStep, ConsumerStep, AssembleRun, SetNotices, LookUp, AssembleNotices, Deposit,
         EnsureStarted, Notify, ReceiptArrives, Pop, Await, Send, vars
<1>2. consumer.pc = "unborn" => started' = TRUE \/ consumer' = consumer
  BY DEF Next, ProducerStep, ConsumerStep, AssembleRun, SetNotices, LookUp, AssembleNotices, Deposit,
         EnsureStarted, Notify, ReceiptArrives, Pop, Await, Send, vars
<1> QED BY <1>1, <1>2 DEF Born

\* A set and its place in the order come and go together.
LEMMA MailboxKept == PublisherInv /\ [Next]_vars => MailboxAgrees'
<1> SUFFICES ASSUME TypeOK, MailboxAgrees, Born, Owned, Ordered, Locked, Fresh, [Next]_vars
             PROVE  MailboxAgrees'
  BY DEF PublisherInv
<1> USE PublisherAssumption DEF MailboxAgrees
<1>1. ASSUME NEW p \in Producers, NEW u \in Uris, AssembleRun(p, u) PROVE MailboxAgrees'
  BY <1>1, AssembleRunEffect, SetFields DEF OnlyMoves
<1>2. ASSUME NEW p \in Producers, NEW u \in Uris, SetNotices(p, u) PROVE MailboxAgrees'
  BY <1>2, SetNoticesEffect, SetFields DEF OnlyMoves
<1>3. ASSUME NEW p \in Producers, LookUp(p) PROVE MailboxAgrees'
  BY <1>3, LookUpEffect, SetFields DEF OnlyMoves
<1>4. ASSUME NEW p \in Producers, AssembleNotices(p) PROVE MailboxAgrees'
  BY <1>4, AssembleNoticesEffect, SetFields DEF OnlyMoves
<1>5. ASSUME NEW p \in Producers, Deposit(p) PROVE MailboxAgrees'
  <2> DEFINE u == producer[p].uri
  <2>1. /\ u \in Uris /\ IsInjective(order')
        /\ \A x : Holds(order', x) <=> Holds(order, x) \/ x = u
        /\ pending'[u] # None /\ pending'[u].uri = u
        /\ \A v \in Uris \ {u} : pending'[v] = pending[v]
    BY <1>5, DepositEffect, SetFields
  <2> HIDE DEF u
  <2>2. \A v \in Uris : /\ pending'[v] # None <=> Holds(order', v)
                        /\ pending'[v] # None => pending'[v].uri = v
    BY <2>1, MailboxHolds
  <2> QED BY <2>1, <2>2 DEF Holds
<1>6. ASSUME NEW p \in Producers, EnsureStarted(p) PROVE MailboxAgrees'
  BY <1>6, EnsureStartedEffect, SetFields DEF OnlyMoves
<1>7. ASSUME NEW p \in Producers, Notify(p) PROVE MailboxAgrees'
  BY <1>7, NotifyEffect, SetFields DEF OnlyMoves
<1>8. ASSUME NEW p \in Producers, ReceiptArrives(p) PROVE MailboxAgrees'
  BY <1>8, ReceiptArrivesEffect, SetFields DEF OnlyMoves
<1>9. CASE Pop
  <2>1. CASE order = <<>>
    BY <1>9, <2>1, PopNothing
  <2>2. CASE order # <<>>
    <3> DEFINE h == Head(order)
    <3>1. /\ h \in Uris /\ IsInjective(order')
          /\ \A x : Holds(order', x) <=> Holds(order, x) /\ x # h
          /\ pending'[h] = None /\ \A v \in Uris \ {h} : pending'[v] = pending[v]
      BY <1>9, <2>2, PopEffect
    <3> HIDE DEF h
    <3>2. \A v \in Uris : /\ pending'[v] # None <=> Holds(order', v)
                          /\ pending'[v] # None => pending'[v].uri = v
      BY <3>1, MailboxHolds
    <3> QED BY <3>1, <3>2 DEF Holds
  <2> QED BY <2>1, <2>2
<1>10. CASE Await
  BY <1>10, AwaitEffect, SetFields DEF OnlyMoves
<1>11. CASE Send
  BY <1>11, SendEffect, SetFields DEF OnlyMoves
<1>12. CASE UNCHANGED vars
  BY <1>12 DEF vars, locks
<1> QED
  BY <1>1, <1>2, <1>3, <1>4, <1>5, <1>6, <1>7, <1>8, <1>9, <1>10, <1>11, <1>12
  DEF Next, ProducerStep, ConsumerStep, Owned

\* A producer's set moves from its hands to the mailbox, to the publisher task
\* and to the client, and is settled where it leaves this path.
LEMMA OwnedKept == PublisherInv /\ [Next]_vars => Owned'
<1> SUFFICES ASSUME TypeOK, MailboxAgrees, Born, Owned, Ordered, Locked, Fresh, [Next]_vars
             PROVE  Owned'
  BY DEF PublisherInv
<1> USE PublisherAssumption DEF Owned, Before
<1>a. /\ \A v \in Uris : client[v] # None => client[v].by \in Producers
      /\ \A v \in Uris : pending[v] # None => pending[v].by \in Producers
      /\ consumer.set # None => consumer.set.by \in Producers
  BY SetFields DEF TypeOK
<1>1. ASSUME NEW p \in Producers, NEW u \in Uris, AssembleRun(p, u) PROVE Owned'
  BY <1>1, AssembleRunEffect, SetFields DEF OnlyMoves
<1>2. ASSUME NEW p \in Producers, NEW u \in Uris, SetNotices(p, u) PROVE Owned'
  BY <1>2, SetNoticesEffect, SetFields DEF OnlyMoves
<1>3. ASSUME NEW p \in Producers, LookUp(p) PROVE Owned'
  BY <1>3, LookUpEffect, SetFields DEF OnlyMoves
<1>4. ASSUME NEW p \in Producers, AssembleNotices(p) PROVE Owned'
  BY <1>4, AssembleNoticesEffect, SetFields DEF OnlyMoves
<1>5. ASSUME NEW p \in Producers, Deposit(p) PROVE Owned'
  <2> DEFINE u == producer[p].uri
  <2>1. /\ u \in Uris /\ producer[p].pc = "deposit"
        /\ producer'[p].pc = "start" /\ producer'[p].uri = u /\ OnlyMoves(p)
        /\ pending'[u].by = p /\ \A v \in Uris \ {u} : pending'[v] = pending[v]
        /\ receipt' = ReceiptsAfter(u) /\ UNCHANGED <<consumer, client>>
    BY <1>5, DepositEffect
  <2> HIDE DEF u
  <2>2. pending[u] # None => pending[u].by \in Producers
    BY <2>1, SetFields DEF TypeOK
  <2>3. /\ \A q \in Producers : pending[u] = None \/ pending[u].by # q => receipt'[q] = receipt[q]
    BY <2>1 DEF ReceiptsAfter, TypeOK
  <2> QED BY <1>a, <2>1, <2>2, <2>3 DEF OnlyMoves
<1>6. ASSUME NEW p \in Producers, EnsureStarted(p) PROVE Owned'
  BY <1>6, EnsureStartedEffect, SetFields DEF OnlyMoves
<1>7. ASSUME NEW p \in Producers, Notify(p) PROVE Owned'
  BY <1>7, NotifyEffect, SetFields DEF OnlyMoves
<1>8. ASSUME NEW p \in Producers, ReceiptArrives(p) PROVE Owned'
  BY <1>8, ReceiptArrivesEffect, SetFields DEF OnlyMoves
<1>9. CASE Pop
  <2>1. CASE order = <<>>
    BY <1>9, <2>1, PopNothing
  <2>2. CASE order # <<>>
    <3> DEFINE h == Head(order)
    <3>1. /\ h \in Uris /\ pending[h] # None /\ consumer.set = None /\ consumer'.set = pending[h]
          /\ consumer'.pc = "send" /\ pending'[h] = None
          /\ \A v \in Uris \ {h} : pending'[v] = pending[v]
          /\ UNCHANGED <<producer, receipt, client>>
      BY <1>9, <2>2, PopEffect, SetFields
    <3> HIDE DEF h
    <3> QED BY <1>a, <3>1
  <2> QED BY <2>1, <2>2
<1>10. CASE Await
  BY <1>10, AwaitEffect, SetFields DEF OnlyMoves
<1>11. CASE Send
  <2>1. /\ consumer.set # None /\ consumer.set.uri \in Uris /\ consumer'.set = None /\ consumer'.pc = "pop"
        /\ client'[consumer.set.uri] = consumer.set
        /\ \A v \in Uris \ {consumer.set.uri} : client'[v] = client[v]
        /\ receipt'[consumer.set.by] = "delivered"
        /\ \A p \in Producers \ {consumer.set.by} : receipt'[p] = receipt[p]
        /\ UNCHANGED <<pending, producer>>
    BY <1>11, SendEffect, SetFields
  <2> QED BY <1>a, <2>1
<1>12. CASE UNCHANGED vars
  BY <1>12 DEF vars, locks
<1> QED
  BY <1>1, <1>2, <1>3, <1>4, <1>5, <1>6, <1>7, <1>8, <1>9, <1>10, <1>11, <1>12
  DEF Next, ProducerStep, ConsumerStep, Owned

\* A newer set for a document never passes an older one.
LEMMA OrderedKept == PublisherInv /\ [Next]_vars => Ordered'
<1> SUFFICES ASSUME TypeOK, MailboxAgrees, Born, Owned, Ordered, Locked, Fresh, [Next]_vars
             PROVE  Ordered'
  BY DEF PublisherInv
<1> USE PublisherAssumption DEF Ordered, CommitOf
<1>1. ASSUME NEW p \in Producers, NEW u \in Uris, AssembleRun(p, u) PROVE Ordered'
  BY <1>1, AssembleRunEffect, SetFields DEF OnlyMoves
<1>2. ASSUME NEW p \in Producers, NEW u \in Uris, SetNotices(p, u) PROVE Ordered'
  BY <1>2, SetNoticesEffect, SetFields DEF OnlyMoves
<1>3. ASSUME NEW p \in Producers, LookUp(p) PROVE Ordered'
  BY <1>3, LookUpEffect, SetFields DEF OnlyMoves
<1>4. ASSUME NEW p \in Producers, AssembleNotices(p) PROVE Ordered'
  BY <1>4, AssembleNoticesEffect, SetFields DEF OnlyMoves
<1>5. ASSUME NEW p \in Producers, Deposit(p) PROVE Ordered'
  <2> DEFINE u == producer[p].uri
  <2>1. /\ u \in Uris /\ pending'[u].commit = commits + 1 /\ commits' = commits + 1
        /\ \A v \in Uris \ {u} : pending'[v] = pending[v]
        /\ UNCHANGED <<consumer, client>>
    BY <1>5, DepositEffect
  <2> HIDE DEF u
  <2>2. /\ commits \in Nat
        /\ \A v \in Uris : CommitOf(client[v]) \in Nat /\ (pending[v] # None => pending[v].commit \in Nat)
        /\ consumer.set # None => consumer.set.commit \in Nat
    BY SetFields DEF TypeOK
  <2> QED BY <2>1, <2>2
<1>6. ASSUME NEW p \in Producers, EnsureStarted(p) PROVE Ordered'
  BY <1>6, EnsureStartedEffect, SetFields DEF OnlyMoves
<1>7. ASSUME NEW p \in Producers, Notify(p) PROVE Ordered'
  BY <1>7, NotifyEffect, SetFields DEF OnlyMoves
<1>8. ASSUME NEW p \in Producers, ReceiptArrives(p) PROVE Ordered'
  BY <1>8, ReceiptArrivesEffect, SetFields DEF OnlyMoves
<1>9. CASE Pop
  <2>1. CASE order = <<>>
    BY <1>9, <2>1, PopNothing
  <2>2. CASE order # <<>>
    BY <1>9, <2>2, PopEffect, SetFields
  <2> QED BY <2>1, <2>2
<1>10. CASE Await
  BY <1>10, AwaitEffect, SetFields DEF OnlyMoves
<1>11. CASE Send
  BY <1>11, SendEffect, SetFields DEF OnlyMoves
<1>12. CASE UNCHANGED vars
  BY <1>12 DEF vars, locks
<1> QED
  BY <1>1, <1>2, <1>3, <1>4, <1>5, <1>6, <1>7, <1>8, <1>9, <1>10, <1>11, <1>12
  DEF Next, ProducerStep, ConsumerStep, Owned

\* A run holds `documents` and a reload spec_pack_reload while they deposit.
LEMMA LockedKept == PublisherInv /\ [Next]_vars => Locked'
<1> SUFFICES ASSUME TypeOK, MailboxAgrees, Born, Owned, Ordered, Locked, Fresh, [Next]_vars
             PROVE  Locked'
  BY DEF PublisherInv
<1> USE PublisherAssumption DEF Locked
<1>1. ASSUME NEW p \in Producers, NEW u \in Uris, AssembleRun(p, u) PROVE Locked'
  BY <1>1, AssembleRunEffect, SetFields DEF OnlyMoves
<1>2. ASSUME NEW p \in Producers, NEW u \in Uris, SetNotices(p, u) PROVE Locked'
  BY <1>2, SetNoticesEffect, SetFields DEF OnlyMoves
<1>3. ASSUME NEW p \in Producers, LookUp(p) PROVE Locked'
  BY <1>3, LookUpEffect, SetFields DEF OnlyMoves
<1>4. ASSUME NEW p \in Producers, AssembleNotices(p) PROVE Locked'
  BY <1>4, AssembleNoticesEffect, SetFields DEF OnlyMoves
<1>5. ASSUME NEW p \in Producers, Deposit(p) PROVE Locked'
  BY <1>5, DepositEffect, SetFields DEF OnlyMoves
<1>6. ASSUME NEW p \in Producers, EnsureStarted(p) PROVE Locked'
  BY <1>6, EnsureStartedEffect, SetFields DEF OnlyMoves
<1>7. ASSUME NEW p \in Producers, Notify(p) PROVE Locked'
  BY <1>7, NotifyEffect, SetFields DEF OnlyMoves
<1>8. ASSUME NEW p \in Producers, ReceiptArrives(p) PROVE Locked'
  BY <1>8, ReceiptArrivesEffect, SetFields DEF OnlyMoves
<1>9. CASE Pop
  <2>1. CASE order = <<>>
    BY <1>9, <2>1, PopNothing
  <2>2. CASE order # <<>>
    BY <1>9, <2>2, PopEffect, SetFields
  <2> QED BY <2>1, <2>2
<1>10. CASE Await
  BY <1>10, AwaitEffect, SetFields DEF OnlyMoves
<1>11. CASE Send
  BY <1>11, SendEffect, SetFields DEF OnlyMoves
<1>12. CASE UNCHANGED vars
  BY <1>12 DEF vars, locks
<1> QED
  BY <1>1, <1>2, <1>3, <1>4, <1>5, <1>6, <1>7, <1>8, <1>9, <1>10, <1>11, <1>12
  DEF Next, ProducerStep, ConsumerStep, Owned

\* A reload's own deposit comes after every run that has read the notices before
\* it: the reload waits for `documents`, which such a run holds.
LEMMA FreshKept == PublisherInv /\ [Next]_vars => Fresh'
<1> SUFFICES ASSUME TypeOK, MailboxAgrees, Born, Owned, Ordered, Locked, Fresh, [Next]_vars
             PROVE  Fresh'
  BY DEF PublisherInv
<1> USE PublisherAssumption DEF Fresh, Refreshes
<1>1. ASSUME NEW p \in Producers, NEW u \in Uris, AssembleRun(p, u) PROVE Fresh'
  <2>1. \A v \in Uris : LastSet(v)' = LastSet(v)
    BY <1>1, AssembleRunEffect DEF LastSet
  <2> QED BY <1>1, <2>1, AssembleRunEffect DEF OnlyMoves
<1>2. ASSUME NEW p \in Producers, NEW u \in Uris, SetNotices(p, u) PROVE Fresh'
  <2>1. \A v \in Uris : LastSet(v)' = LastSet(v)
    BY <1>2, SetNoticesEffect DEF LastSet
  <2>2. \A q \in Producers : producer[q].pc = "deposit" => producer[q].uri \in Uris
    BY DEF Owned
  <2> QED BY <1>2, <2>1, <2>2, SetNoticesEffect DEF OnlyMoves
<1>3. ASSUME NEW p \in Producers, LookUp(p) PROVE Fresh'
  <2>1. \A v \in Uris : LastSet(v)' = LastSet(v)
    BY <1>3, LookUpEffect DEF LastSet
  <2>2. \A q \in Producers : producer[q].pc # "deposit"
    BY <1>3, LookUpEffect DEF Locked
  <2> QED BY <1>3, <2>1, <2>2, LookUpEffect DEF OnlyMoves
<1>4. ASSUME NEW p \in Producers, AssembleNotices(p) PROVE Fresh'
  <2>1. \A v \in Uris : LastSet(v)' = LastSet(v)
    BY <1>4, AssembleNoticesEffect DEF LastSet
  <2> QED BY <1>4, <2>1, AssembleNoticesEffect DEF OnlyMoves
<1>5. ASSUME NEW p \in Producers, Deposit(p) PROVE Fresh'
  <2> PICK u : u = producer[p].uri
    OBVIOUS
  <2>1. /\ u \in Uris /\ producer[p].uri = u /\ producer[p].pc = "deposit" /\ producer'[p].pc = "start" /\ OnlyMoves(p)
        /\ pending'[u] # None /\ pending'[u].notices = producer[p].set.notices
        /\ \A v \in Uris \ {u} : pending'[v] = pending[v]
        /\ UNCHANGED <<notices, consumer, client>>
    BY <1>5, DepositEffect, SetFields
  <2>2. LastSet(u)' = pending'[u] /\ \A v \in Uris \ {u} : LastSet(v)' = LastSet(v)
    BY <2>1 DEF LastSet
  <2>3. ASSUME NEW q \in Producers, producer'[q].pc = "deposit"
        PROVE  \/ producer'[q].set.notices = notices'[producer'[q].uri]
               \/ \E r \in Producers :
                    producer'[r].pc = "look_up" /\ producer'[r].uri = producer'[q].uri
    BY <2>1, <2>3 DEF OnlyMoves
  <2>4. ASSUME NEW v \in Uris, LastSet(v)' # None, LastSet(v)'.notices # notices'[v]
        PROVE  \E r \in Producers : Refreshes(r, v)'
    <3>1. CASE v = u
      <4>1. PICK r \in Producers : producer[r].pc = "look_up" /\ producer[r].uri = u
        BY <2>1, <2>2, <2>4, <3>1
      <4> QED BY <2>1, <3>1, <4>1 DEF OnlyMoves
    <3>2. CASE v # u
      <4>1. PICK r \in Producers : Refreshes(r, v)
        BY <2>1, <2>2, <2>4, <3>2
      <4> QED BY <2>1, <3>2, <4>1 DEF OnlyMoves
    <3> QED BY <3>1, <3>2
  <2> QED BY <2>3, <2>4
<1>6. ASSUME NEW p \in Producers, EnsureStarted(p) PROVE Fresh'
  <2>1. \A v \in Uris : LastSet(v)' = LastSet(v)
    BY <1>6, EnsureStartedEffect DEF LastSet
  <2> QED BY <1>6, <2>1, EnsureStartedEffect DEF OnlyMoves
<1>7. ASSUME NEW p \in Producers, Notify(p) PROVE Fresh'
  <2>1. \A v \in Uris : LastSet(v)' = LastSet(v)
    BY <1>7, NotifyEffect DEF LastSet
  <2> QED BY <1>7, <2>1, NotifyEffect DEF OnlyMoves
<1>8. ASSUME NEW p \in Producers, ReceiptArrives(p) PROVE Fresh'
  <2>1. \A v \in Uris : LastSet(v)' = LastSet(v)
    BY <1>8, ReceiptArrivesEffect DEF LastSet
  <2> QED BY <1>8, <2>1, ReceiptArrivesEffect DEF OnlyMoves
<1>9. CASE Pop
  <2>1. CASE order = <<>>
    <3>1. \A v \in Uris : LastSet(v)' = LastSet(v)
      BY <1>9, <2>1, PopNothing DEF LastSet
    <3> QED BY <1>9, <2>1, <3>1, PopNothing
  <2>2. CASE order # <<>>
    <3>1. \A v \in Uris : LastSet(v)' = LastSet(v)
      BY <1>9, <2>2, PopEffect, SetFields DEF LastSet
    <3> QED BY <1>9, <2>2, <3>1, PopEffect
  <2> QED BY <2>1, <2>2
<1>10. CASE Await
  <2>1. \A v \in Uris : LastSet(v)' = LastSet(v)
    BY <1>10, AwaitEffect DEF LastSet
  <2> QED BY <1>10, <2>1, AwaitEffect DEF OnlyMoves
<1>11. CASE Send
  <2>1. \A v \in Uris : LastSet(v)' = LastSet(v)
    BY <1>11, SendEffect, SetFields DEF LastSet
  <2> QED BY <1>11, <2>1, SendEffect
<1>12. CASE UNCHANGED vars
  BY <1>12 DEF vars, LastSet
<1> QED
  BY <1>1, <1>2, <1>3, <1>4, <1>5, <1>6, <1>7, <1>8, <1>9, <1>10, <1>11, <1>12
  DEF Next, ProducerStep, ConsumerStep, Owned

\* The inductive invariant holds throughout.
LEMMA PublisherInvariant == Spec => []PublisherInv
<1>1. PublisherInv /\ [Next]_vars => PublisherInv'
  BY TypeKept, MailboxKept, BornKept, OwnedKept, OrderedKept, LockedKept, FreshKept DEF PublisherInv
<1> QED BY <1>1, InitPublisher, PTL DEF Spec

-----------------------------------------------------------------------------
(* What follows.                                                           *)

\* However many sets are produced while the client is slow, the mailbox holds
\* one per document, each with one place in the order (MailboxAgrees).
THEOREM MailboxIsBounded == Spec => []MailboxAgrees
<1>1. PublisherInv => MailboxAgrees
  BY DEF PublisherInv
<1> QED BY <1>1, PublisherInvariant, PTL

\* Every receipt tells the truth about its set (ReceiptsAreHonest).
THEOREM ReceiptsHonest == Spec => []ReceiptsAreHonest
<1>1. PublisherInv => ReceiptsAreHonest
  <2> SUFFICES ASSUME PublisherInv, NEW p \in Producers
      PROVE  /\ receipt[p] = "superseded" =>
                  \A s \in ({client[u] : u \in Uris} \cup {pending[u] : u \in Uris}
                             \cup {consumer.set}) \ {None} : s.by # p
             /\ \A u \in Uris : client[u] # None /\ client[u].by = p => receipt[p] = "delivered"
    BY DEF ReceiptsAreHonest
  <2> QED BY DEF PublisherInv, Owned
<1> QED BY <1>1, PublisherInvariant, PTL

\* Once all is quiet every document shows the standing notices
\* (NoticesSurvive), whichever run or reload deposited last.
THEOREM NoticesAreKept == Spec => []NoticesSurvive
<1>1. PublisherInv => NoticesSurvive
  <2> SUFFICES ASSUME PublisherInv, Quiet, NEW u \in Uris, client[u] # None
               PROVE  client[u].notices = notices[u]
    BY DEF NoticesSurvive
  <2>1. pending[u] = None
    BY DEF PublisherInv, MailboxAgrees, Quiet
  <2>2. LastSet(u) = client[u]
    BY <2>1 DEF LastSet, Quiet
  <2>3. \A p \in Producers : ~Refreshes(p, u)
    BY DEF Refreshes, Quiet
  <2> QED BY <2>2, <2>3 DEF PublisherInv, Fresh
<1> QED BY <1>1, PublisherInvariant, PTL

\* A deposit is an abstract commit, the client's acceptance an abstract
\* delivery, and nothing else is seen.
LEMMA LatestWinsStep ==
  PublisherInv /\ [Next]_vars => [Abstract!Next]_<<commits, [u \in Uris |-> Latest(u)],
                                                  [u \in Uris |-> CommitOf(client[u])]>>
<1> SUFFICES ASSUME TypeOK, MailboxAgrees, Born, Owned, Ordered, [Next]_vars
             PROVE  \/ Abstract!Next
                    \/ /\ commits' = commits
                       /\ \A u \in Uris : /\ Latest(u)' = Latest(u)
                                          /\ CommitOf(client[u])' = CommitOf(client[u])
  BY DEF PublisherInv
<1> USE PublisherAssumption DEF CommitOf
<1> DEFINE Same == /\ commits' = commits
                   /\ \A u \in Uris : /\ Latest(u)' = Latest(u)
                                      /\ CommitOf(client[u])' = CommitOf(client[u])
<1>0. \A p \in Producers : producer[p].pc = "rerun" => producer[p].uri \in Uris
  BY DEF Owned
<1>1. ASSUME UNCHANGED <<commits, pending, client>>, consumer'.set = consumer.set PROVE Same
  BY <1>1 DEF Latest
<1>2. ASSUME NEW p \in Producers, NEW u \in Uris, AssembleRun(p, u) \/ SetNotices(p, u) PROVE Same
  BY <1>1, <1>2 DEF AssembleRun, SetNotices
<1>3. ASSUME NEW p \in Producers, LookUp(p) \/ AssembleNotices(p) \/ ReceiptArrives(p) PROVE Same
  BY <1>1, <1>3 DEF LookUp, AssembleNotices, ReceiptArrives
<1>4. ASSUME NEW p \in Producers, EnsureStarted(p) \/ Notify(p) PROVE Same
  BY <1>1, <1>4, EnsureStartedEffect, NotifyEffect
<1>5. ASSUME NEW p \in Producers, Deposit(p) PROVE Abstract!Next
  <2> DEFINE L == [v \in Uris |-> Latest(v)]
  <2> PICK u : u = producer[p].uri
    OBVIOUS
  <2>1. /\ u \in Uris /\ pending'[u] # None /\ pending'[u].commit = commits + 1
        /\ commits' = commits + 1 /\ \A v \in Uris \ {u} : pending'[v] = pending[v]
        /\ UNCHANGED <<consumer, client>>
    BY <1>5, DepositEffect, SetFields
  <2>2. Latest(u)' = commits + 1 /\ \A v \in Uris \ {u} : Latest(v)' = Latest(v)
    BY <2>1 DEF Latest
  <2>3. L' = [L EXCEPT ![u] = commits + 1]
    BY <2>1, <2>2
  <2>4. Abstract!Commit(u)
    BY <2>1, <2>3 DEF Abstract!Commit
  <2> QED BY <2>1, <2>4 DEF Abstract!Next
<1>6. CASE Pop
  <2>1. CASE order = <<>>
    BY <1>1, <1>6, <2>1, PopNothing
  <2>2. CASE order # <<>>
    BY <1>6, <2>2, PopEffect, SetFields DEF Latest
  <2> QED BY <2>1, <2>2
<1>7. CASE Await
  BY <1>1, <1>7, AwaitEffect
<1>8. ASSUME Send PROVE Abstract!Next
  <2> DEFINE C == [v \in Uris |-> CommitOf(client[v])]
  <2> PICK c, n : c = consumer.set.uri /\ n = consumer.set.commit
    OBVIOUS
  <2>1. /\ consumer.set # None /\ consumer'.set = None /\ c \in Uris /\ n \in Nat
        /\ client'[c] = consumer.set /\ \A v \in Uris \ {c} : client'[v] = client[v]
        /\ UNCHANGED <<pending, commits>>
    BY <1>8, SendEffect, SetFields
  <2>2. pending[c] # None => pending[c].commit \in Nat
    BY <2>1, SetFields DEF TypeOK
  <2>3. CommitOf(client[c]) \in Nat
    BY <2>1, SetFields DEF TypeOK
  <2>4. n \in CommitOf(client[c]) + 1 .. Latest(c)
    BY <2>1, <2>2, <2>3 DEF Ordered, Latest
  <2>5. \A v \in Uris : Latest(v)' = Latest(v)
    BY <2>1 DEF Latest
  <2>6. C' = [C EXCEPT ![c] = n]
    BY <2>1
  <2>7. Abstract!Deliver(c)
    BY <2>1, <2>4, <2>5, <2>6 DEF Abstract!Deliver
  <2> QED BY <2>1, <2>7 DEF Abstract!Next
<1>9. CASE UNCHANGED vars
  BY <1>1, <1>9 DEF vars
<1> QED
  BY <1>0, <1>2, <1>3, <1>4, <1>5, <1>6, <1>7, <1>8, <1>9 DEF Next, ProducerStep, ConsumerStep

\* The publisher implements latest-wins delivery (ImplementsLatestWins): what a
\* document shows only moves forward, and never past what was committed.
THEOREM PublisherImplementsLatestWins == Spec => ImplementsLatestWins
<1>1. Init => Abstract!Init
  BY DEF Init, Abstract!Init, Latest, CommitOf
<1> QED BY <1>1, LatestWinsStep, PublisherInvariant, PTL
        DEF Spec, ImplementsLatestWins, Abstract!Spec
=============================================================================
