-------------------------- MODULE EditOrderProofs --------------------------
(***************************************************************************)
(* Proofs about the document-sync barrier, for any number of handlers and  *)
(* permits.  SequenceInv is inductive on top of the type invariant; the    *)
(* exclusive turn, the honest holder slot, the absence of a wedge and the  *)
(* order of reads follow from it.  The stall report, which runs beside the *)
(* barrier and does not disturb it, comes last.                            *)
(***************************************************************************)
EXTENDS StallReport, FiniteSetTheorems, TLAPS

\* The initial state is well typed.
LEMMA TypeOKInit == Init => TypeOK
BY HandlersAssumption DEF Init, TypeOK, Handlers, EditLabels, RequestLabels, Waiting, InTurn, Handed

\* Every step of every handler keeps the state well typed.
LEMMA TypeOKStep ==
  TypeOK /\ [Next]_vars => TypeOK'
<1> SUFFICES ASSUME TypeOK, [Next]_vars PROVE TypeOK'
  OBVIOUS
<1> USE HandlersAssumption DEF Handlers, TypeOK, EditLabels, RequestLabels, Waiting, InTurn, Handed, Goto, order, admission
<1>1. ASSUME NEW p \in Handlers, Wait(p) PROVE TypeOK'
  <2>1. CASE Register(p)
    BY <2>1 DEF Register
  <2>2. CASE Check(p)
    BY <2>2 DEF Check, TurnReached
  <2>3. CASE Wake(p)
    BY <2>3 DEF Wake
  <2> QED BY <1>1, <2>1, <2>2, <2>3 DEF Wait
<1>2. ASSUME NEW e \in Edits, EditNext(e) PROVE TypeOK'
  <2>1. CASE TakeTicket(e)
    BY <2>1 DEF TakeTicket
  <2>2. CASE SetHolder(e)
    BY <2>2 DEF SetHolder
  <2>3. CASE ApplyEdit(e)
    BY <2>3 DEF ApplyEdit
  <2>4. CASE SkipEdit(e)
    BY <2>4 DEF SkipEdit
  <2>5. CASE ClearHolder(e)
    BY <2>5 DEF ClearHolder
  <2>6. CASE HandTurnOn(e)
    BY <2>6 DEF HandTurnOn
  <2>7. CASE DropParkedHandler(e)
    BY <2>7 DEF DropParkedHandler
  <2>8. CASE RecordAbandoned(e)
    BY <2>8 DEF RecordAbandoned
  <2>9. CASE LockAbandoned(e)
    BY <2>9 DEF LockAbandoned
  <2>10. CASE RemoveHead(e)
    BY <2>10 DEF RemoveHead
  <2>11. CASE StepOver(e)
    BY <2>11 DEF StepOver
  <2>12. CASE UnlockAbandoned(e)
    BY <2>12 DEF UnlockAbandoned
  <2>13. CASE NotifyWaiters(e)
    BY <2>13 DEF NotifyWaiters
  <2> QED BY <1>2, <2>1, <2>2, <2>3, <2>4, <2>5, <2>6, <2>7, <2>8, <2>9, <2>10, <2>11, <2>12, <2>13 DEF EditNext, Turn, Drain
<1>3. ASSUME NEW r \in Requests, RequestNext(r) PROVE TypeOK'
  <2>1. CASE QueueRequest(r)
    BY <2>1 DEF QueueRequest
  <2>2. CASE AcquirePermit(r)
    BY <2>2 DEF AcquirePermit
  <2>3. CASE SnapshotTarget(r)
    BY <2>3 DEF SnapshotTarget
  <2>4. CASE FastPath(r)
    BY <2>4 DEF FastPath
  <2>5. CASE StallTimeout(r)
    BY <2>5 DEF StallTimeout
  <2>6. CASE StepOutside(r)
    BY <2>6 DEF StepOutside
  <2>7. CASE Respond(r)
    BY <2>7 DEF Respond
  <2>8. CASE CancelRequest(r)
    BY <2>8 DEF CancelRequest
  <2> QED BY <1>3, <2>1, <2>2, <2>3, <2>4, <2>5, <2>6, <2>7, <2>8 DEF RequestNext
<1>4. CASE UNCHANGED vars
  BY <1>4 DEF vars
<1> QED BY <1>1, <1>2, <1>3, <1>4 DEF Next, Terminated

\* The state of EditOrder always has its type.
THEOREM TypeCorrect == Spec => []TypeOK
BY TypeOKInit, TypeOKStep, PTL DEF Spec

-----------------------------------------------------------------------------
\* No ticket has been drawn initially.
LEMMA SequenceInvInit == Init => SequenceInv
BY HandlersAssumption DEF Init, SequenceInv, Numbered, Queued, Drained, Handlers, EditLabels, RequestLabels, Waiting, InTurn, Handed

\* Tickets stay distinct and without gaps, and the number being served has been
\* drawn or is the next to be drawn.
LEMMA NumberedStep ==
  TypeOK /\ SequenceInv /\ [Next]_vars => Numbered'
<1> SUFFICES ASSUME TypeOK, SequenceInv, [Next]_vars PROVE Numbered'
  OBVIOUS
<1> USE HandlersAssumption DEF Handlers, TypeOK, EditLabels, RequestLabels, Waiting, InTurn, Handed, Goto, order, admission, SequenceInv, Numbered, Queued, Drained
<1>1. ASSUME NEW p \in Handlers, Wait(p) PROVE Numbered'
  <2>1. CASE Register(p)
    BY <2>1 DEF Register
  <2>2. CASE Check(p)
    BY <2>2 DEF Check, TurnReached
  <2>3. CASE Wake(p)
    BY <2>3 DEF Wake
  <2> QED BY <1>1, <2>1, <2>2, <2>3 DEF Wait
<1>2. ASSUME NEW e \in Edits, EditNext(e) PROVE Numbered'
  <2>1. CASE TakeTicket(e)
    BY <2>1 DEF TakeTicket
  <2>2. CASE SetHolder(e)
    BY <2>2 DEF SetHolder
  <2>3. CASE ApplyEdit(e)
    BY <2>3 DEF ApplyEdit
  <2>4. CASE SkipEdit(e)
    BY <2>4 DEF SkipEdit
  <2>5. CASE ClearHolder(e)
    BY <2>5 DEF ClearHolder
  <2>6. CASE HandTurnOn(e)
    BY <2>6 DEF HandTurnOn
  <2>7. CASE DropParkedHandler(e)
    BY <2>7 DEF DropParkedHandler
  <2>8. CASE RecordAbandoned(e)
    BY <2>8 DEF RecordAbandoned
  <2>9. CASE LockAbandoned(e)
    BY <2>9 DEF LockAbandoned
  <2>10. CASE RemoveHead(e)
    BY <2>10 DEF RemoveHead
  <2>11. CASE StepOver(e)
    BY <2>11 DEF StepOver
  <2>12. CASE UnlockAbandoned(e)
    BY <2>12 DEF UnlockAbandoned
  <2>13. CASE NotifyWaiters(e)
    BY <2>13 DEF NotifyWaiters
  <2> QED BY <1>2, <2>1, <2>2, <2>3, <2>4, <2>5, <2>6, <2>7, <2>8, <2>9, <2>10, <2>11, <2>12, <2>13 DEF EditNext, Turn, Drain
<1>3. ASSUME NEW r \in Requests, RequestNext(r) PROVE Numbered'
  <2>1. CASE QueueRequest(r)
    BY <2>1 DEF QueueRequest
  <2>2. CASE AcquirePermit(r)
    BY <2>2 DEF AcquirePermit
  <2>3. CASE SnapshotTarget(r)
    BY <2>3 DEF SnapshotTarget
  <2>4. CASE FastPath(r)
    BY <2>4 DEF FastPath
  <2>5. CASE StallTimeout(r)
    BY <2>5 DEF StallTimeout
  <2>6. CASE StepOutside(r)
    BY <2>6 DEF StepOutside
  <2>7. CASE Respond(r)
    BY <2>7 DEF Respond
  <2>8. CASE CancelRequest(r)
    BY <2>8 DEF CancelRequest
  <2> QED BY <1>3, <2>1, <2>2, <2>3, <2>4, <2>5, <2>6, <2>7, <2>8 DEF RequestNext
<1>4. CASE UNCHANGED vars
  BY <1>4 DEF vars
<1> QED BY <1>1, <1>2, <1>3, <1>4 DEF Next, Terminated

\* A handler's number and now_serving stay related as its progress says.
LEMMA QueuedStep ==
  TypeOK /\ SequenceInv /\ [Next]_vars => Queued'
<1> SUFFICES ASSUME TypeOK, SequenceInv, [Next]_vars PROVE Queued'
  OBVIOUS
<1> USE HandlersAssumption DEF Handlers, TypeOK, EditLabels, RequestLabels, Waiting, InTurn, Handed, Goto, order, admission, SequenceInv, Numbered, Queued, Drained
<1>1. ASSUME NEW p \in Handlers, Wait(p) PROVE Queued'
  <2>1. CASE Register(p)
    BY <2>1 DEF Register
  <2>2. CASE Check(p)
    <3>1. CASE p \in Edits /\ now_serving = ticket[p]
      BY <2>2, <3>1 DEF Check, TurnReached
    <3>2. CASE p \in Edits /\ now_serving # ticket[p]
      BY <2>2, <3>2 DEF Check, TurnReached
    <3>3. CASE p \in Requests
      BY <2>2, <3>3 DEF Check
    <3> QED BY <3>1, <3>2, <3>3
  <2>3. CASE Wake(p)
    BY <2>3 DEF Wake
  <2> QED BY <1>1, <2>1, <2>2, <2>3 DEF Wait
<1>2. ASSUME NEW e \in Edits, EditNext(e) PROVE Queued'
  <2>1. CASE TakeTicket(e)
    BY <2>1 DEF TakeTicket
  <2>2. CASE SetHolder(e)
    BY <2>2 DEF SetHolder
  <2>3. CASE ApplyEdit(e)
    BY <2>3 DEF ApplyEdit
  <2>4. CASE SkipEdit(e)
    BY <2>4 DEF SkipEdit
  <2>5. CASE ClearHolder(e)
    BY <2>5 DEF ClearHolder
  <2>6. CASE HandTurnOn(e)
    BY <2>6 DEF HandTurnOn
  <2>7. CASE DropParkedHandler(e)
    BY <2>7 DEF DropParkedHandler
  <2>8. CASE RecordAbandoned(e)
    BY <2>8 DEF RecordAbandoned
  <2>9. CASE LockAbandoned(e)
    BY <2>9 DEF LockAbandoned
  <2>10. CASE RemoveHead(e)
    BY <2>10 DEF RemoveHead
  <2>11. CASE StepOver(e)
    BY <2>11 DEF StepOver
  <2>12. CASE UnlockAbandoned(e)
    BY <2>12 DEF UnlockAbandoned
  <2>13. CASE NotifyWaiters(e)
    BY <2>13 DEF NotifyWaiters
  <2> QED BY <1>2, <2>1, <2>2, <2>3, <2>4, <2>5, <2>6, <2>7, <2>8, <2>9, <2>10, <2>11, <2>12, <2>13 DEF EditNext, Turn, Drain
<1>3. ASSUME NEW r \in Requests, RequestNext(r) PROVE Queued'
  <2>1. CASE QueueRequest(r)
    BY <2>1 DEF QueueRequest
  <2>2. CASE AcquirePermit(r)
    BY <2>2 DEF AcquirePermit
  <2>3. CASE SnapshotTarget(r)
    BY <2>3 DEF SnapshotTarget
  <2>4. CASE FastPath(r)
    BY <2>4 DEF FastPath
  <2>5. CASE StallTimeout(r)
    BY <2>5 DEF StallTimeout
  <2>6. CASE StepOutside(r)
    BY <2>6 DEF StepOutside
  <2>7. CASE Respond(r)
    BY <2>7 DEF Respond
  <2>8. CASE CancelRequest(r)
    BY <2>8 DEF CancelRequest
  <2> QED BY <1>3, <2>1, <2>2, <2>3, <2>4, <2>5, <2>6, <2>7, <2>8 DEF RequestNext
<1>4. CASE UNCHANGED vars
  BY <1>4 DEF vars
<1> QED BY <1>1, <1>2, <1>3, <1>4 DEF Next, Terminated

\* The abandoned numbers stay ahead of now_serving and never stop it.
LEMMA DrainedStep ==
  TypeOK /\ SequenceInv /\ [Next]_vars => Drained'
<1> SUFFICES ASSUME TypeOK, SequenceInv, [Next]_vars PROVE Drained'
  OBVIOUS
<1> USE HandlersAssumption DEF Handlers, TypeOK, EditLabels, RequestLabels, Waiting, InTurn, Handed, Goto, order, admission, SequenceInv, Numbered, Queued, Drained
<1>1. ASSUME NEW p \in Handlers, Wait(p) PROVE Drained'
  <2>1. CASE Register(p)
    BY <2>1 DEF Register
  <2>2. CASE Check(p)
    BY <2>2 DEF Check, TurnReached
  <2>3. CASE Wake(p)
    BY <2>3 DEF Wake
  <2> QED BY <1>1, <2>1, <2>2, <2>3 DEF Wait
<1>2. ASSUME NEW e \in Edits, EditNext(e) PROVE Drained'
  <2>1. CASE TakeTicket(e)
    BY <2>1 DEF TakeTicket
  <2>2. CASE SetHolder(e)
    BY <2>2 DEF SetHolder
  <2>3. CASE ApplyEdit(e)
    BY <2>3 DEF ApplyEdit
  <2>4. CASE SkipEdit(e)
    BY <2>4 DEF SkipEdit
  <2>5. CASE ClearHolder(e)
    BY <2>5 DEF ClearHolder
  <2>6. CASE HandTurnOn(e)
    BY <2>6 DEF HandTurnOn
  <2>7. CASE DropParkedHandler(e)
    BY <2>7 DEF DropParkedHandler
  <2>8. CASE RecordAbandoned(e)
    BY <2>8 DEF RecordAbandoned
  <2>9. CASE LockAbandoned(e)
    BY <2>9 DEF LockAbandoned
  <2>10. CASE RemoveHead(e)
    BY <2>10 DEF RemoveHead
  <2>11. CASE StepOver(e)
    BY <2>11 DEF StepOver
  <2>12. CASE UnlockAbandoned(e)
    BY <2>12 DEF UnlockAbandoned
  <2>13. CASE NotifyWaiters(e)
    BY <2>13 DEF NotifyWaiters
  <2> QED BY <1>2, <2>1, <2>2, <2>3, <2>4, <2>5, <2>6, <2>7, <2>8, <2>9, <2>10, <2>11, <2>12, <2>13 DEF EditNext, Turn, Drain
<1>3. ASSUME NEW r \in Requests, RequestNext(r) PROVE Drained'
  <2>1. CASE QueueRequest(r)
    BY <2>1 DEF QueueRequest
  <2>2. CASE AcquirePermit(r)
    BY <2>2 DEF AcquirePermit
  <2>3. CASE SnapshotTarget(r)
    BY <2>3 DEF SnapshotTarget
  <2>4. CASE FastPath(r)
    BY <2>4 DEF FastPath
  <2>5. CASE StallTimeout(r)
    BY <2>5 DEF StallTimeout
  <2>6. CASE StepOutside(r)
    BY <2>6 DEF StepOutside
  <2>7. CASE Respond(r)
    BY <2>7 DEF Respond
  <2>8. CASE CancelRequest(r)
    BY <2>8 DEF CancelRequest
  <2> QED BY <1>3, <2>1, <2>2, <2>3, <2>4, <2>5, <2>6, <2>7, <2>8 DEF RequestNext
<1>4. CASE UNCHANGED vars
  BY <1>4 DEF vars
<1> QED BY <1>1, <1>2, <1>3, <1>4 DEF Next, Terminated

\* The ticket sequence is sound whatever the interleaving (SequenceInv).
THEOREM SequenceCorrect == Spec => []SequenceInv
<1>1. TypeOK /\ SequenceInv /\ [Next]_vars => SequenceInv'
  BY NumberedStep, QueuedStep, DrainedStep DEF SequenceInv
<1> QED BY <1>1, SequenceInvInit, TypeCorrect, PTL DEF Spec

\* At most one document-sync handler holds the turn (TurnExclusive): two would
\* have the same ticket.
THEOREM TurnIsExclusive == Spec => []TurnExclusive
<1>1. TypeOK /\ SequenceInv => TurnExclusive
  BY DEF TypeOK, SequenceInv, Numbered, Queued, TurnExclusive, Waiting, InTurn, Handed
<1> QED BY <1>1, TypeCorrect, SequenceCorrect, PTL

\* The sequence never stands at a number nobody will release (NeverWedged):
\* every number drawn has an owner, and the owner of the head, if it has
\* finished, left it to somebody who is draining.
THEOREM SequenceNeverWedged == Spec => []NeverWedged
<1>1. TypeOK /\ SequenceInv => NeverWedged
  <2> SUFFICES ASSUME TypeOK, SequenceInv, now_serving < next_ticket
               PROVE  \/ \E e \in Edits : ticket[e] = now_serving /\ pc[e] \in Waiting \cup InTurn
                      \/ \E e \in Edits : pc[e] \in {"drain", "test", "step"}
    BY DEF NeverWedged
  <2>1. PICK e \in Edits : ticket[e] = now_serving
    BY DEF TypeOK, SequenceInv, Numbered
  <2>2. pc[e] # "unsent"
    BY <2>1 DEF TypeOK, SequenceInv, Numbered
  <2>3. CASE pc[e] \in Handed
    BY <2>1, <2>3 DEF TypeOK, SequenceInv, Queued, Drained
  <2> QED BY <2>1, <2>2, <2>3 DEF TypeOK, EditLabels
<1> QED BY <1>1, TypeCorrect, SequenceCorrect, PTL

-----------------------------------------------------------------------------
\* The holder slot is written after the grant and emptied before the hand-over.
LEMMA HolderStep ==
  TypeOK /\ SequenceInv /\ HolderIsServed /\ [Next]_vars => HolderIsServed'
<1> SUFFICES ASSUME TypeOK, SequenceInv, HolderIsServed, [Next]_vars PROVE HolderIsServed'
  OBVIOUS
<1> USE HandlersAssumption DEF Handlers, TypeOK, EditLabels, RequestLabels, Waiting, InTurn, Handed, Goto, order, admission, SequenceInv, Numbered, Queued, Drained, HolderIsServed
<1>1. ASSUME NEW p \in Handlers, Wait(p) PROVE HolderIsServed'
  <2>1. CASE Register(p)
    BY <2>1 DEF Register
  <2>2. CASE Check(p)
    BY <2>2 DEF Check, TurnReached
  <2>3. CASE Wake(p)
    BY <2>3 DEF Wake
  <2> QED BY <1>1, <2>1, <2>2, <2>3 DEF Wait
<1>2. ASSUME NEW e \in Edits, EditNext(e) PROVE HolderIsServed'
  <2>1. CASE TakeTicket(e)
    BY <2>1 DEF TakeTicket
  <2>2. CASE SetHolder(e)
    BY <2>2 DEF SetHolder
  <2>3. CASE ApplyEdit(e)
    BY <2>3 DEF ApplyEdit
  <2>4. CASE SkipEdit(e)
    BY <2>4 DEF SkipEdit
  <2>5. CASE ClearHolder(e)
    BY <2>5 DEF ClearHolder
  <2>6. CASE HandTurnOn(e)
    BY <2>6 DEF HandTurnOn
  <2>7. CASE DropParkedHandler(e)
    BY <2>7 DEF DropParkedHandler
  <2>8. CASE RecordAbandoned(e)
    BY <2>8 DEF RecordAbandoned
  <2>9. CASE LockAbandoned(e)
    BY <2>9 DEF LockAbandoned
  <2>10. CASE RemoveHead(e)
    BY <2>10 DEF RemoveHead
  <2>11. CASE StepOver(e)
    BY <2>11 DEF StepOver
  <2>12. CASE UnlockAbandoned(e)
    BY <2>12 DEF UnlockAbandoned
  <2>13. CASE NotifyWaiters(e)
    BY <2>13 DEF NotifyWaiters
  <2> QED BY <1>2, <2>1, <2>2, <2>3, <2>4, <2>5, <2>6, <2>7, <2>8, <2>9, <2>10, <2>11, <2>12, <2>13 DEF EditNext, Turn, Drain
<1>3. ASSUME NEW r \in Requests, RequestNext(r) PROVE HolderIsServed'
  <2>1. CASE QueueRequest(r)
    BY <2>1 DEF QueueRequest
  <2>2. CASE AcquirePermit(r)
    BY <2>2 DEF AcquirePermit
  <2>3. CASE SnapshotTarget(r)
    BY <2>3 DEF SnapshotTarget
  <2>4. CASE FastPath(r)
    BY <2>4 DEF FastPath
  <2>5. CASE StallTimeout(r)
    BY <2>5 DEF StallTimeout
  <2>6. CASE StepOutside(r)
    BY <2>6 DEF StepOutside
  <2>7. CASE Respond(r)
    BY <2>7 DEF Respond
  <2>8. CASE CancelRequest(r)
    BY <2>8 DEF CancelRequest
  <2> QED BY <1>3, <2>1, <2>2, <2>3, <2>4, <2>5, <2>6, <2>7, <2>8 DEF RequestNext
<1>4. CASE UNCHANGED vars
  BY <1>4 DEF vars
<1> QED BY <1>1, <1>2, <1>3, <1>4 DEF Next, Terminated

\* A holder found in the slot is the handler being served (HolderIsServed).
THEOREM HolderIsHonest == Spec => []HolderIsServed
<1>1. Init => HolderIsServed
  BY DEF Init, HolderIsServed
<1> QED BY <1>1, HolderStep, TypeCorrect, SequenceCorrect, PTL DEF Spec

\* A waiter registers before it reads now_serving, and whoever moves now_serving
\* notifies afterwards.
LEMMA WakeupStep ==
  TypeOK /\ NoLostWakeup /\ [Next]_vars => NoLostWakeup'
<1> SUFFICES ASSUME TypeOK, NoLostWakeup, [Next]_vars PROVE NoLostWakeup'
  OBVIOUS
<1> USE HandlersAssumption DEF Handlers, TypeOK, EditLabels, RequestLabels, Waiting, InTurn, Handed, Goto, order, admission, NoLostWakeup, TurnReached
<1>1. ASSUME NEW p \in Handlers, Wait(p) PROVE NoLostWakeup'
  <2>1. CASE Register(p)
    BY <2>1 DEF Register
  <2>2. CASE Check(p)
    BY <2>2 DEF Check, TurnReached
  <2>3. CASE Wake(p)
    BY <2>3 DEF Wake
  <2> QED BY <1>1, <2>1, <2>2, <2>3 DEF Wait
<1>2. ASSUME NEW e \in Edits, EditNext(e) PROVE NoLostWakeup'
  <2>1. CASE TakeTicket(e)
    BY <2>1 DEF TakeTicket
  <2>2. CASE SetHolder(e)
    BY <2>2 DEF SetHolder
  <2>3. CASE ApplyEdit(e)
    BY <2>3 DEF ApplyEdit
  <2>4. CASE SkipEdit(e)
    BY <2>4 DEF SkipEdit
  <2>5. CASE ClearHolder(e)
    BY <2>5 DEF ClearHolder
  <2>6. CASE HandTurnOn(e)
    BY <2>6 DEF HandTurnOn
  <2>7. CASE DropParkedHandler(e)
    BY <2>7 DEF DropParkedHandler
  <2>8. CASE RecordAbandoned(e)
    BY <2>8 DEF RecordAbandoned
  <2>9. CASE LockAbandoned(e)
    BY <2>9 DEF LockAbandoned
  <2>10. CASE RemoveHead(e)
    BY <2>10 DEF RemoveHead
  <2>11. CASE StepOver(e)
    BY <2>11 DEF StepOver
  <2>12. CASE UnlockAbandoned(e)
    BY <2>12 DEF UnlockAbandoned
  <2>13. CASE NotifyWaiters(e)
    BY <2>13 DEF NotifyWaiters
  <2> QED BY <1>2, <2>1, <2>2, <2>3, <2>4, <2>5, <2>6, <2>7, <2>8, <2>9, <2>10, <2>11, <2>12, <2>13 DEF EditNext, Turn, Drain
<1>3. ASSUME NEW r \in Requests, RequestNext(r) PROVE NoLostWakeup'
  <2>1. CASE QueueRequest(r)
    BY <2>1 DEF QueueRequest
  <2>2. CASE AcquirePermit(r)
    BY <2>2 DEF AcquirePermit
  <2>3. CASE SnapshotTarget(r)
    BY <2>3 DEF SnapshotTarget
  <2>4. CASE FastPath(r)
    BY <2>4 DEF FastPath
  <2>5. CASE StallTimeout(r)
    BY <2>5 DEF StallTimeout
  <2>6. CASE StepOutside(r)
    BY <2>6 DEF StepOutside
  <2>7. CASE Respond(r)
    BY <2>7 DEF Respond
  <2>8. CASE CancelRequest(r)
    BY <2>8 DEF CancelRequest
  <2> QED BY <1>3, <2>1, <2>2, <2>3, <2>4, <2>5, <2>6, <2>7, <2>8 DEF RequestNext
<1>4. CASE UNCHANGED vars
  BY <1>4 DEF vars
<1> QED BY <1>1, <1>2, <1>3, <1>4 DEF Next, Terminated

\* No waiter is left parked with its number come up and nobody about to notify
\* it (NoLostWakeup).
THEOREM WakeupsAreNotLost == Spec => []NoLostWakeup
<1>1. Init => NoLostWakeup
  BY DEF Init, NoLostWakeup
<1> QED BY <1>1, WakeupStep, TypeCorrect, PTL DEF Spec

-----------------------------------------------------------------------------
(* Reads.                                                                  *)

\* A request's target lies beyond the tickets of the edits received before it,
\* because these were drawn before the request queued for its permit.
TargetInv ==
  \A r \in Requests :
    /\ \A e \in preceding[r] : pc[e] # "unsent"
    /\ pc[r] \notin {"unsent", "admit", "settle", "done"} =>
         \A e \in preceding[r] : ticket[e] < target[r]
    /\ pc[r] \in {"serve", "readmit"} => target[r] <= now_serving

\* Targets stay beyond the tickets that precede the request.
LEMMA TargetStep ==
  TypeOK /\ SequenceInv /\ TargetInv /\ [Next]_vars => TargetInv'
<1> SUFFICES ASSUME TypeOK, SequenceInv, TargetInv, [Next]_vars PROVE TargetInv'
  OBVIOUS
<1> USE HandlersAssumption DEF Handlers, TypeOK, EditLabels, RequestLabels, Waiting, InTurn, Handed, Goto, order, admission, SequenceInv, Numbered, TargetInv
<1>1. ASSUME NEW p \in Handlers, Wait(p) PROVE TargetInv'
  <2>1. CASE Register(p)
    BY <2>1 DEF Register
  <2>2. CASE Check(p)
    BY <2>2 DEF Check, TurnReached
  <2>3. CASE Wake(p)
    BY <2>3 DEF Wake
  <2> QED BY <1>1, <2>1, <2>2, <2>3 DEF Wait
<1>2. ASSUME NEW e \in Edits, EditNext(e) PROVE TargetInv'
  <2>1. CASE TakeTicket(e)
    BY <2>1 DEF TakeTicket
  <2>2. CASE SetHolder(e)
    BY <2>2 DEF SetHolder
  <2>3. CASE ApplyEdit(e)
    BY <2>3 DEF ApplyEdit
  <2>4. CASE SkipEdit(e)
    BY <2>4 DEF SkipEdit
  <2>5. CASE ClearHolder(e)
    BY <2>5 DEF ClearHolder
  <2>6. CASE HandTurnOn(e)
    BY <2>6 DEF HandTurnOn
  <2>7. CASE DropParkedHandler(e)
    BY <2>7 DEF DropParkedHandler
  <2>8. CASE RecordAbandoned(e)
    BY <2>8 DEF RecordAbandoned
  <2>9. CASE LockAbandoned(e)
    BY <2>9 DEF LockAbandoned
  <2>10. CASE RemoveHead(e)
    BY <2>10 DEF RemoveHead
  <2>11. CASE StepOver(e)
    BY <2>11 DEF StepOver
  <2>12. CASE UnlockAbandoned(e)
    BY <2>12 DEF UnlockAbandoned
  <2>13. CASE NotifyWaiters(e)
    BY <2>13 DEF NotifyWaiters
  <2> QED BY <1>2, <2>1, <2>2, <2>3, <2>4, <2>5, <2>6, <2>7, <2>8, <2>9, <2>10, <2>11, <2>12, <2>13 DEF EditNext, Turn, Drain
<1>3. ASSUME NEW r \in Requests, RequestNext(r) PROVE TargetInv'
  <2>1. CASE QueueRequest(r)
    BY <2>1 DEF QueueRequest
  <2>2. CASE AcquirePermit(r)
    BY <2>2 DEF AcquirePermit
  <2>3. CASE SnapshotTarget(r)
    BY <2>3 DEF SnapshotTarget
  <2>4. CASE FastPath(r)
    BY <2>4 DEF FastPath
  <2>5. CASE StallTimeout(r)
    BY <2>5 DEF StallTimeout
  <2>6. CASE StepOutside(r)
    BY <2>6 DEF StepOutside
  <2>7. CASE Respond(r)
    BY <2>7 DEF Respond
  <2>8. CASE CancelRequest(r)
    BY <2>8 DEF CancelRequest
  <2> QED BY <1>3, <2>1, <2>2, <2>3, <2>4, <2>5, <2>6, <2>7, <2>8 DEF RequestNext
<1>4. CASE UNCHANGED vars
  BY <1>4 DEF vars
<1> QED BY <1>1, <1>2, <1>3, <1>4 DEF Next, Terminated

\* The invariant of targets holds.
LEMMA TargetCorrect == Spec => []TargetInv
<1>1. Init => TargetInv
  BY HandlersAssumption DEF Init, TargetInv, Handlers
<1> QED BY <1>1, TargetStep, TypeCorrect, SequenceCorrect, PTL DEF Spec

\* Edits whose ticket is passed have finished.
LEMMA PassedIsHanded ==
  ASSUME TypeOK, SequenceInv, NEW e \in Edits, pc[e] # "unsent", ticket[e] < now_serving
  PROVE  pc[e] \in Handed
BY DEF TypeOK, SequenceInv, Queued, EditLabels, Waiting, InTurn, Handed

\* A request reads after every edit received before it (ReadsFollowEarlierEdits).
THEOREM ReadsAreOrdered == Spec => []ReadsFollowEarlierEdits
<1>1. TypeOK /\ SequenceInv /\ TargetInv => ReadsFollowEarlierEdits
  <2> SUFFICES ASSUME TypeOK, SequenceInv, TargetInv,
                      NEW r \in Requests, pc[r] \in {"serve", "readmit"},
                      NEW e \in preceding[r]
               PROVE  pc[e] \in Handed
    BY DEF ReadsFollowEarlierEdits
  <2>1. e \in Edits /\ pc[e] # "unsent" /\ ticket[e] < now_serving
    BY DEF TypeOK, TargetInv
  <2> QED BY <2>1, PassedIsHanded
<1> QED BY <1>1, TypeCorrect, SequenceCorrect, TargetCorrect, PTL

-----------------------------------------------------------------------------
(* Permits.                                                                *)

\* Only AcquirePermit adds to the admitted requests.
LEMMA AdmittedChange ==
  ASSUME TypeOK, PermitsRespected, NEW r \in Requests,
         \/ admitted' = admitted
         \/ admitted' = admitted \ {r}
         \/ admitted' = admitted \cup {r} /\ Cardinality(admitted) < MaxPermits
  PROVE  Cardinality(admitted') <= MaxPermits
<1>1. IsFiniteSet(admitted) /\ Cardinality(admitted) \in Nat
  BY HandlersAssumption, FS_Subset, FS_CardinalityType DEF TypeOK
<1>2. Cardinality(admitted \ {r}) <= Cardinality(admitted)
  BY <1>1, FS_RemoveElement
<1>3. Cardinality(admitted \cup {r}) <= Cardinality(admitted) + 1
  BY <1>1, FS_AddElement
<1>4. Cardinality(admitted \ {r}) \in Nat /\ Cardinality(admitted \cup {r}) \in Nat
  BY <1>1, FS_RemoveElement, FS_AddElement, FS_CardinalityType
<1> QED BY <1>1, <1>2, <1>3, <1>4, MaxPermitsAssumption DEF PermitsRespected

\* A permit is taken only when one is free, and kept as long as the request works.
LEMMA PermitsStep ==
  TypeOK /\ PermitsRespected /\ [Next]_vars => PermitsRespected'
<1> SUFFICES ASSUME TypeOK, PermitsRespected, [Next]_vars PROVE PermitsRespected'
  OBVIOUS
<1> USE HandlersAssumption, AdmittedChange DEF Handlers, TypeOK, EditLabels, RequestLabels, Waiting, InTurn, Handed, Goto, order, admission, PermitsRespected
<1>1. ASSUME NEW p \in Handlers, Wait(p) PROVE PermitsRespected'
  <2>1. CASE Register(p)
    BY <2>1 DEF Register
  <2>2. CASE Check(p)
    BY <2>2 DEF Check, TurnReached
  <2>3. CASE Wake(p)
    BY <2>3 DEF Wake
  <2> QED BY <1>1, <2>1, <2>2, <2>3 DEF Wait
<1>2. ASSUME NEW e \in Edits, EditNext(e) PROVE PermitsRespected'
  <2>1. CASE TakeTicket(e)
    BY <2>1 DEF TakeTicket
  <2>2. CASE SetHolder(e)
    BY <2>2 DEF SetHolder
  <2>3. CASE ApplyEdit(e)
    BY <2>3 DEF ApplyEdit
  <2>4. CASE SkipEdit(e)
    BY <2>4 DEF SkipEdit
  <2>5. CASE ClearHolder(e)
    BY <2>5 DEF ClearHolder
  <2>6. CASE HandTurnOn(e)
    BY <2>6 DEF HandTurnOn
  <2>7. CASE DropParkedHandler(e)
    BY <2>7 DEF DropParkedHandler
  <2>8. CASE RecordAbandoned(e)
    BY <2>8 DEF RecordAbandoned
  <2>9. CASE LockAbandoned(e)
    BY <2>9 DEF LockAbandoned
  <2>10. CASE RemoveHead(e)
    BY <2>10 DEF RemoveHead
  <2>11. CASE StepOver(e)
    BY <2>11 DEF StepOver
  <2>12. CASE UnlockAbandoned(e)
    BY <2>12 DEF UnlockAbandoned
  <2>13. CASE NotifyWaiters(e)
    BY <2>13 DEF NotifyWaiters
  <2> QED BY <1>2, <2>1, <2>2, <2>3, <2>4, <2>5, <2>6, <2>7, <2>8, <2>9, <2>10, <2>11, <2>12, <2>13 DEF EditNext, Turn, Drain
<1>3. ASSUME NEW r \in Requests, RequestNext(r) PROVE PermitsRespected'
  <2>1. CASE QueueRequest(r)
    BY <2>1 DEF QueueRequest
  <2>2. CASE AcquirePermit(r)
    BY <2>2 DEF AcquirePermit
  <2>3. CASE SnapshotTarget(r)
    BY <2>3 DEF SnapshotTarget
  <2>4. CASE FastPath(r)
    BY <2>4 DEF FastPath
  <2>5. CASE StallTimeout(r)
    BY <2>5 DEF StallTimeout
  <2>6. CASE StepOutside(r)
    BY <2>6 DEF StepOutside
  <2>7. CASE Respond(r)
    BY <2>7 DEF Respond
  <2>8. CASE CancelRequest(r)
    BY <2>8 DEF CancelRequest
  <2> QED BY <1>3, <2>1, <2>2, <2>3, <2>4, <2>5, <2>6, <2>7, <2>8 DEF RequestNext
<1>4. CASE UNCHANGED vars
  BY <1>4 DEF vars
<1> QED BY <1>1, <1>2, <1>3, <1>4 DEF Next, Terminated

\* At most MaxPermits requests are at work at a time (PermitsRespected).
THEOREM PermitsAreRespected == Spec => []PermitsRespected
<1>1. Init => PermitsRespected
  BY HandlersAssumption, MaxPermitsAssumption, FS_EmptySet DEF Init, PermitsRespected, Handlers
<1> QED BY <1>1, PermitsStep, TypeCorrect, PTL DEF Spec

-----------------------------------------------------------------------------
(* The barrier implements the abstract sequence of edits.                  *)

\* An edit takes effect only inside its turn.
AppliedInv ==
  \A e \in applied : pc[e] \in {"release", "advance"} \cup Handed

\* Edits that took effect have left the turn's body.
LEMMA AppliedStep ==
  TypeOK /\ AppliedInv /\ [Next]_vars => AppliedInv'
<1> SUFFICES ASSUME TypeOK, AppliedInv, [Next]_vars PROVE AppliedInv'
  OBVIOUS
<1> USE HandlersAssumption DEF Handlers, TypeOK, EditLabels, RequestLabels, Waiting, InTurn, Handed, Goto, order, admission, AppliedInv
<1>1. ASSUME NEW p \in Handlers, Wait(p) PROVE AppliedInv'
  <2>1. CASE Register(p)
    BY <2>1 DEF Register
  <2>2. CASE Check(p)
    BY <2>2 DEF Check, TurnReached
  <2>3. CASE Wake(p)
    BY <2>3 DEF Wake
  <2> QED BY <1>1, <2>1, <2>2, <2>3 DEF Wait
<1>2. ASSUME NEW e \in Edits, EditNext(e) PROVE AppliedInv'
  <2>1. CASE TakeTicket(e)
    BY <2>1 DEF TakeTicket
  <2>2. CASE SetHolder(e)
    BY <2>2 DEF SetHolder
  <2>3. CASE ApplyEdit(e)
    BY <2>3 DEF ApplyEdit
  <2>4. CASE SkipEdit(e)
    BY <2>4 DEF SkipEdit
  <2>5. CASE ClearHolder(e)
    BY <2>5 DEF ClearHolder
  <2>6. CASE HandTurnOn(e)
    BY <2>6 DEF HandTurnOn
  <2>7. CASE DropParkedHandler(e)
    BY <2>7 DEF DropParkedHandler
  <2>8. CASE RecordAbandoned(e)
    BY <2>8 DEF RecordAbandoned
  <2>9. CASE LockAbandoned(e)
    BY <2>9 DEF LockAbandoned
  <2>10. CASE RemoveHead(e)
    BY <2>10 DEF RemoveHead
  <2>11. CASE StepOver(e)
    BY <2>11 DEF StepOver
  <2>12. CASE UnlockAbandoned(e)
    BY <2>12 DEF UnlockAbandoned
  <2>13. CASE NotifyWaiters(e)
    BY <2>13 DEF NotifyWaiters
  <2> QED BY <1>2, <2>1, <2>2, <2>3, <2>4, <2>5, <2>6, <2>7, <2>8, <2>9, <2>10, <2>11, <2>12, <2>13 DEF EditNext, Turn, Drain
<1>3. ASSUME NEW r \in Requests, RequestNext(r) PROVE AppliedInv'
  <2>1. CASE QueueRequest(r)
    BY <2>1 DEF QueueRequest
  <2>2. CASE AcquirePermit(r)
    BY <2>2 DEF AcquirePermit
  <2>3. CASE SnapshotTarget(r)
    BY <2>3 DEF SnapshotTarget
  <2>4. CASE FastPath(r)
    BY <2>4 DEF FastPath
  <2>5. CASE StallTimeout(r)
    BY <2>5 DEF StallTimeout
  <2>6. CASE StepOutside(r)
    BY <2>6 DEF StepOutside
  <2>7. CASE Respond(r)
    BY <2>7 DEF Respond
  <2>8. CASE CancelRequest(r)
    BY <2>8 DEF CancelRequest
  <2> QED BY <1>3, <2>1, <2>2, <2>3, <2>4, <2>5, <2>6, <2>7, <2>8 DEF RequestNext
<1>4. CASE UNCHANGED vars
  BY <1>4 DEF vars
<1> QED BY <1>1, <1>2, <1>3, <1>4 DEF Next, Terminated

\* The invariant of applied edits holds.
LEMMA AppliedCorrect == Spec => []AppliedInv
<1>1. Init => AppliedInv
  BY DEF Init, AppliedInv
<1> QED BY <1>1, AppliedStep, TypeCorrect, PTL DEF Spec

\* What a request about to read finds: every edit received before it is gone.
LEMMA SettledIsGone ==
  ASSUME TypeOK, SequenceInv, TargetInv, AppliedInv, NEW r \in Requests,
         pc[r] \in {"check", "served"}, now_serving >= target[r], NEW e \in preceding[r]
  PROVE  e \in Edits /\ Fate(e) \in {"applied", "skipped"}
<1>1. e \in Edits /\ pc[e] # "unsent" /\ ticket[e] < now_serving
  BY DEF TypeOK, TargetInv, SequenceInv, Numbered
<1>2. pc[e] \in Handed
  BY <1>1, PassedIsHanded
<1> QED BY <1>1, <1>2 DEF Fate, Waiting, Handed

\* Every step of a handler is a step of the abstract sequence, or none.
LEMMA RefinementStep ==
  TypeOK /\ SequenceInv /\ TargetInv /\ AppliedInv /\ [Next]_vars => [Sequence!Next]_(Sequence!vars)
<1> SUFFICES ASSUME TypeOK, SequenceInv, TargetInv, AppliedInv, [Next]_vars PROVE [Sequence!Next]_(Sequence!vars)
  OBVIOUS
<1> USE HandlersAssumption DEF Handlers, TypeOK, EditLabels, RequestLabels, Waiting, InTurn, Handed, Goto, order, admission,
        Sequence!vars, Sequence!Next, Sequence!Gone
<1>1. ASSUME NEW p \in Handlers, Wait(p) PROVE [Sequence!Next]_(Sequence!vars)
  <2>1. CASE Register(p)
    BY <2>1 DEF Register, Fate, Reader
  <2>2. CASE Check(p)
    <3>1. CASE p \in Requests /\ now_serving >= target[p]
      <4>1. \A e \in Edits : Fate(e)' = Fate(e)
        BY <2>2, <3>1 DEF Check, TurnReached, Fate
      <4>2. /\ Reader(p) = "waiting" /\ Reader(p)' = "reading"
            /\ \A q \in Requests \ {p} : Reader(q)' = Reader(q)
        BY <2>2, <3>1 DEF Check, TurnReached, Reader
      <4>3. \A e \in preceding[p] : e \in Edits /\ Fate(e) \in {"applied", "skipped"}
        BY <2>2, <3>1, SettledIsGone DEF Check, TurnReached
      <4>4. Sequence!Read(p)
        BY <2>2, <3>1, <4>1, <4>2, <4>3 DEF Check, TurnReached, Sequence!Read
      <4> QED BY <2>2, <3>1, <4>4
    <3>2. CASE ~(p \in Requests /\ now_serving >= target[p])
      <4>1. \A e \in Edits : Fate(e)' = Fate(e)
        BY <2>2, <3>2 DEF Check, Fate
      <4>2. \A r \in Requests : Reader(r)' = Reader(r)
        BY <2>2, <3>2 DEF Check, TurnReached, Reader
      <4> QED BY <2>2, <4>1, <4>2 DEF Check
    <3> QED BY <3>1, <3>2
  <2>3. CASE Wake(p)
    BY <2>3 DEF Wake, Fate, Reader
  <2> QED BY <1>1, <2>1, <2>2, <2>3 DEF Wait
<1>2. ASSUME NEW e \in Edits, EditNext(e) PROVE [Sequence!Next]_(Sequence!vars)
  <2>1. CASE TakeTicket(e)
    <3>1. Fate(e) = "unsent" /\ Fate(e)' = "pending" /\ \A d \in Edits \ {e} : Fate(d)' = Fate(d)
      BY <2>1 DEF TakeTicket, AppliedInv, Fate
    <3>2. \A r \in Requests : Reader(r)' = Reader(r)
      BY <2>1 DEF TakeTicket, Reader
    <3>3. Sequence!ReceiveEdit(e)
      BY <2>1, <3>1, <3>2 DEF TakeTicket, Sequence!ReceiveEdit
    <3> QED BY <3>3
  <2>2. CASE SetHolder(e)
    BY <2>2 DEF SetHolder, Fate, Reader
  <2>3. CASE ApplyEdit(e)
    <3>1. Fate(e) = "pending" /\ Fate(e)' = "applied" /\ \A d \in Edits \ {e} : Fate(d)' = Fate(d)
      BY <2>3 DEF ApplyEdit, AppliedInv, Fate
    <3>2. \A r \in Requests : Reader(r)' = Reader(r)
      BY <2>3 DEF ApplyEdit, Reader
    <3>3. \A d \in Edits : Fate(d) = "pending" => pc[d] # "unsent" /\ ticket[e] <= ticket[d]
      BY <2>3 DEF ApplyEdit, SequenceInv, Queued, Fate
    <3>4. Sequence!Apply(e)
      BY <2>3, <3>1, <3>2, <3>3 DEF ApplyEdit, Sequence!Apply
    <3> QED BY <3>4
  <2>4. CASE SkipEdit(e)
    <3>1. Fate(e) = "pending" /\ Fate(e)' = "skipped" /\ \A d \in Edits \ {e} : Fate(d)' = Fate(d)
      BY <2>4 DEF SkipEdit, AppliedInv, Fate
    <3>2. \A r \in Requests : Reader(r)' = Reader(r)
      BY <2>4 DEF SkipEdit, Reader
    <3>3. Sequence!Skip(e)
      BY <2>4, <3>1, <3>2 DEF SkipEdit, Sequence!Skip
    <3> QED BY <3>3
  <2>5. CASE ClearHolder(e)
    BY <2>5 DEF ClearHolder, Fate, Reader
  <2>6. CASE HandTurnOn(e)
    BY <2>6 DEF HandTurnOn, Fate, Reader
  <2>7. CASE DropParkedHandler(e)
    BY <2>7 DEF DropParkedHandler, Fate, Reader
  <2>8. CASE RecordAbandoned(e)
    <3>1. Fate(e) = "pending" /\ Fate(e)' = "skipped" /\ \A d \in Edits \ {e} : Fate(d)' = Fate(d)
      BY <2>8 DEF RecordAbandoned, AppliedInv, Fate
    <3>2. \A r \in Requests : Reader(r)' = Reader(r)
      BY <2>8 DEF RecordAbandoned, Reader
    <3>3. Sequence!Skip(e)
      BY <2>8, <3>1, <3>2 DEF RecordAbandoned, Sequence!Skip
    <3> QED BY <3>3
  <2>9. CASE LockAbandoned(e)
    BY <2>9 DEF LockAbandoned, Fate, Reader
  <2>10. CASE RemoveHead(e)
    BY <2>10 DEF RemoveHead, Fate, Reader
  <2>11. CASE StepOver(e)
    BY <2>11 DEF StepOver, Fate, Reader
  <2>12. CASE UnlockAbandoned(e)
    BY <2>12 DEF UnlockAbandoned, Fate, Reader
  <2>13. CASE NotifyWaiters(e)
    BY <2>13 DEF NotifyWaiters, Fate, Reader
  <2> QED BY <1>2, <2>1, <2>2, <2>3, <2>4, <2>5, <2>6, <2>7, <2>8, <2>9, <2>10, <2>11, <2>12, <2>13 DEF EditNext, Turn, Drain
<1>3. ASSUME NEW r \in Requests, RequestNext(r) PROVE [Sequence!Next]_(Sequence!vars)
  <2>1. CASE QueueRequest(r)
    <3>1. \A e \in Edits : Fate(e)' = Fate(e) /\ (Fate(e) # "unsent" <=> pc[e] # "unsent")
      BY <2>1 DEF QueueRequest, AppliedInv, Fate
    <3>2. Reader(r) = "unsent" /\ Reader(r)' = "waiting" /\ \A q \in Requests \ {r} : Reader(q)' = Reader(q)
      BY <2>1 DEF QueueRequest, Reader
    <3>3. {e \in Edits : pc[e] # "unsent"} = {e \in Edits : [d \in Edits |-> Fate(d)][e] # "unsent"}
      BY <3>1
    <3>4. Sequence!ReceiveRequest(r)
      BY <2>1, <3>1, <3>2, <3>3 DEF QueueRequest, Sequence!ReceiveRequest
    <3> QED BY <3>4
  <2>2. CASE AcquirePermit(r)
    BY <2>2 DEF AcquirePermit, Fate, Reader
  <2>3. CASE SnapshotTarget(r)
    BY <2>3 DEF SnapshotTarget, Fate, Reader
  <2>4. CASE FastPath(r)
    <3>1. CASE now_serving >= target[r]
      <4>1. \A e \in Edits : Fate(e)' = Fate(e)
        BY <2>4, <3>1 DEF FastPath, Fate
      <4>2. /\ Reader(r) = "waiting" /\ Reader(r)' = "reading"
            /\ \A q \in Requests \ {r} : Reader(q)' = Reader(q)
        BY <2>4, <3>1 DEF FastPath, Reader
      <4>3. \A e \in preceding[r] : e \in Edits /\ Fate(e) \in {"applied", "skipped"}
        BY <2>4, <3>1, SettledIsGone DEF FastPath
      <4>4. Sequence!Read(r)
        BY <2>4, <3>1, <4>1, <4>2, <4>3 DEF FastPath, Sequence!Read
      <4> QED BY <2>4, <3>1, <4>4
    <3>2. CASE ~(now_serving >= target[r])
      BY <2>4, <3>2 DEF FastPath, Fate, Reader
    <3> QED BY <3>1, <3>2
  <2>5. CASE StallTimeout(r)
    BY <2>5 DEF StallTimeout, Fate, Reader
  <2>6. CASE StepOutside(r)
    BY <2>6 DEF StepOutside, Fate, Reader
  <2>7. CASE Respond(r)
    <3>1. \A e \in Edits : Fate(e)' = Fate(e)
      BY <2>7 DEF Respond, Fate
    <3>2. /\ Reader(r) \in {"waiting", "reading"} /\ Reader(r)' = "gone"
          /\ \A q \in Requests \ {r} : Reader(q)' = Reader(q)
      BY <2>7 DEF Respond, Reader
    <3>3. Sequence!Leave(r)
      BY <2>7, <3>1, <3>2 DEF Respond, Sequence!Leave
    <3> QED BY <3>3
  <2>8. CASE CancelRequest(r)
    <3>1. \A e \in Edits : Fate(e)' = Fate(e)
      BY <2>8 DEF CancelRequest, Fate
    <3>2. /\ Reader(r) \in {"waiting", "reading"} /\ Reader(r)' = "gone"
          /\ \A q \in Requests \ {r} : Reader(q)' = Reader(q)
      BY <2>8 DEF CancelRequest, Reader
    <3>3. Sequence!Leave(r)
      BY <2>8, <3>1, <3>2 DEF CancelRequest, Sequence!Leave
    <3> QED BY <3>3
  <2> QED BY <1>3, <2>1, <2>2, <2>3, <2>4, <2>5, <2>6, <2>7, <2>8 DEF RequestNext
<1>4. CASE UNCHANGED vars
  BY <1>4 DEF vars, Fate, Reader
<1> QED BY <1>1, <1>2, <1>3, <1>4 DEF Next, Terminated

\* The ticket barrier implements the abstract sequence of edits
\* (ImplementsSequence): edits take effect in the order received, skipped ones
\* hold nobody up, and reads come after the edits received before them.
THEOREM BarrierImplementsSequence == Spec => ImplementsSequence
<1>1. Init => Sequence!Init
  <2> SUFFICES ASSUME Init PROVE Sequence!Init
    OBVIOUS
  <2>1. \A e \in Edits : pc[e] = "unsent" /\ Fate(e) = "unsent"
    BY DEF Init, Fate, Handlers, Waiting
  <2>2. \A r \in Requests : Reader(r) = "unsent"
    BY DEF Init, Reader, Handlers
  <2> QED BY <2>1, <2>2 DEF Init, Sequence!Init
<1> QED BY <1>1, RefinementStep, TypeCorrect, SequenceCorrect, TargetCorrect,
           AppliedCorrect, PTL DEF Spec, ImplementsSequence, Sequence!Spec

-----------------------------------------------------------------------------
(* The stall report beside the barrier.                                    *)

\* The report changes nothing of the barrier (StallReport): every behaviour of
\* the barrier with its reports is one of the barrier alone, so the theorems
\* above hold with the reports running.
THEOREM ReportLeavesBarrier == ReportSpec => Spec
<1>1. ReportInit => Init
  BY DEF ReportInit
<1>2. [ReportNext]_<<vars, report>> => [Next]_vars
  BY DEF ReportNext, BarrierStep, Reporting, Recheck, Claim
<1> QED BY <1>1, <1>2, PTL DEF ReportSpec, Spec

\* The report's variables always have their type.
THEOREM ReportTypeCorrect == ReportSpec => []ReportTypeOK
<1>1. ReportInit => ReportTypeOK
  BY DEF ReportInit, ReportTypeOK
<1>2. TypeOK /\ ReportTypeOK /\ [ReportNext]_<<vars, report>> => ReportTypeOK'
  <2> SUFFICES ASSUME TypeOK, ReportTypeOK, [ReportNext]_<<vars, report>>
               PROVE  ReportTypeOK'
    OBVIOUS
  <2> USE DEF ReportTypeOK
  <2>1. CASE BarrierStep BY <2>1 DEF BarrierStep, TypeOK
  <2>2. ASSUME NEW r \in Requests, Recheck(r) PROVE ReportTypeOK'
    BY <2>2 DEF Recheck, TypeOK
  <2>3. ASSUME NEW r \in Requests, Claim(r) PROVE ReportTypeOK'
    <3>1. Line(r) \in [by : Requests, position : Nat, culprit : Edits \cup {Nobody}]
      BY DEF Line, TypeOK
    <3> QED BY <2>3, <3>1 DEF Claim, TypeOK
  <2>4. CASE UNCHANGED <<vars, report>> BY <2>4 DEF report
  <2> QED BY <2>1, <2>2, <2>3, <2>4 DEF ReportNext, Reporting
<1> QED BY <1>1, <1>2, ReportLeavesBarrier, TypeCorrect, PTL DEF ReportSpec

\* The suppression slot only ever holds a position some line names.
SilenceIsBacked ==
  stall_reported # -1 => \E x \in logged : x.position = stall_reported

\* It does, since the swap and the line are one step.
LEMMA SilenceBacked == ReportSpec => []SilenceIsBacked
<1>1. ReportInit => SilenceIsBacked
  BY DEF ReportInit, SilenceIsBacked
<1>2. SilenceIsBacked /\ [ReportNext]_<<vars, report>> => SilenceIsBacked'
  <2> SUFFICES ASSUME SilenceIsBacked, [ReportNext]_<<vars, report>>
               PROVE  SilenceIsBacked'
    OBVIOUS
  <2> USE DEF SilenceIsBacked
  <2>1. CASE BarrierStep BY <2>1 DEF BarrierStep
  <2>2. ASSUME NEW r \in Requests, Recheck(r) PROVE SilenceIsBacked'
    BY <2>2 DEF Recheck
  <2>3. ASSUME NEW r \in Requests, Claim(r) PROVE SilenceIsBacked'
    <3>1. CASE now_serving >= target[r] \/ stall_reported = now_serving
      BY <2>3, <3>1 DEF Claim
    <3>2. CASE ~(now_serving >= target[r]) /\ stall_reported # now_serving
      <4>1. Line(r) \in logged' /\ stall_reported' = now_serving
        BY <2>3, <3>2 DEF Claim
      <4> QED BY <4>1 DEF Line
    <3> QED BY <3>1, <3>2
  <2>4. CASE UNCHANGED <<vars, report>> BY <2>4 DEF report
  <2> QED BY <2>1, <2>2, <2>3, <2>4 DEF ReportNext, Reporting
<1> QED BY <1>1, <1>2, PTL DEF ReportSpec

\* A request that has overrun its first wait has its target already.
OverrunLate ==
  \A r \in stalled : pc[r] \in {"register", "check", "parked", "serve", "readmit", "done"}

\* What a barrier step leaves of a stall.
Advance ==
  /\ now_serving' >= now_serving
  /\ stalled \subseteq stalled'
  /\ OverrunLate'
  /\ \A r \in stalled : target'[r] = target[r] /\ (pc[r] = "done" => pc'[r] = "done")
  /\ \A e \in Edits : pc[e] # "unsent" => ticket'[e] = ticket[e]

\* What a step of the barrier may do to a stall: the sequence moves forward, a
\* request that has overrun stays so, with the target it had, and a ticket once
\* drawn is kept.
LEMMA OverrunStep ==
  TypeOK /\ OverrunLate /\ [Next]_vars => Advance
<1> SUFFICES ASSUME TypeOK, OverrunLate, [Next]_vars PROVE Advance
  OBVIOUS
<1> USE HandlersAssumption DEF Handlers, TypeOK, EditLabels, RequestLabels, Waiting, InTurn, Handed, Goto, order, admission, OverrunLate, Advance
<1>1. ASSUME NEW p \in Handlers, Wait(p) PROVE Advance
  <2>1. CASE Register(p)
    BY <2>1 DEF Register
  <2>2. CASE Check(p)
    BY <2>2 DEF Check, TurnReached
  <2>3. CASE Wake(p)
    BY <2>3 DEF Wake
  <2> QED BY <1>1, <2>1, <2>2, <2>3 DEF Wait
<1>2. ASSUME NEW e \in Edits, EditNext(e) PROVE Advance
  <2>1. CASE TakeTicket(e)
    BY <2>1 DEF TakeTicket
  <2>2. CASE SetHolder(e)
    BY <2>2 DEF SetHolder
  <2>3. CASE ApplyEdit(e)
    BY <2>3 DEF ApplyEdit
  <2>4. CASE SkipEdit(e)
    BY <2>4 DEF SkipEdit
  <2>5. CASE ClearHolder(e)
    BY <2>5 DEF ClearHolder
  <2>6. CASE HandTurnOn(e)
    BY <2>6 DEF HandTurnOn
  <2>7. CASE DropParkedHandler(e)
    BY <2>7 DEF DropParkedHandler
  <2>8. CASE RecordAbandoned(e)
    BY <2>8 DEF RecordAbandoned
  <2>9. CASE LockAbandoned(e)
    BY <2>9 DEF LockAbandoned
  <2>10. CASE RemoveHead(e)
    BY <2>10 DEF RemoveHead
  <2>11. CASE StepOver(e)
    BY <2>11 DEF StepOver
  <2>12. CASE UnlockAbandoned(e)
    BY <2>12 DEF UnlockAbandoned
  <2>13. CASE NotifyWaiters(e)
    BY <2>13 DEF NotifyWaiters
  <2> QED BY <1>2, <2>1, <2>2, <2>3, <2>4, <2>5, <2>6, <2>7, <2>8, <2>9, <2>10, <2>11, <2>12, <2>13 DEF EditNext, Turn, Drain
<1>3. ASSUME NEW r \in Requests, RequestNext(r) PROVE Advance
  <2>1. CASE QueueRequest(r)
    BY <2>1 DEF QueueRequest
  <2>2. CASE AcquirePermit(r)
    BY <2>2 DEF AcquirePermit
  <2>3. CASE SnapshotTarget(r)
    BY <2>3 DEF SnapshotTarget
  <2>4. CASE FastPath(r)
    BY <2>4 DEF FastPath
  <2>5. CASE StallTimeout(r)
    BY <2>5 DEF StallTimeout
  <2>6. CASE StepOutside(r)
    BY <2>6 DEF StepOutside
  <2>7. CASE Respond(r)
    BY <2>7 DEF Respond
  <2>8. CASE CancelRequest(r)
    BY <2>8 DEF CancelRequest
  <2> QED BY <1>3, <2>1, <2>2, <2>3, <2>4, <2>5, <2>6, <2>7, <2>8 DEF RequestNext
<1>4. CASE UNCHANGED vars
  BY <1>4 DEF vars
<1> QED BY <1>1, <1>2, <1>3, <1>4 DEF Next, Terminated

\* A report is about a position the barrier has not left behind.
OverrunBehind == \A r \in stalled : overrun_at[r] <= now_serving

\* Either the report of an overrun is still running, or the barrier has moved,
\* or the position is announced.
LEMMA AnnouncedStep ==
  /\ TypeOK /\ ReportTypeOK /\ SilenceIsBacked
  /\ OverrunLate /\ OverrunBehind /\ StallIsAnnounced /\ [ReportNext]_<<vars, report>>
  => OverrunLate' /\ OverrunBehind' /\ StallIsAnnounced'
<1> SUFFICES ASSUME TypeOK, ReportTypeOK, SilenceIsBacked, OverrunLate, OverrunBehind,
                    StallIsAnnounced, [ReportNext]_<<vars, report>>
             PROVE  OverrunLate' /\ OverrunBehind' /\ StallIsAnnounced'
  OBVIOUS
<1> USE DEF TypeOK, ReportTypeOK, SilenceIsBacked, OverrunBehind, StallIsAnnounced
<1>1. CASE BarrierStep
  <2>1. Advance
    BY <1>1, OverrunStep DEF BarrierStep
  <2>2. stalled' \subseteq Requests /\ now_serving' \in Nat
    BY <1>1, TypeOKStep DEF BarrierStep
  <2>3. OverrunBehind'
    BY <1>1, <2>1, <2>2 DEF BarrierStep, Advance
  <2>4. ASSUME NEW r \in stalled', reporting'[r] = "idle", now_serving' = overrun_at'[r],
               now_serving' < target'[r], pc'[r] # "done"
        PROVE  \E x \in logged' : x.position = now_serving'
    <3>1. r \in stalled /\ reporting[r] = "idle"
      BY <1>1, <2>2, <2>4 DEF BarrierStep
    <3>2. overrun_at'[r] = overrun_at[r] /\ target'[r] = target[r] /\ pc[r] # "done"
      BY <1>1, <2>1, <2>2, <2>4, <3>1 DEF BarrierStep, Advance
    <3>3. now_serving' = now_serving
      BY <2>1, <2>2, <2>4, <3>1, <3>2 DEF Advance
    <3>4. \E x \in logged : x.position = now_serving
      BY <2>4, <3>1, <3>2, <3>3
    <3> QED BY <1>1, <3>3, <3>4 DEF BarrierStep
  <2> QED BY <2>1, <2>3, <2>4 DEF Advance
<1>2. ASSUME NEW r \in Requests, Recheck(r)
      PROVE  OverrunLate' /\ OverrunBehind' /\ StallIsAnnounced'
  BY <1>2 DEF Recheck, vars, OverrunLate
<1>3. ASSUME NEW r \in Requests, Claim(r)
      PROVE  OverrunLate' /\ OverrunBehind' /\ StallIsAnnounced'
  <2>1. UNCHANGED <<pc, target, now_serving, stalled, overrun_at>>
    BY <1>3 DEF Claim, vars
  <2>2. logged \subseteq logged' /\ \A q \in Requests \ {r} : reporting'[q] = reporting[q]
    BY <1>3 DEF Claim
  <2>3. now_serving < target[r] => \E x \in logged' : x.position = now_serving
    <3>1. CASE now_serving < target[r] /\ stall_reported # now_serving
      <4>1. Line(r) \in logged'
        BY <1>3, <3>1 DEF Claim
      <4> QED BY <4>1 DEF Line
    <3>2. CASE now_serving < target[r] /\ stall_reported = now_serving
      BY <3>2, <2>2
    <3> QED BY <3>1, <3>2
  <2> QED BY <2>1, <2>2, <2>3 DEF OverrunLate
<1>4. CASE UNCHANGED <<vars, report>>
  BY <1>4 DEF vars, report, OverrunLate
<1> QED BY <1>1, <1>2, <1>3, <1>4 DEF ReportNext, Reporting

\* A stall that outlasts its report is announced (StallIsAnnounced), however
\* many requests report it at once and however late their timeouts fire.
THEOREM StallsAreAnnounced == ReportSpec => []StallIsAnnounced
<1>1. ReportInit => OverrunLate /\ OverrunBehind /\ StallIsAnnounced
  BY DEF ReportInit, Init, OverrunLate, OverrunBehind, StallIsAnnounced
<1> QED BY <1>1, AnnouncedStep, ReportLeavesBarrier, TypeCorrect, ReportTypeCorrect,
           SilenceBacked, PTL DEF ReportSpec

\* The slot holds the last position a line names, and no later one.
LinesBehind ==
  /\ stall_reported <= now_serving
  /\ \A x \in logged : x.position <= stall_reported

\* No two lines are about one position (OneLinePerPosition), however many
\* requests report: the sequence never goes back to a position the slot has
\* forgotten.
THEOREM LinesAreLimited == ReportSpec => []OneLinePerPosition
<1>1. ReportInit => OverrunLate /\ LinesBehind /\ OneLinePerPosition
  BY DEF ReportInit, Init, OverrunLate, LinesBehind, OneLinePerPosition
<1>2. /\ TypeOK /\ ReportTypeOK /\ OverrunLate /\ LinesBehind /\ OneLinePerPosition
      /\ [ReportNext]_<<vars, report>>
      => OverrunLate' /\ LinesBehind' /\ OneLinePerPosition'
  <2> SUFFICES ASSUME TypeOK, ReportTypeOK, OverrunLate, LinesBehind, OneLinePerPosition,
                      [ReportNext]_<<vars, report>>
               PROVE  OverrunLate' /\ LinesBehind' /\ OneLinePerPosition'
    OBVIOUS
  <2> USE DEF TypeOK, ReportTypeOK, LinesBehind, OneLinePerPosition
  <2>1. CASE BarrierStep
    <3>1. Advance
      BY <2>1, OverrunStep DEF BarrierStep
    <3>2. now_serving' \in Nat
      BY <2>1, TypeOKStep DEF BarrierStep
    <3> QED BY <2>1, <3>1, <3>2 DEF BarrierStep, Advance
  <2>2. ASSUME NEW r \in Requests, Recheck(r)
        PROVE  OverrunLate' /\ LinesBehind' /\ OneLinePerPosition'
    BY <2>2 DEF Recheck, vars, OverrunLate
  <2>3. ASSUME NEW r \in Requests, Claim(r)
        PROVE  OverrunLate' /\ LinesBehind' /\ OneLinePerPosition'
    <3>1. UNCHANGED <<pc, stalled, now_serving>>
      BY <2>3 DEF Claim, vars
    <3>2. CASE now_serving >= target[r]
      BY <2>3, <3>1, <3>2 DEF Claim, OverrunLate
    <3>3. CASE ~(now_serving >= target[r]) /\ stall_reported = now_serving
      BY <2>3, <3>1, <3>3 DEF Claim, OverrunLate
    <3>4. CASE ~(now_serving >= target[r]) /\ stall_reported # now_serving
      <4>1. stall_reported' = now_serving /\ logged' = logged \cup {Line(r)}
        BY <2>3, <3>4 DEF Claim
      <4>2. Line(r).position = now_serving
        BY DEF Line
      <4>3. \A x \in logged : x.position < now_serving
        BY <3>4
      <4> QED BY <3>1, <4>1, <4>2, <4>3 DEF OverrunLate
    <3> QED BY <3>2, <3>3, <3>4
  <2>4. CASE UNCHANGED <<vars, report>>
    BY <2>4 DEF vars, report, OverrunLate
  <2> QED BY <2>1, <2>2, <2>3, <2>4 DEF ReportNext, Reporting
<1> QED BY <1>1, <1>2, ReportLeavesBarrier, TypeCorrect, ReportTypeCorrect, PTL DEF ReportSpec

\* Why a line blames nobody who was through before the overrun: a report runs
\* for a request that has overrun, and the holder it has copied held the turn
\* since.
CulpritHeld ==
  /\ \A r \in Requests : reporting[r] # "idle" => r \in stalled
  /\ \A x \in logged : x.by \in stalled
  /\ \A r \in Requests :
       reporting[r] = "sleep" /\ culprit[r] # Nobody =>
         ticket[culprit[r]] \in overrun_at[r] .. now_serving

LEMMA CulpritStep ==
  /\ TypeOK /\ ReportTypeOK /\ SequenceInv /\ HolderIsServed
  /\ OverrunLate /\ OverrunBehind /\ CulpritHeld /\ LineNamesHolder
  /\ [ReportNext]_<<vars, report>>
  => OverrunLate' /\ OverrunBehind' /\ CulpritHeld' /\ LineNamesHolder'
<1> SUFFICES ASSUME TypeOK, ReportTypeOK, SequenceInv, HolderIsServed, OverrunLate,
                    OverrunBehind, CulpritHeld, LineNamesHolder,
                    [ReportNext]_<<vars, report>>
             PROVE  OverrunLate' /\ OverrunBehind' /\ CulpritHeld' /\ LineNamesHolder'
  OBVIOUS
<1> USE DEF TypeOK, ReportTypeOK, OverrunBehind, CulpritHeld, LineNamesHolder
<1>1. CASE BarrierStep
  <2>1. Advance
    BY <1>1, OverrunStep DEF BarrierStep
  <2>2. stalled' \subseteq Requests /\ now_serving' \in Nat /\ now_serving <= now_serving'
    BY <1>1, <2>1, TypeOKStep DEF BarrierStep, Advance
  <2>3. OverrunBehind' /\ \A r \in stalled : r \in stalled' /\ overrun_at'[r] = overrun_at[r]
    BY <1>1, <2>1, <2>2 DEF BarrierStep, Advance
  <2>4. \A e \in Edits : ticket[e] \in Nat => ticket'[e] = ticket[e]
    BY <2>1 DEF Advance, SequenceInv, Numbered
  <2>5. logged' = logged /\ \A r \in Requests : culprit'[r] \in {culprit[r], Nobody}
    BY <1>1 DEF BarrierStep
  <2>6. \A r \in Requests :
          /\ reporting'[r] # "idle" => r \in stalled'
          /\ reporting'[r] = "sleep" => reporting[r] = "sleep"
    BY <1>1, <2>2, <2>3 DEF BarrierStep
  <2>7. \A x \in logged' : x.by \in stalled'
    BY <2>3, <2>5
  <2>8. ASSUME NEW r \in Requests, reporting'[r] = "sleep", culprit'[r] # Nobody
        PROVE  ticket'[culprit'[r]] \in overrun_at'[r] .. now_serving'
    <3>1. r \in stalled /\ culprit'[r] = culprit[r] /\ culprit[r] \in Edits
      BY <2>5, <2>6, <2>8
    <3>2. ticket[culprit[r]] \in overrun_at[r] .. now_serving
      BY <2>6, <2>8, <3>1
    <3>3. ticket'[culprit[r]] = ticket[culprit[r]]
      BY <2>4, <3>1, <3>2
    <3> QED BY <2>2, <2>3, <3>1, <3>2, <3>3
  <2>9. ASSUME NEW x \in logged', x.culprit # Nobody
        PROVE  ticket'[x.culprit] \in overrun_at'[x.by] .. x.position
    <3>1. x \in logged /\ x.by \in stalled /\ x.culprit \in Edits
      BY <2>5, <2>9
    <3>2. ticket[x.culprit] \in overrun_at[x.by] .. x.position
      BY <2>9, <3>1
    <3>3. ticket'[x.culprit] = ticket[x.culprit]
      BY <2>4, <3>1, <3>2
    <3> QED BY <2>3, <3>1, <3>2, <3>3
  <2> QED BY <2>1, <2>3, <2>6, <2>7, <2>8, <2>9 DEF Advance
<1>2. ASSUME NEW r \in Requests, Recheck(r)
      PROVE  OverrunLate' /\ OverrunBehind' /\ CulpritHeld' /\ LineNamesHolder'
  <2>1. UNCHANGED <<pc, stalled, ticket, now_serving, overrun_at, logged>>
    BY <1>2 DEF Recheck, vars
  <2>2. /\ r \in stalled
        /\ \A q \in Requests \ {r} : reporting'[q] = reporting[q] /\ culprit'[q] = culprit[q]
    BY <1>2 DEF Recheck
  <2>3. holder # Nobody => ticket[holder] \in overrun_at[r] .. now_serving
    BY <2>2 DEF HolderIsServed
  <2>4. reporting'[r] = "sleep" => culprit'[r] = holder
    BY <1>2 DEF Recheck
  <2> QED BY <2>1, <2>2, <2>3, <2>4 DEF OverrunLate
<1>3. ASSUME NEW r \in Requests, Claim(r)
      PROVE  OverrunLate' /\ OverrunBehind' /\ CulpritHeld' /\ LineNamesHolder'
  <2>1. UNCHANGED <<pc, stalled, ticket, now_serving, overrun_at>>
    BY <1>3 DEF Claim, vars
  <2>2. r \in stalled /\ reporting[r] = "sleep" /\ reporting' = [reporting EXCEPT ![r] = "idle"]
    BY <1>3 DEF Claim
  <2>3. logged' = logged \/ logged' = logged \cup {Line(r)}
    BY <1>3 DEF Claim
  <2>4. /\ Line(r).by = r /\ Line(r).culprit = culprit[r] /\ Line(r).position = now_serving
    BY DEF Line
  <2>5. \A x \in logged' : x.by \in stalled
    BY <2>2, <2>3, <2>4
  <2>6. \A x \in logged' : x.culprit # Nobody => ticket[x.culprit] \in overrun_at[x.by] .. x.position
    BY <2>2, <2>3, <2>4
  <2>7. \A q \in Requests \ {r} : culprit'[q] = culprit[q]
    BY <1>3 DEF Claim
  <2> QED BY <2>1, <2>2, <2>5, <2>6, <2>7 DEF OverrunLate
<1>4. CASE UNCHANGED <<vars, report>>
  BY <1>4 DEF vars, report, OverrunLate
<1> QED BY <1>1, <1>2, <1>3, <1>4 DEF ReportNext, Reporting

\* A line that names a handler names one that held the turn after the overrun
\* (LineNamesHolder): the slot it is copied from is never left over
\* (HolderIsServed), and the sequence only moves forward.
THEOREM LinesNameHolders == ReportSpec => []LineNamesHolder
<1>1. ReportInit => OverrunLate /\ OverrunBehind /\ CulpritHeld /\ LineNamesHolder
  BY DEF ReportInit, Init, OverrunLate, OverrunBehind, CulpritHeld, LineNamesHolder
<1> QED BY <1>1, CulpritStep, ReportLeavesBarrier, TypeCorrect, SequenceCorrect, HolderIsHonest,
           ReportTypeCorrect, PTL DEF ReportSpec
=============================================================================
