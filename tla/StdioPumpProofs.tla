-------------------------- MODULE StdioPumpProofs --------------------------
(***************************************************************************)
(* The safety of the stdout pump for any number of chunks.  Three          *)
(* invariants, each inductive on top of the ones before it:                *)
(*   - Counting: the counter is exact, and what it counts was offered;     *)
(*   - Ordering: while the sink is healthy the chunks taken, in hand and   *)
(*     queued are the accepted ones, consecutively numbered;               *)
(*   - Flushing: only a queue with more to write excuses a missing flush.  *)
(***************************************************************************)
EXTENDS StdioPump, TLAPS

Writing == IF drain = "write" THEN 1 ELSE 0

\* Shapes, and where the two sides can be relative to each other.
Sides ==
  /\ writer \in {"idle", "send", "uncount", "closed"}
  /\ drain \in {"recv", "write", "subtract", "check", "flush", "last_flush", "hang_up", "done"}
  /\ offered \in Nat /\ accepted \in Nat /\ offered <= MaxChunks
  /\ writer = "idle" => offered = accepted
  /\ writer \in {"send", "uncount"} => offered = accepted + 1
  /\ accepted <= offered
  /\ channel \in Seq(Nat) /\ written \in Seq(Nat)
  /\ broken => drain \in {"subtract", "hang_up", "done"}
  /\ chunk \in Nat

Counting ==
  /\ queued \in Nat
  /\ BacklogIsExact
  /\ queued <= offered

Ordering ==
  /\ ~broken => accepted = Len(written) + Writing + Len(channel)
  /\ ~broken => \A i \in 1 .. Len(channel) : channel[i] = Len(written) + Writing + i
  /\ drain = "write" => chunk = Len(written) + 1
  /\ \A i \in 1 .. Len(written) : written[i] = i
  /\ Len(written) <= accepted

Flushing ==
  /\ flushed \in Nat /\ flushed <= Len(written)
  /\ drain = "recv" => channel # <<>> \/ flushed = Len(written)
  /\ drain = "last_flush" => writer = "closed" /\ channel = <<>>
  /\ drain \in {"hang_up", "done"} /\ ~broken =>
       writer = "closed" /\ channel = <<>> /\ flushed = Len(written)

PumpInv == Sides /\ Counting /\ Ordering /\ Flushing

-----------------------------------------------------------------------------

\* A counter below the width of the word does not wrap.
LEMMA NoWrap == ASSUME NEW q \in Nat, NEW w \in Nat, q < w PROVE q % w = q
OBVIOUS

\* What a chunk joining the queue, or the sink's output, changes.
LEMMA Joins ==
  ASSUME NEW s \in Seq(Nat), NEW x \in Nat
  PROVE  /\ Append(s, x) \in Seq(Nat) /\ Append(s, x) # <<>>
         /\ Len(s) \in Nat /\ Len(Append(s, x)) = Len(s) + 1
         /\ \A i \in 1 .. Len(s) : Append(s, x)[i] = s[i]
         /\ Append(s, x)[Len(s) + 1] = x
OBVIOUS

\* What the head leaving the queue changes.
LEMMA Leaves ==
  ASSUME NEW s \in Seq(Nat), s # <<>>
  PROVE  /\ Head(s) = s[1] /\ Head(s) \in Nat
         /\ Tail(s) \in Seq(Nat)
         /\ Len(s) \in Nat /\ Len(s) >= 1 /\ Len(Tail(s)) = Len(s) - 1
         /\ \A i \in 1 .. Len(s) - 1 : Tail(s)[i] = s[i + 1]
OBVIOUS

\* The pump starts empty, idle and flushed.
LEMMA InitPump == Init => PumpInv
<1> SUFFICES ASSUME Init PROVE PumpInv
  OBVIOUS
<1> USE PumpAssumption DEF Init
<1>1. Sides BY DEF Sides
<1>2. Counting BY DEF Counting, BacklogIsExact, InPollWrite, InHand
<1>3. Ordering BY DEF Ordering, Writing
<1>4. Flushing BY DEF Flushing
<1> QED BY <1>1, <1>2, <1>3, <1>4 DEF PumpInv

\* Each step keeps both sides where they can be.
LEMMA SidesKept == PumpInv /\ [Next]_vars => Sides'
<1> SUFFICES ASSUME PumpInv, [Next]_vars PROVE Sides'
  OBVIOUS
<1> USE PumpAssumption DEF PumpInv, Sides, transport, sink
<1>1. CASE PollWrite BY <1>1 DEF PollWrite
<1>2. CASE Shutdown BY <1>2 DEF Shutdown
<1>3. CASE Send
  <2>1. CASE connected
    <3>1. channel' \in Seq(Nat)
      BY <1>3, <2>1, Joins DEF Send
    <3>2. accepted' = offered /\ writer' = "idle"
      BY <1>3, <2>1 DEF Send
    <3> QED BY <1>3, <3>1, <3>2 DEF Send
  <2>2. CASE ~connected
    BY <1>3, <2>2 DEF Send
  <2> QED BY <2>1, <2>2
<1>4. CASE Uncount BY <1>4 DEF Uncount
<1>5. CASE Recv
  <2>1. CASE channel # <<>>
    BY <1>5, <2>1, Leaves DEF Recv
  <2>2. CASE channel = <<>>
    BY <1>5, <2>2 DEF Recv
  <2> QED BY <2>1, <2>2
<1>6. CASE Write BY <1>6, Joins DEF Write
<1>7. CASE Subtract BY <1>7 DEF Subtract
<1>8. CASE Check BY <1>8 DEF Check
<1>9. CASE Flush BY <1>9 DEF Flush
<1>10. CASE LastFlush BY <1>10 DEF LastFlush
<1>11. CASE HangUp BY <1>11 DEF HangUp
<1>12. CASE UNCHANGED vars BY <1>12 DEF vars
<1> QED
  BY <1>1, <1>2, <1>3, <1>4, <1>5, <1>6, <1>7, <1>8, <1>9, <1>10, <1>11, <1>12
  DEF Next, WriterStep, DrainStep

\* The addition lands before its subtraction, so the counter cannot wrap.
LEMMA CountingKept == PumpInv /\ [Next]_vars => Counting'
<1> SUFFICES ASSUME PumpInv, [Next]_vars PROVE Counting'
  OBVIOUS
<1> USE PumpAssumption DEF PumpInv, Sides, Counting, BacklogIsExact, transport, sink
<1>0. Len(channel) \in Nat /\ InPollWrite \in Nat /\ InHand \in Nat
  BY DEF InPollWrite, InHand
<1>1. CASE PollWrite
  <2>1. InPollWrite = 0 /\ InPollWrite' = 1 /\ InHand' = InHand
    BY <1>1 DEF PollWrite, InPollWrite, InHand
  <2>2. queued + 1 \in Nat /\ queued + 1 < Word
    BY <1>1 DEF PollWrite
  <2>3. queued' = queued + 1
    BY <1>1, <2>2, NoWrap DEF PollWrite
  <2> QED BY <1>0, <1>1, <2>1, <2>3 DEF PollWrite
<1>2. CASE Shutdown
  <2>1. InPollWrite' = InPollWrite /\ InHand' = InHand
    BY <1>2 DEF Shutdown, InPollWrite, InHand
  <2> QED BY <1>2, <2>1 DEF Shutdown
<1>3. CASE Send
  <2>1. InPollWrite = 1 /\ InHand' = InHand
    BY <1>3 DEF Send, InPollWrite, InHand
  <2>2. CASE connected
    <3>1. InPollWrite' = 0
      BY <1>3, <2>2 DEF Send, InPollWrite
    <3>2. Len(channel') = Len(channel) + 1
      BY <1>3, <2>2, Joins DEF Send
    <3> QED BY <1>0, <1>3, <2>1, <3>1, <3>2 DEF Send
  <2>3. CASE ~connected
    <3>1. InPollWrite' = 1
      BY <1>3, <2>3 DEF Send, InPollWrite
    <3> QED BY <1>0, <1>3, <2>1, <2>3, <3>1 DEF Send
  <2> QED BY <2>2, <2>3
<1>4. CASE Uncount
  <2>1. InPollWrite = 1 /\ InPollWrite' = 0 /\ InHand' = InHand
    BY <1>4 DEF Uncount, InPollWrite, InHand
  <2>2. queued - 1 \in Nat /\ queued - 1 < Word
    BY <1>0, <2>1
  <2>3. queued' = queued - 1
    BY <1>4, <2>2, NoWrap DEF Uncount
  <2> QED BY <1>0, <1>4, <2>1, <2>2, <2>3 DEF Uncount
<1>5. CASE Recv
  <2>1. InPollWrite' = InPollWrite /\ InHand = 0
    BY <1>5 DEF Recv, InPollWrite, InHand
  <2>2. CASE channel # <<>>
    <3>1. InHand' = 1
      BY <1>5, <2>2 DEF Recv, InHand
    <3>2. Len(channel') = Len(channel) - 1
      BY <1>5, <2>2, Leaves DEF Recv
    <3> QED BY <1>0, <1>5, <2>1, <3>1, <3>2 DEF Recv
  <2>3. CASE channel = <<>>
    <3>1. InHand' = 0
      BY <1>5, <2>3 DEF Recv, InHand
    <3> QED BY <1>0, <1>5, <2>1, <2>3, <3>1 DEF Recv
  <2> QED BY <2>2, <2>3
<1>6. CASE Write
  <2>1. InPollWrite' = InPollWrite /\ InHand' = InHand
    BY <1>6 DEF Write, InPollWrite, InHand
  <2> QED BY <1>6, <2>1 DEF Write
<1>7. CASE Subtract
  <2>1. InPollWrite' = InPollWrite /\ InHand = 1 /\ InHand' = 0
    BY <1>7 DEF Subtract, InPollWrite, InHand
  <2>2. queued - 1 \in Nat /\ queued - 1 < Word
    BY <1>0, <2>1
  <2>3. queued' = queued - 1
    BY <1>7, <2>2, NoWrap DEF Subtract
  <2> QED BY <1>0, <1>7, <2>1, <2>2, <2>3 DEF Subtract
<1>8. CASE Check \/ Flush \/ LastFlush \/ HangUp
  <2>1. InPollWrite' = InPollWrite /\ InHand' = InHand
    BY <1>8 DEF Check, Flush, LastFlush, HangUp, InPollWrite, InHand
  <2> QED BY <1>8, <2>1 DEF Check, Flush, LastFlush, HangUp
<1>9. CASE UNCHANGED vars
  BY <1>9 DEF vars, InPollWrite, InHand
<1> QED
  BY <1>1, <1>2, <1>3, <1>4, <1>5, <1>6, <1>7, <1>8, <1>9 DEF Next, WriterStep, DrainStep

\* A single queue with a single reader keeps the numbering consecutive.
LEMMA OrderingKept == PumpInv /\ [Next]_vars => Ordering'
<1> SUFFICES ASSUME PumpInv, [Next]_vars PROVE Ordering'
  OBVIOUS
<1> USE PumpAssumption DEF PumpInv, Sides, Ordering, Writing, transport, sink
<1>1. CASE PollWrite BY <1>1 DEF PollWrite
<1>2. CASE Shutdown BY <1>2 DEF Shutdown
<1>3. CASE Send
  <2>1. CASE connected
    <3>1. channel' = Append(channel, offered) /\ accepted' = offered
      BY <1>3, <2>1 DEF Send
    <3>2. UNCHANGED <<written, broken, drain, chunk>> /\ offered = accepted + 1
      BY <1>3 DEF Send
    <3>3. /\ Len(channel) \in Nat /\ Len(channel') = Len(channel) + 1
          /\ \A i \in 1 .. Len(channel) : channel'[i] = channel[i]
          /\ channel'[Len(channel) + 1] = offered
      BY <3>1, Joins
    <3>4. /\ Len(written) \in Nat /\ Writing \in Nat /\ Writing' = Writing
          /\ ~broken => accepted = Len(written) + Writing + Len(channel)
          /\ ~broken => \A i \in 1 .. Len(channel) : channel[i] = Len(written) + Writing + i
          /\ drain = "write" => chunk = Len(written) + 1
          /\ \A i \in 1 .. Len(written) : written[i] = i
          /\ accepted \in Nat /\ Len(written) <= accepted
      BY <3>2
    <3> HIDE DEF PumpInv, Writing
    <3>5. ~broken => \A i \in 1 .. Len(channel') : channel'[i] = Len(written) + Writing + i
      <4> SUFFICES ASSUME ~broken, NEW i \in 1 .. Len(channel) + 1
                   PROVE  channel'[i] = Len(written) + Writing + i
        BY <3>3
      <4>1. CASE i = Len(channel) + 1
        BY <4>1, <3>2, <3>3, <3>4
      <4>2. CASE i \in 1 .. Len(channel)
        BY <4>2, <3>3, <3>4
      <4> QED BY <4>1, <4>2, <3>3
    <3>6. (~broken => accepted = Len(written) + Writing + Len(channel))'
      BY <3>1, <3>2, <3>3, <3>4
    <3>7. (~broken => \A i \in 1 .. Len(channel) : channel[i] = Len(written) + Writing + i)'
      BY <3>2, <3>4, <3>5
    <3>8. (Len(written) <= accepted)'
      BY <3>1, <3>2, <3>4
    <3> QED BY <3>2, <3>4, <3>6, <3>7, <3>8
  <2>2. CASE ~connected
    BY <1>3, <2>2 DEF Send
  <2> QED BY <2>1, <2>2
<1>4. CASE Uncount BY <1>4 DEF Uncount
<1>5. CASE Recv
  <2>1. CASE channel # <<>>
    <3>1. /\ drain = "recv" /\ drain' = "write" /\ ~broken
          /\ chunk' = Head(channel) /\ channel' = Tail(channel)
          /\ UNCHANGED <<accepted, written, broken>>
      BY <1>5, <2>1 DEF Recv
    <3>2. /\ Len(channel) \in Nat /\ Len(channel) >= 1 /\ Len(channel') = Len(channel) - 1
          /\ chunk' = channel[1]
          /\ \A i \in 1 .. Len(channel) - 1 : channel'[i] = channel[i + 1]
      BY <2>1, <3>1, Leaves
    <3>3. Len(written) \in Nat /\ Writing = 0 /\ Writing' = 1
      BY <3>1
    <3>4. \A i \in 1 .. Len(channel) : channel[i] = Len(written) + i
      BY <3>1, <3>3
    <3>5. chunk' = Len(written) + 1
      BY <3>2, <3>3, <3>4
    <3>6. /\ accepted = Len(written) + Len(channel)
          /\ \A i \in 1 .. Len(written) : written[i] = i
          /\ Len(written) <= accepted
      BY <3>1, <3>3
    <3>7. \A i \in 1 .. Len(channel') : channel'[i] = Len(written) + 1 + i
      BY <3>2, <3>3, <3>4
    <3> HIDE DEF PumpInv, Writing
    <3>8. (accepted = Len(written) + Writing + Len(channel))'
      <4>1. accepted' = accepted /\ Len(written') = Len(written)
        BY <3>1
      <4> QED BY <3>2, <3>3, <3>6, <4>1
    <3>9. (\A i \in 1 .. Len(channel) : channel[i] = Len(written) + Writing + i)'
      BY <3>1, <3>3, <3>7
    <3> QED BY <3>1, <3>5, <3>6, <3>8, <3>9
  <2>2. CASE channel = <<>>
    BY <1>5, <2>2 DEF Recv
  <2> QED BY <2>1, <2>2
<1>6. CASE Write
  <2>0. /\ drain = "write" /\ drain' = "subtract" /\ ~broken /\ Writing = 1 /\ Writing' = 0
        /\ UNCHANGED <<accepted, channel>>
        /\ Len(written) \in Nat /\ chunk = Len(written) + 1
    BY <1>6 DEF Write
  <2>1. CASE written' = Append(written, chunk) /\ UNCHANGED broken
    <3>1. /\ Len(written') = Len(written) + 1
          /\ \A i \in 1 .. Len(written) : written'[i] = written[i]
          /\ written'[Len(written) + 1] = chunk
      BY <2>1, Joins
    <3>2. \A i \in 1 .. Len(written') : written'[i] = i
      BY <2>0, <3>1
    <3> QED BY <2>0, <2>1, <3>1, <3>2
  <2>2. CASE broken' = TRUE /\ UNCHANGED written
    BY <2>0, <2>2
  <2> QED BY <1>6, <2>1, <2>2 DEF Write
<1>7. CASE Subtract BY <1>7 DEF Subtract
<1>8. CASE Check BY <1>8 DEF Check
<1>9. CASE Flush BY <1>9 DEF Flush
<1>10. CASE LastFlush BY <1>10 DEF LastFlush
<1>11. CASE HangUp BY <1>11 DEF HangUp
<1>12. CASE UNCHANGED vars BY <1>12 DEF vars
<1> QED
  BY <1>1, <1>2, <1>3, <1>4, <1>5, <1>6, <1>7, <1>8, <1>9, <1>10, <1>11, <1>12
  DEF Next, WriterStep, DrainStep

\* The task waits for more only with a queue to read or nothing to flush.
LEMMA FlushingKept == PumpInv /\ [Next]_vars => Flushing'
<1> SUFFICES ASSUME PumpInv, [Next]_vars PROVE Flushing'
  OBVIOUS
<1> USE PumpAssumption DEF PumpInv, Sides, Flushing, transport, sink
<1>1. CASE PollWrite BY <1>1 DEF PollWrite
<1>2. CASE Shutdown BY <1>2 DEF Shutdown
<1>3. CASE Send BY <1>3 DEF Send
<1>4. CASE Uncount BY <1>4 DEF Uncount
<1>5. CASE Recv BY <1>5 DEF Recv
<1>6. CASE Write BY <1>6 DEF Write
<1>7. CASE Subtract BY <1>7 DEF Subtract
<1>8. CASE Check BY <1>8 DEF Check
<1>9. CASE Flush BY <1>9 DEF Flush
<1>10. CASE LastFlush BY <1>10 DEF LastFlush
<1>11. CASE HangUp BY <1>11 DEF HangUp
<1>12. CASE UNCHANGED vars BY <1>12 DEF vars
<1> QED
  BY <1>1, <1>2, <1>3, <1>4, <1>5, <1>6, <1>7, <1>8, <1>9, <1>10, <1>11, <1>12
  DEF Next, WriterStep, DrainStep

\* The inductive invariant holds throughout.
LEMMA PumpInvariant == Spec => []PumpInv
<1>1. Init => PumpInv
  BY InitPump
<1>2. PumpInv /\ [Next]_vars => PumpInv'
  BY SidesKept, CountingKept, OrderingKept, FlushingKept DEF PumpInv
<1> QED BY <1>1, <1>2, PTL DEF Spec

-----------------------------------------------------------------------------

\* For any number of chunks the backlog counter of PumpedWriter is exact, so it
\* never wraps whatever the two threads' order.
THEOREM CounterNeverWraps == Spec => []BacklogIsExact
<1>1. PumpInv => BacklogIsExact
  BY DEF PumpInv, Counting
<1> QED BY <1>1, PumpInvariant, PTL

\* For any number of chunks the drain task writes what poll_write accepted,
\* from the first chunk on and in order.
THEOREM OutputIsFaithful == Spec => []NothingDroppedOrReordered
<1>1. PumpInv => NothingDroppedOrReordered
  BY DEF PumpInv, Sides, Ordering, NothingDroppedOrReordered, Writing
<1> QED BY <1>1, PumpInvariant, PTL

\* For any number of chunks a drain task that waits, or has ended with a
\* healthy sink, has left nothing unflushed.
THEOREM IdleIsFlushed == Spec => []IdleMeansFlushed
<1>1. PumpInv => IdleMeansFlushed
  BY DEF PumpInv, Sides, Ordering, Flushing, IdleMeansFlushed, Writing
<1> QED BY <1>1, PumpInvariant, PTL
=============================================================================
