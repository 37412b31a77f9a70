----------------------------- MODULE StdioPump -----------------------------
(***************************************************************************)
(* The outbound pump of tcl-lsp-server (stdio_pump.rs): a writer that      *)
(* never waits, an unbounded queue, and a drain task that writes to stdout *)
(* on another thread.  The two share the `queued` counter.                 *)
(*                                                                         *)
(* Chunks are numbered as the transport writes them and count as one byte  *)
(* each.  `queued` is an AtomicUsize and wraps at Word.  The once-only     *)
(* backlog warning is logging and left out.  A step is one atomic          *)
(* operation or one await.                                                 *)
(***************************************************************************)
EXTENDS Integers, Sequences

CONSTANTS MaxChunks,   \* bound: chunks the transport writes
          Word         \* usize::MAX + 1

ASSUME PumpAssumption == MaxChunks \in Nat /\ Word \in Nat /\ Word > MaxChunks

VARIABLES
  writer,     \* PumpedWriter: "idle", in poll_write ("send", "uncount"), or "closed"
  offered,    \* chunks given to poll_write
  accepted,   \* chunks it reported written
  channel,    \* the chunks in the channel, or left in it when its receiver went
  connected,  \* whether the drain task still holds the receiver
  queued,     \* PumpedWriter::queued
  drain,      \* the drain task's step
  chunk,      \* the chunk it is writing
  written,    \* the chunks the sink has taken, in order
  flushed,    \* how many of them have been flushed
  broken      \* whether the sink has failed

vars == <<writer, offered, accepted, channel, connected, queued, drain, chunk, written,
          flushed, broken>>
transport == <<writer, offered, accepted>>
sink == <<written, flushed, broken>>

Init ==
  /\ writer = "idle" /\ offered = 0 /\ accepted = 0
  /\ channel = <<>> /\ connected = TRUE
  /\ queued = 0
  /\ drain = "recv" /\ chunk = 0
  /\ written = <<>> /\ flushed = 0 /\ broken = FALSE

-----------------------------------------------------------------------------
(* The transport's side.                                                   *)

\* Mutant: the chunk is handed over uncounted.
PollWriteUncounted ==
  /\ writer = "idle" /\ offered < MaxChunks
  /\ offered' = offered + 1
  /\ writer' = "send"
  /\ UNCHANGED <<accepted, channel, connected, queued, drain, chunk, sink>>

\* poll_write counts the chunk before it hands it over ...
PollWrite ==
  /\ writer = "idle" /\ offered < MaxChunks
  /\ offered' = offered + 1
  /\ queued' = (queued + 1) % Word
  /\ writer' = "send"
  /\ UNCHANGED <<accepted, channel, connected, drain, chunk, sink>>

\* ... and reports it written; if the drain task has gone ...
Send ==
  /\ writer = "send"
  /\ IF connected
       THEN /\ channel' = Append(channel, offered)
            /\ accepted' = offered
            /\ writer' = "idle"
       ELSE writer' = "uncount" /\ UNCHANGED <<channel, accepted>>
  /\ UNCHANGED <<offered, connected, queued, drain, chunk, sink>>

\* ... it takes the count back and fails, which ends the session.
Uncount ==
  /\ writer = "uncount"
  /\ queued' = (queued - 1) % Word
  /\ writer' = "closed"
  /\ UNCHANGED <<offered, accepted, channel, connected, drain, chunk, sink>>

\* poll_shutdown, or the transport returns: the sender is dropped.
Shutdown ==
  /\ writer = "idle"
  /\ writer' = "closed"
  /\ UNCHANGED <<offered, accepted, channel, connected, queued, drain, chunk, sink>>

-----------------------------------------------------------------------------
(* The drain task.                                                         *)

\* Mutant: the task ends as soon as the sender is gone.
RecvStopsEarly ==
  /\ drain = "recv"
  /\ \/ /\ channel # <<>> /\ writer # "closed"
        /\ chunk' = Head(channel) /\ channel' = Tail(channel)
        /\ drain' = "write"
     \/ /\ writer = "closed"
        /\ drain' = "last_flush" /\ UNCHANGED <<chunk, channel>>
  /\ UNCHANGED <<transport, connected, queued, sink>>

\* rx.recv(): the next chunk, or None once the queue is empty and closed.
Recv ==
  /\ drain = "recv"
  /\ \/ /\ channel # <<>>
        /\ chunk' = Head(channel) /\ channel' = Tail(channel)
        /\ drain' = "write"
     \/ /\ channel = <<>> /\ writer = "closed"
        /\ drain' = "last_flush" /\ UNCHANGED <<chunk, channel>>
  /\ UNCHANGED <<transport, connected, queued, sink>>

\* Mutant: a failed write is retried with the next chunk.
WriteSkips ==
  /\ drain = "write"
  /\ \/ written' = Append(written, chunk) /\ UNCHANGED broken
     \/ UNCHANGED <<written, broken>>
  /\ drain' = "subtract"
  /\ UNCHANGED <<transport, channel, connected, queued, chunk, flushed>>

\* sink.write_all, which fails once the client's end is gone.
Write ==
  /\ drain = "write"
  /\ \/ written' = Append(written, chunk) /\ UNCHANGED broken
     \/ broken' = TRUE /\ UNCHANGED written
  /\ drain' = "subtract"
  /\ UNCHANGED <<transport, channel, connected, queued, chunk, flushed>>

Subtract ==
  /\ drain = "subtract"
  /\ queued' = (queued - 1) % Word
  /\ drain' = IF broken THEN "hang_up" ELSE "check"
  /\ UNCHANGED <<transport, channel, connected, chunk, sink>>

\* Mutant: the sink is flushed only when the queue closes.
CheckNeverFlushes ==
  /\ drain = "check"
  /\ drain' = "recv"
  /\ UNCHANGED <<transport, channel, connected, queued, chunk, sink>>

\* rx.is_empty(): flushes are coalesced while there is more to write.
Check ==
  /\ drain = "check"
  /\ drain' = IF channel = <<>> THEN "flush" ELSE "recv"
  /\ UNCHANGED <<transport, channel, connected, queued, chunk, sink>>

Flush ==
  /\ drain = "flush"
  /\ \/ flushed' = Len(written) /\ drain' = "recv" /\ UNCHANGED broken
     \/ broken' = TRUE /\ drain' = "hang_up" /\ UNCHANGED flushed
  /\ UNCHANGED <<transport, channel, connected, queued, chunk, written>>

LastFlush ==
  /\ drain = "last_flush"
  /\ \/ flushed' = Len(written) /\ UNCHANGED broken
     \/ broken' = TRUE /\ UNCHANGED flushed
  /\ drain' = "hang_up"
  /\ UNCHANGED <<transport, channel, connected, queued, chunk, written>>

\* The task returns and drops the receiver.
HangUp ==
  /\ drain = "hang_up"
  /\ connected' = FALSE
  /\ drain' = "done"
  /\ UNCHANGED <<transport, channel, queued, chunk, sink>>

-----------------------------------------------------------------------------

WriterStep == Send \/ Uncount
DrainStep == Recv \/ Write \/ Subtract \/ Check \/ Flush \/ LastFlush \/ HangUp

Next == PollWrite \/ Shutdown \/ WriterStep \/ DrainStep

Spec == Init /\ [][Next]_vars

\* poll_write never waits, and the client keeps reading or hangs up.
FairSpec == Spec /\ WF_vars(WriterStep) /\ WF_vars(DrainStep)

-----------------------------------------------------------------------------
(* Properties.                                                             *)

\* The state variables keep the shape of the code's types.
TypeOK ==
  /\ writer \in {"idle", "send", "uncount", "closed"}
  /\ offered \in 0 .. MaxChunks /\ accepted \in 0 .. MaxChunks
  /\ channel \in Seq(1 .. MaxChunks) /\ written \in Seq(1 .. MaxChunks)
  /\ connected \in BOOLEAN /\ broken \in BOOLEAN
  /\ queued \in 0 .. Word - 1
  /\ drain \in {"recv", "write", "subtract", "check", "flush", "last_flush", "hang_up", "done"}
  /\ chunk \in 0 .. MaxChunks
  /\ flushed \in 0 .. MaxChunks

InPollWrite == IF writer \in {"send", "uncount"} THEN 1 ELSE 0
InHand == IF drain \in {"write", "subtract"} THEN 1 ELSE 0

\* The shared counter never wraps: it is exactly what has been counted and not
\* yet subtracted, whichever thread runs first.
BacklogIsExact == queued = Len(channel) + InPollWrite + InHand

\* "no dropped and no reordered" output: the sink has taken the chunks from the
\* first on, and the ones accepted after them are in hand or in the channel.
NothingDroppedOrReordered ==
  /\ \A i \in DOMAIN written : written[i] = i
  /\ ~broken /\ drain # "write" => accepted = Len(written) + Len(channel)

\* "an idle server has always flushed": a task waiting for more has left nothing
\* in the sink's buffer, and a task that ended has delivered everything.
IdleMeansFlushed ==
  /\ drain = "recv" /\ channel = <<>> => flushed = Len(written)
  /\ drain = "done" /\ ~broken => flushed = accepted

\* Whatever was accepted reaches the client, or the client has gone.
EverythingIsDelivered ==
  \A n \in 1 .. MaxChunks : accepted >= n ~> (flushed >= n \/ broken)
=============================================================================
