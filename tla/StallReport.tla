---------------------------- MODULE StallReport ----------------------------
(***************************************************************************)
(* Backend::report_edit_barrier_stall composed with the barrier it reports *)
(* on.  A request whose first wait overruns EDIT_BARRIER_STALL_WARN        *)
(* (EditOrder's StallTimeout) reads the barrier again, sleeps while it     *)
(* samples contention, reads it once more and claims the position with one *)
(* atomic swap; only then does it wait again.  The steps are await to      *)
(* await: the argument of the code is that no await lies between its last  *)
(* read and the swap, and one task polls every handler.                    *)
(***************************************************************************)
EXTENDS EditOrder

VARIABLES reporting,       \* where each request is in its report
          culprit,         \* the holder its report has copied, until it is over
          stall_reported,  \* Backend::edit_barrier_stall_reported (-1: u64::MAX)
          logged,          \* history: the lines
          overrun_at       \* history: where the barrier stood when r overran

report == <<reporting, culprit, stall_reported, logged, overrun_at>>

ReportInit ==
  /\ Init
  /\ reporting = [r \in Requests |-> "idle"]
  /\ culprit = [r \in Requests |-> Nobody]
  /\ stall_reported = -1
  /\ logged = {}
  /\ overrun_at = [r \in Requests |-> 0]

\* A step of the barrier.  An overrun begins a report; a request in its report
\* does nothing else until the report is over, unless it is cancelled.
BarrierStep ==
  /\ Next
  /\ \A r \in Requests : reporting[r] # "idle" => pc'[r] \in {pc[r], "done"}
  /\ reporting' = [r \in Requests |->
                     IF pc'[r] = "done" THEN "idle"
                     ELSE IF r \in stalled' \ stalled THEN "recheck" ELSE reporting[r]]
  /\ overrun_at' = [r \in Requests |->
                      IF r \in stalled' \ stalled THEN now_serving ELSE overrun_at[r]]
  /\ culprit' = [r \in Requests |-> IF pc'[r] = "done" THEN Nobody ELSE culprit[r]]
  /\ UNCHANGED <<stall_reported, logged>>

\* Mutant: a barrier one short of the target is taken for settled.
RecheckEarly(r) ==
  /\ reporting[r] = "recheck"
  /\ IF now_serving + 1 >= target[r]
       THEN /\ reporting' = [reporting EXCEPT ![r] = "idle"]
            /\ UNCHANGED culprit
       ELSE /\ reporting' = [reporting EXCEPT ![r] = "sleep"]
            /\ culprit' = [culprit EXCEPT ![r] = holder]
  /\ UNCHANGED <<vars, stall_reported, logged, overrun_at>>

\* The barrier is read again before anything is claimed.  The holder the line
\* will name is copied here, and only then does the sample of the documents
\* map's contention sleep.
Recheck(r) ==
  /\ reporting[r] = "recheck"
  /\ IF now_serving >= target[r]
       THEN /\ reporting' = [reporting EXCEPT ![r] = "idle"]
            /\ UNCHANGED culprit
       ELSE /\ reporting' = [reporting EXCEPT ![r] = "sleep"]
            /\ culprit' = [culprit EXCEPT ![r] = holder]
  /\ UNCHANGED <<vars, stall_reported, logged, overrun_at>>

\* "now_serving={serving} ... The turn is {culprit}", as request r says it.
Line(r) == [by |-> r, position |-> now_serving, culprit |-> culprit[r]]

\* Mutant: the slot is only read; the line it should stop is logged again.
ClaimUnwritten(r) ==
  /\ reporting[r] = "sleep"
  /\ reporting' = [reporting EXCEPT ![r] = "idle"]
  /\ logged' = IF now_serving >= target[r] \/ stall_reported = now_serving
                 THEN logged ELSE logged \cup {Line(r)}
  /\ culprit' = [culprit EXCEPT ![r] = Nobody]
  /\ UNCHANGED <<vars, stall_reported, overrun_at>>

\* After the sleep the barrier is read once more, and the swap on the slot
\* decides: a line is logged unless the slot held this very position.
Claim(r) ==
  /\ reporting[r] = "sleep"
  /\ reporting' = [reporting EXCEPT ![r] = "idle"]
  /\ IF now_serving >= target[r]
       THEN UNCHANGED <<stall_reported, logged>>
       ELSE /\ stall_reported' = now_serving
            /\ logged' = IF stall_reported = now_serving
                           THEN logged ELSE logged \cup {Line(r)}
  /\ culprit' = [culprit EXCEPT ![r] = Nobody]
  /\ UNCHANGED <<vars, overrun_at>>

Reporting(r) == Recheck(r) \/ Claim(r)

ReportNext == BarrierStep \/ \E r \in Requests : Reporting(r)

\* The executor polls a reporter that is ready, as it does the barrier's own
\* handlers; nothing is assumed of the timeout.
ReportSpec ==
  /\ ReportInit /\ [][ReportNext]_<<vars, report>>
  /\ Fairness
  /\ \A r \in Requests : WF_<<vars, report>>(Reporting(r))

-----------------------------------------------------------------------------
(* Properties.                                                             *)

\* The report's own variables keep the shape of the code's types.
ReportTypeOK ==
  /\ reporting \in [Requests -> {"idle", "recheck", "sleep"}]
  /\ culprit \in [Requests -> Edits \cup {Nobody}]
  /\ stall_reported \in Nat \cup {-1}
  /\ logged \subseteq [by : Requests, position : Nat, culprit : Edits \cup {Nobody}]
  /\ overrun_at \in [Requests -> Nat]

\* A stall that outlasts the report is announced: when a request has ended its
\* report and the barrier still stands where it stood at the overrun, a line
\* names that position, whoever wrote it.
StallIsAnnounced ==
  \A r \in stalled :
    reporting[r] = "idle" /\ now_serving = overrun_at[r] /\ now_serving < target[r] =>
      pc[r] = "done" \/ \E x \in logged : x.position = now_serving

\* "Rate-limited to one line per stuck position": however many requests report,
\* and although the slot remembers only the last position, no two lines are
\* about the same one.
OneLinePerPosition ==
  \A x, y \in logged : x.position = y.position => x = y

\* A line never blames a handler that was through before the overrun: the
\* holder it names held the turn between the overrun and the line, so if the
\* barrier has not moved since the overrun it is the handler being served.
LineNamesHolder ==
  \A x \in logged :
    x.culprit # Nobody => ticket[x.culprit] \in overrun_at[x.by] .. x.position

\* What docs/kcs says of the line: "The turn is held by X" is the notification
\* at the head of the queue.  It does not hold: the holder is copied before the
\* sleep and the position read after it, so the two may be of different moments.
LineNamesHead ==
  \A x \in logged : x.culprit # Nobody => ticket[x.culprit] = x.position
=============================================================================
