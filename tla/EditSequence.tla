---------------------------- MODULE EditSequence ----------------------------
(***************************************************************************)
(* What the document-sync barrier of tcl-lsp-server promises, without the  *)
(* tickets, wake-ups and permits that implement it: edits take effect in   *)
(* the order in which they were received, an edit whose handler goes away  *)
(* is skipped, and a request reads only when every edit received before it *)
(* has taken effect or been skipped.  EditOrder implements this module.    *)
(***************************************************************************)
EXTENDS Naturals

CONSTANTS Edits,      \* document-sync notifications (didOpen, didChange, didClose)
          Requests    \* ordinary requests (hover, completion, ...)

VARIABLES fate,       \* fate[e]: what has become of edit e
          rank,       \* rank[e]: how many edits were received before e
          received,   \* number of edits received so far
          seen,       \* seen[r]: the edits received before request r
          reader      \* reader[r]: "unsent", "waiting", "reading" or "gone"

vars == <<fate, rank, received, seen, reader>>

Gone(e) == fate[e] \in {"applied", "skipped"}

Init ==
  /\ fate = [e \in Edits |-> "unsent"]
  /\ rank = [e \in Edits |-> 0]
  /\ received = 0
  /\ seen = [r \in Requests |-> {}]
  /\ reader = [r \in Requests |-> "unsent"]

ReceiveEdit(e) ==
  /\ fate[e] = "unsent"
  /\ fate' = [fate EXCEPT ![e] = "pending"]
  /\ rank' = [rank EXCEPT ![e] = received]
  /\ received' = received + 1
  /\ UNCHANGED <<seen, reader>>

\* Edits received earlier have already taken effect or been skipped.
Apply(e) ==
  /\ fate[e] = "pending"
  /\ \A d \in Edits : fate[d] = "pending" => rank[e] <= rank[d]
  /\ fate' = [fate EXCEPT ![e] = "applied"]
  /\ UNCHANGED <<rank, received, seen, reader>>

Skip(e) ==
  /\ fate[e] = "pending"
  /\ fate' = [fate EXCEPT ![e] = "skipped"]
  /\ UNCHANGED <<rank, received, seen, reader>>

ReceiveRequest(r) ==
  /\ reader[r] = "unsent"
  /\ reader' = [reader EXCEPT ![r] = "waiting"]
  /\ seen' = [seen EXCEPT ![r] = {e \in Edits : fate[e] # "unsent"}]
  /\ UNCHANGED <<fate, rank, received>>

Read(r) ==
  /\ reader[r] = "waiting"
  /\ \A e \in seen[r] : Gone(e)
  /\ reader' = [reader EXCEPT ![r] = "reading"]
  /\ UNCHANGED <<fate, rank, received, seen>>

\* Answered, or cancelled by the client.
Leave(r) ==
  /\ reader[r] \in {"waiting", "reading"}
  /\ reader' = [reader EXCEPT ![r] = "gone"]
  /\ UNCHANGED <<fate, rank, received, seen>>

Next ==
  \/ \E e \in Edits : ReceiveEdit(e) \/ Apply(e) \/ Skip(e)
  \/ \E r \in Requests : ReceiveRequest(r) \/ Read(r) \/ Leave(r)

Spec == Init /\ [][Next]_vars
=============================================================================
