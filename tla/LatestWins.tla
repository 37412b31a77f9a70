----------------------------- MODULE LatestWins -----------------------------
(***************************************************************************)
(* What the diagnostics publisher promises: for each document the client   *)
(* sees a subsequence of the sets committed for it, never an older set     *)
(* after a newer one.  A set is known by the number of its commit.         *)
(***************************************************************************)
EXTENDS Naturals

CONSTANT Uris

VARIABLES commits,    \* how many sets have been committed
          committed,  \* committed[u]: the latest one for u (0: none)
          shown       \* shown[u]: the one the client has for u (0: none)

Init ==
  /\ commits = 0
  /\ committed = [u \in Uris |-> 0]
  /\ shown = [u \in Uris |-> 0]

Commit(u) ==
  /\ commits' = commits + 1
  /\ committed' = [committed EXCEPT ![u] = commits + 1]
  /\ UNCHANGED shown

\* Sets between the one shown and the one delivered are skipped.
Deliver(u) ==
  /\ \E n \in (shown[u] + 1) .. committed[u] : shown' = [shown EXCEPT ![u] = n]
  /\ UNCHANGED <<commits, committed>>

Next == \E u \in Uris : Commit(u) \/ Deliver(u)

Spec == Init /\ [][Next]_<<commits, committed, shown>>
=============================================================================
