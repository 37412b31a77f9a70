----------------------------- MODULE MCThreads -----------------------------
(* Scripts for TclThreads: each program makes two or three threads meet in  *)
(* one part of the package.                                                 *)
EXTENDS TclThreads

Create2(s) == [op |-> "create", id |-> 2, script |-> s]
Create3(s) == [op |-> "create", id |-> 3, script |-> s]
SendTo(w, s) == [op |-> "send", id |-> w, script |-> s, async |-> FALSE]
SendAsync(w, s) == [op |-> "send", id |-> w, script |-> s, async |-> TRUE]
ReleaseOf(w) == [op |-> "release", id |-> w]
Do(op) == [op |-> op]
Await == [op |-> "until", timed |-> FALSE]
AwaitTimed == [op |-> "until", timed |-> TRUE]
PostJob(j, s) == [op |-> "ppost", job |-> j, script |-> s]
GetJob(j) == [op |-> "pget", job |-> j]
WaitFor(jobs) == [op |-> "pwait", jobs |-> jobs]

Program(main) == [recursive |-> FALSE, main |-> main]

\* Two waiters on one condition, one of them with a timeout.
Condition == Program(
  <<Create2(<<Do("lock"), Await, Do("unlock")>>), Create3(<<Do("lock"), AwaitTimed, Do("unlock")>>),
    Do("lock"), Do("set"), Do("notify"), Do("unlock")>>)

\* Senders, synchronous and not, against the release of the worker they use.
Sends == Program(
  <<Create2(<<Do("wait")>>), Create3(<<SendTo(2, <<Do("lock"), Do("unlock")>>), Do("wait")>>),
    Do("lock"), SendAsync(2, <<Do("lock"), Do("set"), Do("unlock")>>), Do("unlock"),
    SendTo(2, <<>>), ReleaseOf(2), ReleaseOf(3)>>)

\* A worker releases itself while another thread releases it.
Releases == Program(
  <<Create3(<<ReleaseOf(2)>>), Create2(<<ReleaseOf(2), Do("wait")>>), SendTo(2, <<>>),
    ReleaseOf(2), ReleaseOf(3)>>)

\* A recursive mutex, taken twice, against a second thread.
Nested == [recursive |-> TRUE, main |->
  <<Create2(<<Do("lock"), Do("set"), Do("unlock"), Do("notify")>>), Do("lock"), Do("lock"),
    Do("unlock"), Await, Do("unlock"), ReleaseOf(2)>>]

ReadersWriters == Program(
  <<Create2(<<Do("rlock"), Do("rwunlock")>>), Create3(<<Do("wlock"), Do("rwunlock")>>),
    Do("rlock"), Do("rwunlock"), Do("wlock"), Do("rwunlock")>>)

\* Two pool workers, three jobs, two clients.
Jobs == Program(
  <<Do("pcreate"), Create2(<<GetJob(1)>>), PostJob(1, <<Do("lock"), Do("unlock")>>),
    PostJob(None, <<Do("lock"), Do("unlock")>>), PostJob(2, <<>>), WaitFor({1, 2}),
    GetJob(2), Do("prelease")>>)

\* The pool is released under a client that posts and gets.
Shutdown == Program(
  <<Do("pcreate"), Create2(<<PostJob(1, <<>>), GetJob(1)>>), PostJob(2, <<>>), Do("prelease"),
    GetJob(2)>>)

\* Any two scripts side by side, while the main interpreter raises the flag,
\* releases the pool and then the workers.
Clients(w) ==
  {<<Do("wait")>>, <<Do("lock"), Await, Do("unlock")>>, <<Do("rlock"), Do("rwunlock")>>,
   <<Do("wlock"), Do("lock"), Do("unlock"), Do("rwunlock")>>,
   <<PostJob(w, <<Do("lock"), Do("unlock")>>), GetJob(w)>>}
Senders == {<<SendTo(2, <<Do("lock"), Await, Do("unlock")>>), SendAsync(2, <<Do("notify")>>)>>}

Pairs ==
  {Program(<<Do("pcreate"), Create2(s), Create3(r), Do("lock"), Do("set"), Do("unlock"),
             Do("notify"), Do("prelease"), ReleaseOf(2), ReleaseOf(3)>>) :
     s \in Clients(2), r \in Clients(3) \cup Senders}

Passed(s) == {s[i].script : i \in {j \in DOMAIN s : s[j].op \in {"create", "send", "ppost"}}}
WithPassed(scripts) == scripts \cup UNION {Passed(s) : s \in scripts}

MCPrograms == {Condition, Sends, Releases, Nested, ReadersWriters, Jobs, Shutdown} \cup Pairs

\* Nothing is nested deeper than a job sent by a worker.
MCScripts == WithPassed(WithPassed({p.main : p \in MCPrograms}))

\* They keep to the rules of the locks, and Nested locks the mutex twice.
ASSUME MCScriptsBracketed == BracketedScripts(2)
=============================================================================
