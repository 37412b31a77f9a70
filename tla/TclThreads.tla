----------------------------- MODULE TclThreads -----------------------------
(***************************************************************************)
(* The `thread` package of the Tcl virtual machine: interpreters on OS     *)
(* threads that share a registry of workers, a mutex, a condition, a       *)
(* readers-writer lock and a pool.  Each thread runs a script, here the    *)
(* sequence of thread commands it executes; a job that thread::wait or a   *)
(* pool worker takes is put in front of what it still has to do.           *)
(*                                                                         *)
(* A step ends where another thread can observe or change the shared state *)
(* before the next: at the release of a native mutex.  A condition         *)
(* variable may wake a thread for no reason, and notify_one any waiter.    *)
(* A command that raises a Tcl error is one the script runs under `catch`: *)
(* the script goes on with the next.                                       *)
(***************************************************************************)
EXTENDS Naturals, Sequences, FiniteSets, SequencesExt

CONSTANTS Workers,      \* the ids thread::create hands out
          PoolWorkers,  \* the ids of a pool's workers
          Main,         \* MAIN_ID
          Scripts,      \* every script: a program, or what one passes to a command
          Programs      \* what the main interpreter may be given to run

\* The commands a script is made of.
Commands ==
  [op : {"wait", "lock", "unlock", "set", "notify", "rlock", "wlock", "rwunlock", "pcreate", "prelease"}]
    \cup [op : {"create"}, id : Workers, script : Scripts]
    \cup [op : {"send"}, id : Workers, script : Scripts, async : BOOLEAN]
    \cup [op : {"release"}, id : Workers]
    \cup [op : {"until"}, timed : BOOLEAN]
    \cup [op : {"ppost"}, job : Nat, script : Scripts]
    \cup [op : {"pget"}, job : Nat]
    \cup [op : {"pwait"}, jobs : SUBSET Nat]

ASSUME ThreadAssumption ==
  /\ {Main} \cup Workers \cup PoolWorkers \subseteq Nat \ {0}
  /\ Main \notin Workers \cup PoolWorkers
  /\ Workers \cap PoolWorkers = {}
  /\ Scripts \subseteq Seq(Commands)
  /\ Programs \subseteq [recursive : BOOLEAN, main : Scripts]

Tids == {Main} \cup Workers \cup PoolWorkers

\* Option::None for a thread or a job.
None == 0

VARIABLES
  todo,      \* todo[t]: the commands thread t has still to execute, the current one first
  at,        \* at[t]: how far the current command has come
  parked,    \* parked[t]: the condition variable t sleeps on, or "no"
  life,      \* life[t]: "unborn", "live", "leaving" (deregistered) or "gone"
  registry,  \* Shared.workers: per id "absent", "bare" (no join handle yet) or "joinable"
  inbox,     \* inbox[w]: the jobs in w's channel
  answer,    \* answer[t]: what t's reply channel holds: "none", "pending", "value", "closed"
  recursive, mutex,  \* the TclMutex: whether it is -recursive, its owner and count
  cond,      \* the generation of the TclCond
  sampled,   \* sampled[t]: start_gen of t's wait
  rw,        \* the TclRwMutex
  flag,      \* a tsv variable scripts wait for
  pool,      \* the pool: whether it has a handle, its queue, its results and shutdown
  inside     \* history: who is between the lock and the unlock of which lock

vars == <<todo, at, parked, life, registry, inbox, answer, recursive, mutex, cond, sampled, rw,
          flag, pool, inside>>
registryVars == <<life, registry, inbox, answer>>
lockVars == <<mutex, cond, sampled, rw, flag, inside>>

Init ==
  \E p \in Programs :
    /\ todo = [t \in Tids |-> IF t = Main THEN p.main ELSE <<>>]
    /\ recursive = p.recursive
    /\ at = [t \in Tids |-> "start"]
    /\ parked = [t \in Tids |-> "no"]
    /\ life = [t \in Tids |-> IF t = Main THEN "live" ELSE "unborn"]
    /\ registry = [w \in Workers |-> "absent"]
    /\ inbox = [w \in Workers |-> <<>>]
    /\ answer = [t \in Tids |-> "none"]
    /\ mutex = [owner |-> None, count |-> 0]
    /\ cond = 0
    /\ sampled = [t \in Tids |-> 0]
    /\ rw = [readers |-> 0, writer |-> FALSE]
    /\ flag = FALSE
    /\ pool = [handle |-> FALSE, queue |-> <<>>, results |-> {}, shutdown |-> FALSE]
    /\ inside = [mutex |-> {}, reader |-> {}, writer |-> {}]

-----------------------------------------------------------------------------
(* Running a script.                                                       *)

Runs(t, op, l) ==
  /\ life[t] = "live" /\ parked[t] = "no" /\ at[t] = l
  /\ todo[t] # <<>> /\ Head(todo[t]).op = op

Cmd(t) == Head(todo[t])
Goto(t, l) == at' = [at EXCEPT ![t] = l] /\ UNCHANGED todo
Return(t) ==
  /\ todo' = [todo EXCEPT ![t] = Tail(@)]
  /\ at' = [at EXCEPT ![t] = "start"]
Park(t, cv) == parked' = [parked EXCEPT ![t] = cv]

\* The outcomes of Condvar::notify_one, and that of notify_all.
WakeOne(cv) ==
  LET sleepers == {t \in Tids : parked[t] = cv}
  IN  IF sleepers = {} THEN {parked} ELSE {[parked EXCEPT ![t] = "no"] : t \in sleepers}
WakeAll(cvs) == [t \in Tids |-> IF parked[t] \in cvs THEN "no" ELSE parked[t]]

-----------------------------------------------------------------------------
(* thread::create, thread::send, thread::wait and thread::release.         *)

\* next_id is a counter: it hands out no id twice.
Fresh(w) == life[w] = "unborn" /\ \A t \in Tids : at[t] = "spawn" => Cmd(t).id # w

\* The channel is registered before the thread is spawned.
Create(t) ==
  /\ Runs(t, "create", "start") /\ Fresh(Cmd(t).id)
  /\ registry' = [registry EXCEPT ![Cmd(t).id] = "bare"]
  /\ Goto(t, "spawn")
  /\ UNCHANGED <<parked, life, inbox, answer, recursive, lockVars, pool>>

Spawn(t) ==
  /\ Runs(t, "create", "spawn")
  /\ life' = [life EXCEPT ![Cmd(t).id] = "live"]
  /\ todo' = [todo EXCEPT ![Cmd(t).id] = Cmd(t).script]
  /\ at' = [at EXCEPT ![t] = "handle"]
  /\ UNCHANGED <<parked, registry, inbox, answer, recursive, lockVars, pool>>

\* The handle is stored if the worker has not gone already.
StoreHandle(t) ==
  /\ Runs(t, "create", "handle")
  /\ registry' = [registry EXCEPT ![Cmd(t).id] = IF @ = "absent" THEN @ ELSE "joinable"]
  /\ Return(t)
  /\ UNCHANGED <<parked, life, inbox, answer, recursive, lockVars, pool>>

\* The sender is cloned under the lock, or there is no such thread: the command
\* raises an error, which a script is taken to catch here as elsewhere.
Send(t) ==
  /\ Runs(t, "send", "start")
  /\ IF registry[Cmd(t).id] = "absent" THEN Return(t) ELSE Goto(t, "post")
  /\ UNCHANGED <<parked, registryVars, recursive, lockVars, pool>>

\* The job goes into the channel, unless the receiver is gone (an error).
Post(t) ==
  /\ Runs(t, "send", "post")
  /\ IF life[Cmd(t).id] = "gone"
       THEN Return(t) /\ UNCHANGED <<inbox, answer>>
       ELSE /\ inbox' = [inbox EXCEPT ![Cmd(t).id] =
                           Append(@, [op |-> "eval", script |-> Cmd(t).script,
                                      reply |-> IF Cmd(t).async THEN None ELSE t])]
            /\ answer' = [answer EXCEPT ![t] = IF Cmd(t).async THEN "none" ELSE "pending"]
            /\ IF Cmd(t).async THEN Return(t) ELSE Goto(t, "await")
  /\ UNCHANGED <<parked, life, registry, recursive, lockVars, pool>>

\* A synchronous send ends with the value, or because nobody holds the other
\* end of the reply channel any more.
Answered(t) ==
  /\ Runs(t, "send", "await") /\ answer[t] # "pending"
  /\ answer' = [answer EXCEPT ![t] = "none"]
  /\ Return(t)
  /\ UNCHANGED <<parked, life, registry, inbox, recursive, lockVars, pool>>

\* The worker's loop: a job is evaluated and answered before the next.
ServeJob(w) ==
  /\ Runs(w, "wait", "start") /\ inbox[w] # <<>> /\ Head(inbox[w]).op = "eval"
  /\ todo' = [todo EXCEPT ![w] =
                Head(inbox[w]).script \o <<[op |-> "reply", to |-> Head(inbox[w]).reply]>> \o @]
  /\ inbox' = [inbox EXCEPT ![w] = Tail(@)]
  /\ UNCHANGED <<at, parked, life, registry, answer, recursive, lockVars, pool>>

Reply(w) ==
  /\ Runs(w, "reply", "start")
  /\ answer' = IF Cmd(w).to = None THEN answer ELSE [answer EXCEPT ![Cmd(w).to] = "value"]
  /\ Return(w)
  /\ UNCHANGED <<parked, life, registry, inbox, recursive, lockVars, pool>>

\* Nobody can send to w any more: the registry's sender is gone, and so is every
\* clone; a send keeps its clone, and a release its worker, until it returns.
ChannelClosed(w) ==
  /\ inbox[w] = <<>> /\ registry[w] = "absent"
  /\ \A t \in Tids :
       at[t] \in {"post", "await", "tell", "tell_join", "join"} => Cmd(t).id # w

LeaveLoop(w) ==
  /\ Runs(w, "wait", "start")
  /\ \/ /\ inbox[w] # <<>> /\ Head(inbox[w]).op = "release"
        /\ inbox' = [inbox EXCEPT ![w] = Tail(@)]
     \/ ChannelClosed(w) /\ UNCHANGED inbox
  /\ Return(w)
  /\ UNCHANGED <<parked, life, registry, answer, recursive, lockVars, pool>>

\* run_worker: the script has ended, the worker deregisters itself ...
Deregister(w) ==
  /\ w \in Workers /\ life[w] = "live" /\ todo[w] = <<>>
  /\ life' = [life EXCEPT ![w] = "leaving"]
  /\ registry' = [registry EXCEPT ![w] = "absent"]
  /\ UNCHANGED <<todo, at, parked, inbox, answer, recursive, lockVars, pool>>

\* Mutant: the channel outlives the interpreter, with the jobs in it.
ExitKeepsInbox(w) ==
  /\ w \in Workers /\ life[w] = "leaving"
  /\ life' = [life EXCEPT ![w] = "gone"]
  /\ UNCHANGED <<todo, at, parked, registry, inbox, answer, recursive, lockVars, pool>>

\* ... and the interpreter is dropped, with the channel and the jobs in it.
Exit(w) ==
  /\ w \in Workers /\ life[w] = "leaving"
  /\ life' = [life EXCEPT ![w] = "gone"]
  /\ answer' = [t \in Tids |->
                  IF \E j \in ToSet(inbox[w]) : j.op = "eval" /\ j.reply = t THEN "closed"
                                                                           ELSE answer[t]]
  /\ inbox' = [inbox EXCEPT ![w] = <<>>]
  /\ UNCHANGED <<todo, at, parked, registry, recursive, lockVars, pool>>

\* thread::release takes the worker out of the registry, handle and all ...
Release(t) ==
  /\ Runs(t, "release", "start")
  /\ IF registry[Cmd(t).id] = "absent" THEN Return(t)
     ELSE Goto(t, IF registry[Cmd(t).id] = "joinable" /\ Cmd(t).id # t THEN "tell_join" ELSE "tell")
  /\ registry' = [registry EXCEPT ![Cmd(t).id] = "absent"]
  /\ UNCHANGED <<parked, life, inbox, answer, recursive, lockVars, pool>>

\* ... tells it, and joins it if there is a handle and it is not itself.
Tell(t) ==
  /\ Runs(t, "release", "tell") \/ Runs(t, "release", "tell_join")
  /\ inbox' = IF life[Cmd(t).id] = "gone" THEN inbox
              ELSE [inbox EXCEPT ![Cmd(t).id] = Append(@, [op |-> "release"])]
  /\ IF at[t] = "tell_join" THEN Goto(t, "join") ELSE Return(t)
  /\ UNCHANGED <<parked, life, registry, answer, recursive, lockVars, pool>>

Join(t) ==
  /\ Runs(t, "release", "join") /\ life[Cmd(t).id] = "gone"
  /\ Return(t)
  /\ UNCHANGED <<parked, registryVars, recursive, lockVars, pool>>

-----------------------------------------------------------------------------
(* thread::mutex and thread::cond.                                         *)

CanLock(t) == mutex.count = 0 \/ (recursive /\ mutex.owner = t)
Locked(t) == [owner |-> t, count |-> IF mutex.count = 0 THEN 1 ELSE mutex.count + 1]

\* Mutant: a thread that finds the mutex taken joins the one inside.
TakeAnyway(t) ==
  /\ mutex' = [owner |-> t, count |-> 1]
  /\ inside' = [inside EXCEPT !.mutex = @ \cup {t}]
  /\ UNCHANGED parked

\* TclMutex::lock, up to the next wait.
Take(t) ==
  IF CanLock(t)
    THEN /\ mutex' = Locked(t)
         /\ inside' = [inside EXCEPT !.mutex = @ \cup {t}]
         /\ UNCHANGED parked
    ELSE Park(t, "mutex") /\ UNCHANGED <<mutex, inside>>

Lock(t) ==
  /\ Runs(t, "lock", "start") /\ Take(t)
  /\ IF CanLock(t) THEN Return(t) ELSE UNCHANGED <<todo, at>>
  /\ UNCHANGED <<registryVars, recursive, cond, sampled, rw, flag, pool>>

\* TclMutex::unlock frees the mutex whoever holds it, unless t holds it twice.
StaysLocked(t) == recursive /\ mutex.owner = t /\ mutex.count > 1
Unlocked(t) == IF StaysLocked(t) THEN [mutex EXCEPT !.count = @ - 1]
                                 ELSE [owner |-> None, count |-> 0]
LeavesMutex(t) == IF StaysLocked(t) THEN inside ELSE [inside EXCEPT !.mutex = @ \ {t}]

Unlock(t) ==
  /\ Runs(t, "unlock", "start")
  /\ mutex' = Unlocked(t) /\ inside' = LeavesMutex(t)
  /\ IF mutex.count = 0 \/ StaysLocked(t) THEN Return(t) ELSE Goto(t, "signal")
  /\ UNCHANGED <<parked, registryVars, recursive, cond, sampled, rw, flag, pool>>

\* A script's `while {![tsv::get flag]} {thread::cond wait c m}` or, with a
\* timeout, `if {![tsv::get flag]} {thread::cond wait c m ms}`.  The wait samples
\* the generation, frees the mutex and sleeps under the gate.
Until(t) ==
  /\ Runs(t, "until", "start")
  /\ IF flag THEN Return(t) /\ UNCHANGED <<parked, mutex, sampled, inside>>
     ELSE /\ sampled' = [sampled EXCEPT ![t] = cond]
          /\ mutex' = Unlocked(t) /\ inside' = LeavesMutex(t)
          /\ \E woken \in IF StaysLocked(t) THEN {parked} ELSE WakeOne("mutex") :
               parked' = [woken EXCEPT ![t] = "cond"]
          /\ Goto(t, "waited")
  /\ UNCHANGED <<registryVars, recursive, cond, rw, flag, pool>>

\* wait_while looks at the generation, and the mutex is taken again.
Recheck(t) ==
  /\ Runs(t, "until", "waited")
  /\ IF cond = sampled[t] THEN Park(t, "cond") /\ UNCHANGED at
     ELSE at' = [at EXCEPT ![t] = "relock"] /\ UNCHANGED parked
  /\ UNCHANGED <<todo, registryVars, recursive, lockVars, pool>>

\* wait_timeout_while gives up.
TimeOut(t) ==
  /\ life[t] = "live" /\ at[t] = "waited" /\ Cmd(t).timed
  /\ parked' = [parked EXCEPT ![t] = "no"]
  /\ Goto(t, "relock")
  /\ UNCHANGED <<registryVars, recursive, lockVars, pool>>

Relock(t) ==
  /\ Runs(t, "until", "relock") /\ Take(t)
  /\ \/ CanLock(t) /\ Cmd(t).timed /\ Return(t)
     \/ CanLock(t) /\ ~Cmd(t).timed /\ Goto(t, "start")
     \/ ~CanLock(t) /\ UNCHANGED <<todo, at>>
  /\ UNCHANGED <<registryVars, recursive, cond, sampled, rw, flag, pool>>

\* tsv::set, which a script does while it holds the mutex.
Set(t) ==
  /\ Runs(t, "set", "start")
  /\ flag' = TRUE
  /\ Return(t)
  /\ UNCHANGED <<parked, registryVars, recursive, mutex, cond, sampled, rw, inside, pool>>

\* TclCond::notify bumps the generation under the gate, then wakes.
Notify(t) ==
  /\ Runs(t, "notify", "start")
  /\ cond' = cond + 1
  /\ Goto(t, "signal")
  /\ UNCHANGED <<parked, registryVars, recursive, mutex, sampled, rw, flag, inside, pool>>

-----------------------------------------------------------------------------
(* thread::rwmutex.                                                        *)

ReadLock(t) ==
  /\ Runs(t, "rlock", "start")
  /\ IF rw.writer THEN Park(t, "rw") /\ UNCHANGED <<todo, at, rw, inside>>
     ELSE /\ rw' = [rw EXCEPT !.readers = @ + 1]
          /\ inside' = [inside EXCEPT !.reader = @ \cup {t}]
          /\ Return(t) /\ UNCHANGED parked
  /\ UNCHANGED <<registryVars, recursive, mutex, cond, sampled, flag, pool>>

WriteLock(t) ==
  /\ Runs(t, "wlock", "start")
  /\ IF rw.writer \/ rw.readers > 0 THEN Park(t, "rw") /\ UNCHANGED <<todo, at, rw, inside>>
     ELSE /\ rw' = [rw EXCEPT !.writer = TRUE]
          /\ inside' = [inside EXCEPT !.writer = @ \cup {t}]
          /\ Return(t) /\ UNCHANGED parked
  /\ UNCHANGED <<registryVars, recursive, mutex, cond, sampled, flag, pool>>

\* unlock does not know who calls: a writer goes first, then a reader.
RwUnlock(t) ==
  /\ Runs(t, "rwunlock", "start")
  /\ rw' = IF rw.writer THEN [rw EXCEPT !.writer = FALSE]
           ELSE [rw EXCEPT !.readers = IF @ > 0 THEN @ - 1 ELSE 0]
  /\ inside' = [inside EXCEPT !.reader = @ \ {t}, !.writer = @ \ {t}]
  /\ Goto(t, "signal")
  /\ UNCHANGED <<parked, registryVars, recursive, mutex, cond, sampled, flag, pool>>

-----------------------------------------------------------------------------
(* tpool.                                                                  *)

\* tpool::create spawns the workers and registers the handle.
PoolCreate(t) ==
  /\ Runs(t, "pcreate", "start")
  /\ life' = [w \in Tids |-> IF w \in PoolWorkers THEN "live" ELSE life[w]]
  /\ pool' = [pool EXCEPT !.handle = TRUE]
  /\ Return(t)
  /\ UNCHANGED <<parked, registry, inbox, answer, recursive, lockVars>>

\* post, get and wait look the handle up first, and fail without one; the pool
\* outlives it.
PoolLookup(t) ==
  /\ \E op \in {"ppost", "pget", "pwait"} : Runs(t, op, "start")
  /\ IF pool.handle THEN Goto(t, "found") ELSE Return(t)
  /\ UNCHANGED <<parked, registryVars, recursive, lockVars, pool>>

PoolPost(t) ==
  /\ Runs(t, "ppost", "found")
  /\ pool' = [pool EXCEPT !.queue = Append(@, [job |-> Cmd(t).job, script |-> Cmd(t).script])]
  /\ Goto(t, "signal")
  /\ UNCHANGED <<parked, registryVars, recursive, lockVars>>

\* Mutant: a get that meets a shutdown waits on.
PoolGetPatient(t) ==
  /\ Runs(t, "pget", "found")
  /\ IF Cmd(t).job \in pool.results
       THEN /\ pool' = [pool EXCEPT !.results = @ \ {Cmd(t).job}]
            /\ Return(t) /\ UNCHANGED parked
       ELSE Park(t, "done") /\ UNCHANGED <<todo, at, pool>>
  /\ UNCHANGED <<registryVars, recursive, lockVars>>

\* tpool::get takes the result, fails on a shut-down pool, or sleeps.
PoolGet(t) ==
  /\ Runs(t, "pget", "found")
  /\ IF Cmd(t).job \in pool.results
       THEN /\ pool' = [pool EXCEPT !.results = @ \ {Cmd(t).job}]
            /\ Return(t) /\ UNCHANGED parked
       ELSE /\ IF pool.shutdown THEN Return(t) /\ UNCHANGED parked
               ELSE Park(t, "done") /\ UNCHANGED <<todo, at>>
            /\ UNCHANGED pool
  /\ UNCHANGED <<registryVars, recursive, lockVars>>

\* tpool::wait returns once one of its jobs is done; it does not look at shutdown.
PoolWait(t) ==
  /\ Runs(t, "pwait", "found")
  /\ IF Cmd(t).jobs \cap pool.results # {} \/ Cmd(t).jobs = {}
       THEN Return(t) /\ UNCHANGED parked
       ELSE Park(t, "done") /\ UNCHANGED <<todo, at>>
  /\ UNCHANGED <<registryVars, recursive, lockVars, pool>>

\* tpool::release: the handle, then the shutdown, the wakeups and the joins.
PoolRelease(t) ==
  /\ Runs(t, "prelease", "start")
  /\ pool' = [pool EXCEPT !.handle = FALSE]
  /\ IF pool.handle THEN Goto(t, "shut") ELSE Return(t)
  /\ UNCHANGED <<parked, registryVars, recursive, lockVars>>

PoolShutdown(t) ==
  /\ Runs(t, "prelease", "shut")
  /\ pool' = [pool EXCEPT !.shutdown = TRUE]
  /\ Goto(t, "signal")
  /\ UNCHANGED <<parked, registryVars, recursive, lockVars>>

PoolJoin(t) ==
  /\ Runs(t, "prelease", "pool_join")
  /\ \A w \in PoolWorkers : life[w] = "gone"
  /\ Return(t)
  /\ UNCHANGED <<parked, registryVars, recursive, lockVars, pool>>

\* run_pool_worker: leave, take a job, or sleep.
PoolNext(w) ==
  /\ w \in PoolWorkers /\ life[w] = "live" /\ parked[w] = "no" /\ todo[w] = <<>>
  /\ \/ /\ pool.shutdown
        /\ life' = [life EXCEPT ![w] = "gone"]
        /\ UNCHANGED <<todo, parked, pool>>
     \/ /\ ~pool.shutdown /\ pool.queue # <<>>
        /\ todo' = [todo EXCEPT ![w] = Head(pool.queue).script
                                         \o <<[op |-> "finish", job |-> Head(pool.queue).job]>>]
        /\ pool' = [pool EXCEPT !.queue = Tail(@)]
        /\ UNCHANGED <<parked, life>>
     \/ /\ ~pool.shutdown /\ pool.queue = <<>>
        /\ Park(w, "job_ready")
        /\ UNCHANGED <<todo, life, pool>>
  /\ UNCHANGED <<at, registry, inbox, answer, recursive, lockVars>>

\* The result of a job that was not detached.
PoolFinish(w) ==
  /\ Runs(w, "finish", "start")
  /\ IF Cmd(w).job = None THEN Return(w) /\ UNCHANGED pool
     ELSE /\ pool' = [pool EXCEPT !.results = @ \cup {Cmd(w).job}]
          /\ Goto(w, "signal")
  /\ UNCHANGED <<parked, registryVars, recursive, lockVars>>

-----------------------------------------------------------------------------
\* The notification each command ends with, after its lock is released.
Woken(op) ==
  CASE op = "unlock"   -> WakeOne("mutex")
    [] op = "notify"   -> {WakeAll({"cond"})}
    [] op = "rwunlock" -> {WakeAll({"rw"})}
    [] op = "ppost"    -> WakeOne("job_ready")
    [] op = "finish"   -> {WakeAll({"done"})}
    [] op = "prelease" -> {WakeAll({"job_ready", "done"})}

Signal(t) ==
  /\ life[t] = "live" /\ at[t] = "signal"
  /\ parked' \in Woken(Cmd(t).op)
  /\ IF Cmd(t).op = "prelease" THEN Goto(t, "pool_join") ELSE Return(t)
  /\ UNCHANGED <<registryVars, recursive, lockVars, pool>>

Spurious(t) ==
  /\ parked[t] # "no"
  /\ parked' = [parked EXCEPT ![t] = "no"]
  /\ UNCHANGED <<todo, at, registryVars, recursive, lockVars, pool>>

Step(t) ==
  \/ Create(t) \/ Spawn(t) \/ StoreHandle(t) \/ Send(t) \/ Post(t) \/ Answered(t)
  \/ Reply(t) \/ Release(t) \/ Tell(t) \/ Join(t)
  \/ Lock(t) \/ Unlock(t) \/ Until(t) \/ Recheck(t) \/ Relock(t) \/ Set(t) \/ Notify(t)
  \/ ReadLock(t) \/ WriteLock(t) \/ RwUnlock(t)
  \/ PoolCreate(t) \/ PoolLookup(t) \/ PoolPost(t) \/ PoolGet(t) \/ PoolWait(t)
  \/ PoolRelease(t) \/ PoolShutdown(t) \/ PoolJoin(t) \/ PoolNext(t) \/ PoolFinish(t)
  \/ Signal(t)

WorkerStep(w) == ServeJob(w) \/ LeaveLoop(w) \/ Deregister(w) \/ Exit(w)

Next ==
  \/ \E t \in Tids : Step(t) \/ TimeOut(t) \/ Spurious(t)
  \/ \E w \in Workers : WorkerStep(w)

Spec == Init /\ [][Next]_vars

\* The operating system runs every thread that can run.  Neither spurious
\* wakeups nor timeouts are relied on.
Fairness ==
  /\ \A t \in Tids : WF_vars(Step(t))
  /\ \A w \in Workers : WF_vars(WorkerStep(w))

FairSpec == Spec /\ Fairness

-----------------------------------------------------------------------------
(* Properties.                                                             *)

\* The state variables keep the shape of the code's types.
TypeOK ==
  /\ DOMAIN todo = Tids /\ DOMAIN at = Tids
  /\ parked \in [Tids -> {"no", "mutex", "cond", "rw", "job_ready", "done"}]
  /\ life \in [Tids -> {"unborn", "live", "leaving", "gone"}]
  /\ registry \in [Workers -> {"absent", "bare", "joinable"}]
  /\ answer \in [Tids -> {"none", "pending", "value", "closed"}]
  /\ mutex \in [owner : Tids \cup {None}, count : Nat]
  /\ rw \in [readers : Nat, writer : BOOLEAN]
  /\ cond \in Nat /\ sampled \in [Tids -> Nat]

\* Between lock and unlock a script is alone, although TclMutex and TclRwMutex
\* are locks built by hand whose unlock wakes whoever sleeps, although waiting
\* on a condition gives the mutex up and takes it back, and although a thread
\* that was woken finds others there first.  Neither unlock asks who calls, so
\* this is a promise to BracketedScripts only.
LockExcludes ==
  /\ Cardinality(inside.mutex) <= 1
  /\ inside.writer # {} => inside.reader = {} /\ Cardinality(inside.writer) = 1

\* How a script may use a lock: the steps <<held before, command, held after>> it
\* may take.  Of the readers-writer lock it holds nothing (0), a read (1) or the
\* write lock (2); of the mutex the number of times it has locked it.  It unlocks
\* what it has locked, waits on the condition with the mutex, and serves jobs
\* with nothing held.
Ops == {"wait", "lock", "unlock", "set", "notify", "rlock", "wlock", "rwunlock", "pcreate",
        "prelease", "create", "send", "release", "until", "ppost", "pget", "pwait", "reply", "finish"}
RwRule ==
  {x \in (0 .. 2) \X Ops \X (0 .. 2) :
     CASE x[2] = "rlock" -> x[1] = 0 /\ x[3] = 1
       [] x[2] = "wlock" -> x[1] = 0 /\ x[3] = 2
       [] x[2] = "rwunlock" -> x[1] # 0 /\ x[3] = 0
       [] x[2] = "wait" -> x[1] = 0 /\ x[3] = 0
       [] OTHER -> x[3] = x[1]}
MutexRule(deep) ==
  {x \in (0 .. deep) \X Ops \X (0 .. deep) :
     CASE x[2] = "lock" -> x[3] = x[1] + 1
       [] x[2] = "unlock" -> x[1] = x[3] + 1
       [] x[2] = "until" -> x[1] # 0 /\ x[3] = x[1]
       [] x[2] = "wait" -> x[1] = 0 /\ x[3] = 0
       [] OTHER -> x[3] = x[1]}

\* A script that starts with `hold` of a lock keeps to the rule and ends with
\* nothing held.
HeldBy(rule) == {x[1] : x \in rule}
Brackets(s, rule, hold) ==
  \E f \in [0 .. Len(s) -> HeldBy(rule)] :
    /\ f[0] = hold /\ f[Len(s)] = 0
    /\ \A i \in 1 .. Len(s) : <<f[i - 1], s[i].op, f[i]>> \in rule

\* Scripts that keep to both rules and lock the mutex at most `deep` times over.
BracketedScripts(deep) ==
  \A s \in Scripts : Brackets(s, RwRule, 0) /\ Brackets(s, MutexRule(deep), 0)

\* A thread blocked in a synchronous thread::send is owed an answer by a thread
\* that is there: its job is in the channel of a worker that will serve or drop
\* it, or is being evaluated.
SenderIsBacked ==
  \A t \in Tids : answer[t] = "pending" =>
    \E w \in Workers :
      /\ life[w] # "gone"
      /\ \/ \E j \in ToSet(inbox[w]) : j.op = "eval" /\ j.reply = t
         \/ \E c \in ToSet(todo[w]) : c.op = "reply" /\ c.to = t

\* Scripts that do not wait for each other in a circle all end: no wakeup, reply,
\* release or shutdown is lost, whichever thread is woken.
ScriptsFinish ==
  <>[](\A t \in Tids : todo[t] = <<>>)
=============================================================================
