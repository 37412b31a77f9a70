-------------------------- MODULE TclThreadsProofs --------------------------
(***************************************************************************)
(* The safety of the thread package for any scripts and any number of      *)
(* threads.  The inductive invariants are the shape of the state and:      *)
(*                                                                         *)
(* Placed    who is not live has nothing to do, who is in the middle of a  *)
(*           command has that command in front, and an id that is being    *)
(*           spawned is nobody else's;                                     *)
(* Backed    who waits for an answer has his job in a worker's hands;      *)
(* Owned     the mutex records who is inside and how often, and what every *)
(*           thread still has to do unlocks what it has locked;            *)
(* Bracketed so with the readers-writer lock;                              *)
(* Sleep     who sleeps is at the wait of its own command, on something    *)
(*           that has not happened, or somebody awake will see to it.      *)
(***************************************************************************)
EXTENDS TclThreads, SequenceTheorems, FiniteSetTheorems, TLAPS

\* What a thread executes: commands, and the ends of the jobs it has taken.
Tasks == Commands \cup [op : {"reply"}, to : Tids \cup {None}] \cup [op : {"finish"}, job : Nat]
Messages == [op : {"eval"}, script : Scripts, reply : Tids \cup {None}] \cup [op : {"release"}]
Posted == [job : Nat, script : Scripts]
Sites == {"start", "spawn", "handle", "post", "await", "tell", "tell_join", "join", "signal",
          "waited", "relock", "found", "shut", "pool_join"}
Signalling == {"unlock", "notify", "rwunlock", "ppost", "finish", "prelease"}

Shape ==
  /\ todo \in [Tids -> Seq(Tasks)]
  /\ at \in [Tids -> Sites]
  /\ life \in [Tids -> {"unborn", "live", "leaving", "gone"}]
  /\ inbox \in [Workers -> Seq(Messages)]
  /\ answer \in [Tids -> {"none", "pending", "value", "closed"}]
  /\ pool \in [handle : BOOLEAN, queue : Seq(Posted), results : SUBSET Nat, shutdown : BOOLEAN]
  /\ recursive \in BOOLEAN
  /\ mutex \in [owner : Tids \cup {None}, count : Nat]
  /\ rw \in [readers : Nat, writer : BOOLEAN]
  /\ inside \in [mutex : SUBSET Tids, reader : SUBSET Tids, writer : SUBSET Tids]

\* A command that can be interrupted at l.
Fits(l, op) ==
  /\ op \notin {"reply", "wait"}
  /\ l = "spawn" => op = "create"
  /\ l = "signal" => op \in Signalling
  /\ l \in {"waited", "relock"} => op = "until"

Placed ==
  /\ \A t \in Tids : life[t] # "live" => todo[t] = <<>>
  /\ \A t \in Tids : at[t] # "start" => todo[t] # <<>> /\ Fits(at[t], Cmd(t).op)
  /\ \A t \in Tids : at[t] = "spawn" => /\ life[Cmd(t).id] = "unborn"
                                        /\ \A u \in Tids : at[u] = "spawn" /\ Cmd(u).id = Cmd(t).id => u = t

\* What a thread has still to do, past an unlock that only has to wake somebody.
Ahead(t) ==
  IF at[t] = "signal" /\ Cmd(t).op \in {"unlock", "rwunlock"} THEN Tail(todo[t]) ELSE todo[t]

\* What it holds of the readers-writer lock.
Hold(t) == IF t \in inside.writer THEN 2 ELSE IF t \in inside.reader THEN 1 ELSE 0

Covered == \A t \in Tids : Brackets(Ahead(t), RwRule, Hold(t))
Counted ==
  /\ IsFiniteSet(inside.reader) /\ rw.readers = Cardinality(inside.reader)
  /\ IF rw.writer THEN inside.reader = {} /\ \E t \in Tids : inside.writer = {t}
                  ELSE inside.writer = {}
Bracketed == Covered /\ Counted

\* How often it has locked the mutex; a wait on the condition lends one of them.
Owns(t) == IF mutex.owner = t THEN mutex.count ELSE 0
Depth(t) == Owns(t) + IF at[t] \in {"waited", "relock"} THEN 1 ELSE 0

Nested(deep) == \A t \in Tids : Brackets(Ahead(t), MutexRule(deep), Depth(t))
Alone ==
  /\ inside.mutex = IF mutex.count = 0 THEN {} ELSE {mutex.owner}
  /\ ~recursive => mutex.count <= 1
Owned(deep) == Nested(deep) /\ Alone

-----------------------------------------------------------------------------
(* Sequences.                                                              *)

\* A queue is its head and its tail.
LEMMA FirstAndRest ==
  ASSUME NEW S, NEW s \in Seq(S), s # <<>>
  PROVE  /\ Head(s) \in S /\ Tail(s) \in Seq(S)
         /\ Len(s) \in Nat /\ Len(Tail(s)) = Len(s) - 1 /\ Head(s) = s[1]
         /\ \A i \in 1 .. Len(Tail(s)) : Tail(s)[i] = s[i + 1]
         /\ \A x : x \in ToSet(s) <=> x = Head(s) \/ x \in ToSet(Tail(s))
<1>1. /\ Head(s) \in S /\ Tail(s) \in Seq(S)
      /\ Len(s) \in Nat \ {0} /\ Len(Tail(s)) = Len(s) - 1 /\ Head(s) = s[1]
      /\ \A i \in 1 .. Len(Tail(s)) : Tail(s)[i] = s[i + 1]
  BY HeadTailProperties, EmptySeq
<1>2. DOMAIN s = 1 .. Len(s) /\ DOMAIN Tail(s) = 1 .. Len(Tail(s))
  BY <1>1, LenProperties
<1>3. ASSUME NEW x \in ToSet(s) PROVE x = Head(s) \/ x \in ToSet(Tail(s))
  <2>1. PICK i \in 1 .. Len(s) : x = s[i]
    BY <1>2 DEF ToSet
  <2>2. CASE i = 1
    BY <1>1, <2>1, <2>2
  <2>3. CASE i # 1
    <3>1. i - 1 \in 1 .. Len(Tail(s)) /\ x = Tail(s)[i - 1]
      BY <1>1, <2>1, <2>3
    <3> QED BY <1>2, <3>1 DEF ToSet
  <2> QED BY <2>2, <2>3
<1>4. Head(s) \in ToSet(s)
  BY <1>1, <1>2 DEF ToSet
<1>5. ASSUME NEW x \in ToSet(Tail(s)) PROVE x \in ToSet(s)
  <2>1. PICK i \in 1 .. Len(Tail(s)) : x = Tail(s)[i]
    BY <1>2 DEF ToSet
  <2>2. i + 1 \in 1 .. Len(s) /\ x = s[i + 1]
    BY <1>1, <2>1
  <2> QED BY <1>2, <2>2 DEF ToSet
<1> QED BY <1>1, <1>3, <1>4, <1>5

\* Two queues, one after the other.
LEMMA Joined ==
  ASSUME NEW S, NEW s \in Seq(S), NEW r \in Seq(S)
  PROVE  /\ s \o r \in Seq(S)
         /\ \A x : x \in ToSet(s \o r) <=> x \in ToSet(s) \/ x \in ToSet(r)
<1>1. /\ s \o r \in Seq(S) /\ Len(s \o r) = Len(s) + Len(r)
      /\ \A i \in 1 .. Len(s) + Len(r) : (s \o r)[i] = IF i <= Len(s) THEN s[i] ELSE r[i - Len(s)]
      /\ Len(s) \in Nat /\ Len(r) \in Nat
  BY ConcatProperties, LenProperties
<1>2. DOMAIN s = 1 .. Len(s) /\ DOMAIN r = 1 .. Len(r) /\ DOMAIN (s \o r) = 1 .. Len(s) + Len(r)
  BY <1>1, LenProperties
<1>3. ASSUME NEW x \in ToSet(s \o r) PROVE x \in ToSet(s) \/ x \in ToSet(r)
  <2>1. PICK i \in 1 .. Len(s) + Len(r) : x = (s \o r)[i]
    BY <1>2, <1>3 DEF ToSet
  <2>2. CASE i <= Len(s)
    BY <1>1, <1>2, <2>1, <2>2 DEF ToSet
  <2>3. CASE ~(i <= Len(s))
    <3>1. i - Len(s) \in 1 .. Len(r) /\ x = r[i - Len(s)]
      BY <1>1, <2>1, <2>3
    <3> QED BY <1>2, <3>1 DEF ToSet
  <2> QED BY <2>2, <2>3
<1>4. ASSUME NEW x \in ToSet(s) PROVE x \in ToSet(s \o r)
  <2>1. PICK i \in 1 .. Len(s) : x = s[i]
    BY <1>2 DEF ToSet
  <2>2. i \in 1 .. Len(s) + Len(r) /\ x = (s \o r)[i]
    BY <1>1, <2>1
  <2> QED BY <1>2, <2>2 DEF ToSet
<1>5. ASSUME NEW x \in ToSet(r) PROVE x \in ToSet(s \o r)
  <2>1. PICK i \in 1 .. Len(r) : x = r[i]
    BY <1>2 DEF ToSet
  <2>2. Len(s) + i \in 1 .. Len(s) + Len(r) /\ x = (s \o r)[Len(s) + i]
    BY <1>1, <2>1
  <2> QED BY <1>2, <2>2 DEF ToSet
<1> QED BY <1>1, <1>3, <1>4, <1>5

\* A queue of one, and the empty one.
LEMMA Single ==
  ASSUME NEW S, NEW e \in S
  PROVE  /\ <<e>> \in Seq(S) /\ \A x : x \in ToSet(<<e>>) <=> x = e
         /\ <<>> \in Seq(S) /\ ToSet(<<>>) = {}
<1>1. <<e>> \in Seq(S) /\ <<>> \in Seq(S)
  OBVIOUS
<1>2. DOMAIN <<e>> = {1} /\ <<e>>[1] = e
  OBVIOUS
<1>3. ToSet(<<e>>) = {e}
  BY <1>2 DEF ToSet
<1> QED BY <1>1, <1>3 DEF ToSet

\* A queue with one more at its end.
LEMMA Appended ==
  ASSUME NEW S, NEW s \in Seq(S), NEW e \in S
  PROVE  /\ Append(s, e) \in Seq(S)
         /\ \A x : x \in ToSet(Append(s, e)) <=> x \in ToSet(s) \/ x = e
<1>1. Append(s, e) = s \o <<e>>
  BY AppendIsConcat
<1> DEFINE r == <<e>>
<1>2. r \in Seq(S) /\ \A x : x \in ToSet(r) <=> x = e
  BY Single
<1> HIDE DEF r
<1>3. s \o r \in Seq(S) /\ \A x : x \in ToSet(s \o r) <=> x \in ToSet(s) \/ x \in ToSet(r)
  BY <1>2, Joined
<1> QED BY <1>1, <1>2, <1>3 DEF r

-----------------------------------------------------------------------------
(* Scripts that unlock what they lock.                                     *)

\* The first command is allowed, and the rest goes on from there.
LEMMA BracketsFirst ==
  ASSUME NEW S, NEW s \in Seq(S), s # <<>>, NEW rule, NEW hold, Brackets(s, rule, hold)
  PROVE  \E g : <<hold, Head(s).op, g>> \in rule /\ Brackets(Tail(s), rule, g)
<1>1. PICK f \in [0 .. Len(s) -> HeldBy(rule)] :
        /\ f[0] = hold /\ f[Len(s)] = 0
        /\ \A i \in 1 .. Len(s) : <<f[i - 1], s[i].op, f[i]>> \in rule
  BY DEF Brackets
<1>2. /\ Len(s) \in Nat \ {0} /\ Len(Tail(s)) = Len(s) - 1 /\ Head(s) = s[1]
      /\ \A i \in 1 .. Len(Tail(s)) : Tail(s)[i] = s[i + 1]
  BY FirstAndRest, EmptySeq
<1>3. <<f[0], s[1].op, f[1]>> \in rule
  <2>1. 1 \in 1 .. Len(s) /\ 1 - 1 = 0
    BY <1>2
  <2> QED BY <1>1, <2>1
<1> DEFINE g == [i \in 0 .. Len(Tail(s)) |-> f[i + 1]]
<1>4. g \in [0 .. Len(Tail(s)) -> HeldBy(rule)] /\ g[0] = f[1] /\ g[Len(Tail(s))] = 0
  BY <1>1, <1>2
<1>5. ASSUME NEW i \in 1 .. Len(Tail(s))
      PROVE  <<g[i - 1], Tail(s)[i].op, g[i]>> \in rule
  <2>1. i + 1 \in 1 .. Len(s) /\ (i + 1) - 1 = i
    BY <1>2
  <2>2. <<f[i], s[i + 1].op, f[i + 1]>> \in rule
    BY <1>1, <2>1
  <2>3. g[i] = f[i + 1] /\ g[i - 1] = f[i] /\ Tail(s)[i] = s[i + 1]
    BY <1>2
  <2> QED BY <2>2, <2>3
<1> HIDE DEF g
<1> QED BY <1>1, <1>2, <1>3, <1>4, <1>5 DEF Brackets

\* One script after another.
LEMMA BracketsJoined ==
  ASSUME NEW S, NEW s \in Seq(S), NEW r \in Seq(S), NEW rule, NEW hold,
         Brackets(s, rule, hold), Brackets(r, rule, 0)
  PROVE  Brackets(s \o r, rule, hold)
<1>1. PICK f \in [0 .. Len(s) -> HeldBy(rule)] :
        /\ f[0] = hold /\ f[Len(s)] = 0
        /\ \A i \in 1 .. Len(s) : <<f[i - 1], s[i].op, f[i]>> \in rule
  BY DEF Brackets
<1>2. PICK g \in [0 .. Len(r) -> HeldBy(rule)] :
        /\ g[0] = 0 /\ g[Len(r)] = 0
        /\ \A i \in 1 .. Len(r) : <<g[i - 1], r[i].op, g[i]>> \in rule
  BY DEF Brackets
<1>3. /\ Len(s \o r) = Len(s) + Len(r) /\ Len(s) \in Nat /\ Len(r) \in Nat
      /\ \A i \in 1 .. Len(s) + Len(r) : (s \o r)[i] = IF i <= Len(s) THEN s[i] ELSE r[i - Len(s)]
  BY ConcatProperties, LenProperties
<1> DEFINE h == [i \in 0 .. Len(s \o r) |-> IF i <= Len(s) THEN f[i] ELSE g[i - Len(s)]]
<1>4. h \in [0 .. Len(s \o r) -> HeldBy(rule)] /\ h[0] = hold /\ h[Len(s \o r)] = 0
  <2>1. ASSUME NEW i \in 0 .. Len(s \o r) PROVE h[i] \in HeldBy(rule)
    <3>1. i <= Len(s) => i \in 0 .. Len(s)
      BY <1>3
    <3>2. ~(i <= Len(s)) => i - Len(s) \in 0 .. Len(r)
      BY <1>3
    <3> QED BY <3>1, <3>2
  <2>2. h[0] = hold
    BY <1>1, <1>3
  <2>3. Len(s \o r) \in 0 .. Len(s \o r) /\ Len(s \o r) - Len(s) = Len(r)
    BY <1>3
  <2>4. h[Len(s \o r)] = 0
    <3>1. CASE Len(s \o r) <= Len(s)
      <4>1. Len(s \o r) = Len(s)
        BY <1>3, <3>1
      <4> QED BY <1>1, <2>3, <4>1
    <3>2. CASE ~(Len(s \o r) <= Len(s))
      BY <1>2, <2>3, <3>2
    <3> QED BY <3>1, <3>2
  <2> QED BY <2>1, <2>2, <2>4
<1>5. ASSUME NEW i \in 1 .. Len(s \o r)
      PROVE  <<h[i - 1], (s \o r)[i].op, h[i]>> \in rule
  <2>1. CASE i <= Len(s)
    <3>1. h[i] = f[i] /\ h[i - 1] = f[i - 1] /\ (s \o r)[i] = s[i] /\ i \in 1 .. Len(s)
      BY <1>3, <2>1
    <3> QED BY <1>1, <3>1
  <2>2. CASE ~(i <= Len(s))
    <3> DEFINE j == i - Len(s)
    <3>1. j \in 1 .. Len(r) /\ (s \o r)[i] = r[j] /\ h[i] = g[j]
      BY <1>3, <2>2
    <3>2. h[i - 1] = g[j - 1]
      <4>1. CASE i - 1 <= Len(s)
        <5>1. i - 1 = Len(s) /\ j - 1 = 0
          BY <1>3, <2>2, <4>1
        <5>2. h[i - 1] = f[Len(s)]
          BY <1>3, <5>1
        <5> QED BY <1>1, <1>2, <5>1, <5>2
      <4>2. CASE ~(i - 1 <= Len(s))
        <5>1. (i - 1) - Len(s) = j - 1
          BY <1>3
        <5> QED BY <1>3, <2>2, <4>2, <5>1
      <4> QED BY <4>1, <4>2
    <3> HIDE DEF h, j
    <3> QED BY <1>2, <3>1, <3>2
  <2> QED BY <2>1, <2>2
<1> HIDE DEF h
<1> QED BY <1>4, <1>5 DEF Brackets

\* What the rules of both locks have in common: the ends of jobs are no part of
\* them, and a job is served with nothing held.
Fair(rule) ==
  /\ \A op \in {"reply", "finish"} : <<0, op, 0>> \in rule
  /\ \A h, g : <<h, "wait", g>> \in rule => h = 0 /\ g = 0

\* Nothing left to do is nothing held; and the end of a job.
LEMMA BracketsEnds ==
  ASSUME NEW rule, Fair(rule)
  PROVE  /\ \A hold : Brackets(<<>>, rule, hold) <=> hold = 0
         /\ \A e : e.op \in {"reply", "finish"} => Brackets(<<e>>, rule, 0)
<1>0. 0 \in HeldBy(rule)
  <2>1. <<0, "reply", 0>> \in rule /\ <<0, "reply", 0>>[1] = 0
    BY DEF Fair
  <2> QED BY <2>1 DEF HeldBy
<1>1. ASSUME NEW hold PROVE Brackets(<<>>, rule, hold) <=> hold = 0
  <2>1. Len(<<>>) = 0 /\ 0 .. 0 = {0} /\ 1 .. 0 = {}
    OBVIOUS
  <2>2. Brackets(<<>>, rule, hold) => hold = 0
    BY <2>1 DEF Brackets
  <2>3. ASSUME hold = 0 PROVE Brackets(<<>>, rule, hold)
    <3> DEFINE f == [i \in 0 .. 0 |-> hold]
    <3>1. f \in [0 .. 0 -> HeldBy(rule)] /\ f[0] = hold
      BY <1>0, <2>3
    <3> QED BY <2>1, <2>3, <3>1 DEF Brackets
  <2> QED BY <2>2, <2>3
<1>2. ASSUME NEW e, e.op \in {"reply", "finish"} PROVE Brackets(<<e>>, rule, 0)
  <2> DEFINE f == [i \in 0 .. 1 |-> 0]
  <2>1. f \in [0 .. 1 -> HeldBy(rule)] /\ f[0] = 0 /\ f[1] = 0
    BY <1>0
  <2>2. Len(<<e>>) = 1 /\ <<e>>[1] = e /\ 1 .. 1 = {1} /\ 1 - 1 = 0
    OBVIOUS
  <2>3. <<0, e.op, 0>> \in rule
    BY <1>2 DEF Fair
  <2> HIDE DEF f
  <2> QED BY <2>1, <2>2, <2>3 DEF Brackets
<1> QED BY <1>1, <1>2

\* What the rule of the readers-writer lock says.
LEMMA RwSteps ==
  /\ Fair(RwRule)
  /\ \A h, op, g : <<h, op, g>> \in RwRule =>
       /\ op = "rlock" => h = 0 /\ g = 1
       /\ op = "wlock" => h = 0 /\ g = 2
       /\ op = "rwunlock" => h # 0 /\ g = 0
       /\ op \notin {"rlock", "wlock", "rwunlock"} => g = h
<1>1. ASSUME NEW h, NEW op, NEW g, <<h, op, g>> \in RwRule
      PROVE  /\ op = "rlock" => h = 0 /\ g = 1
             /\ op = "wlock" => h = 0 /\ g = 2
             /\ op = "rwunlock" => h # 0 /\ g = 0
             /\ op = "wait" => h = 0 /\ g = 0
             /\ op \notin {"rlock", "wlock", "rwunlock"} => g = h
  BY <1>1 DEF RwRule
<1>2. \A op \in {"reply", "finish"} : <<0, op, 0>> \in RwRule
  BY DEF RwRule, Ops
<1> QED BY <1>1, <1>2 DEF Fair

\* What the rule of the mutex says.
LEMMA MutexSteps ==
  ASSUME NEW deep \in Nat
  PROVE  /\ Fair(MutexRule(deep))
         /\ \A h, op, g : <<h, op, g>> \in MutexRule(deep) =>
              /\ h \in Nat /\ g \in Nat
              /\ op = "lock" => g = h + 1
              /\ op = "unlock" => h = g + 1
              /\ op = "until" => h # 0
              /\ op \notin {"lock", "unlock"} => g = h
<1>1. ASSUME NEW h, NEW op, NEW g, <<h, op, g>> \in MutexRule(deep)
      PROVE  /\ h \in Nat /\ g \in Nat
             /\ op = "lock" => g = h + 1
             /\ op = "unlock" => h = g + 1
             /\ op = "until" => h # 0
             /\ op = "wait" => h = 0 /\ g = 0
             /\ op \notin {"lock", "unlock"} => g = h
  BY <1>1 DEF MutexRule
<1>2. \A op \in {"reply", "finish"} : <<0, op, 0>> \in MutexRule(deep)
  BY DEF MutexRule, Ops
<1> QED BY <1>1, <1>2 DEF Fair

-----------------------------------------------------------------------------
(* What the steps do to the scripts.                                       *)

\* Scripts are made of tasks.
LEMMA ScriptsAreTasks == \A s \in Scripts : s \in Seq(Tasks)
<1> SUFFICES ASSUME NEW s \in Scripts PROVE s \in Seq(Tasks)
  OBVIOUS
<1>1. s \in Seq(Commands) /\ Commands \subseteq Tasks
  BY ThreadAssumption DEF Tasks
<1> QED BY <1>1, SeqMonotonic

\* The current command and the rest.
LEMMA CurrentCommand ==
  ASSUME Shape, NEW t \in Tids, todo[t] # <<>>
  PROVE  /\ Cmd(t) \in Tasks /\ Tail(todo[t]) \in Seq(Tasks)
         /\ Cmd(t).op \in {"create", "send", "release"} => Cmd(t).id \in Workers
         /\ Cmd(t).op \in {"create", "send", "ppost"} => Cmd(t).script \in Scripts
         /\ Cmd(t).op = "send" => Cmd(t).async \in BOOLEAN
         /\ Cmd(t).op = "reply" => Cmd(t).to \in Tids \cup {None}
         /\ Cmd(t).op \in {"ppost", "pget", "finish"} => Cmd(t).job \in Nat
<1>1. todo[t] \in Seq(Tasks)
  BY DEF Shape
<1>2. Cmd(t) \in Tasks /\ Tail(todo[t]) \in Seq(Tasks)
  BY <1>1, FirstAndRest DEF Cmd
<1> DEFINE c == Cmd(t)
<1>3. /\ c.op \in {"create", "send", "release"} => c.id \in Workers
      /\ c.op \in {"create", "send", "ppost"} => c.script \in Scripts
      /\ c.op = "send" => c.async \in BOOLEAN
      /\ c.op = "reply" => c.to \in Tids \cup {None}
      /\ c.op \in {"ppost", "pget", "finish"} => c.job \in Nat
  <2>1. c \in Tasks
    BY <1>2
  <2> HIDE DEF c
  <2> QED BY <2>1 DEF Tasks, Commands
<1> QED BY <1>2, <1>3

\* A thread executes the current command: it is done with it, further on or
\* where it was.
Advances(t) ==
  /\ life[t] = "live" /\ todo[t] # <<>>
  /\ \/ Return(t)
     \/ UNCHANGED todo /\ at' = [at EXCEPT ![t] = "start"]
     \/ UNCHANGED todo /\ \E l \in Sites : at' = [at EXCEPT ![t] = l] /\ Fits(l, Cmd(t).op)
     \/ UNCHANGED <<todo, at>>

Others(t) == \A u \in Tids \ {t} : todo'[u] = todo[u] /\ at'[u] = at[u]

\* A thread goes on within its script or to the next command.
LEMMA AdvanceEffect ==
  ASSUME Shape, Placed, NEW t \in Tids, Advances(t)
  PROVE  /\ todo' \in [Tids -> Seq(Tasks)] /\ at' \in [Tids -> Sites] /\ Others(t)
         /\ todo'[t] = todo[t] \/ (todo'[t] = Tail(todo[t]) /\ at'[t] = "start")
         /\ at'[t] # "start" => todo'[t] = todo[t] /\ Fits(at'[t], Cmd(t).op)
<1>1. Tail(todo[t]) \in Seq(Tasks) /\ todo \in [Tids -> Seq(Tasks)] /\ at \in [Tids -> Sites]
  BY CurrentCommand DEF Shape, Advances
<1>2. CASE Return(t)
  BY <1>1, <1>2 DEF Return, Others, Sites
<1>3. CASE UNCHANGED todo /\ at' = [at EXCEPT ![t] = "start"]
  BY <1>1, <1>3 DEF Others, Sites
<1>4. CASE UNCHANGED todo /\ \E l \in Sites : at' = [at EXCEPT ![t] = l] /\ Fits(l, Cmd(t).op)
  BY <1>1, <1>4 DEF Others
<1>5. CASE UNCHANGED <<todo, at>>
  BY <1>1, <1>5 DEF Others, Placed
<1> QED BY <1>2, <1>3, <1>4, <1>5 DEF Advances

\* Every command but the birth of a thread and the next job of a pool worker
\* is an advance.
LEMMA StepSummary ==
  ASSUME Shape, Placed, NEW t \in Tids, Step(t) \/ TimeOut(t)
  PROVE  \/ Spawn(t)
         \/ PoolNext(t)
         \/ /\ Advances(t)
            /\ life' = life \/ PoolCreate(t)
            /\ at'[t] = "spawn" => Create(t)
<1> DEFINE Summary == /\ Advances(t)
                      /\ life' = life \/ PoolCreate(t)
                      /\ at'[t] = "spawn" => Create(t)
<1>a. at[t] \in Sites /\ at \in [Tids -> Sites] /\ (at[t] # "start" => todo[t] # <<>> /\ Fits(at[t], Cmd(t).op))
  BY DEF Shape, Placed
<1>1. CASE Create(t)
  BY <1>1, <1>a DEF Create, Advances, Runs, Cmd, Return, Goto, registryVars, Fits, Sites, Signalling
<1>2. CASE StoreHandle(t)
  BY <1>2, <1>a DEF StoreHandle, Advances, Runs, Cmd, Return, Goto, registryVars, Fits, Sites, Signalling
<1>3. CASE Send(t)
  BY <1>3, <1>a DEF Send, Advances, Runs, Cmd, Return, Goto, registryVars, Fits, Sites, Signalling
<1>4. CASE Post(t)
  BY <1>4, <1>a DEF Post, Advances, Runs, Cmd, Return, Goto, registryVars, Fits, Sites, Signalling
<1>5. CASE Answered(t)
  BY <1>5, <1>a DEF Answered, Advances, Runs, Cmd, Return, Goto, registryVars, Fits, Sites, Signalling
<1>6. CASE Reply(t)
  BY <1>6, <1>a DEF Reply, Advances, Runs, Cmd, Return, Goto, registryVars, Fits, Sites, Signalling
<1>7. CASE Release(t)
  BY <1>7, <1>a DEF Release, Advances, Runs, Cmd, Return, Goto, registryVars, Fits, Sites, Signalling
<1>8. CASE Tell(t)
  BY <1>8, <1>a DEF Tell, Advances, Runs, Cmd, Return, Goto, registryVars, Fits, Sites, Signalling
<1>9. CASE Join(t)
  BY <1>9, <1>a DEF Join, Advances, Runs, Cmd, Return, Goto, registryVars, Fits, Sites, Signalling
<1>10. CASE Lock(t)
  BY <1>10, <1>a DEF Lock, Advances, Runs, Cmd, Return, Goto, registryVars, Fits, Sites, Signalling
<1>11. CASE Unlock(t)
  BY <1>11, <1>a DEF Unlock, Advances, Runs, Cmd, Return, Goto, registryVars, Fits, Sites, Signalling
<1>12. CASE Until(t)
  BY <1>12, <1>a DEF Until, Advances, Runs, Cmd, Return, Goto, registryVars, Fits, Sites, Signalling
<1>13. CASE Recheck(t)
  BY <1>13, <1>a DEF Recheck, Advances, Runs, Cmd, Return, Goto, registryVars, Fits, Sites, Signalling
<1>14. CASE Relock(t)
  BY <1>14, <1>a DEF Relock, Advances, Runs, Cmd, Return, Goto, registryVars, Fits, Sites, Signalling
<1>15. CASE Set(t)
  BY <1>15, <1>a DEF Set, Advances, Runs, Cmd, Return, Goto, registryVars, Fits, Sites, Signalling
<1>16. CASE Notify(t)
  BY <1>16, <1>a DEF Notify, Advances, Runs, Cmd, Return, Goto, registryVars, Fits, Sites, Signalling
<1>17. CASE ReadLock(t)
  BY <1>17, <1>a DEF ReadLock, Advances, Runs, Cmd, Return, Goto, registryVars, Fits, Sites, Signalling
<1>18. CASE WriteLock(t)
  BY <1>18, <1>a DEF WriteLock, Advances, Runs, Cmd, Return, Goto, registryVars, Fits, Sites, Signalling
<1>19. CASE RwUnlock(t)
  BY <1>19, <1>a DEF RwUnlock, Advances, Runs, Cmd, Return, Goto, registryVars, Fits, Sites, Signalling
<1>20. CASE PoolCreate(t)
  BY <1>20, <1>a DEF PoolCreate, Advances, Runs, Cmd, Return, Goto, registryVars, Fits, Sites, Signalling
<1>21. CASE PoolLookup(t)
  BY <1>21, <1>a DEF PoolLookup, Advances, Runs, Cmd, Return, Goto, registryVars, Fits, Sites, Signalling
<1>22. CASE PoolPost(t)
  BY <1>22, <1>a DEF PoolPost, Advances, Runs, Cmd, Return, Goto, registryVars, Fits, Sites, Signalling
<1>23. CASE PoolGet(t)
  BY <1>23, <1>a DEF PoolGet, Advances, Runs, Cmd, Return, Goto, registryVars, Fits, Sites, Signalling
<1>24. CASE PoolWait(t)
  BY <1>24, <1>a DEF PoolWait, Advances, Runs, Cmd, Return, Goto, registryVars, Fits, Sites, Signalling
<1>25. CASE PoolRelease(t)
  BY <1>25, <1>a DEF PoolRelease, Advances, Runs, Cmd, Return, Goto, registryVars, Fits, Sites, Signalling
<1>26. CASE PoolShutdown(t)
  BY <1>26, <1>a DEF PoolShutdown, Advances, Runs, Cmd, Return, Goto, registryVars, Fits, Sites, Signalling
<1>27. CASE PoolJoin(t)
  BY <1>27, <1>a DEF PoolJoin, Advances, Runs, Cmd, Return, Goto, registryVars, Fits, Sites, Signalling
<1>28. CASE PoolFinish(t)
  BY <1>28, <1>a DEF PoolFinish, Advances, Runs, Cmd, Return, Goto, registryVars, Fits, Sites, Signalling
<1>29. CASE Signal(t)
  BY <1>29, <1>a DEF Signal, Advances, Runs, Cmd, Return, Goto, registryVars, Fits, Sites, Signalling
<1>30. CASE TimeOut(t)
  BY <1>30, <1>a DEF TimeOut, Advances, Runs, Cmd, Goto, registryVars, Fits, Sites, Signalling
<1> QED
  BY <1>1, <1>2, <1>3, <1>4, <1>5, <1>6, <1>7, <1>8, <1>9, <1>10, <1>11, <1>12, <1>13,
     <1>14, <1>15, <1>16, <1>17, <1>18, <1>19, <1>20, <1>21, <1>22, <1>23, <1>24, <1>25,
     <1>26, <1>27, <1>28, <1>29, <1>30
  DEF Step

\* Which step can change what.
LEMMA StepFrame ==
  ASSUME Shape, NEW t \in Tids, Step(t) \/ TimeOut(t)
  PROVE  /\ Post(t) \/ Tell(t) \/ UNCHANGED inbox
         /\ Post(t) \/ Answered(t) \/ Reply(t) \/ UNCHANGED answer
         /\ \/ PoolCreate(t) \/ PoolPost(t) \/ PoolGet(t) \/ PoolRelease(t) \/ PoolShutdown(t)
            \/ PoolNext(t) \/ PoolFinish(t) \/ UNCHANGED pool
         /\ Lock(t) \/ Relock(t) \/ Unlock(t) \/ Until(t) \/ UNCHANGED <<mutex, inside.mutex>>
         /\ ReadLock(t) \/ WriteLock(t) \/ RwUnlock(t) \/ UNCHANGED <<rw, inside.reader, inside.writer>>
         /\ UNCHANGED recursive
<1> DEFINE Frame ==
         /\ Post(t) \/ Tell(t) \/ UNCHANGED inbox
         /\ Post(t) \/ Answered(t) \/ Reply(t) \/ UNCHANGED answer
         /\ \/ PoolCreate(t) \/ PoolPost(t) \/ PoolGet(t) \/ PoolRelease(t) \/ PoolShutdown(t)
            \/ PoolNext(t) \/ PoolFinish(t) \/ UNCHANGED pool
         /\ Lock(t) \/ Relock(t) \/ Unlock(t) \/ Until(t) \/ UNCHANGED <<mutex, inside.mutex>>
         /\ ReadLock(t) \/ WriteLock(t) \/ RwUnlock(t) \/ UNCHANGED <<rw, inside.reader, inside.writer>>
         /\ UNCHANGED recursive
<1>a. inside \in [mutex : SUBSET Tids, reader : SUBSET Tids, writer : SUBSET Tids]
  BY DEF Shape
<1>1. CASE Create(t) \/ Spawn(t) \/ StoreHandle(t) \/ Send(t) \/ Release(t) \/ Join(t)
  BY <1>1 DEF Create, Spawn, StoreHandle, Send, Release, Join, registryVars, lockVars
<1>2. CASE Post(t) \/ Answered(t) \/ Reply(t) \/ Tell(t)
  BY <1>2 DEF Post, Answered, Reply, Tell, registryVars, lockVars
<1>3. CASE Lock(t) \/ Unlock(t)
  BY <1>3, <1>a DEF Lock, Unlock, registryVars, lockVars, Take, LeavesMutex
<1>4. CASE Until(t) \/ Relock(t)
  BY <1>4, <1>a DEF Until, Relock, registryVars, lockVars, Take, LeavesMutex
<1>5. CASE Recheck(t) \/ Set(t) \/ Notify(t)
  BY <1>5 DEF Recheck, Set, Notify, registryVars, lockVars
<1>6. CASE ReadLock(t) \/ WriteLock(t) \/ RwUnlock(t)
  BY <1>6, <1>a DEF ReadLock, WriteLock, RwUnlock, registryVars, lockVars
<1>7. CASE PoolCreate(t) \/ PoolLookup(t) \/ PoolPost(t)
  BY <1>7 DEF PoolCreate, PoolLookup, PoolPost, registryVars, lockVars
<1>8. CASE PoolGet(t)
  BY <1>8 DEF PoolGet, registryVars, lockVars
<1>9. CASE PoolWait(t) \/ PoolRelease(t) \/ PoolShutdown(t) \/ PoolJoin(t)
  BY <1>9 DEF PoolWait, PoolRelease, PoolShutdown, PoolJoin, registryVars, lockVars
<1>10. CASE PoolNext(t) \/ PoolFinish(t)
  BY <1>10 DEF PoolNext, PoolFinish, registryVars, lockVars
<1>11. CASE Signal(t) \/ TimeOut(t)
  BY <1>11 DEF Signal, TimeOut, registryVars, lockVars
<1> QED BY <1>1, <1>2, <1>3, <1>4, <1>5, <1>6, <1>7, <1>8, <1>9, <1>10, <1>11 DEF Step

\* A new thread starts where nobody was.
LEMMA SpawnEffect ==
  ASSUME Shape, Placed, NEW t \in Tids, Spawn(t)
  PROVE  \E w \in Workers :
           /\ w # t /\ life[w] = "unborn" /\ life' = [life EXCEPT ![w] = "live"]
           /\ Cmd(t).id = w /\ Cmd(t).op = "create"
           /\ todo[w] = <<>> /\ at[w] = "start" /\ todo'[w] = Cmd(t).script
           /\ todo' \in [Tids -> Seq(Tasks)] /\ at' \in [Tids -> Sites]
           /\ \A u \in Tids \ {w} : todo'[u] = todo[u]
           /\ \A u \in Tids \ {t} : at'[u] = at[u]
           /\ life[t] = "live" /\ at[t] = "spawn" /\ at'[t] = "handle"
<1>1. at[t] = "spawn" /\ todo[t] # <<>> /\ Cmd(t).op = "create" /\ life[t] = "live"
  BY DEF Spawn, Runs, Cmd
<1> DEFINE w == Cmd(t).id
<1>2. w \in Workers /\ Cmd(t).script \in Scripts
  BY <1>1, CurrentCommand
<1>3. w \in Tids /\ Cmd(t).script \in Seq(Tasks)
  BY <1>2, ScriptsAreTasks DEF Tids
<1>4. life[w] = "unborn"
  BY <1>1 DEF Placed
<1>5. todo[w] = <<>> /\ at[w] = "start" /\ w # t
  BY <1>1, <1>3, <1>4 DEF Placed
<1>6. /\ life' = [life EXCEPT ![w] = "live"] /\ todo' = [todo EXCEPT ![w] = Cmd(t).script]
      /\ at' = [at EXCEPT ![t] = "handle"]
  BY DEF Spawn
<1> HIDE DEF w
<1> QED BY <1>1, <1>2, <1>3, <1>4, <1>5, <1>6 DEF Shape, Sites, w

\* A pool worker leaves, takes a job or sleeps.
LEMMA PoolNextEffect ==
  ASSUME Shape, Placed, NEW t \in Tids, PoolNext(t)
  PROVE  /\ t \in PoolWorkers /\ life[t] = "live" /\ todo[t] = <<>> /\ at[t] = "start"
         /\ todo' \in [Tids -> Seq(Tasks)] /\ Others(t) /\ at' = at
         /\ UNCHANGED <<inbox, answer, recursive, mutex, rw, inside>>
         /\ pool' \in [handle : BOOLEAN, queue : Seq(Posted), results : SUBSET Nat, shutdown : BOOLEAN]
         /\ \/ life' = [life EXCEPT ![t] = "gone"] /\ todo' = todo
            \/ life' = life /\ todo' = todo
            \/ /\ life' = life
               /\ \E j \in Posted : todo'[t] = j.script \o <<[op |-> "finish", job |-> j.job]>>
<1>1. /\ t \in PoolWorkers /\ life[t] = "live" /\ todo[t] = <<>> /\ at[t] = "start" /\ at' = at
      /\ UNCHANGED <<inbox, answer, recursive, mutex, rw, inside>>
  BY DEF PoolNext, Placed, lockVars
<1>2. CASE pool.queue = <<>> \/ pool.shutdown
  BY <1>1, <1>2, SMTT(30) DEF PoolNext, Shape, Others
<1>3. CASE pool.queue # <<>> /\ ~pool.shutdown
  <2> DEFINE j == Head(pool.queue)
             e == [op |-> "finish", job |-> j.job]
  <2>1. j \in Posted /\ Tail(pool.queue) \in Seq(Posted)
    BY <1>3, FirstAndRest DEF Shape
  <2>2. j.script \in Scripts /\ j.job \in Nat
    BY <2>1 DEF Posted
  <2>3. j.script \in Seq(Tasks) /\ e \in Tasks
    BY <2>2, ScriptsAreTasks DEF Tasks
  <2>4. j.script \o <<e>> \in Seq(Tasks)
    BY <2>3, Single, Joined
  <2>5. /\ life' = life /\ pool' = [pool EXCEPT !.queue = Tail(@)]
        /\ todo' = [todo EXCEPT ![t] = j.script \o <<e>>]
    BY <1>3 DEF PoolNext
  <2> HIDE DEF e
  <2>6. todo' \in [Tids -> Seq(Tasks)] /\ Others(t) /\ todo'[t] = j.script \o <<e>>
    BY <1>1, <2>4, <2>5 DEF Shape, Others
  <2> QED BY <1>1, <2>1, <2>5, <2>6 DEF Shape, e
<1> QED BY <1>1, <1>2, <1>3

\* A job comes out of the channel and in front of what the worker has to do.
LEMMA ServeEffect ==
  ASSUME Shape, Placed, NEW w \in Workers, ServeJob(w)
  PROVE  /\ life[w] = "live" /\ at[w] = "start" /\ todo[w] # <<>> /\ Cmd(w).op = "wait"
         /\ at' = at /\ todo' \in [Tids -> Seq(Tasks)] /\ Others(w)
         /\ inbox' \in [Workers -> Seq(Messages)] /\ (\A v \in Workers \ {w} : inbox'[v] = inbox[v])
         /\ \E j \in Messages :
              /\ j.op = "eval" /\ j.script \in Scripts
              /\ todo'[w] = j.script \o <<[op |-> "reply", to |-> j.reply]>> \o todo[w]
              /\ [op |-> "reply", to |-> j.reply] \in Tasks
              /\ \A i : i \in ToSet(inbox[w]) => i = j \/ i \in ToSet(inbox'[w])
         /\ UNCHANGED <<life, answer, recursive, mutex, rw, inside, pool>>
<1> DEFINE j == Head(inbox[w])
           e == [op |-> "reply", to |-> j.reply]
<1>1. /\ life[w] = "live" /\ at[w] = "start" /\ todo[w] # <<>> /\ Cmd(w).op = "wait" /\ at' = at
      /\ UNCHANGED <<life, answer, recursive, mutex, rw, inside, pool>>
      /\ inbox[w] # <<>> /\ j.op = "eval"
      /\ todo' = [todo EXCEPT ![w] = j.script \o <<e>> \o todo[w]]
      /\ inbox' = [inbox EXCEPT ![w] = Tail(inbox[w])]
  BY DEF ServeJob, Runs, Cmd, lockVars
<1>2. j \in Messages /\ Tail(inbox[w]) \in Seq(Messages)
      /\ \A i : i \in ToSet(inbox[w]) => i = j \/ i \in ToSet(Tail(inbox[w]))
  BY <1>1, FirstAndRest DEF Shape
<1>3. j.script \in Scripts /\ j.reply \in Tids \cup {None}
  BY <1>1, <1>2 DEF Messages
<1>4. j.script \in Seq(Tasks) /\ e \in Tasks /\ w \in Tids /\ todo[w] \in Seq(Tasks)
  BY <1>3, ScriptsAreTasks DEF Tasks, Tids, Shape
<1>5. <<e>> \in Seq(Tasks)
  BY <1>4, Single
<1> HIDE DEF e
<1>6. j.script \o <<e>> \o todo[w] \in Seq(Tasks)
  BY <1>4, <1>5, Joined
<1>7. todo' \in [Tids -> Seq(Tasks)] /\ Others(w) /\ todo'[w] = j.script \o <<e>> \o todo[w]
  BY <1>1, <1>4, <1>6 DEF Shape, Others
<1>8. /\ inbox' \in [Workers -> Seq(Messages)] /\ inbox'[w] = Tail(inbox[w])
      /\ \A v \in Workers \ {w} : inbox'[v] = inbox[v]
  BY <1>1, <1>2 DEF Shape
<1> HIDE DEF j
<1> QED BY <1>1, <1>2, <1>3, <1>4, <1>7, <1>8 DEF e, j

\* What is sent goes to the end of a channel.
LEMMA SendEffect ==
  ASSUME Shape, NEW t \in Tids, Post(t) \/ Tell(t)
  PROVE  /\ life[t] = "live" /\ todo[t] # <<>> /\ Cmd(t).id \in Workers
         /\ inbox' \in [Workers -> Seq(Messages)]
         /\ \A w \in Workers : \A j \in ToSet(inbox[w]) : j \in ToSet(inbox'[w])
         /\ \/ Tell(t)
            \/ answer' = answer /\ inbox' = inbox
            \/ answer' = [answer EXCEPT ![t] = "none"]
            \/ /\ answer' = [answer EXCEPT ![t] = "pending"] /\ life[Cmd(t).id] # "gone"
               /\ \E j \in ToSet(inbox'[Cmd(t).id]) : j.op = "eval" /\ j.reply = t
<1> DEFINE w == Cmd(t).id
           e == [op |-> "eval", script |-> Cmd(t).script, reply |-> IF Cmd(t).async THEN None ELSE t]
           r == [op |-> "release"]
<1>1. life[t] = "live" /\ todo[t] # <<>> /\ Cmd(t).op \in {"send", "release"}
  BY DEF Post, Tell, Runs, Cmd
<1>2. w \in Workers /\ inbox[w] \in Seq(Messages)
  BY <1>1, CurrentCommand DEF Shape
<1>3. ASSUME NEW m \in Messages, inbox' = [inbox EXCEPT ![w] = Append(@, m)]
      PROVE  /\ inbox' \in [Workers -> Seq(Messages)] /\ m \in ToSet(inbox'[w])
             /\ \A v \in Workers : \A j \in ToSet(inbox[v]) : j \in ToSet(inbox'[v])
  <2>1. Append(inbox[w], m) \in Seq(Messages)
        /\ \A x : x \in ToSet(Append(inbox[w], m)) <=> x \in ToSet(inbox[w]) \/ x = m
    BY <1>2, Appended
  <2>2. inbox'[w] = Append(inbox[w], m) /\ \A v \in Workers \ {w} : inbox'[v] = inbox[v]
    BY <1>2, <1>3 DEF Shape
  <2> QED BY <1>2, <1>3, <2>1, <2>2 DEF Shape
<1>4. CASE Post(t)
  <2>1. Cmd(t).op = "send"
    BY <1>4 DEF Post, Runs, Cmd
  <2>2. Cmd(t).script \in Scripts /\ Cmd(t).async \in BOOLEAN
    BY <1>1, <2>1, CurrentCommand
  <2>3. e \in Messages /\ e.op = "eval" /\ (~Cmd(t).async => e.reply = t)
    BY <2>2 DEF Messages
  <2>4. CASE life[w] = "gone"
    BY <1>1, <1>2, <1>4, <2>4 DEF Post, Shape
  <2>5. CASE life[w] # "gone"
    <3>1. /\ inbox' = [inbox EXCEPT ![w] = Append(@, e)]
          /\ answer' = [answer EXCEPT ![t] = IF Cmd(t).async THEN "none" ELSE "pending"]
      BY <1>4, <2>5 DEF Post
    <3> HIDE DEF e, w
    <3>2. /\ inbox' \in [Workers -> Seq(Messages)] /\ e \in ToSet(inbox'[w])
          /\ \A v \in Workers : \A j \in ToSet(inbox[v]) : j \in ToSet(inbox'[v])
      BY <1>3, <2>3, <3>1
    <3>3. CASE Cmd(t).async
      BY <1>1, <1>2, <3>1, <3>2, <3>3 DEF w
    <3>4. CASE ~Cmd(t).async
      BY <1>1, <1>2, <2>3, <2>5, <3>1, <3>2, <3>4 DEF w
    <3> QED BY <3>3, <3>4
  <2> QED BY <2>4, <2>5
<1>5. CASE Tell(t)
  <2>1. r \in Messages
    BY DEF Messages
  <2>2. inbox' = inbox \/ inbox' = [inbox EXCEPT ![w] = Append(@, r)]
    BY <1>5 DEF Tell
  <2> HIDE DEF r, w
  <2>3. /\ inbox' \in [Workers -> Seq(Messages)]
        /\ \A v \in Workers : \A j \in ToSet(inbox[v]) : j \in ToSet(inbox'[v])
    BY <1>3, <2>1, <2>2 DEF Shape
  <2> QED BY <1>1, <1>2, <1>5, <2>3 DEF w
<1> QED BY <1>4, <1>5

\* The locks keep their types.
LEMMA LocksTyped ==
  ASSUME Shape, NEW t \in Tids, Step(t) \/ TimeOut(t)
  PROVE  /\ mutex' \in [owner : Tids \cup {None}, count : Nat]
         /\ rw' \in [readers : Nat, writer : BOOLEAN]
         /\ inside' \in [mutex : SUBSET Tids, reader : SUBSET Tids, writer : SUBSET Tids]
<1>a. /\ mutex \in [owner : Tids \cup {None}, count : Nat]
      /\ rw \in [readers : Nat, writer : BOOLEAN]
      /\ inside \in [mutex : SUBSET Tids, reader : SUBSET Tids, writer : SUBSET Tids]
  BY DEF Shape
<1>1. CASE Lock(t) \/ Relock(t)
  <2>1. Locked(t) \in [owner : Tids \cup {None}, count : Nat]
    BY <1>a DEF Locked
  <2>2. [inside EXCEPT !.mutex = @ \cup {t}]
          \in [mutex : SUBSET Tids, reader : SUBSET Tids, writer : SUBSET Tids]
    BY <1>a
  <2>3. /\ mutex' = mutex \/ mutex' = Locked(t)
        /\ inside' = inside \/ inside' = [inside EXCEPT !.mutex = @ \cup {t}]
        /\ rw' = rw
    BY <1>1 DEF Lock, Relock, Take
  <2> QED BY <1>a, <2>1, <2>2, <2>3
<1>2. CASE Unlock(t) \/ Until(t)
  <2>1. Unlocked(t) \in [owner : Tids \cup {None}, count : Nat]
    BY <1>a DEF Unlocked, StaysLocked
  <2>2. LeavesMutex(t) \in [mutex : SUBSET Tids, reader : SUBSET Tids, writer : SUBSET Tids]
    BY <1>a DEF LeavesMutex
  <2>3. /\ mutex' = mutex \/ mutex' = Unlocked(t)
        /\ inside' = inside \/ inside' = LeavesMutex(t)
        /\ rw' = rw
    BY <1>2 DEF Unlock, Until
  <2> QED BY <1>a, <2>1, <2>2, <2>3
<1>3. CASE ReadLock(t) \/ WriteLock(t)
  <2>1. rw.readers + 1 \in Nat
    BY <1>a
  <2>2. rw' \in {rw, [rw EXCEPT !.readers = rw.readers + 1], [rw EXCEPT !.writer = TRUE]}
        /\ inside' \in {inside, [inside EXCEPT !.reader = @ \cup {t}], [inside EXCEPT !.writer = @ \cup {t}]}
        /\ mutex' = mutex
    BY <1>3 DEF ReadLock, WriteLock
  <2>3. rw' \in [readers : Nat, writer : BOOLEAN]
    BY <1>a, <2>1, <2>2
  <2>4. inside' \in [mutex : SUBSET Tids, reader : SUBSET Tids, writer : SUBSET Tids]
    BY <1>a, <2>2
  <2> QED BY <1>a, <2>2, <2>3, <2>4
<1>4. CASE RwUnlock(t)
  <2>1. rw' \in [readers : Nat, writer : BOOLEAN]
    <3>1. CASE rw.writer
      BY <1>4, <1>a, <3>1 DEF RwUnlock
    <3>2. CASE ~rw.writer
      <4> DEFINE n == IF rw.readers > 0 THEN rw.readers - 1 ELSE 0
      <4>1. n \in Nat /\ rw' = [rw EXCEPT !.readers = n]
        BY <1>4, <1>a, <3>2 DEF RwUnlock
      <4> HIDE DEF n
      <4> QED BY <1>a, <4>1
    <3> QED BY <3>1, <3>2
  <2>2. inside' \in [mutex : SUBSET Tids, reader : SUBSET Tids, writer : SUBSET Tids] /\ mutex' = mutex
    BY <1>4, <1>a DEF RwUnlock
  <2> QED BY <1>a, <2>1, <2>2
<1>5. CASE ~(Lock(t) \/ Relock(t) \/ Unlock(t) \/ Until(t) \/ ReadLock(t) \/ WriteLock(t) \/ RwUnlock(t))
  <2>1. UNCHANGED <<mutex, rw, inside>>
    BY <1>5 DEF Step, TimeOut, Create, Spawn, StoreHandle, Send, Post, Answered, Reply, Release, Tell,
                Join, Recheck, Set, Notify, PoolCreate, PoolLookup, PoolPost, PoolGet, PoolWait,
                PoolRelease, PoolShutdown, PoolJoin, PoolNext, PoolFinish, Signal, lockVars
  <2> QED BY <1>a, <2>1
<1> QED BY <1>1, <1>2, <1>3, <1>4, <1>5

\* So does the pool.
LEMMA PoolTyped ==
  ASSUME Shape, Placed, NEW t \in Tids, Step(t) \/ TimeOut(t)
  PROVE  pool' \in [handle : BOOLEAN, queue : Seq(Posted), results : SUBSET Nat, shutdown : BOOLEAN]
<1>a. pool \in [handle : BOOLEAN, queue : Seq(Posted), results : SUBSET Nat, shutdown : BOOLEAN]
  BY DEF Shape
<1>1. CASE PoolCreate(t) \/ PoolRelease(t) \/ PoolShutdown(t)
  BY <1>1, <1>a DEF PoolCreate, PoolRelease, PoolShutdown
<1>2. CASE PoolPost(t)
  <2> DEFINE e == [job |-> Cmd(t).job, script |-> Cmd(t).script]
  <2>1. todo[t] # <<>> /\ Cmd(t).op = "ppost" /\ pool' = [pool EXCEPT !.queue = Append(@, e)]
    BY <1>2 DEF PoolPost, Runs, Cmd
  <2>2. e \in Posted
    BY <2>1, CurrentCommand DEF Posted
  <2> HIDE DEF e
  <2>3. Append(pool.queue, e) \in Seq(Posted)
    BY <1>a, <2>2, Appended
  <2> QED BY <1>a, <2>1, <2>3
<1>3. CASE PoolGet(t)
  BY <1>3, <1>a DEF PoolGet
<1>4. CASE PoolFinish(t)
  <2>1. todo[t] # <<>> /\ Cmd(t).op = "finish"
    BY <1>4 DEF PoolFinish, Runs, Cmd
  <2>2. Cmd(t).job \in Nat
    BY <2>1, CurrentCommand
  <2> QED BY <1>4, <1>a, <2>2 DEF PoolFinish
<1>5. CASE PoolNext(t)
  BY <1>5, PoolNextEffect
<1> QED BY <1>1, <1>2, <1>3, <1>4, <1>5, <1>a, StepFrame

\* A worker leaves its loop, deregisters or ends; a sleeper wakes.
LEMMA QuietEffect ==
  ASSUME Shape, Placed
  PROVE  /\ \A w \in Workers : LeaveLoop(w) =>
              /\ Advances(w) /\ Return(w) /\ Cmd(w).op = "wait" /\ at[w] = "start"
              /\ inbox' \in [Workers -> Seq(Messages)]
              /\ \A v \in Workers : \A j \in ToSet(inbox[v]) : j.op = "eval" => j \in ToSet(inbox'[v])
              /\ UNCHANGED <<life, answer, recursive, mutex, rw, inside, pool>>
         /\ \A w \in Workers : Deregister(w) =>
              /\ life[w] = "live" /\ todo[w] = <<>> /\ life' = [life EXCEPT ![w] = "leaving"]
              /\ UNCHANGED <<todo, at, inbox, answer, recursive, mutex, rw, inside, pool>>
         /\ \A w \in Workers : Exit(w) =>
              /\ life[w] = "leaving" /\ todo[w] = <<>> /\ life' = [life EXCEPT ![w] = "gone"]
              /\ inbox' = [inbox EXCEPT ![w] = <<>>] /\ inbox' \in [Workers -> Seq(Messages)]
              /\ answer' \in [Tids -> {"none", "pending", "value", "closed"}]
              /\ UNCHANGED <<todo, at, recursive, mutex, rw, inside, pool>>
         /\ \A t \in Tids : Spurious(t) =>
              UNCHANGED <<todo, at, life, inbox, answer, recursive, mutex, rw, inside, pool>>
<1>1. ASSUME NEW w \in Workers, LeaveLoop(w)
      PROVE  /\ Advances(w) /\ Return(w) /\ Cmd(w).op = "wait" /\ at[w] = "start"
             /\ inbox' \in [Workers -> Seq(Messages)]
             /\ \A v \in Workers : \A j \in ToSet(inbox[v]) : j.op = "eval" => j \in ToSet(inbox'[v])
             /\ UNCHANGED <<life, answer, recursive, mutex, rw, inside, pool>>
  <2>1. /\ Advances(w) /\ Return(w) /\ Cmd(w).op = "wait" /\ at[w] = "start"
        /\ UNCHANGED <<life, answer, recursive, mutex, rw, inside, pool>>
    BY <1>1 DEF LeaveLoop, Advances, Runs, Cmd, lockVars
  <2>2. CASE UNCHANGED inbox
    BY <2>1, <2>2 DEF Shape
  <2>3. CASE ~UNCHANGED inbox
    <3>1. inbox[w] # <<>> /\ Head(inbox[w]).op = "release" /\ inbox' = [inbox EXCEPT ![w] = Tail(@)]
      BY <1>1, <2>3 DEF LeaveLoop
    <3>2. /\ Tail(inbox[w]) \in Seq(Messages)
          /\ \A x : x \in ToSet(inbox[w]) <=> x = Head(inbox[w]) \/ x \in ToSet(Tail(inbox[w]))
      BY <3>1, FirstAndRest DEF Shape
    <3>3. /\ inbox' \in [Workers -> Seq(Messages)] /\ inbox'[w] = Tail(inbox[w])
          /\ \A v \in Workers \ {w} : inbox'[v] = inbox[v]
      BY <3>1, <3>2 DEF Shape
    <3>4. \A v \in Workers : \A j \in ToSet(inbox[v]) : j.op = "eval" => j \in ToSet(inbox'[v])
      BY <3>1, <3>2, <3>3
    <3> QED BY <2>1, <3>3, <3>4
  <2> QED BY <2>2, <2>3
<1>2. ASSUME NEW w \in Workers, Deregister(w)
      PROVE  /\ life[w] = "live" /\ todo[w] = <<>> /\ life' = [life EXCEPT ![w] = "leaving"]
             /\ UNCHANGED <<todo, at, inbox, answer, recursive, mutex, rw, inside, pool>>
  BY <1>2 DEF Deregister, lockVars
<1>3. ASSUME NEW w \in Workers, Exit(w)
      PROVE  /\ life[w] = "leaving" /\ todo[w] = <<>> /\ life' = [life EXCEPT ![w] = "gone"]
             /\ inbox' = [inbox EXCEPT ![w] = <<>>] /\ inbox' \in [Workers -> Seq(Messages)]
             /\ answer' \in [Tids -> {"none", "pending", "value", "closed"}]
             /\ UNCHANGED <<todo, at, recursive, mutex, rw, inside, pool>>
  <2>1. w \in Tids /\ <<>> \in Seq(Messages)
    BY DEF Tids
  <2>2. answer' \in [Tids -> {"none", "pending", "value", "closed"}]
    BY <1>3 DEF Exit, Shape
  <2> QED BY <1>3, <2>1, <2>2 DEF Exit, Placed, Shape, lockVars
<1>4. ASSUME NEW t \in Tids, Spurious(t)
      PROVE  UNCHANGED <<todo, at, life, inbox, answer, recursive, mutex, rw, inside, pool>>
  BY <1>4 DEF Spurious, registryVars, lockVars
<1> QED BY <1>1, <1>2, <1>3, <1>4

-----------------------------------------------------------------------------
(* The shape and the places are kept.                                      *)

\* Every step keeps the shape of the state.
LEMMA ShapeKept ==
  ASSUME Shape, Placed, [Next]_vars
  PROVE  Shape'
<1>1. ASSUME NEW t \in Tids, Step(t) \/ TimeOut(t) PROVE Shape'
  <2>1. todo' \in [Tids -> Seq(Tasks)] /\ at' \in [Tids -> Sites]
    <3>1. CASE Advances(t)
      BY <3>1, AdvanceEffect
    <3>2. CASE Spawn(t)
      BY <3>2, SpawnEffect
    <3>3. CASE PoolNext(t)
      BY <3>3, PoolNextEffect DEF Shape
    <3> QED BY <1>1, <3>1, <3>2, <3>3, StepSummary
  <2>2. life' \in [Tids -> {"unborn", "live", "leaving", "gone"}]
    <3>1. CASE Spawn(t)
      <4>1. PICK w \in Workers : life' = [life EXCEPT ![w] = "live"]
        BY <3>1, SpawnEffect
      <4> QED BY <4>1 DEF Shape
    <3>2. CASE PoolNext(t)
      BY <3>2, PoolNextEffect, ZenonT(40) DEF Shape
    <3>3. CASE PoolCreate(t)
      BY <3>3 DEF PoolCreate, Shape
    <3>4. CASE life' = life
      BY <3>4 DEF Shape
    <3> QED BY <1>1, <3>1, <3>2, <3>3, <3>4, StepSummary
  <2>3. inbox' \in [Workers -> Seq(Messages)]
    BY <1>1, StepFrame, SendEffect DEF Shape
  <2>4. answer' \in [Tids -> {"none", "pending", "value", "closed"}]
    <3>1. CASE Post(t)
      <4>1. ~Tell(t)
        BY <3>1 DEF Tell, Post, Runs
      <4>2. answer' \in {answer, [answer EXCEPT ![t] = "none"], [answer EXCEPT ![t] = "pending"]}
        BY <3>1, <4>1, SendEffect
      <4> QED BY <4>2 DEF Shape
    <3>2. CASE Answered(t) \/ Reply(t)
      BY <3>2 DEF Answered, Reply, Shape
    <3>3. CASE answer' = answer
      BY <3>3 DEF Shape
    <3> QED BY <1>1, <3>1, <3>2, <3>3, StepFrame
  <2> QED BY <1>1, <2>1, <2>2, <2>3, <2>4, LocksTyped, PoolTyped, StepFrame DEF Shape
<1>2. ASSUME UNCHANGED <<todo, at, life, inbox, answer, recursive, mutex, rw, inside, pool>> PROVE Shape'
  BY <1>2 DEF Shape
<1>3. ASSUME NEW w \in Workers, WorkerStep(w) PROVE Shape'
  <2>1. w \in Tids
    BY DEF Tids
  <2>2. CASE ServeJob(w)
    <3>1. /\ at' = at /\ todo' \in [Tids -> Seq(Tasks)] /\ inbox' \in [Workers -> Seq(Messages)]
          /\ UNCHANGED <<life, answer, recursive, mutex, rw, inside, pool>>
      BY <2>2, ServeEffect
    <3> QED BY <3>1 DEF Shape
  <2>3. CASE LeaveLoop(w)
    BY <2>1, <2>3, QuietEffect, AdvanceEffect DEF Shape
  <2>4. CASE Deregister(w)
    <3>1. /\ life' = [life EXCEPT ![w] = "leaving"]
          /\ UNCHANGED <<todo, at, inbox, answer, recursive, mutex, rw, inside, pool>>
      BY <2>4, QuietEffect
    <3> QED BY <2>1, <3>1 DEF Shape
  <2>5. CASE Exit(w)
    <3>1. /\ life' = [life EXCEPT ![w] = "gone"] /\ inbox' \in [Workers -> Seq(Messages)]
          /\ answer' \in [Tids -> {"none", "pending", "value", "closed"}]
          /\ UNCHANGED <<todo, at, recursive, mutex, rw, inside, pool>>
      BY <2>5, QuietEffect
    <3> QED BY <2>1, <3>1 DEF Shape
  <2> QED BY <1>3, <2>2, <2>3, <2>4, <2>5 DEF WorkerStep
<1>4. ASSUME NEW t \in Tids, Spurious(t) PROVE Shape'
  BY <1>2, <1>4, QuietEffect
<1>5. CASE UNCHANGED vars
  BY <1>2, <1>5 DEF vars
<1> QED BY <1>1, <1>3, <1>4, <1>5 DEF Next

\* Where a thread is fits what it is doing, step by step.
LEMMA PlacedKept ==
  ASSUME Shape, Placed, [Next]_vars
  PROVE  Placed'
<1>1. ASSUME NEW t \in Tids, Advances(t), at'[t] = "spawn" => Create(t),
             \A u \in Tids : life'[u] # "live" => life[u] # "live",
             \A w \in Workers : life[w] = "unborn" => life'[w] = "unborn"
      PROVE  Placed'
  <2>1. /\ Others(t)
        /\ todo'[t] = todo[t] \/ (todo'[t] = Tail(todo[t]) /\ at'[t] = "start")
        /\ at'[t] # "start" => todo'[t] = todo[t] /\ Fits(at'[t], Cmd(t).op)
        /\ life[t] = "live" /\ todo[t] # <<>>
    BY <1>1, AdvanceEffect DEF Advances
  <2>2. \A u \in Tids : life'[u] # "live" => todo'[u] = <<>>
    BY <1>1, <2>1 DEF Placed, Others
  <2>3. \A u \in Tids : at'[u] # "start" => todo'[u] # <<>> /\ Fits(at'[u], Head(todo'[u]).op)
    BY <2>1 DEF Placed, Others, Cmd
  <2>4. \A u \in Tids : at'[u] = "spawn" => Head(todo'[u]) = Cmd(u)
    BY <2>1 DEF Others, Cmd
  <2>5. \A u \in Tids \ {t} : at'[u] = "spawn" <=> at[u] = "spawn"
    BY <2>1 DEF Others
  <2>6. \A u \in Tids : at'[u] = "spawn" => Cmd(u).id \in Workers
    <3> SUFFICES ASSUME NEW u \in Tids, at'[u] = "spawn" PROVE Cmd(u).id \in Workers
      OBVIOUS
    <3>1. todo[u] # <<>> /\ Fits("spawn", Cmd(u).op)
      BY <2>1 DEF Others, Placed
    <3> QED BY <3>1, CurrentCommand DEF Fits
  <2>7. CASE at'[t] = "spawn"
    <3>1. Fresh(Cmd(t).id)
      BY <1>1, <2>7 DEF Create
    <3> QED BY <1>1, <2>2, <2>3, <2>4, <2>5, <2>6, <2>7, <3>1 DEF Placed, Fresh, Cmd
  <2>8. CASE at'[t] # "spawn"
    BY <1>1, <2>2, <2>3, <2>4, <2>5, <2>6, <2>8 DEF Placed, Cmd
  <2> QED BY <2>7, <2>8
<1>2. ASSUME NEW w \in Tids, at[w] = "start", UNCHANGED at,
             \A u \in Tids \ {w} : todo'[u] = todo[u] /\ life'[u] = life[u],
             life'[w] # "live" => todo'[w] = <<>>,
             life'[w] = life[w] \/ life[w] # "unborn"
      PROVE  Placed'
  <2>1. \A u \in Tids : life'[u] # "live" => todo'[u] = <<>>
    BY <1>2 DEF Placed
  <2>2. \A u \in Tids : at'[u] # "start" => todo'[u] # <<>> /\ Fits(at'[u], Head(todo'[u]).op)
    BY <1>2 DEF Placed, Cmd
  <2>3. \A u \in Tids : at'[u] = "spawn" => u # w /\ Head(todo'[u]) = Cmd(u) /\ Cmd(u).id \in Tids
    <3> SUFFICES ASSUME NEW u \in Tids, at'[u] = "spawn"
                 PROVE  u # w /\ Head(todo'[u]) = Cmd(u) /\ Cmd(u).id \in Tids
      OBVIOUS
    <3>1. u # w /\ todo[u] # <<>> /\ Fits("spawn", Cmd(u).op)
      BY <1>2 DEF Placed
    <3>2. Cmd(u).id \in Tids
      BY <3>1, CurrentCommand DEF Fits, Tids
    <3> QED BY <1>2, <3>1, <3>2 DEF Cmd
  <2> QED BY <1>2, <2>1, <2>2, <2>3 DEF Placed, Cmd
<1>3. ASSUME NEW t \in Tids, Step(t) \/ TimeOut(t) PROVE Placed'
  <2>1. CASE Advances(t) /\ (life' = life \/ PoolCreate(t)) /\ (at'[t] = "spawn" => Create(t))
    <3>1. \A u \in Tids : life'[u] # "live" => life[u] # "live"
      BY <2>1 DEF PoolCreate
    <3>2. \A w \in Workers : life[w] = "unborn" => life'[w] = "unborn"
      BY <2>1, ThreadAssumption DEF PoolCreate, Tids
    <3> QED BY <1>1, <2>1, <3>1, <3>2
  <2>2. CASE Spawn(t)
    <3>1. PICK w \in Workers :
           /\ w # t /\ life[w] = "unborn" /\ life' = [life EXCEPT ![w] = "live"]
           /\ Cmd(t).id = w /\ Cmd(t).op = "create"
           /\ todo[w] = <<>> /\ at[w] = "start" /\ todo'[w] = Cmd(t).script
           /\ \A u \in Tids \ {w} : todo'[u] = todo[u]
           /\ \A u \in Tids \ {t} : at'[u] = at[u]
           /\ life[t] = "live" /\ at[t] = "spawn" /\ at'[t] = "handle"
      BY <2>2, SpawnEffect
    <3>2. w \in Tids /\ todo[t] # <<>>
      BY <3>1 DEF Tids, Placed
    <3>3. \A u \in Tids : life'[u] # "live" => todo'[u] = <<>>
      BY <3>1, <3>2 DEF Placed, Shape
    <3>4. \A u \in Tids : at'[u] # "start" => todo'[u] # <<>> /\ Fits(at'[u], Head(todo'[u]).op)
      <4>1. Fits("handle", Cmd(t).op)
        BY <3>1 DEF Fits
      <4> QED BY <3>1, <3>2, <4>1 DEF Placed, Cmd
    <3>5. \A u \in Tids : at'[u] = "spawn" => /\ u \notin {t, w} /\ at[u] = "spawn"
                                              /\ Head(todo'[u]) = Cmd(u) /\ Cmd(u).id # w
      BY <3>1, <3>2 DEF Placed, Cmd
    <3>6. \A v : v # w => life'[v] = life[v]
      BY <3>1 DEF Shape
    <3> QED BY <3>3, <3>4, <3>5, <3>6 DEF Placed, Cmd
  <2>3. CASE PoolNext(t)
    <3>1. /\ t \in PoolWorkers /\ life[t] = "live" /\ todo[t] = <<>> /\ at[t] = "start"
          /\ Others(t) /\ at' = at
          /\ \/ life' = [life EXCEPT ![t] = "gone"] /\ todo' = todo
             \/ life' = life
      BY <2>3, PoolNextEffect
    <3> QED BY <1>2, <3>1 DEF Others, Shape
  <2> QED BY <1>3, <2>1, <2>2, <2>3, StepSummary
<1>4. ASSUME UNCHANGED <<todo, at, life>> PROVE Placed'
  BY <1>4 DEF Placed, Cmd
<1>5. ASSUME NEW w \in Workers, WorkerStep(w) PROVE Placed'
  <2>1. w \in Tids
    BY DEF Tids
  <2>2. CASE ServeJob(w)
    <3>1. /\ life[w] = "live" /\ at[w] = "start" /\ at' = at /\ Others(w) /\ life' = life
      BY <2>2, ServeEffect
    <3> QED BY <1>2, <2>1, <3>1 DEF Others
  <2>3. CASE LeaveLoop(w)
    <3>1. Advances(w) /\ life' = life /\ Return(w)
      BY <2>3, QuietEffect
    <3>2. at'[w] # "spawn"
      BY <2>1, <3>1 DEF Return, Shape
    <3> QED BY <1>1, <2>1, <3>1, <3>2
  <2>4. CASE Deregister(w)
    <3>1. /\ life[w] = "live" /\ todo[w] = <<>> /\ life' = [life EXCEPT ![w] = "leaving"]
          /\ UNCHANGED <<todo, at>>
      BY <2>4, QuietEffect
    <3>2. at[w] = "start" /\ (\A u \in Tids \ {w} : life'[u] = life[u]) /\ life[w] # "unborn"
      BY <2>1, <3>1 DEF Placed, Shape
    <3> QED BY <1>2, <2>1, <3>1, <3>2
  <2>5. CASE Exit(w)
    <3>1. /\ life[w] = "leaving" /\ todo[w] = <<>> /\ life' = [life EXCEPT ![w] = "gone"]
          /\ UNCHANGED <<todo, at>>
      BY <2>5, QuietEffect
    <3>2. at[w] = "start" /\ (\A u \in Tids \ {w} : life'[u] = life[u]) /\ life[w] # "unborn"
      BY <2>1, <3>1 DEF Placed, Shape
    <3> QED BY <1>2, <2>1, <3>1, <3>2
  <2> QED BY <1>5, <2>2, <2>3, <2>4, <2>5 DEF WorkerStep
<1>6. ASSUME NEW t \in Tids, Spurious(t) PROVE Placed'
  BY <1>4, <1>6, QuietEffect
<1>7. CASE UNCHANGED vars
  BY <1>4, <1>7 DEF vars
<1> QED BY <1>3, <1>5, <1>6, <1>7 DEF Next

-----------------------------------------------------------------------------
(* Answers.                                                                *)

\* Only Reply executes the end of a job.
LEMMA OnlyReplies ==
  ASSUME Placed, NEW t \in Tids, Step(t) \/ TimeOut(t)
  PROVE  Reply(t) \/ PoolNext(t) \/ Cmd(t).op # "reply"
<1>1. CASE Signal(t) \/ TimeOut(t)
  <2>1. at[t] # "start"
    BY <1>1 DEF Signal, TimeOut
  <2> QED BY <2>1 DEF Placed, Fits
<1>2. CASE ~Signal(t) /\ ~TimeOut(t)
  BY <1>2 DEF Step, Create, Spawn, StoreHandle, Send, Post, Answered, Release, Tell, Join,
              Lock, Unlock, Until, Recheck, Relock, Set, Notify, ReadLock, WriteLock, RwUnlock,
              PoolCreate, PoolLookup, PoolPost, PoolGet, PoolWait, PoolRelease, PoolShutdown,
              PoolJoin, PoolFinish, Runs, Cmd
<1> QED BY <1>1, <1>2

\* A sender stays backed while his job and its end stay where they are.
LEMMA BackedStays ==
  ASSUME SenderIsBacked, NEW t \in Tids, answer'[t] = "pending" => answer[t] = "pending",
         \A w \in Workers : life[w] # "gone" => life'[w] # "gone",
         \A w \in Workers : \A j \in ToSet(inbox[w]) : j.op = "eval" => j \in ToSet(inbox'[w]),
         \A w \in Workers : \A c \in ToSet(todo[w]) :
           c.op = "reply" /\ c.to = t => answer'[t] # "pending" \/ c \in ToSet(todo'[w])
  PROVE  answer'[t] = "pending" =>
           \E w \in Workers :
             /\ life'[w] # "gone"
             /\ \/ \E j \in ToSet(inbox'[w]) : j.op = "eval" /\ j.reply = t
                \/ \E c \in ToSet(todo'[w]) : c.op = "reply" /\ c.to = t
BY DEF SenderIsBacked

\* A waiting sender keeps its event in the queue, in service or answered.
LEMMA BackedKept ==
  ASSUME Shape, Placed, SenderIsBacked, [Next]_vars
  PROVE  SenderIsBacked'
<1> SUFFICES ASSUME NEW u \in Tids, answer'[u] = "pending"
             PROVE  \E w \in Workers :
                      /\ life'[w] # "gone"
                      /\ \/ \E j \in ToSet(inbox'[w]) : j.op = "eval" /\ j.reply = u
                         \/ \E c \in ToSet(todo'[w]) : c.op = "reply" /\ c.to = u
  BY DEF SenderIsBacked
<1> DEFINE Goal == \E w \in Workers :
                     /\ life'[w] # "gone"
                     /\ \/ \E j \in ToSet(inbox'[w]) : j.op = "eval" /\ j.reply = u
                        \/ \E c \in ToSet(todo'[w]) : c.op = "reply" /\ c.to = u
<1>a. ToSet(<<>>) = {}
  BY DEF ToSet
\* An advance keeps what is not executed.
<1>b. ASSUME NEW t \in Tids, Advances(t), Cmd(t).op # "reply"
      PROVE  \A w \in Workers : \A c \in ToSet(todo[w]) : c.op = "reply" => c \in ToSet(todo'[w])
  <2>1. Others(t) /\ (todo'[t] = todo[t] \/ todo'[t] = Tail(todo[t])) /\ todo[t] # <<>>
    BY <1>b, AdvanceEffect DEF Advances
  <2>2. \A x : x \in ToSet(todo[t]) <=> x = Cmd(t) \/ x \in ToSet(Tail(todo[t]))
    BY <2>1, FirstAndRest DEF Shape, Cmd
  <2>3. ASSUME NEW w \in Workers, NEW c \in ToSet(todo[w]), c.op = "reply" PROVE c \in ToSet(todo'[w])
    <3>1. CASE w = t
      BY <1>b, <2>1, <2>2, <2>3, <3>1
    <3>2. CASE w # t
      BY <2>1, <2>3, <3>2 DEF Others, Tids
    <3> QED BY <3>1, <3>2
  <2> QED BY <2>3
<1>1. ASSUME NEW t \in Tids, Step(t) \/ TimeOut(t) PROVE Goal
  <2>1. CASE Spawn(t)
    <3>1. PICK w \in Workers : /\ life[w] = "unborn" /\ life' = [life EXCEPT ![w] = "live"]
                               /\ todo[w] = <<>> /\ \A v \in Tids \ {w} : todo'[v] = todo[v]
      BY <2>1, SpawnEffect
    <3>2. UNCHANGED <<inbox, answer>>
      BY <2>1 DEF Spawn
    <3>3. \A v \in Workers : /\ life[v] # "gone" => life'[v] # "gone"
                             /\ ToSet(todo[v]) \subseteq ToSet(todo'[v])
      BY <1>a, <3>1 DEF Shape, Tids
    <3> QED BY <3>2, <3>3, BackedStays
  <2>2. CASE PoolNext(t)
    <3>1. /\ t \in PoolWorkers /\ Others(t) /\ UNCHANGED <<inbox, answer>>
          /\ life' = life \/ life' = [life EXCEPT ![t] = "gone"]
      BY <2>2, PoolNextEffect
    <3>2. \A v \in Workers : life'[v] = life[v] /\ todo'[v] = todo[v]
      BY <3>1, ThreadAssumption DEF Others, Tids, Shape
    <3> QED BY <3>1, <3>2, BackedStays
  <2>3. CASE Advances(t) /\ (life' = life \/ PoolCreate(t))
    <3>1. \A w \in Workers : life[w] # "gone" => life'[w] # "gone"
      BY <2>3, ThreadAssumption DEF PoolCreate, Tids
    <3>2. CASE Reply(t)
      <4>1. /\ Cmd(t).op = "reply" /\ todo[t] # <<>> /\ UNCHANGED inbox
            /\ todo' = [todo EXCEPT ![t] = Tail(@)]
            /\ answer' = IF Cmd(t).to = None THEN answer ELSE [answer EXCEPT ![Cmd(t).to] = "value"]
        BY <3>2 DEF Reply, Return, Runs, Cmd
      <4>2. Cmd(t).to \in Tids \cup {None} /\ None \notin Tids
        BY <4>1, CurrentCommand, ThreadAssumption DEF Tids, None
      <4>3. u # Cmd(t).to /\ answer[u] = "pending"
        BY <4>1, <4>2 DEF Shape
      <4>4. \A x : x \in ToSet(todo[t]) <=> x = Cmd(t) \/ x \in ToSet(Tail(todo[t]))
        BY <4>1, FirstAndRest DEF Shape, Cmd
      <4>5. \A w \in Workers : \A c \in ToSet(todo[w]) : c.op = "reply" /\ c.to = u => c \in ToSet(todo'[w])
        BY <4>1, <4>3, <4>4 DEF Shape, Tids
      <4> QED BY <3>1, <4>1, <4>3, <4>5, BackedStays
    <3>3. CASE Post(t) \/ Tell(t)
      <4>1. Cmd(t).op # "reply"
        BY <3>3 DEF Post, Tell, Runs, Cmd
      <4>2. \A w \in Workers : \A c \in ToSet(todo[w]) : c.op = "reply" => c \in ToSet(todo'[w])
        BY <1>b, <2>3, <4>1
      <4>3. /\ \A w \in Workers : \A j \in ToSet(inbox[w]) : j \in ToSet(inbox'[w])
            /\ Cmd(t).id \in Workers
            /\ \/ Tell(t)
               \/ answer' = answer
               \/ answer' = [answer EXCEPT ![t] = "none"]
               \/ /\ answer' = [answer EXCEPT ![t] = "pending"] /\ life[Cmd(t).id] # "gone"
                  /\ \E j \in ToSet(inbox'[Cmd(t).id]) : j.op = "eval" /\ j.reply = t
        BY <3>3, SendEffect
      <4>4. CASE answer[u] = "pending"
        BY <3>1, <4>2, <4>3, <4>4, BackedStays
      <4>5. CASE answer[u] # "pending"
        <5>1. ~Tell(t)
          BY <4>5 DEF Tell
        <5>2. u = t /\ life[Cmd(u).id] # "gone"
              /\ \E j \in ToSet(inbox'[Cmd(u).id]) : j.op = "eval" /\ j.reply = u
          BY <4>3, <4>5, <5>1 DEF Shape
        <5> QED BY <3>1, <4>3, <5>2
      <4> QED BY <4>4, <4>5
    <3>4. CASE Answered(t)
      <4>1. Cmd(t).op # "reply" /\ UNCHANGED inbox /\ answer' = [answer EXCEPT ![t] = "none"]
        BY <3>4 DEF Answered, Runs, Cmd
      <4>2. answer[u] = "pending"
        BY <4>1 DEF Shape
      <4>3. \A w \in Workers : \A c \in ToSet(todo[w]) : c.op = "reply" => c \in ToSet(todo'[w])
        BY <1>b, <2>3, <4>1
      <4> QED BY <3>1, <4>1, <4>2, <4>3, BackedStays
    <3>5. CASE UNCHANGED <<inbox, answer>> /\ ~Reply(t) /\ ~PoolNext(t)
      <4>1. \A w \in Workers : \A c \in ToSet(todo[w]) : c.op = "reply" => c \in ToSet(todo'[w])
        BY <1>1, <1>b, <2>3, <3>5, OnlyReplies
      <4> QED BY <3>1, <3>5, <4>1, BackedStays
    <3>6. CASE PoolNext(t)
      BY <2>2, <3>6
    <3> QED BY <1>1, <3>2, <3>3, <3>4, <3>5, <3>6, StepFrame
  <2> QED BY <1>1, <2>1, <2>2, <2>3, StepSummary
<1>2. ASSUME UNCHANGED <<todo, life, inbox, answer>> PROVE Goal
  BY <1>2 DEF SenderIsBacked
<1>3. ASSUME NEW w \in Workers, WorkerStep(w) PROVE Goal
  <2>1. w \in Tids
    BY DEF Tids
  <2>2. CASE ServeJob(w)
    <3>1. /\ life[w] = "live" /\ todo' \in [Tids -> Seq(Tasks)] /\ Others(w)
          /\ \A v \in Workers \ {w} : inbox'[v] = inbox[v]
          /\ UNCHANGED <<life, answer>>
      BY <2>2, ServeEffect
    <3>2. PICK j \in Messages :
            /\ j.op = "eval" /\ j.script \in Scripts
            /\ todo'[w] = j.script \o <<[op |-> "reply", to |-> j.reply]>> \o todo[w]
            /\ [op |-> "reply", to |-> j.reply] \in Tasks
            /\ \A i : i \in ToSet(inbox[w]) => i = j \/ i \in ToSet(inbox'[w])
      BY <2>2, ServeEffect
    <3> DEFINE e == [op |-> "reply", to |-> j.reply]
               r == <<e>>
               h == j.script \o r
    <3>3. e \in Tasks /\ e.op = "reply" /\ e.to = j.reply
      BY <3>2
    <3> HIDE DEF e
    <3>4. r \in Seq(Tasks) /\ e \in ToSet(r)
      BY <3>3, Single
    <3> HIDE DEF r
    <3>5. h \in Seq(Tasks) /\ e \in ToSet(h)
      BY <3>2, <3>4, ScriptsAreTasks, Joined
    <3> HIDE DEF h
    <3>6. todo'[w] = h \o todo[w]
      BY <3>2 DEF h, r, e
    <3>7. e \in ToSet(todo'[w]) /\ \A c \in ToSet(todo[w]) : c \in ToSet(todo'[w])
      BY <2>1, <3>5, <3>6, Joined DEF Shape
    <3>8. PICK v \in Workers :
            /\ life[v] # "gone"
            /\ \/ \E i \in ToSet(inbox[v]) : i.op = "eval" /\ i.reply = u
               \/ \E c \in ToSet(todo[v]) : c.op = "reply" /\ c.to = u
      BY <3>1 DEF SenderIsBacked
    <3>9. CASE v = w
      BY <3>1, <3>2, <3>3, <3>7, <3>8, <3>9
    <3>10. CASE v # w
      BY <3>1, <3>8, <3>10 DEF Others, Tids
    <3> QED BY <3>9, <3>10
  <2>3. CASE LeaveLoop(w)
    <3>1. /\ Advances(w) /\ Cmd(w).op = "wait" /\ UNCHANGED <<life, answer>>
          /\ \A v \in Workers : \A j \in ToSet(inbox[v]) : j.op = "eval" => j \in ToSet(inbox'[v])
      BY <2>3, QuietEffect
    <3>2. \A v \in Workers : \A c \in ToSet(todo[v]) : c.op = "reply" => c \in ToSet(todo'[v])
      BY <1>b, <2>1, <3>1
    <3> QED BY <3>1, <3>2, BackedStays
  <2>4. CASE Deregister(w)
    <3>1. life' = [life EXCEPT ![w] = "leaving"] /\ UNCHANGED <<todo, inbox, answer>>
      BY <2>4, QuietEffect
    <3>2. \A v \in Workers : life[v] # "gone" => life'[v] # "gone"
      BY <2>1, <3>1 DEF Shape
    <3> QED BY <3>1, <3>2, BackedStays
  <2>5. CASE Exit(w)
    <3>1. /\ todo[w] = <<>> /\ life' = [life EXCEPT ![w] = "gone"]
          /\ inbox' = [inbox EXCEPT ![w] = <<>>] /\ UNCHANGED todo
      BY <2>5, QuietEffect
    <3>2. /\ ~\E j \in ToSet(inbox[w]) : j.op = "eval" /\ j.reply = u
          /\ answer[u] = "pending"
      BY <2>5 DEF Exit
    <3>3. PICK v \in Workers :
            /\ life[v] # "gone"
            /\ \/ \E i \in ToSet(inbox[v]) : i.op = "eval" /\ i.reply = u
               \/ \E c \in ToSet(todo[v]) : c.op = "reply" /\ c.to = u
      BY <3>2 DEF SenderIsBacked
    <3>4. v # w
      BY <1>a, <3>1, <3>2, <3>3
    <3> QED BY <3>1, <3>3, <3>4 DEF Shape, Tids
  <2> QED BY <1>3, <2>2, <2>3, <2>4, <2>5 DEF WorkerStep
<1>4. ASSUME NEW t \in Tids, Spurious(t) PROVE Goal
  BY <1>2, <1>4, QuietEffect
<1>5. CASE UNCHANGED vars
  BY <1>2, <1>5 DEF vars
<1> QED BY <1>1, <1>3, <1>4, <1>5 DEF Next

-----------------------------------------------------------------------------
(* Scripts in step with their locks.                                       *)

\* What a thread has ahead depends on its own script only.
LEMMA AheadStays ==
  ASSUME NEW u \in Tids, todo'[u] = todo[u], at'[u] = at[u]
  PROVE  Ahead(u)' = Ahead(u)
BY DEF Ahead, Cmd

\* The command a step belongs to.
LEMMA StepOfCommand ==
  ASSUME Shape, Placed, NEW t \in Tids, Step(t) \/ TimeOut(t), Advances(t)
  PROVE  /\ at[t] = "signal" => Signal(t) /\ (Cmd(t).op \in {"unlock", "rwunlock"} => Return(t))
         /\ Cmd(t).op = "lock" => Lock(t)
         /\ Cmd(t).op = "unlock" => Unlock(t) \/ Signal(t)
         /\ Cmd(t).op = "until" => Until(t) \/ Recheck(t) \/ Relock(t) \/ TimeOut(t)
         /\ Cmd(t).op = "rlock" => ReadLock(t)
         /\ Cmd(t).op = "wlock" => WriteLock(t)
         /\ Cmd(t).op = "rwunlock" => RwUnlock(t) \/ Signal(t)
<1>1. CASE TimeOut(t)
  <2>1. at[t] = "waited" /\ Fits(at[t], Cmd(t).op)
    BY <1>1 DEF TimeOut, Placed
  <2> QED BY <1>1, <2>1 DEF Fits
<1>2. CASE Signal(t)
  <2>1. at[t] = "signal" /\ Fits(at[t], Cmd(t).op)
    BY <1>2 DEF Signal, Placed
  <2>2. Cmd(t).op \in Signalling
    BY <2>1 DEF Fits
  <2> QED BY <1>2, <2>2 DEF Signal, Signalling
<1>3. CASE Spawn(t) \/ PoolNext(t)
  BY <1>3 DEF Spawn, PoolNext, Runs, Cmd, Advances
<1>4. CASE Lock(t) \/ Unlock(t) \/ Until(t) \/ Recheck(t) \/ Relock(t)
  BY <1>4 DEF Lock, Unlock, Until, Recheck, Relock, Runs, Cmd
<1>5. CASE ReadLock(t) \/ WriteLock(t) \/ RwUnlock(t) \/ Set(t) \/ Notify(t)
  BY <1>5 DEF ReadLock, WriteLock, RwUnlock, Set, Notify, Runs, Cmd
<1>6. CASE ~(TimeOut(t) \/ Signal(t) \/ Spawn(t) \/ PoolNext(t)
             \/ Lock(t) \/ Unlock(t) \/ Until(t) \/ Recheck(t) \/ Relock(t)
             \/ ReadLock(t) \/ WriteLock(t) \/ RwUnlock(t) \/ Set(t) \/ Notify(t))
  BY <1>6
  DEF Step, Create, StoreHandle, Send, Post, Answered, Reply, Release, Tell, Join, PoolCreate,
      PoolLookup, PoolPost, PoolGet, PoolWait, PoolRelease, PoolShutdown, PoolJoin, PoolFinish, Runs, Cmd
<1> QED BY <1>1, <1>2, <1>3, <1>4, <1>5, <1>6

\* An advance leaves what is ahead as it was or takes the command off it.
LEMMA AheadMoves ==
  ASSUME Shape, Placed, NEW t \in Tids, Advances(t),
         at[t] = "signal" /\ Cmd(t).op \in {"unlock", "rwunlock"} => Return(t)
  PROVE  /\ Ahead(t)' = Ahead(t) \/ (Ahead(t) = todo[t] /\ Ahead(t)' = Tail(todo[t]))
         /\ todo[t] # <<>> /\ todo[t] \in Seq(Tasks)
<1>1. todo[t] # <<>> /\ todo[t] \in Seq(Tasks) /\ todo \in [Tids -> Seq(Tasks)] /\ at \in [Tids -> Sites]
  BY DEF Advances, Shape
<1>2. CASE Return(t)
  <2>1. todo'[t] = Tail(todo[t]) /\ at'[t] = "start"
    BY <1>1, <1>2 DEF Return
  <2> QED BY <1>1, <2>1 DEF Ahead
<1>3. CASE ~Return(t)
  <2>1. todo' = todo /\ Cmd(t)' = Cmd(t)
    BY <1>3 DEF Advances, Cmd
  <2> QED BY <1>1, <1>3, <2>1 DEF Ahead
<1> QED BY <1>2, <1>3

\* A command that is no business of a lock goes on with what is held.
LEMMA NeutralAdvance ==
  ASSUME Shape, Placed, NEW t \in Tids, Advances(t),
         at[t] = "signal" /\ Cmd(t).op \in {"unlock", "rwunlock"} => Return(t),
         NEW rule, NEW hold, Brackets(Ahead(t), rule, hold),
         Ahead(t)' = Ahead(t) \/ \A h, g : <<h, Cmd(t).op, g>> \in rule => g = h
  PROVE  Brackets(Ahead(t)', rule, hold)
<1>1. CASE Ahead(t)' = Ahead(t)
  BY <1>1
<1>2. CASE Ahead(t)' # Ahead(t)
  <2>1. Ahead(t) = todo[t] /\ Ahead(t)' = Tail(todo[t]) /\ todo[t] # <<>> /\ todo[t] \in Seq(Tasks)
    BY <1>2, AheadMoves
  <2>2. PICK g : <<hold, Head(todo[t]).op, g>> \in rule /\ Brackets(Tail(todo[t]), rule, g)
    BY <2>1, BracketsFirst
  <2>3. g = hold
    BY <1>2, <2>2 DEF Cmd
  <2> QED BY <2>1, <2>2, <2>3
<1> QED BY <1>1, <1>2

\* Births, jobs and ends keep every script in step with what its thread holds.
LEMMA JobsInStep ==
  ASSUME Shape, Placed, NEW rule, Fair(rule), \A s \in Scripts : Brackets(s, rule, 0),
         NEW held, \A u \in Tids : Brackets(Ahead(u), rule, held[u]),
         \/ \E t \in Tids : Spawn(t) \/ PoolNext(t) \/ Spurious(t)
         \/ \E w \in Workers : WorkerStep(w)
         \/ UNCHANGED vars
  PROVE  /\ \A u \in Tids : Brackets(Ahead(u)', rule, held[u])
         /\ \A u \in Tids : at'[u] = at[u] \/ (at[u] = "spawn" /\ at'[u] = "handle")
         /\ UNCHANGED <<recursive, mutex, rw, inside>>
\* Nobody without a script holds anything.
<1>a. ASSUME NEW u \in Tids, todo[u] = <<>>, at[u] = "start" PROVE held[u] = 0
  <2>1. Ahead(u) = <<>>
    BY <1>a DEF Ahead
  <2>2. Brackets(<<>>, rule, held[u])
    BY <2>1
  <2> QED BY <2>2, BracketsEnds
\* It is enough to look at the thread that acts.
<1>b. ASSUME NEW t \in Tids, Others(t), Brackets(Ahead(t)', rule, held[t])
      PROVE  \A u \in Tids : Brackets(Ahead(u)', rule, held[u])
  <2>1. ASSUME NEW u \in Tids, u # t PROVE Brackets(Ahead(u)', rule, held[u])
    <3>1. Ahead(u)' = Ahead(u)
      BY <1>b, <2>1, AheadStays DEF Others
    <3> QED BY <3>1
  <2> QED BY <1>b, <2>1
<1>c. ASSUME UNCHANGED <<todo, at>> PROVE \A u \in Tids : Brackets(Ahead(u)', rule, held[u])
  <2>1. \A u \in Tids : Ahead(u)' = Ahead(u)
    BY <1>c, AheadStays
  <2> QED BY <2>1
<1>1. ASSUME NEW t \in Tids, Spawn(t)
      PROVE  /\ \A u \in Tids : Brackets(Ahead(u)', rule, held[u])
             /\ \A u \in Tids : at'[u] = at[u] \/ (at[u] = "spawn" /\ at'[u] = "handle")
             /\ UNCHANGED <<recursive, mutex, rw, inside>>
  <2>1. PICK w \in Workers :
          /\ w # t /\ Cmd(t).id = w /\ Cmd(t).op = "create"
          /\ todo[w] = <<>> /\ at[w] = "start" /\ todo'[w] = Cmd(t).script
          /\ (\A u \in Tids \ {w} : todo'[u] = todo[u])
          /\ (\A u \in Tids \ {t} : at'[u] = at[u])
          /\ at[t] = "spawn" /\ at'[t] = "handle"
    BY <1>1, SpawnEffect
  <2>2. w \in Tids /\ held[w] = 0
    BY <1>a, <2>1 DEF Tids
  <2>3. todo[t] # <<>>
    BY <2>1 DEF Placed
  <2>4. Brackets(Cmd(t).script, rule, 0)
    BY <2>1, <2>3, CurrentCommand
  <2>5. ASSUME NEW u \in Tids PROVE Brackets(Ahead(u)', rule, held[u])
    <3>1. CASE u = w
      <4>1. Ahead(u)' = Cmd(t).script
        BY <2>1, <2>2, <3>1 DEF Ahead
      <4> QED BY <2>2, <2>4, <3>1, <4>1
    <3>2. CASE u # w
      <4>1. Ahead(u)' = Ahead(u)
        BY <2>1, <3>2 DEF Ahead, Cmd
      <4> QED BY <4>1
    <3> QED BY <3>1, <3>2
  <2>6. UNCHANGED <<recursive, mutex, rw, inside>>
    BY <1>1 DEF Spawn, lockVars
  <2> QED BY <2>1, <2>5, <2>6
<1>2. ASSUME NEW t \in Tids, PoolNext(t)
      PROVE  /\ \A u \in Tids : Brackets(Ahead(u)', rule, held[u])
             /\ UNCHANGED <<at, recursive, mutex, rw, inside>>
  <2>1. /\ todo[t] = <<>> /\ at[t] = "start" /\ Others(t) /\ at' = at
        /\ UNCHANGED <<recursive, mutex, rw, inside>>
        /\ \/ todo' = todo
           \/ \E j \in Posted : todo'[t] = j.script \o <<[op |-> "finish", job |-> j.job]>>
    BY <1>2, PoolNextEffect
  <2>2. CASE todo' = todo
    BY <1>c, <2>1, <2>2
  <2>3. CASE todo' # todo
    <3>1. PICK j \in Posted : todo'[t] = j.script \o <<[op |-> "finish", job |-> j.job]>>
      BY <2>1, <2>3
    <3> DEFINE e == [op |-> "finish", job |-> j.job]
               r == <<e>>
    <3>2. j.script \in Scripts /\ e \in Tasks /\ e.op = "finish"
      BY DEF Posted, Tasks
    <3> HIDE DEF e
    <3>3. r \in Seq(Tasks) /\ Brackets(r, rule, 0)
      BY <3>2, Single, BracketsEnds
    <3> HIDE DEF r
    <3>4. j.script \in Seq(Tasks) /\ Brackets(j.script, rule, 0)
      BY <3>2, ScriptsAreTasks
    <3>5. Brackets(j.script \o r, rule, 0)
      BY <3>3, <3>4, BracketsJoined
    <3>6. Ahead(t)' = j.script \o r
      BY <2>1, <3>1 DEF Ahead, r, e
    <3>7. Brackets(Ahead(t)', rule, held[t])
      BY <1>a, <2>1, <3>5, <3>6
    <3> QED BY <1>b, <2>1, <3>7
  <2> QED BY <2>2, <2>3
<1>3. ASSUME NEW w \in Workers, WorkerStep(w)
      PROVE  /\ \A u \in Tids : Brackets(Ahead(u)', rule, held[u])
             /\ \A u \in Tids : at'[u] = at[u]
             /\ UNCHANGED <<recursive, mutex, rw, inside>>
  <2>1. w \in Tids
    BY DEF Tids
  <2>2. CASE ServeJob(w)
    <3>1. /\ at[w] = "start" /\ todo[w] # <<>> /\ Cmd(w).op = "wait"
          /\ at' = at /\ Others(w) /\ UNCHANGED <<recursive, mutex, rw, inside>>
      BY <2>2, ServeEffect
    <3>2. PICK j \in Messages :
            /\ j.script \in Scripts
            /\ todo'[w] = j.script \o <<[op |-> "reply", to |-> j.reply]>> \o todo[w]
            /\ [op |-> "reply", to |-> j.reply] \in Tasks
      BY <2>2, ServeEffect
    <3> DEFINE e == [op |-> "reply", to |-> j.reply]
               r == <<e>>
               h == j.script \o r
    <3>3. e \in Tasks /\ e.op = "reply"
      BY <3>2
    <3> HIDE DEF e
    <3>4. r \in Seq(Tasks) /\ Brackets(r, rule, 0)
      BY <3>3, Single, BracketsEnds
    <3> HIDE DEF r
    <3>5. j.script \in Seq(Tasks) /\ Brackets(j.script, rule, 0)
      BY <3>2, ScriptsAreTasks
    <3>6. h \in Seq(Tasks) /\ Brackets(h, rule, 0)
      BY <3>4, <3>5, Joined, BracketsJoined
    <3> HIDE DEF h
    <3>7. Ahead(w) = todo[w] /\ todo[w] \in Seq(Tasks) /\ Ahead(w)' = h \o todo[w]
      BY <2>1, <3>1, <3>2 DEF Ahead, Shape, h, r, e
    <3>8. held[w] = 0
      <4>1. \E g : <<held[w], Head(todo[w]).op, g>> \in rule /\ Brackets(Tail(todo[w]), rule, g)
        BY <2>1, <3>1, <3>7, BracketsFirst
      <4> QED BY <3>1, <4>1 DEF Fair, Cmd
    <3>9. Brackets(h \o todo[w], rule, 0)
      <4>1. Brackets(todo[w], rule, 0)
        BY <2>1, <3>7, <3>8
      <4> QED BY <3>6, <3>7, <4>1, BracketsJoined
    <3>10. Brackets(Ahead(w)', rule, held[w])
      BY <3>7, <3>8, <3>9
    <3> QED BY <1>b, <2>1, <3>1, <3>10
  <2>3. CASE LeaveLoop(w)
    <3>1. Advances(w) /\ Return(w) /\ Cmd(w).op = "wait" /\ at[w] = "start"
          /\ UNCHANGED <<recursive, mutex, rw, inside>>
      BY <2>3, QuietEffect
    <3>2. Others(w) /\ at'[w] = "start"
      BY <2>1, <3>1, AdvanceEffect DEF Return, Shape
    <3>3. \A h, g : <<h, Cmd(w).op, g>> \in rule => g = h
      BY <3>1 DEF Fair
    <3>4. Brackets(Ahead(w)', rule, held[w])
      BY <2>1, <3>1, <3>3, NeutralAdvance
    <3> QED BY <1>b, <2>1, <3>1, <3>2, <3>4 DEF Others
  <2>4. CASE Deregister(w) \/ Exit(w)
    BY <1>c, <2>4, QuietEffect
  <2> QED BY <1>3, <2>2, <2>3, <2>4 DEF WorkerStep
<1>4. ASSUME NEW t \in Tids, Spurious(t) PROVE UNCHANGED <<todo, at, recursive, mutex, rw, inside>>
  BY <1>4, QuietEffect
<1>5. CASE UNCHANGED vars
  BY <1>5, <1>c DEF vars
<1> QED BY <1>c, <1>1, <1>2, <1>3, <1>4, <1>5

-----------------------------------------------------------------------------
(* The readers-writer lock.                                                *)

\* What taking the lock does.
LEMMA LockTaken ==
  ASSUME Shape, Bracketed, NEW t \in Tids, ReadLock(t) \/ WriteLock(t), ~UNCHANGED <<rw, inside>>
  PROVE  Brackets(Ahead(t)', RwRule, Hold(t)') /\ Counted' /\ \A u \in Tids \ {t} : Hold(u)' = Hold(u)
<1>1. /\ at[t] = "start" /\ todo[t] # <<>> /\ todo[t] \in Seq(Tasks)
      /\ Cmd(t).op = IF ReadLock(t) THEN "rlock" ELSE "wlock"
      /\ Return(t) /\ ~rw.writer /\ (WriteLock(t) => ~(rw.readers > 0))
  BY DEF ReadLock, WriteLock, Runs, Cmd, Shape
<1>2. Ahead(t) = todo[t] /\ Ahead(t)' = Tail(todo[t])
  BY <1>1 DEF Ahead, Return, Shape
<1>3. PICK g : <<Hold(t), Cmd(t).op, g>> \in RwRule /\ Brackets(Tail(todo[t]), RwRule, g)
  BY <1>1, <1>2, BracketsFirst DEF Bracketed, Covered, Cmd
<1>4. Hold(t) = 0 /\ g = IF ReadLock(t) THEN 1 ELSE 2
  BY <1>1, <1>3, RwSteps
<1>5. /\ inside.writer = {} /\ t \notin inside.reader
      /\ IsFiniteSet(inside.reader) /\ rw.readers = Cardinality(inside.reader)
  BY <1>1, <1>4 DEF Bracketed, Counted, Hold
<1>6. CASE ReadLock(t)
  <2>1. rw' = [rw EXCEPT !.readers = @ + 1] /\ inside' = [inside EXCEPT !.reader = @ \cup {t}]
    BY <1>1, <1>6 DEF ReadLock
  <2>2. rw'.readers = rw.readers + 1 /\ rw'.writer = rw.writer
        /\ inside'.reader = inside.reader \cup {t} /\ inside'.writer = {}
    BY <1>5, <2>1 DEF Shape
  <2>3. IsFiniteSet(inside.reader \cup {t}) /\ Cardinality(inside.reader \cup {t}) = Cardinality(inside.reader) + 1
    BY <1>5, FS_AddElement
  <2>4. Counted'
    BY <1>1, <1>5, <2>2, <2>3 DEF Counted
  <2>5. Hold(t)' = 1
    BY <2>2 DEF Hold
  <2>6. \A u \in Tids \ {t} : Hold(u)' = Hold(u)
    BY <1>5, <2>2 DEF Hold
  <2> QED BY <1>2, <1>3, <1>4, <1>6, <2>4, <2>5, <2>6
<1>7. CASE WriteLock(t) /\ ~ReadLock(t)
  <2>1. rw' = [rw EXCEPT !.writer = TRUE] /\ inside' = [inside EXCEPT !.writer = @ \cup {t}]
    BY <1>1, <1>7 DEF WriteLock
  <2>2. rw'.readers = rw.readers /\ rw'.writer
        /\ inside'.reader = inside.reader /\ inside'.writer = {t}
    BY <1>5, <2>1 DEF Shape
  <2>3. rw.readers = 0
    BY <1>1, <1>7 DEF Shape
  <2>4. inside.reader = {}
    BY <1>5, <2>3, FS_EmptySet
  <2>5. Counted'
    BY <1>5, <2>2, <2>4 DEF Counted
  <2>6. Hold(t)' = 2
    BY <2>2 DEF Hold
  <2>7. \A u \in Tids \ {t} : Hold(u)' = Hold(u)
    BY <1>5, <2>2 DEF Hold
  <2> QED BY <1>2, <1>3, <1>4, <1>7, <2>5, <2>6, <2>7
<1> QED BY <1>6, <1>7

\* What unlocking does: the caller is a writer or a reader, whatever the code
\* does not check.
LEMMA LockFreed ==
  ASSUME Shape, Bracketed, NEW t \in Tids, RwUnlock(t)
  PROVE  Brackets(Ahead(t)', RwRule, Hold(t)') /\ Counted' /\ \A u \in Tids \ {t} : Hold(u)' = Hold(u)
<1>1. /\ at[t] = "start" /\ todo[t] # <<>> /\ todo[t] \in Seq(Tasks) /\ Cmd(t).op = "rwunlock"
      /\ todo' = todo /\ at' = [at EXCEPT ![t] = "signal"]
      /\ inside' = [inside EXCEPT !.reader = @ \ {t}, !.writer = @ \ {t}]
      /\ rw' = IF rw.writer THEN [rw EXCEPT !.writer = FALSE]
               ELSE [rw EXCEPT !.readers = IF @ > 0 THEN @ - 1 ELSE 0]
  BY DEF RwUnlock, Runs, Cmd, Goto, Shape
<1>2. Ahead(t) = todo[t] /\ Ahead(t)' = Tail(todo[t])
  BY <1>1 DEF Ahead, Shape, Cmd
<1>3. PICK g : <<Hold(t), Cmd(t).op, g>> \in RwRule /\ Brackets(Tail(todo[t]), RwRule, g)
  BY <1>1, <1>2, BracketsFirst DEF Bracketed, Covered, Cmd
<1>4. g = 0 /\ Hold(t) # 0
  BY <1>1, <1>3, RwSteps
<1>5. inside'.reader = inside.reader \ {t} /\ inside'.writer = inside.writer \ {t}
  BY <1>1 DEF Shape
<1>6. Hold(t)' = 0 /\ \A u \in Tids \ {t} : Hold(u)' = Hold(u)
  BY <1>5 DEF Hold
<1>7. Counted'
  <2>1. CASE rw.writer
    <3>1. inside.reader = {} /\ inside.writer = {t}
      BY <1>4, <2>1 DEF Bracketed, Counted, Hold
    <3>2. inside'.reader = inside.reader /\ inside'.writer = {} /\ ~rw'.writer /\ rw'.readers = rw.readers
      BY <1>1, <1>5, <2>1, <3>1 DEF Shape
    <3> QED BY <3>2 DEF Bracketed, Counted
  <2>2. CASE ~rw.writer
    <3>1. /\ inside.writer = {} /\ t \in inside.reader
          /\ IsFiniteSet(inside.reader) /\ rw.readers = Cardinality(inside.reader)
      BY <1>4, <2>2 DEF Bracketed, Counted, Hold
    <3>2. /\ IsFiniteSet(inside.reader \ {t})
          /\ Cardinality(inside.reader \ {t}) = Cardinality(inside.reader) - 1
      BY <3>1, FS_RemoveElement
    <3>3. Cardinality(inside.reader \ {t}) \in Nat
      BY <3>2, FS_CardinalityType
    <3>4. rw.readers > 0 /\ rw.readers \in Nat
      BY <3>1, <3>2, <3>3 DEF Shape
    <3>5. ~rw'.writer /\ rw'.readers = rw.readers - 1
      BY <1>1, <2>2, <3>4 DEF Shape
    <3> QED BY <1>5, <3>1, <3>2, <3>5 DEF Counted
  <2> QED BY <2>1, <2>2
<1> QED BY <1>2, <1>3, <1>4, <1>6, <1>7

\* Every script stays in step with the lock, and the lock with its holders.
LEMMA BracketedKept ==
  ASSUME \A s \in Scripts : Brackets(s, RwRule, 0), Shape, Placed, Bracketed, [Next]_vars
  PROVE  Bracketed'
<1>a. \A u \in Tids : Brackets(Ahead(u), RwRule, Hold(u))
  BY DEF Bracketed, Covered
<1>b. ASSUME UNCHANGED <<rw, inside.reader, inside.writer>>
      PROVE  Counted' /\ \A u \in Tids : Hold(u)' = Hold(u)
  BY <1>b DEF Bracketed, Counted, Hold
\* It is enough to look at the thread that acts.
<1>c. ASSUME NEW t \in Tids, Others(t), Counted', Brackets(Ahead(t)', RwRule, Hold(t)'),
             \A u \in Tids \ {t} : Hold(u)' = Hold(u)
      PROVE  Bracketed'
  <2>1. ASSUME NEW u \in Tids PROVE Brackets(Ahead(u)', RwRule, Hold(u)')
    <3>1. CASE u = t
      BY <1>c, <3>1
    <3>2. CASE u # t
      <4>1. Ahead(u)' = Ahead(u) /\ Hold(u)' = Hold(u)
        BY <1>c, <3>2, AheadStays DEF Others
      <4> QED BY <1>a, <4>1
    <3> QED BY <3>1, <3>2
  <2> QED BY <1>c, <2>1 DEF Bracketed, Covered
<1>1. ASSUME \/ \E t \in Tids : Spawn(t) \/ PoolNext(t) \/ Spurious(t)
             \/ \E w \in Workers : WorkerStep(w)
             \/ UNCHANGED vars
      PROVE  Bracketed'
  <2> DEFINE held == [u \in Tids |-> Hold(u)]
  <2>1. \A u \in Tids : Brackets(Ahead(u), RwRule, held[u])
    BY <1>a
  <2>2. Fair(RwRule)
    BY RwSteps
  <2> HIDE DEF held
  <2>3. (\A u \in Tids : Brackets(Ahead(u)', RwRule, held[u])) /\ UNCHANGED <<rw, inside>>
    BY <1>1, <2>1, <2>2, JobsInStep
  <2>4. Counted' /\ \A u \in Tids : Hold(u)' = Hold(u)
    BY <1>b, <2>3
  <2>5. \A u \in Tids : Brackets(Ahead(u)', RwRule, Hold(u)')
    BY <2>3, <2>4 DEF held
  <2> QED BY <2>4, <2>5 DEF Bracketed, Covered
<1>2. ASSUME NEW t \in Tids, Step(t) \/ TimeOut(t), Advances(t) PROVE Bracketed'
  <2>1. Others(t)
    BY <1>2, AdvanceEffect
  <2>2. CASE ReadLock(t) \/ WriteLock(t)
    <3>1. CASE UNCHANGED <<rw, inside>>
      <4>1. rw.readers + 1 # rw.readers
        BY DEF Shape
      <4>2. UNCHANGED <<todo, at>>
        BY <2>2, <3>1, <4>1 DEF ReadLock, WriteLock, Shape
      <4>3. Ahead(t)' = Ahead(t)
        BY <4>2, AheadStays
      <4>4. Counted' /\ \A u \in Tids : Hold(u)' = Hold(u)
        BY <1>b, <3>1
      <4> QED BY <1>a, <1>c, <2>1, <4>3, <4>4
    <3>2. CASE ~UNCHANGED <<rw, inside>>
      BY <1>c, <2>1, <2>2, <3>2, LockTaken
    <3> QED BY <3>1, <3>2
  <2>3. CASE RwUnlock(t)
    BY <1>c, <2>1, <2>3, LockFreed
  <2>4. CASE ~(ReadLock(t) \/ WriteLock(t) \/ RwUnlock(t))
    <3>1. Counted' /\ \A u \in Tids : Hold(u)' = Hold(u)
      BY <1>2, <1>b, <2>4, StepFrame
    <3>2. /\ at[t] = "signal" /\ Cmd(t).op \in {"unlock", "rwunlock"} => Return(t)
          /\ Cmd(t).op \notin {"rlock", "wlock"} /\ (Cmd(t).op = "rwunlock" => at[t] = "signal")
      BY <1>2, <2>4, StepOfCommand DEF Signal
    <3>3. Ahead(t)' = Ahead(t) \/ \A h, g : <<h, Cmd(t).op, g>> \in RwRule => g = h
      <4>1. CASE Cmd(t).op = "rwunlock"
        <5>1. Ahead(t) = Tail(todo[t]) /\ Ahead(t)' = Tail(todo[t])
          BY <3>2, <4>1 DEF Return, Ahead, Shape
        <5> QED BY <5>1
      <4>2. CASE Cmd(t).op # "rwunlock"
        BY <3>2, <4>2, RwSteps
      <4> QED BY <4>1, <4>2
    <3>4. Brackets(Ahead(t)', RwRule, Hold(t))
      BY <1>2, <1>a, <3>2, <3>3, NeutralAdvance
    <3> QED BY <1>c, <2>1, <3>1, <3>4
  <2> QED BY <2>2, <2>3, <2>4
<1> QED BY <1>1, <1>2, StepSummary DEF Next

-----------------------------------------------------------------------------
(* The mutex.                                                              *)

\* Taking the mutex: once more for the caller, and nobody else is in.
LEMMA MutexTaken ==
  ASSUME Shape, Alone, NEW t \in Tids, Take(t), CanLock(t), UNCHANGED recursive
  PROVE  /\ Owns(t) \in Nat /\ Owns(t)' = Owns(t) + 1 /\ Alone'
         /\ \A u \in Tids \ {t} : Owns(u)' = Owns(u)
<1>a. /\ mutex \in [owner : Tids \cup {None}, count : Nat] /\ recursive \in BOOLEAN
      /\ inside \in [mutex : SUBSET Tids, reader : SUBSET Tids, writer : SUBSET Tids]
  BY DEF Shape
<1>1. mutex' = Locked(t) /\ inside'.mutex = inside.mutex \cup {t}
  BY <1>a DEF Take
<1>2. mutex'.owner = t /\ mutex'.count = IF mutex.count = 0 THEN 1 ELSE mutex.count + 1
  BY <1>1 DEF Locked
<1>3. mutex.count = 0 \/ (recursive /\ mutex.owner = t)
  BY DEF CanLock
<1>4. Owns(t) \in Nat /\ Owns(t)' = Owns(t) + 1
  BY <1>a, <1>2, <1>3 DEF Owns
<1>5. \A u \in Tids \ {t} : Owns(u)' = Owns(u)
  BY <1>2, <1>3 DEF Owns
<1>6. Alone'
  <2>1. inside'.mutex = {t} /\ mutex'.count # 0
    BY <1>a, <1>1, <1>2, <1>3 DEF Alone
  <2>2. ~recursive => mutex'.count <= 1
    BY <1>2, <1>3
  <2> QED BY <1>2, <2>1, <2>2 DEF Alone
<1> QED BY <1>4, <1>5, <1>6

\* Freeing it, by the thread that has locked it: once less for the caller.
LEMMA MutexFreed ==
  ASSUME Shape, Alone, NEW t \in Tids, mutex' = Unlocked(t), inside' = LeavesMutex(t), Owns(t) # 0,
         UNCHANGED recursive
  PROVE  /\ Owns(t)' = Owns(t) - 1 /\ Alone' /\ mutex.count # 0
         /\ \A u \in Tids \ {t} : Owns(u)' = Owns(u)
<1>a. /\ mutex \in [owner : Tids \cup {None}, count : Nat] /\ recursive \in BOOLEAN
      /\ inside \in [mutex : SUBSET Tids, reader : SUBSET Tids, writer : SUBSET Tids]
      /\ t # None
  BY ThreadAssumption DEF Shape, Tids, None
<1>1. mutex.owner = t /\ mutex.count \in Nat \ {0} /\ Owns(t) = mutex.count /\ inside.mutex = {t}
  BY <1>a DEF Owns, Alone
<1>2. CASE StaysLocked(t)
  <2>1. recursive /\ mutex.count > 1
    BY <1>2 DEF StaysLocked
  <2>2. mutex'.owner = t /\ mutex'.count = mutex.count - 1 /\ inside' = inside
    BY <1>2, <1>a, <1>1 DEF Unlocked, LeavesMutex
  <2>3. Owns(t)' = Owns(t) - 1 /\ \A u \in Tids \ {t} : Owns(u)' = Owns(u)
    BY <1>1, <2>2 DEF Owns
  <2>4. mutex'.count # 0
    BY <1>1, <2>1, <2>2
  <2> QED BY <1>1, <2>1, <2>2, <2>3, <2>4 DEF Alone
<1>3. CASE ~StaysLocked(t)
  <2>1. mutex.count = 1
    BY <1>1, <1>3, <1>a DEF StaysLocked, Alone
  <2>2. mutex'.owner = None /\ mutex'.count = 0 /\ inside'.mutex = {}
    BY <1>3, <1>a, <1>1 DEF Unlocked, LeavesMutex
  <2> QED BY <1>1, <1>a, <2>1, <2>2 DEF Owns, Alone
<1> QED BY <1>2, <1>3

\* What the steps of mutex and condition do for the thread that takes them.
LEMMA MutexStep ==
  ASSUME Shape, Placed, NEW deep \in Nat, Owned(deep), NEW t \in Tids, Advances(t),
         Lock(t) \/ Unlock(t) \/ Until(t) \/ Recheck(t) \/ Relock(t) \/ TimeOut(t)
  PROVE  /\ Brackets(Ahead(t)', MutexRule(deep), Depth(t)') /\ Alone'
         /\ \A u \in Tids \ {t} : Owns(u)' = Owns(u)
<1>a. /\ Brackets(Ahead(t), MutexRule(deep), Depth(t)) /\ Alone
      /\ todo[t] # <<>> /\ todo[t] \in Seq(Tasks) /\ todo \in [Tids -> Seq(Tasks)] /\ at \in [Tids -> Sites]
      /\ mutex \in [owner : Tids \cup {None}, count : Nat]
  BY DEF Owned, Nested, Advances, Shape
<1>b. Owns(t) \in Nat
  BY <1>a DEF Owns
\* Where the mutex is not touched.
<1>c. ASSUME UNCHANGED <<mutex, inside, recursive>>
      PROVE  Alone' /\ \A u \in Tids : Owns(u)' = Owns(u)
  BY <1>a, <1>c DEF Alone, Owns
\* What the rule says of the command in front.
<1>d. ASSUME Ahead(t) = todo[t]
      PROVE  \E g : /\ <<Depth(t), Cmd(t).op, g>> \in MutexRule(deep)
                    /\ Brackets(Tail(todo[t]), MutexRule(deep), g)
  BY <1>a, <1>d, BracketsFirst DEF Cmd
<1>1. CASE Lock(t)
  <2>1. at[t] = "start" /\ Cmd(t).op = "lock" /\ Take(t) /\ UNCHANGED recursive
    BY <1>1 DEF Lock, Runs, Cmd
  <2>2. CASE ~CanLock(t)
    <3>1. UNCHANGED <<todo, at, mutex, inside>>
      BY <1>1, <2>1, <2>2 DEF Lock, Take
    <3>2. Ahead(t)' = Ahead(t) /\ Depth(t)' = Depth(t)
      BY <1>c, <2>1, <3>1, AheadStays DEF Depth
    <3> QED BY <1>a, <1>c, <2>1, <3>1, <3>2
  <2>3. CASE CanLock(t)
    <3>1. todo'[t] = Tail(todo[t]) /\ at'[t] = "start"
      BY <1>1, <1>a, <2>3 DEF Lock, Return
    <3>2. Ahead(t) = todo[t] /\ Ahead(t)' = Tail(todo[t])
      BY <2>1, <3>1 DEF Ahead
    <3>3. PICK g : /\ <<Depth(t), Cmd(t).op, g>> \in MutexRule(deep)
                   /\ Brackets(Tail(todo[t]), MutexRule(deep), g)
      BY <1>d, <3>2
    <3>4. g = Depth(t) + 1
      BY <2>1, <3>3, MutexSteps
    <3>5. Owns(t)' = Owns(t) + 1 /\ Alone' /\ \A u \in Tids \ {t} : Owns(u)' = Owns(u)
      BY <1>a, <2>1, <2>3, MutexTaken
    <3>6. Depth(t)' = g
      BY <1>b, <2>1, <3>1, <3>4, <3>5 DEF Depth
    <3> QED BY <3>2, <3>3, <3>5, <3>6
  <2> QED BY <2>2, <2>3
<1>2. CASE Unlock(t)
  <2>1. /\ at[t] = "start" /\ Cmd(t).op = "unlock" /\ UNCHANGED recursive
        /\ mutex' = Unlocked(t) /\ inside' = LeavesMutex(t)
    BY <1>2 DEF Unlock, Runs, Cmd
  <2>2. Ahead(t) = todo[t]
    BY <2>1 DEF Ahead
  <2>3. PICK g : /\ <<Depth(t), Cmd(t).op, g>> \in MutexRule(deep)
                 /\ Brackets(Tail(todo[t]), MutexRule(deep), g)
    BY <1>d, <2>2
  <2>4. g \in Nat /\ Depth(t) = g + 1 /\ Depth(t) = Owns(t)
    <3>1. Depth(t) = Owns(t)
      BY <1>b, <2>1 DEF Depth
    <3> QED BY <2>1, <2>3, <3>1, MutexSteps
  <2>5. /\ Owns(t)' = Owns(t) - 1 /\ Alone' /\ \A u \in Tids \ {t} : Owns(u)' = Owns(u)
        /\ mutex.count # 0
    BY <1>a, <2>1, <2>4, MutexFreed
  <2>6. at'[t] \in {"start", "signal"} /\ Ahead(t)' = Tail(todo[t])
    <3>1. CASE StaysLocked(t)
      <4>1. todo'[t] = Tail(todo[t]) /\ at'[t] = "start"
        BY <1>2, <1>a, <3>1 DEF Unlock, Return
      <4> QED BY <4>1 DEF Ahead
    <3>2. CASE ~StaysLocked(t)
      <4>1. todo' = todo /\ at'[t] = "signal"
        BY <1>2, <1>a, <2>5, <3>2 DEF Unlock, Goto
      <4> QED BY <2>1, <4>1 DEF Ahead, Cmd
    <3> QED BY <3>1, <3>2
  <2>7. Depth(t)' = g
    BY <1>b, <2>4, <2>5, <2>6 DEF Depth
  <2> QED BY <2>3, <2>5, <2>6, <2>7
<1>3. CASE Until(t)
  <2>1. at[t] = "start" /\ Cmd(t).op = "until" /\ UNCHANGED recursive
    BY <1>3 DEF Until, Runs, Cmd
  <2>2. Ahead(t) = todo[t]
    BY <2>1 DEF Ahead
  <2>3. PICK g : /\ <<Depth(t), Cmd(t).op, g>> \in MutexRule(deep)
                 /\ Brackets(Tail(todo[t]), MutexRule(deep), g)
    BY <1>d, <2>2
  <2>4. g = Depth(t) /\ Depth(t) # 0 /\ Depth(t) = Owns(t)
    <3>1. Depth(t) = Owns(t)
      BY <1>b, <2>1 DEF Depth
    <3> QED BY <2>1, <2>3, <3>1, MutexSteps
  <2>5. CASE flag
    <3>1. UNCHANGED <<mutex, inside>> /\ todo'[t] = Tail(todo[t]) /\ at'[t] = "start"
      BY <1>3, <1>a, <2>5 DEF Until, Return
    <3>2. Ahead(t)' = Tail(todo[t]) /\ Depth(t)' = Depth(t)
      BY <1>c, <2>1, <3>1 DEF Ahead, Depth
    <3> QED BY <1>c, <2>1, <2>3, <2>4, <3>1, <3>2
  <2>6. CASE ~flag
    <3>1. mutex' = Unlocked(t) /\ inside' = LeavesMutex(t) /\ todo' = todo /\ at'[t] = "waited"
      BY <1>3, <1>a, <2>6 DEF Until, Goto
    <3>2. Owns(t)' = Owns(t) - 1 /\ Alone' /\ \A u \in Tids \ {t} : Owns(u)' = Owns(u)
      BY <1>a, <2>1, <2>4, <3>1, MutexFreed
    <3>3. Ahead(t)' = Ahead(t)
      BY <2>1, <3>1 DEF Ahead
    <3>4. Depth(t)' = Depth(t)
      BY <1>b, <2>4, <3>1, <3>2 DEF Depth
    <3> QED BY <1>a, <3>2, <3>3, <3>4
  <2> QED BY <2>5, <2>6
<1>4. CASE Recheck(t) \/ TimeOut(t)
  <2>1. /\ at[t] = "waited" /\ at'[t] \in {"waited", "relock"} /\ todo' = todo
        /\ UNCHANGED <<mutex, inside, recursive>>
    BY <1>4, <1>a DEF Recheck, TimeOut, Runs, Goto, lockVars
  <2>2. Ahead(t)' = Ahead(t) /\ Depth(t)' = Depth(t)
    BY <1>c, <2>1 DEF Ahead, Depth
  <2> QED BY <1>a, <1>c, <2>1, <2>2
<1>5. CASE Relock(t)
  <2>1. at[t] = "relock" /\ Cmd(t).op = "until" /\ Take(t) /\ UNCHANGED recursive
    BY <1>5 DEF Relock, Runs, Cmd
  <2>2. CASE ~CanLock(t)
    <3>1. UNCHANGED <<todo, at, mutex, inside>>
      BY <1>5, <2>1, <2>2 DEF Relock, Take
    <3>2. Ahead(t)' = Ahead(t) /\ Depth(t)' = Depth(t)
      BY <1>c, <2>1, <3>1, AheadStays DEF Depth
    <3> QED BY <1>a, <1>c, <2>1, <3>1, <3>2
  <2>3. CASE CanLock(t)
    <3>1. at'[t] = "start"
      BY <1>5, <1>a, <2>3 DEF Relock, Return, Goto
    <3>2. Owns(t)' = Owns(t) + 1 /\ Alone' /\ \A u \in Tids \ {t} : Owns(u)' = Owns(u)
      BY <1>a, <2>1, <2>3, MutexTaken
    <3>3. Depth(t)' = Depth(t)
      BY <1>b, <2>1, <3>1, <3>2 DEF Depth
    <3>4. \A h, g : <<h, Cmd(t).op, g>> \in MutexRule(deep) => g = h
      BY <2>1, MutexSteps
    <3>5. Brackets(Ahead(t)', MutexRule(deep), Depth(t))
      BY <1>a, <2>1, <3>4, NeutralAdvance
    <3> QED BY <3>2, <3>3, <3>5
  <2> QED BY <2>2, <2>3
<1> QED BY <1>1, <1>2, <1>3, <1>4, <1>5

\* Every script stays in step with the mutex, and the mutex with the one inside.
LEMMA OwnedKept ==
  ASSUME NEW deep \in Nat, \A s \in Scripts : Brackets(s, MutexRule(deep), 0),
         Shape, Placed, Owned(deep), [Next]_vars
  PROVE  Owned(deep)'
<1>a. (\A u \in Tids : Brackets(Ahead(u), MutexRule(deep), Depth(u))) /\ Alone
  BY DEF Owned, Nested
\* Where the mutex is not touched.
<1>b. ASSUME UNCHANGED <<mutex, inside.mutex, recursive>>
      PROVE  Alone' /\ \A u \in Tids : Owns(u)' = Owns(u)
  BY <1>a, <1>b DEF Alone, Owns
\* It is enough to look at the thread that acts.
<1>c. ASSUME NEW t \in Tids, Others(t), Alone', Brackets(Ahead(t)', MutexRule(deep), Depth(t)'),
             \A u \in Tids \ {t} : Owns(u)' = Owns(u)
      PROVE  Owned(deep)'
  <2>1. ASSUME NEW u \in Tids PROVE Brackets(Ahead(u)', MutexRule(deep), Depth(u)')
    <3>1. CASE u = t
      BY <1>c, <3>1
    <3>2. CASE u # t
      <4>1. Ahead(u)' = Ahead(u) /\ Depth(u)' = Depth(u)
        BY <1>c, <3>2, AheadStays DEF Others, Depth
      <4> QED BY <1>a, <4>1
    <3> QED BY <3>1, <3>2
  <2> QED BY <1>c, <2>1 DEF Owned, Nested
<1>1. ASSUME \/ \E t \in Tids : Spawn(t) \/ PoolNext(t) \/ Spurious(t)
             \/ \E w \in Workers : WorkerStep(w)
             \/ UNCHANGED vars
      PROVE  Owned(deep)'
  <2> DEFINE held == [u \in Tids |-> Depth(u)]
  <2>1. \A u \in Tids : Brackets(Ahead(u), MutexRule(deep), held[u])
    BY <1>a
  <2>2. Fair(MutexRule(deep))
    BY MutexSteps
  <2> HIDE DEF held
  <2>3. /\ \A u \in Tids : Brackets(Ahead(u)', MutexRule(deep), held[u])
        /\ \A u \in Tids : at'[u] = at[u] \/ (at[u] = "spawn" /\ at'[u] = "handle")
        /\ UNCHANGED <<recursive, mutex, inside>>
    BY <1>1, <2>1, <2>2, JobsInStep
  <2>4. Alone' /\ \A u \in Tids : Owns(u)' = Owns(u)
    BY <1>b, <2>3
  <2>5. \A u \in Tids : Depth(u)' = Depth(u)
    BY <2>3, <2>4 DEF Depth
  <2>6. \A u \in Tids : Brackets(Ahead(u)', MutexRule(deep), Depth(u)')
    BY <2>3, <2>5 DEF held
  <2> QED BY <2>4, <2>6 DEF Owned, Nested
<1>2. ASSUME NEW t \in Tids, Step(t) \/ TimeOut(t), Advances(t) PROVE Owned(deep)'
  <2>1. Others(t)
    BY <1>2, AdvanceEffect
  <2>2. CASE Lock(t) \/ Unlock(t) \/ Until(t) \/ Recheck(t) \/ Relock(t) \/ TimeOut(t)
    BY <1>2, <1>c, <2>1, <2>2, MutexStep
  <2>3. CASE ~(Lock(t) \/ Unlock(t) \/ Until(t) \/ Recheck(t) \/ Relock(t) \/ TimeOut(t))
    <3>1. Alone' /\ \A u \in Tids : Owns(u)' = Owns(u)
      BY <1>2, <1>b, <2>3, StepFrame
    <3>2. /\ at[t] = "signal" /\ Cmd(t).op \in {"unlock", "rwunlock"} => Return(t)
          /\ Cmd(t).op \notin {"lock", "until"} /\ (Cmd(t).op = "unlock" => at[t] = "signal")
      BY <1>2, <2>3, StepOfCommand DEF Signal
    <3>3. Ahead(t)' = Ahead(t) \/ \A h, g : <<h, Cmd(t).op, g>> \in MutexRule(deep) => g = h
      <4>1. CASE Cmd(t).op = "unlock"
        <5>1. Ahead(t) = Tail(todo[t]) /\ Ahead(t)' = Tail(todo[t])
          BY <3>2, <4>1 DEF Return, Ahead, Shape
        <5> QED BY <5>1
      <4>2. CASE Cmd(t).op # "unlock"
        BY <3>2, <4>2, MutexSteps
      <4> QED BY <4>1, <4>2
    <3>4. Brackets(Ahead(t)', MutexRule(deep), Depth(t))
      BY <1>2, <1>a, <3>2, <3>3, NeutralAdvance
    <3>5. at[t] \notin {"waited", "relock"} /\ at'[t] \notin {"waited", "relock"}
      BY <1>2, <3>2, AdvanceEffect DEF Placed, Fits
    <3>6. Depth(t)' = Depth(t)
      BY <3>1, <3>5 DEF Depth
    <3> QED BY <1>c, <2>1, <3>1, <3>4, <3>6
  <2> QED BY <2>2, <2>3
<1> QED BY <1>1, <1>2, StepSummary DEF Next

-----------------------------------------------------------------------------
(* The theorems.                                                           *)

\* The invariant holds at the start.
LEMMA ThreadsStart ==
  ASSUME Init
  PROVE  /\ Shape /\ Placed /\ SenderIsBacked
         /\ \A deep \in Nat : BracketedScripts(deep) => Bracketed /\ Owned(deep)
<1>1. PICK p \in Programs :
        /\ todo = [t \in Tids |-> IF t = Main THEN p.main ELSE <<>>]
        /\ recursive = p.recursive
  BY DEF Init
<1>2. /\ at = [t \in Tids |-> "start"]
      /\ life = [t \in Tids |-> IF t = Main THEN "live" ELSE "unborn"]
      /\ inbox = [w \in Workers |-> <<>>] /\ answer = [t \in Tids |-> "none"]
      /\ mutex = [owner |-> None, count |-> 0] /\ rw = [readers |-> 0, writer |-> FALSE]
      /\ pool = [handle |-> FALSE, queue |-> <<>>, results |-> {}, shutdown |-> FALSE]
      /\ inside = [mutex |-> {}, reader |-> {}, writer |-> {}]
  BY DEF Init
<1>3. p.main \in Scripts /\ p.recursive \in BOOLEAN
  BY ThreadAssumption
<1>4. p.main \in Seq(Tasks)
  BY <1>3, ScriptsAreTasks
<1>5. Shape
  <2>1. <<>> \in Seq(Tasks) /\ <<>> \in Seq(Messages) /\ <<>> \in Seq(Posted)
    OBVIOUS
  <2> QED BY <1>1, <1>2, <1>3, <1>4, <2>1 DEF Shape, Sites
<1>6. Placed
  BY <1>1, <1>2 DEF Placed
<1>7. SenderIsBacked
  BY <1>2 DEF SenderIsBacked
<1>8. ASSUME NEW rule, Fair(rule), \A s \in Scripts : Brackets(s, rule, 0)
      PROVE  \A t \in Tids : Brackets(Ahead(t), rule, 0)
  <2>1. Brackets(p.main, rule, 0) /\ Brackets(<<>>, rule, 0)
    BY <1>3, <1>8, BracketsEnds
  <2>2. \A t \in Tids : Ahead(t) = todo[t]
    BY <1>2 DEF Ahead
  <2> QED BY <1>1, <2>1, <2>2
<1>9. ASSUME NEW deep \in Nat, BracketedScripts(deep) PROVE Bracketed /\ Owned(deep)
  <2>1. Counted
    BY <1>2, FS_EmptySet DEF Counted
  <2>2. Alone
    BY <1>2 DEF Alone
  <2>3. \A t \in Tids : Hold(t) = 0 /\ Depth(t) = 0
    BY <1>2 DEF Hold, Depth, Owns
  <2>4. Fair(RwRule) /\ Fair(MutexRule(deep))
    BY RwSteps, MutexSteps
  <2>5. \A t \in Tids : Brackets(Ahead(t), RwRule, 0) /\ Brackets(Ahead(t), MutexRule(deep), 0)
    BY <1>8, <1>9, <2>4 DEF BracketedScripts
  <2> QED BY <2>1, <2>2, <2>3, <2>5 DEF Bracketed, Covered, Owned, Nested
<1> QED BY <1>5, <1>6, <1>7, <1>9

\* For scripts that unlock what they have locked, however deep they nest a
\* recursive mutex and in any interleaving, the one between lock and unlock is
\* alone and a writer has no readers: TclMutex and TclRwMutex, neither of whose
\* unlock asks who calls, are locks for them.
THEOREM LocksExclude ==
  ASSUME NEW deep \in Nat, BracketedScripts(deep)
  PROVE  Spec => []LockExcludes
<1> DEFINE Inv == Shape /\ Placed /\ Bracketed /\ Owned(deep)
<1>a. /\ \A s \in Scripts : Brackets(s, RwRule, 0)
      /\ \A s \in Scripts : Brackets(s, MutexRule(deep), 0)
  BY DEF BracketedScripts
<1>1. Init => Inv
  BY ThreadsStart
<1>2. Inv /\ [Next]_vars => Inv'
  BY <1>a, ShapeKept, PlacedKept, BracketedKept, OwnedKept
<1>3. Inv => LockExcludes
  <2> SUFFICES ASSUME Inv PROVE LockExcludes
    OBVIOUS
  <2>1. Cardinality({}) = 0 /\ \A x : Cardinality({x}) = 1
    BY FS_EmptySet, FS_Singleton
  <2>2. Cardinality(inside.mutex) <= 1
    <3>1. Cardinality({mutex.owner}) = 1
      BY FS_Singleton
    <3> QED BY <2>1, <3>1 DEF Owned, Alone
  <2>3. ASSUME inside.writer # {} PROVE inside.reader = {} /\ Cardinality(inside.writer) = 1
    BY <2>1, <2>3 DEF Bracketed, Counted
  <2> QED BY <2>2, <2>3 DEF LockExcludes
<1> QED BY <1>1, <1>2, <1>3, PTL DEF Spec

\* A thread that is blocked in thread::send has its job in the hands of a worker
\* that will answer or drop it, whatever is created, released and joined.
THEOREM SendersAreBacked == Spec => []SenderIsBacked
<1> DEFINE Inv == Shape /\ Placed /\ SenderIsBacked
<1>1. Init => Inv
  BY ThreadsStart
<1>2. Inv /\ [Next]_vars => Inv'
  BY ShapeKept, PlacedKept, BackedKept
<1> QED BY <1>1, <1>2, PTL DEF Spec

-----------------------------------------------------------------------------
(* No wakeup is lost.                                                      *)

\* Some thread is about to notify, at the end of that command.
Signals(op) == \E u \in Tids : life[u] = "live" /\ at[u] = "signal" /\ Cmd(u).op = op

\* A thread that looks at the mutex next, once it is awake.
Contends(t) ==
  /\ life[t] = "live"
  /\ at[t] = "relock" \/ (at[t] = "start" /\ todo[t] # <<>> /\ Cmd(t).op = "lock")

\* Who sleeps is at the wait of its own command.
Asleep(t) ==
  /\ parked[t] # "no" => life[t] = "live"
  /\ parked[t] = "mutex" => Contends(t)
  /\ parked[t] = "cond" => at[t] = "waited"
  /\ parked[t] = "rw" => at[t] = "start" /\ todo[t] # <<>> /\ Cmd(t).op \in {"rlock", "wlock"}
  /\ parked[t] = "job_ready" => t \in PoolWorkers /\ at[t] = "start" /\ todo[t] = <<>>
  /\ parked[t] = "done" => at[t] = "found" /\ Cmd(t).op \in {"pget", "pwait"}

\* Who sleeps waits for what has not happened yet; or somebody is about to wake
\* it or, where one sleeper is woken of several, somebody is awake who will do
\* the work or wake the next.
Owed(t) ==
  /\ parked[t] = "mutex" /\ mutex.count = 0 =>
       Signals("unlock") \/ \E u \in Tids : Contends(u) /\ parked[u] = "no"
  /\ parked[t] = "cond" /\ cond # sampled[t] => Signals("notify")
  /\ parked[t] = "rw" /\ ~rw.writer /\ (Cmd(t).op = "rlock" \/ rw.readers = 0) => Signals("rwunlock")
  /\ parked[t] = "job_ready" /\ pool.shutdown => Signals("prelease")
  /\ parked[t] = "job_ready" /\ ~pool.shutdown /\ pool.queue # <<>> =>
       Signals("ppost") \/ \E u \in PoolWorkers : life[u] = "live" /\ parked[u] # "job_ready"
  /\ parked[t] = "done" /\ Cmd(t).op = "pget" =>
       /\ Cmd(t).job \in pool.results => Signals("finish")
       /\ pool.shutdown => Signals("prelease")
  /\ parked[t] = "done" /\ Cmd(t).op = "pwait" /\ Cmd(t).jobs \cap pool.results # {} =>
       Signals("finish")

\* What the wakeups of cmd_thread.rs are for: nobody sleeps on what has happened.
NobodyOversleeps == \A t \in Tids : Owed(t)

Beds == {"no", "mutex", "cond", "rw", "job_ready", "done"}

Sleep ==
  /\ parked \in [Tids -> Beds] /\ sampled \in [Tids -> Nat] /\ cond \in Nat
  /\ \A t \in Tids : Asleep(t)
  /\ NobodyOversleeps

\* A live thread that another's step leaves alone.
Undisturbed(u) == life'[u] = "live" /\ at'[u] = at[u] /\ todo'[u] = todo[u]

\* It has the same role after the step.
LEMMA RoleStays ==
  ASSUME NEW u \in Tids, life[u] = "live", Undisturbed(u)
  PROVE  /\ Cmd(u)' = Cmd(u) /\ (Contends(u)' <=> Contends(u))
         /\ \A op : at[u] = "signal" /\ Cmd(u).op = op => Signals(op)'
         /\ Asleep(u) /\ parked'[u] = parked[u] => Asleep(u)'
<1>1. Cmd(u)' = Cmd(u)
  BY DEF Cmd, Undisturbed
<1>2. Contends(u)' <=> Contends(u)
  BY <1>1 DEF Contends, Undisturbed
<1>3. ASSUME NEW op, at[u] = "signal", Cmd(u).op = op PROVE Signals(op)'
  BY <1>1, <1>3 DEF Signals, Undisturbed
<1>4. ASSUME Asleep(u), parked'[u] = parked[u] PROVE Asleep(u)'
  BY <1>1, <1>2, <1>4 DEF Asleep, Undisturbed
<1> QED BY <1>1, <1>2, <1>3, <1>4

\* A step of t that puts nobody to sleep and announces what it makes happen.
Harmless(t) ==
  /\ \A u \in Tids \ {t} : life[u] = "live" => Undisturbed(u)
  /\ at[t] # "signal" /\ (Contends(t) => mutex'.count # 0)
  /\ parked' \in [Tids -> Beds] /\ parked'[t] = "no"
  /\ \A u \in Tids : parked'[u] \in {parked[u], "no"}
  /\ sampled' = sampled /\ cond' \in Nat
  /\ t \in PoolWorkers /\ life[t] = "live" => life'[t] = "live" \/ pool'.shutdown
  /\ mutex'.count = 0 => mutex.count = 0 \/ Signals("unlock")'
  /\ cond' = cond \/ Signals("notify")'
  /\ \/ (~rw'.writer => ~rw.writer) /\ (rw'.readers = 0 => rw.readers = 0)
     \/ Signals("rwunlock")'
  /\ pool.shutdown => pool'.shutdown
  /\ pool'.shutdown => pool.shutdown \/ Signals("prelease")'
  /\ pool'.queue # <<>> => pool.queue # <<>> \/ Signals("ppost")'
  /\ pool'.results \subseteq pool.results \/ Signals("finish")'

\* Such a step leaves nobody asleep on what has happened.
LEMMA HarmlessStep ==
  ASSUME Sleep, NEW t \in Tids, Harmless(t)
  PROVE  Sleep'
<1>1. ASSUME NEW u \in Tids, u # t, life[u] = "live"
      PROVE  /\ Cmd(u)' = Cmd(u) /\ (Contends(u)' <=> Contends(u))
             /\ \A op : at[u] = "signal" /\ Cmd(u).op = op => Signals(op)'
             /\ Asleep(u) /\ parked'[u] = parked[u] => Asleep(u)'
             /\ life'[u] = "live"
  <2>1. Undisturbed(u)
    BY <1>1 DEF Harmless
  <2> QED BY <1>1, <2>1, RoleStays DEF Undisturbed
<1>2. ASSUME NEW op, Signals(op) PROVE Signals(op)'
  <2>1. PICK u \in Tids : life[u] = "live" /\ at[u] = "signal" /\ Cmd(u).op = op
    BY <1>2 DEF Signals
  <2>2. u # t
    BY <2>1 DEF Harmless
  <2> QED BY <1>1, <2>1, <2>2
<1>3. ASSUME NEW u \in Tids, parked'[u] # "no"
      PROVE  u # t /\ parked'[u] = parked[u] /\ life[u] = "live" /\ Cmd(u)' = Cmd(u)
  <2>1. u # t /\ parked'[u] = parked[u]
    BY <1>3 DEF Harmless
  <2>2. life[u] = "live"
    BY <1>3, <2>1 DEF Sleep, Asleep
  <2> QED BY <1>1, <2>1, <2>2
<1>4. ASSUME NEW u \in Tids PROVE Asleep(u)'
  <2>1. CASE parked'[u] = "no"
    BY <2>1 DEF Asleep
  <2>2. CASE parked'[u] # "no"
    BY <1>1, <1>3, <2>2 DEF Sleep
  <2> QED BY <2>1, <2>2
<1>5. ASSUME NEW u \in Tids PROVE Owed(u)'
  <2>0. Owed(u)
    BY DEF Sleep, NobodyOversleeps
  <2>1. ASSUME parked'[u] = "mutex", mutex'.count = 0
        PROVE  Signals("unlock")' \/ \E v \in Tids : Contends(v)' /\ parked'[v] = "no"
    <3>1. parked[u] = "mutex" /\ (mutex.count = 0 \/ Signals("unlock")')
      BY <1>3, <2>1 DEF Harmless
    <3>2. CASE Signals("unlock")
      BY <1>2, <3>2
    <3>3. CASE \E v \in Tids : Contends(v) /\ parked[v] = "no"
      <4>1. PICK v \in Tids : Contends(v) /\ parked[v] = "no"
        BY <3>3
      <4>2. v # t /\ parked'[v] = "no" /\ life[v] = "live"
        BY <2>1, <4>1 DEF Harmless, Contends
      <4> QED BY <1>1, <4>1, <4>2
    <3> QED BY <2>0, <3>1, <3>2, <3>3 DEF Owed
  <2>2. ASSUME parked'[u] = "cond", cond' # sampled'[u] PROVE Signals("notify")'
    BY <1>2, <1>3, <2>0, <2>2 DEF Harmless, Owed
  <2>3. ASSUME parked'[u] = "rw", ~rw'.writer, Cmd(u)'.op = "rlock" \/ rw'.readers = 0
        PROVE  Signals("rwunlock")'
    BY <1>2, <1>3, <2>0, <2>3 DEF Harmless, Owed
  <2>4. ASSUME parked'[u] = "job_ready", pool'.shutdown PROVE Signals("prelease")'
    BY <1>2, <1>3, <2>0, <2>4 DEF Harmless, Owed
  <2>5. ASSUME parked'[u] = "job_ready", ~pool'.shutdown, pool'.queue # <<>>
        PROVE  Signals("ppost")' \/ \E v \in PoolWorkers : life'[v] = "live" /\ parked'[v] # "job_ready"
    <3>1. parked[u] = "job_ready" /\ ~pool.shutdown /\ (pool.queue # <<>> \/ Signals("ppost")')
      BY <1>3, <2>5 DEF Harmless
    <3>2. CASE Signals("ppost")
      BY <1>2, <3>2
    <3>3. CASE \E v \in PoolWorkers : life[v] = "live" /\ parked[v] # "job_ready"
      <4>1. PICK v \in PoolWorkers : life[v] = "live" /\ parked[v] # "job_ready"
        BY <3>3
      <4>2. v \in Tids
        BY DEF Tids
      <4>3. parked'[v] # "job_ready"
        BY <4>1, <4>2 DEF Harmless
      <4>4. life'[v] = "live"
        BY <1>1, <2>5, <4>1, <4>2 DEF Harmless
      <4> QED BY <4>3, <4>4
    <3> QED BY <2>0, <3>1, <3>2, <3>3 DEF Owed
  <2>6. ASSUME parked'[u] = "done", Cmd(u)'.op = "pget"
        PROVE  /\ Cmd(u)'.job \in pool'.results => Signals("finish")'
               /\ pool'.shutdown => Signals("prelease")'
    BY <1>2, <1>3, <2>0, <2>6 DEF Harmless, Owed
  <2>7. ASSUME parked'[u] = "done", Cmd(u)'.op = "pwait", Cmd(u)'.jobs \cap pool'.results # {}
        PROVE  Signals("finish")'
    BY <1>2, <1>3, <2>0, <2>7 DEF Harmless, Owed
  <2> QED BY <2>1, <2>2, <2>3, <2>4, <2>5, <2>6, <2>7 DEF Owed
<1> QED BY <1>4, <1>5 DEF Sleep, NobodyOversleeps, Harmless

\* A thread that goes to sleep, for something that has not happened.
LEMMA SleepingStep ==
  ASSUME Sleep, NEW t \in Tids, NEW cv \in Beds \ {"no"}, Park(t, cv),
         UNCHANGED <<todo, at, life, cond, sampled, rw, pool>>, mutex' = mutex,
         Asleep(t)', Owed(t)', Contends(t) => mutex.count # 0,
         cv = "job_ready" => pool.shutdown \/ pool.queue = <<>>
  PROVE  Sleep'
<1>1. /\ parked' \in [Tids -> Beds] /\ parked'[t] = cv
      /\ \A u \in Tids : u # t => parked'[u] = parked[u]
  BY DEF Park, Sleep
<1>2. /\ \A op : Signals(op)' <=> Signals(op)
      /\ \A u \in Tids : (Contends(u)' <=> Contends(u)) /\ Cmd(u)' = Cmd(u)
  BY DEF Signals, Contends, Cmd
<1>3. ASSUME NEW u \in Tids, u # t PROVE Asleep(u)'
  <2>1. Asleep(u) /\ parked'[u] = parked[u]
    BY <1>1, <1>3 DEF Sleep
  <2> QED BY <1>2, <2>1 DEF Asleep
<1>4. ASSUME NEW u \in Tids, u # t PROVE Owed(u)'
  <2>1. Owed(u) /\ parked'[u] = parked[u]
    BY <1>1, <1>4 DEF Sleep, NobodyOversleeps
  <2>2. ASSUME mutex.count = 0, NEW v \in Tids, Contends(v), parked[v] = "no" PROVE parked'[v] = "no"
    BY <1>1, <2>2
  <2>3. ASSUME ~pool.shutdown, pool.queue # <<>>, NEW v \in PoolWorkers, parked[v] # "job_ready"
        PROVE  parked'[v] # "job_ready"
    BY <1>1, <2>3 DEF Tids
  <2> QED BY <1>2, <2>1, <2>2, <2>3 DEF Owed
<1> QED BY <1>1, <1>3, <1>4 DEF Sleep, NobodyOversleeps

\* A wakeup for no reason harms nobody.
LEMMA WakingStep ==
  ASSUME Sleep, NEW t \in Tids, parked' = [parked EXCEPT ![t] = "no"],
         UNCHANGED <<todo, at, life, cond, sampled, rw, pool, mutex>>
  PROVE  Sleep'
<1>1. parked' \in [Tids -> Beds] /\ \A u \in Tids : parked'[u] \in {parked[u], "no"}
  BY DEF Sleep, Beds
<1>2. /\ \A op : Signals(op)' <=> Signals(op)
      /\ \A u \in Tids : (Contends(u)' <=> Contends(u)) /\ Cmd(u)' = Cmd(u)
  BY DEF Signals, Contends, Cmd
<1>3. ASSUME NEW u \in Tids PROVE Asleep(u)' /\ Owed(u)'
  <2>1. Asleep(u) /\ Owed(u) /\ parked'[u] \in {parked[u], "no"}
    BY <1>1 DEF Sleep, NobodyOversleeps
  <2>2. PoolWorkers \subseteq Tids
    BY DEF Tids
  <2>3. \A v \in PoolWorkers : parked[v] # "job_ready" => parked'[v] # "job_ready"
    BY <1>1, <2>2
  <2>4. \A v \in Tids : parked[v] = "no" => parked'[v] = "no"
    BY <1>1
  <2>5. Asleep(u)'
    BY <1>2, <2>1 DEF Asleep
  <2>6. Owed(u)'
    BY <1>2, <2>1, <2>3, <2>4 DEF Owed
  <2> QED BY <2>5, <2>6
<1> QED BY <1>1, <1>3 DEF Sleep, NobodyOversleeps

\* A command that concerns no lock and no pool, or ends there.
LEMMA QuietAdvance ==
  ASSUME Shape, Placed, Sleep, NEW t \in Tids, Advances(t), life' = life, parked[t] = "no",
         at[t] \notin {"signal", "relock"}, Cmd(t).op # "lock",
         UNCHANGED <<parked, mutex, cond, sampled, rw, pool>>
  PROVE  Sleep'
<1>1. Others(t)
  BY AdvanceEffect
<1>2. \A u \in Tids \ {t} : life[u] = "live" => Undisturbed(u)
  BY <1>1 DEF Others, Undisturbed
<1>3. ~Contends(t)
  BY DEF Contends
<1>4. Harmless(t)
  BY <1>2, <1>3 DEF Harmless, Sleep
<1> QED BY <1>4, HarmlessStep

\* A command that is about to notify: what it has made happen is announced.
LEMMA Announces ==
  ASSUME Shape, NEW t \in Tids, NEW op, Runs(t, op, "start") \/ Runs(t, op, "found") \/ Runs(t, op, "shut"),
         Goto(t, "signal"), life' = life
  PROVE  /\ Signals(op)' /\ \A u \in Tids \ {t} : life[u] = "live" => Undisturbed(u)
         /\ at[t] # "signal" /\ parked[t] = "no" /\ (op # "lock" => ~Contends(t))
<1>1. /\ at' = [at EXCEPT ![t] = "signal"] /\ todo' = todo /\ at \in [Tids -> Sites]
      /\ life[t] = "live" /\ Cmd(t).op = op /\ at[t] \in {"start", "found", "shut"} /\ parked[t] = "no"
  BY DEF Goto, Runs, Cmd, Shape
<1>2. Cmd(t)' = Cmd(t)
  BY <1>1 DEF Cmd
<1> QED BY <1>1, <1>2 DEF Signals, Undisturbed, Contends

\* The registry's commands, tsv::set and the pool's lookups.
LEMMA RegistrySleep ==
  ASSUME Shape, Placed, Sleep, NEW t \in Tids, Advances(t), life' = life,
         \/ Create(t) \/ StoreHandle(t) \/ Send(t) \/ Post(t) \/ Answered(t) \/ Reply(t)
         \/ Release(t) \/ Tell(t) \/ Join(t) \/ Set(t) \/ PoolLookup(t) \/ PoolJoin(t)
  PROVE  Sleep'
<1>1. /\ parked[t] = "no" /\ at[t] \notin {"signal", "relock"} /\ Cmd(t).op # "lock"
      /\ UNCHANGED <<parked, mutex, cond, sampled, rw, pool>>
  <2>1. CASE Create(t) \/ StoreHandle(t) \/ Send(t) \/ Post(t)
    BY <2>1, ZenonT(40) DEF Create, StoreHandle, Send, Post, Runs, Cmd, lockVars
  <2>2. CASE Answered(t) \/ Reply(t) \/ Release(t) \/ Tell(t)
    BY <2>2 DEF Answered, Reply, Release, Tell, Runs, Cmd, lockVars
  <2>3. CASE Join(t) \/ Set(t) \/ PoolLookup(t) \/ PoolJoin(t)
    BY <2>3 DEF Join, Set, PoolLookup, PoolJoin, Runs, Cmd, lockVars
  <2> QED BY <2>1, <2>2, <2>3
<1> QED BY <1>1, QuietAdvance

\* The mutex is taken, or slept on while another has it.
LEMMA TakeSleep ==
  ASSUME Shape, Placed, Sleep, NEW t \in Tids, Advances(t), life' = life, Lock(t) \/ Relock(t)
  PROVE  Sleep'
<1>1. /\ parked[t] = "no" /\ Contends(t) /\ at[t] # "signal" /\ Take(t)
      /\ UNCHANGED <<cond, sampled, rw, pool>>
  BY DEF Lock, Relock, Runs, Cmd, Contends
<1>2. mutex \in [owner : Tids \cup {None}, count : Nat]
  BY DEF Shape
<1>3. CASE CanLock(t)
  <2>1. parked' = parked /\ mutex' = Locked(t)
    BY <1>1, <1>3 DEF Take
  <2>2. mutex'.count # 0
    BY <1>2, <2>1 DEF Locked
  <2>3. \A u \in Tids \ {t} : life[u] = "live" => Undisturbed(u)
    BY AdvanceEffect DEF Others, Undisturbed
  <2>4. Harmless(t)
    BY <1>1, <2>1, <2>2, <2>3 DEF Harmless, Sleep
  <2> QED BY <2>4, HarmlessStep
<1>4. CASE ~CanLock(t)
  <2>1. /\ Park(t, "mutex") /\ mutex' = mutex /\ UNCHANGED <<todo, at>> /\ mutex.count # 0
    BY <1>1, <1>4 DEF Take, Lock, Relock, CanLock
  <2>2. parked'[t] = "mutex" /\ Contends(t)'
    BY <1>1, <2>1 DEF Park, Sleep, Contends, Cmd
  <2>3. Asleep(t)' /\ Owed(t)'
    BY <2>1, <2>2 DEF Asleep, Owed, Contends
  <2> QED BY <1>1, <2>1, <2>3, SleepingStep DEF Beds
<1> QED BY <1>3, <1>4

\* The mutex is freed: whoever sleeps on it is announced a wakeup.
LEMMA UnlockSleep ==
  ASSUME Shape, Placed, Sleep, NEW t \in Tids, Advances(t), life' = life, Unlock(t)
  PROVE  Sleep'
<1>1. /\ Runs(t, "unlock", "start") /\ mutex' = Unlocked(t)
      /\ UNCHANGED <<parked, cond, sampled, rw, pool>>
  BY DEF Unlock
<1>2. parked[t] = "no" /\ at[t] # "signal" /\ ~Contends(t)
  BY <1>1 DEF Runs, Contends, Cmd
<1>3. \A u \in Tids \ {t} : life[u] = "live" => Undisturbed(u)
  BY AdvanceEffect DEF Others, Undisturbed
<1>4. mutex'.count = 0 => mutex.count = 0 \/ Signals("unlock")'
  <2>1. CASE mutex.count = 0
    BY <2>1
  <2>2. CASE StaysLocked(t)
    BY <1>1, <2>2 DEF Unlocked, StaysLocked, Shape
  <2>3. CASE mutex.count # 0 /\ ~StaysLocked(t)
    <3>1. Goto(t, "signal")
      BY <2>3 DEF Unlock
    <3> QED BY <1>1, <3>1, Announces
  <2> QED BY <2>1, <2>2, <2>3
<1>5. Harmless(t)
  BY <1>1, <1>2, <1>3, <1>4 DEF Harmless, Sleep
<1> QED BY <1>5, HarmlessStep

\* TclCond::notify, TclRwMutex::unlock, tpool::post, the shutdown and the end of
\* a job: each announces what it has changed.
LEMMA AnnouncedSleep ==
  ASSUME Shape, Placed, Sleep, NEW t \in Tids, Advances(t), life' = life,
         Notify(t) \/ RwUnlock(t) \/ PoolPost(t) \/ PoolShutdown(t) \/ PoolFinish(t)
  PROVE  Sleep'
<1>a. pool \in [handle : BOOLEAN, queue : Seq(Posted), results : SUBSET Nat, shutdown : BOOLEAN]
  BY DEF Shape
<1>1. CASE Notify(t)
  <2>1. /\ Runs(t, "notify", "start") /\ Goto(t, "signal") /\ cond' = cond + 1
        /\ UNCHANGED <<parked, mutex, sampled, rw, pool>>
    BY <1>1 DEF Notify
  <2>2. /\ Signals("notify")' /\ \A u \in Tids \ {t} : life[u] = "live" => Undisturbed(u)
        /\ at[t] # "signal" /\ parked[t] = "no" /\ ~Contends(t)
    BY <2>1, Announces
  <2>3. Harmless(t)
    BY <2>1, <2>2 DEF Harmless, Sleep
  <2> QED BY <2>3, HarmlessStep
<1>2. CASE RwUnlock(t)
  <2>1. /\ Runs(t, "rwunlock", "start") /\ Goto(t, "signal")
        /\ UNCHANGED <<parked, mutex, cond, sampled, pool>>
    BY <1>2 DEF RwUnlock
  <2>2. /\ Signals("rwunlock")' /\ \A u \in Tids \ {t} : life[u] = "live" => Undisturbed(u)
        /\ at[t] # "signal" /\ parked[t] = "no" /\ ~Contends(t)
    BY <2>1, Announces
  <2>3. Harmless(t)
    BY <2>1, <2>2 DEF Harmless, Sleep
  <2> QED BY <2>3, HarmlessStep
<1>3. CASE PoolPost(t)
  <2>1. /\ Runs(t, "ppost", "found") /\ Goto(t, "signal")
        /\ UNCHANGED <<parked, mutex, cond, sampled, rw>>
        /\ pool'.shutdown = pool.shutdown /\ pool'.results = pool.results
    BY <1>a, <1>3 DEF PoolPost, lockVars
  <2>2. /\ Signals("ppost")' /\ \A u \in Tids \ {t} : life[u] = "live" => Undisturbed(u)
        /\ at[t] # "signal" /\ parked[t] = "no" /\ ~Contends(t)
    BY <2>1, Announces
  <2>3. Harmless(t)
    BY <2>1, <2>2 DEF Harmless, Sleep
  <2> QED BY <2>3, HarmlessStep
<1>4. CASE PoolShutdown(t)
  <2>1. /\ Runs(t, "prelease", "shut") /\ Goto(t, "signal")
        /\ UNCHANGED <<parked, mutex, cond, sampled, rw>>
        /\ pool'.queue = pool.queue /\ pool'.results = pool.results /\ pool'.shutdown
    BY <1>a, <1>4 DEF PoolShutdown, lockVars
  <2>2. /\ Signals("prelease")' /\ \A u \in Tids \ {t} : life[u] = "live" => Undisturbed(u)
        /\ at[t] # "signal" /\ parked[t] = "no" /\ ~Contends(t)
    BY <2>1, Announces
  <2>3. Harmless(t)
    BY <2>1, <2>2 DEF Harmless, Sleep
  <2> QED BY <2>3, HarmlessStep
<1>5. CASE PoolFinish(t)
  <2>1. Runs(t, "finish", "start") /\ UNCHANGED <<parked, mutex, cond, sampled, rw>>
    BY <1>5 DEF PoolFinish, lockVars
  <2>2. CASE Cmd(t).op = "finish" /\ UNCHANGED pool
    BY <2>1, <2>2, QuietAdvance DEF Runs
  <2>3. CASE ~UNCHANGED pool
    <3>1. /\ Goto(t, "signal") /\ pool'.queue = pool.queue /\ pool'.shutdown = pool.shutdown
      BY <1>a, <1>5, <2>3 DEF PoolFinish
    <3>2. /\ Signals("finish")' /\ \A u \in Tids \ {t} : life[u] = "live" => Undisturbed(u)
          /\ at[t] # "signal" /\ parked[t] = "no" /\ ~Contends(t)
      BY <2>1, <3>1, Announces
    <3>3. Harmless(t)
      BY <2>1, <3>1, <3>2 DEF Harmless, Sleep
    <3> QED BY <3>3, HarmlessStep
  <2> QED BY <2>1, <2>2, <2>3 DEF Runs, Cmd
<1> QED BY <1>1, <1>2, <1>3, <1>4, <1>5

\* The readers-writer lock is taken, or slept on while it is not to be had.
LEMMA RwSleep ==
  ASSUME Shape, Placed, Sleep, NEW t \in Tids, Advances(t), life' = life, ReadLock(t) \/ WriteLock(t)
  PROVE  Sleep'
<1>1. /\ parked[t] = "no" /\ at[t] = "start" /\ todo[t] # <<>> /\ Cmd(t).op \in {"rlock", "wlock"}
      /\ life[t] = "live" /\ UNCHANGED <<mutex, cond, sampled, pool>>
      /\ rw \in [readers : Nat, writer : BOOLEAN] /\ ~Contends(t)
  BY DEF ReadLock, WriteLock, Runs, Cmd, Shape, Contends
<1>2. CASE parked' = parked
  <2>1. (~rw'.writer => ~rw.writer) /\ (rw'.readers = 0 => rw.readers = 0)
    BY <1>1, <1>2 DEF ReadLock, WriteLock, Park, Sleep
  <2>2. \A u \in Tids \ {t} : life[u] = "live" => Undisturbed(u)
    BY AdvanceEffect DEF Others, Undisturbed
  <2>3. Harmless(t)
    BY <1>1, <1>2, <2>1, <2>2 DEF Harmless, Sleep
  <2> QED BY <2>3, HarmlessStep
<1>3. CASE parked' # parked
  <2>1. /\ Park(t, "rw") /\ UNCHANGED <<todo, at, rw>>
        /\ rw.writer \/ (Cmd(t).op = "wlock" /\ rw.readers > 0)
    BY <1>3 DEF ReadLock, WriteLock, Runs, Cmd
  <2>2. parked'[t] = "rw" /\ Cmd(t)' = Cmd(t)
    BY <2>1 DEF Park, Sleep, Cmd
  <2>3. Asleep(t)' /\ Owed(t)'
    BY <1>1, <2>1, <2>2 DEF Asleep, Owed
  <2> QED BY <1>1, <2>1, <2>3, SleepingStep DEF Beds
<1> QED BY <1>2, <1>3

\* A wait gives the mutex up and sleeps: one who slept on the mutex is awake then.
LEMMA UntilSleep ==
  ASSUME Shape, Placed, Sleep, NEW t \in Tids, Advances(t), life' = life, Until(t)
  PROVE  Sleep'
<1>1. /\ Runs(t, "until", "start") /\ UNCHANGED <<cond, rw, pool>>
      /\ parked[t] = "no" /\ at[t] = "start" /\ life[t] = "live" /\ Cmd(t).op = "until" /\ ~Contends(t)
  BY DEF Until, Runs, Cmd, Contends
<1>2. CASE flag
  <2>1. UNCHANGED <<parked, mutex, sampled>>
    BY <1>2 DEF Until
  <2> QED BY <1>1, <2>1, QuietAdvance
<1>3. CASE ~flag
  <2>1. /\ sampled' = [sampled EXCEPT ![t] = cond] /\ mutex' = Unlocked(t) /\ Goto(t, "waited")
    BY <1>3 DEF Until
  <2>2. PICK woken \in IF StaysLocked(t) THEN {parked} ELSE WakeOne("mutex") :
          parked' = [woken EXCEPT ![t] = "cond"]
    BY <1>3 DEF Until
  <2>a. parked \in [Tids -> Beds] /\ sampled \in [Tids -> Nat] /\ cond \in Nat /\ at \in [Tids -> Sites]
    BY DEF Sleep, Shape
  <2>3. /\ woken \in [Tids -> Beds] /\ \A u \in Tids : woken[u] \in {parked[u], "no"}
        /\ \/ StaysLocked(t) \/ (\A u \in Tids : parked[u] # "mutex")
           \/ \E v \in Tids : parked[v] = "mutex" /\ woken[v] = "no"
    <3>1. CASE StaysLocked(t)
      BY <2>2, <2>a, <3>1
    <3>2. CASE ~StaysLocked(t)
      <4>1. woken \in WakeOne("mutex")
        BY <2>2, <3>2
      <4>2. CASE \A u \in Tids : parked[u] # "mutex"
        BY <2>a, <4>1, <4>2 DEF WakeOne
      <4>3. CASE \E u \in Tids : parked[u] = "mutex"
        <5>1. PICK v \in Tids : parked[v] = "mutex" /\ woken = [parked EXCEPT ![v] = "no"]
          BY <4>1, <4>3 DEF WakeOne
        <5> QED BY <2>a, <5>1 DEF Beds
      <4> QED BY <4>2, <4>3
    <3> QED BY <3>1, <3>2
  <2>4. /\ parked' \in [Tids -> Beds] /\ parked'[t] = "cond"
        /\ \A u \in Tids \ {t} : parked'[u] = woken[u] /\ parked'[u] \in {parked[u], "no"}
    BY <2>2, <2>3 DEF Beds
  <2>5. /\ at'[t] = "waited" /\ todo' = todo /\ sampled' \in [Tids -> Nat] /\ sampled'[t] = cond
        /\ \A u \in Tids \ {t} : at'[u] = at[u] /\ sampled'[u] = sampled[u]
    BY <2>1, <2>a DEF Goto
  <2>6. ASSUME NEW u \in Tids, u # t, life[u] = "live"
        PROVE  /\ Cmd(u)' = Cmd(u) /\ (Contends(u)' <=> Contends(u))
               /\ \A op : at[u] = "signal" /\ Cmd(u).op = op => Signals(op)'
               /\ Asleep(u) /\ parked'[u] = parked[u] => Asleep(u)'
    <3>1. Undisturbed(u)
      BY <2>5, <2>6 DEF Undisturbed
    <3> QED BY <2>6, <3>1, RoleStays
  <2>7. ASSUME NEW op, Signals(op) PROVE Signals(op)'
    <3>1. PICK u \in Tids : life[u] = "live" /\ at[u] = "signal" /\ Cmd(u).op = op
      BY <2>7 DEF Signals
    <3> QED BY <1>1, <2>6, <3>1
  <2>8. Asleep(t)' /\ Owed(t)'
    BY <1>1, <2>4, <2>5 DEF Asleep, Owed
  <2>9. ASSUME NEW u \in Tids, u # t PROVE Asleep(u)' /\ Owed(u)'
    <3>1. Asleep(u) /\ Owed(u)
      BY DEF Sleep, NobodyOversleeps
    <3>2. CASE parked'[u] = "no"
      BY <3>2 DEF Asleep, Owed
    <3>3. CASE parked'[u] # "no"
      <4>1. parked'[u] = parked[u] /\ parked'[u] = woken[u] /\ life[u] = "live"
        BY <2>4, <2>9, <3>1, <3>3 DEF Asleep
      <4>2. Cmd(u)' = Cmd(u) /\ Asleep(u)'
        BY <2>6, <2>9, <3>1, <4>1
      <4>3. ASSUME parked'[u] = "mutex", mutex'.count = 0
            PROVE  Signals("unlock")' \/ \E v \in Tids : Contends(v)' /\ parked'[v] = "no"
        <5>1. ~StaysLocked(t)
          BY <2>1, <4>3 DEF Unlocked, StaysLocked, Shape
        <5>2. PICK v \in Tids : parked[v] = "mutex" /\ woken[v] = "no"
          BY <2>3, <4>1, <4>3, <5>1
        <5>3. v # t /\ Contends(v)
          BY <1>1, <5>2 DEF Sleep, Asleep
        <5>4. Contends(v)' /\ parked'[v] = "no"
          BY <2>4, <2>6, <5>2, <5>3 DEF Contends
        <5> QED BY <5>4
      <4>4. ASSUME ~pool.shutdown, pool.queue # <<>>, parked[u] = "job_ready"
            PROVE  Signals("ppost")' \/ \E v \in PoolWorkers : life'[v] = "live" /\ parked'[v] # "job_ready"
        <5>1. CASE Signals("ppost")
          BY <2>7, <5>1
        <5>2. CASE \E v \in PoolWorkers : life[v] = "live" /\ parked[v] # "job_ready"
          <6>1. PICK v \in PoolWorkers : life[v] = "live" /\ parked[v] # "job_ready"
            BY <5>2
          <6>2. v \in Tids
            BY DEF Tids
          <6> QED BY <2>4, <6>1, <6>2
        <5> QED BY <3>1, <4>4, <5>1, <5>2 DEF Owed
      <4>5. Owed(u)'
        BY <1>1, <2>5, <2>7, <2>9, <3>1, <4>1, <4>2, <4>3, <4>4 DEF Owed
      <4> QED BY <4>2, <4>5
    <3> QED BY <3>2, <3>3
  <2> QED BY <1>1, <2>4, <2>5, <2>8, <2>9, <2>a DEF Sleep, NobodyOversleeps
<1> QED BY <1>2, <1>3

\* A waiter sleeps on while the generation is the one it sampled, or goes for
\* the mutex.
LEMMA RecheckSleep ==
  ASSUME Shape, Placed, Sleep, NEW t \in Tids, Advances(t), life' = life, Recheck(t) \/ TimeOut(t)
  PROVE  Sleep'
<1>1. /\ life[t] = "live" /\ at[t] = "waited" /\ todo' = todo /\ ~Contends(t)
      /\ UNCHANGED <<mutex, cond, sampled, rw, pool>>
  BY DEF Recheck, TimeOut, Runs, Goto, lockVars, Contends
<1>2. CASE Recheck(t) /\ cond = sampled[t]
  <2>1. Park(t, "cond") /\ UNCHANGED at
    BY <1>2 DEF Recheck
  <2>2. parked'[t] = "cond"
    BY <2>1 DEF Park, Sleep
  <2>3. Asleep(t)' /\ Owed(t)'
    BY <1>1, <1>2, <2>1, <2>2 DEF Asleep, Owed
  <2> QED BY <1>1, <2>1, <2>3, SleepingStep DEF Beds
<1>3. CASE ~(Recheck(t) /\ cond = sampled[t])
  <2>1. (parked' = parked /\ parked[t] = "no") \/ parked' = [parked EXCEPT ![t] = "no"]
    BY <1>3 DEF Recheck, TimeOut, Runs
  <2>2. parked' \in [Tids -> Beds] /\ parked'[t] = "no" /\ \A u \in Tids : parked'[u] \in {parked[u], "no"}
    BY <2>1 DEF Sleep, Beds
  <2>3. \A u \in Tids \ {t} : life[u] = "live" => Undisturbed(u)
    BY AdvanceEffect DEF Others, Undisturbed
  <2>4. Harmless(t)
    BY <1>1, <2>2, <2>3 DEF Harmless, Sleep
  <2> QED BY <2>4, HarmlessStep
<1> QED BY <1>2, <1>3

\* tpool::get and tpool::wait have what they want, or sleep.
LEMMA PoolAskSleep ==
  ASSUME Shape, Placed, Sleep, NEW t \in Tids, Advances(t), life' = life, PoolGet(t) \/ PoolWait(t)
  PROVE  Sleep'
<1>1. /\ parked[t] = "no" /\ at[t] = "found" /\ todo[t] # <<>> /\ Cmd(t).op \in {"pget", "pwait"}
      /\ life[t] = "live" /\ UNCHANGED <<mutex, cond, sampled, rw>> /\ ~Contends(t)
      /\ pool \in [handle : BOOLEAN, queue : Seq(Posted), results : SUBSET Nat, shutdown : BOOLEAN]
  BY DEF PoolGet, PoolWait, Runs, Cmd, Shape, Contends, lockVars
<1>2. CASE parked' = parked
  <2>1. /\ pool'.queue = pool.queue /\ pool'.shutdown = pool.shutdown
        /\ pool'.results \subseteq pool.results
    BY <1>1, <1>2 DEF PoolGet, PoolWait
  <2>2. \A u \in Tids \ {t} : life[u] = "live" => Undisturbed(u)
    BY AdvanceEffect DEF Others, Undisturbed
  <2>3. Harmless(t)
    BY <1>1, <1>2, <2>1, <2>2 DEF Harmless, Sleep
  <2> QED BY <2>3, HarmlessStep
<1>3. CASE parked' # parked
  <2>1. /\ Park(t, "done") /\ UNCHANGED <<todo, at, pool>>
        /\ \/ Cmd(t).op = "pget" /\ Cmd(t).job \notin pool.results /\ ~pool.shutdown
           \/ Cmd(t).op = "pwait" /\ Cmd(t).jobs \cap pool.results = {}
    BY <1>3 DEF PoolGet, PoolWait, Runs, Cmd
  <2>2. parked'[t] = "done" /\ Cmd(t)' = Cmd(t)
    BY <2>1 DEF Park, Sleep, Cmd
  <2>3. Asleep(t)' /\ Owed(t)'
    BY <1>1, <2>1, <2>2 DEF Asleep, Owed
  <2> QED BY <1>1, <2>1, <2>3, SleepingStep DEF Beds
<1> QED BY <1>2, <1>3

\* A pool worker leaves, takes a job, or sleeps while there is none.
LEMMA PoolNextSleep ==
  ASSUME Shape, Placed, Sleep, NEW t \in Tids, PoolNext(t)
  PROVE  Sleep'
<1>1. /\ t \in PoolWorkers /\ life[t] = "live" /\ todo[t] = <<>> /\ at[t] = "start" /\ at' = at
      /\ parked[t] = "no" /\ UNCHANGED <<mutex, cond, sampled, rw>> /\ Others(t) /\ ~Contends(t)
      /\ pool \in [handle : BOOLEAN, queue : Seq(Posted), results : SUBSET Nat, shutdown : BOOLEAN]
  BY PoolNextEffect DEF PoolNext, Shape, Contends, lockVars
<1>2. CASE ~pool.shutdown /\ pool.queue = <<>>
  <2>1. Park(t, "job_ready") /\ UNCHANGED <<todo, life, pool>>
    BY <1>2 DEF PoolNext
  <2>2. parked'[t] = "job_ready"
    BY <2>1 DEF Park, Sleep
  <2>3. Asleep(t)' /\ Owed(t)'
    BY <1>1, <1>2, <2>1, <2>2 DEF Asleep, Owed
  <2> QED BY <1>1, <1>2, <2>1, <2>3, SleepingStep DEF Beds
<1>3. CASE pool.shutdown \/ pool.queue # <<>>
  <2>1. /\ parked' = parked /\ pool'.shutdown = pool.shutdown /\ pool'.results = pool.results
        /\ pool'.queue # <<>> => pool.queue # <<>>
        /\ life' = life \/ (pool.shutdown /\ life' = [life EXCEPT ![t] = "gone"])
    BY <1>1, <1>3 DEF PoolNext
  <2>2. \A u \in Tids \ {t} : life[u] = "live" => Undisturbed(u)
    BY <1>1, <2>1 DEF Others, Undisturbed, Shape
  <2>3. Harmless(t)
    BY <1>1, <2>1, <2>2 DEF Harmless, Sleep
  <2> QED BY <2>3, HarmlessStep
<1> QED BY <1>2, <1>3

\* Threads are born and the pool's handle comes and goes: nobody is put to sleep.
LEMMA BirthSleep ==
  ASSUME Shape, Placed, Sleep, NEW t \in Tids,
         Spawn(t) \/ (Advances(t) /\ PoolCreate(t)) \/ (Advances(t) /\ PoolRelease(t))
  PROVE  Sleep'
<1>1. /\ parked[t] = "no" /\ at[t] \notin {"signal", "relock"} /\ Cmd(t).op # "lock" /\ life[t] = "live"
      /\ UNCHANGED <<parked, mutex, cond, sampled, rw>> /\ ~Contends(t)
  BY DEF Spawn, PoolCreate, PoolRelease, Runs, Cmd, Contends, lockVars
<1>2. pool'.queue = pool.queue /\ pool'.shutdown = pool.shutdown /\ pool'.results = pool.results
  BY DEF Spawn, PoolCreate, PoolRelease, Shape
<1>3. \A u \in Tids : life[u] = "live" => life'[u] = "live"
  BY SpawnEffect DEF PoolCreate, PoolRelease, Shape, registryVars
<1>4. \A u \in Tids \ {t} : life[u] = "live" => Undisturbed(u)
  <2>1. CASE Spawn(t)
    BY <1>3, <2>1, SpawnEffect DEF Undisturbed
  <2>2. CASE Advances(t)
    BY <1>3, <2>2, AdvanceEffect DEF Others, Undisturbed
  <2> QED BY <2>1, <2>2
<1>5. Harmless(t)
  BY <1>1, <1>2, <1>3, <1>4 DEF Harmless, Sleep
<1> QED BY <1>5, HarmlessStep

\* thread::wait takes a job or ends; a worker ends.
LEMMA WorkerSleep ==
  ASSUME Shape, Placed, Sleep, NEW w \in Workers, WorkerStep(w)
  PROVE  Sleep'
<1>0. w \in Tids /\ w \notin PoolWorkers
  BY ThreadAssumption DEF Tids
<1>1. UNCHANGED <<parked, mutex, cond, sampled, rw, pool>>
  BY DEF WorkerStep, ServeJob, LeaveLoop, Deregister, Exit, lockVars
<1>2. /\ parked[w] = "no" /\ at[w] = "start" /\ ~Contends(w)
      /\ \A u \in Tids \ {w} : life[u] = "live" => Undisturbed(u)
  <2>1. CASE ServeJob(w)
    <3>1. /\ at[w] = "start" /\ Cmd(w).op = "wait" /\ life' = life /\ Others(w) /\ parked[w] = "no"
      BY <2>1, ServeEffect DEF ServeJob, Runs
    <3> QED BY <3>1 DEF Contends, Others, Undisturbed
  <2>2. CASE LeaveLoop(w)
    <3>1. /\ at[w] = "start" /\ Cmd(w).op = "wait" /\ life' = life /\ Advances(w) /\ parked[w] = "no"
      BY <2>2, QuietEffect DEF LeaveLoop, Runs
    <3>2. Others(w)
      BY <1>0, <3>1, AdvanceEffect
    <3> QED BY <3>1, <3>2 DEF Contends, Others, Undisturbed
  <2>3. CASE Deregister(w) \/ Exit(w)
    <3>1. /\ todo[w] = <<>> /\ UNCHANGED <<todo, at>>
          /\ life' = [life EXCEPT ![w] = "leaving"] \/ life' = [life EXCEPT ![w] = "gone"]
      BY <2>3, QuietEffect
    <3>2. at[w] = "start"
      BY <1>0, <3>1 DEF Placed
    <3>3. parked[w] = "no"
      BY <1>0, <3>1, <3>2 DEF Sleep, Asleep, Contends, Beds
    <3> QED BY <1>0, <3>1, <3>2, <3>3 DEF Contends, Undisturbed, Shape
  <2> QED BY <2>1, <2>2, <2>3 DEF WorkerStep
<1>3. Harmless(w)
  BY <1>0, <1>1, <1>2 DEF Harmless, Sleep
<1> QED BY <1>0, <1>3, HarmlessStep

\* What notify_one and notify_all leave asleep.
LEMMA WakeEffect ==
  ASSUME Sleep, NEW op \in Signalling, parked' \in Woken(op)
  PROVE  /\ parked' \in [Tids -> Beds] /\ \A u \in Tids : parked'[u] \in {parked[u], "no"}
         /\ op = "unlock" => \/ \A u \in Tids : parked'[u] # "mutex"
                             \/ \E v \in Tids : parked[v] = "mutex" /\ parked'[v] = "no"
         /\ op = "notify" => \A u \in Tids : parked'[u] # "cond"
         /\ op = "rwunlock" => \A u \in Tids : parked'[u] # "rw"
         /\ op = "ppost" => \/ \A u \in Tids : parked'[u] # "job_ready"
                            \/ \E v \in Tids : parked[v] = "job_ready" /\ parked'[v] = "no"
         /\ op = "finish" => \A u \in Tids : parked'[u] # "done"
         /\ op = "prelease" => \A u \in Tids : parked'[u] \notin {"job_ready", "done"}
<1>a. parked \in [Tids -> Beds]
  BY DEF Sleep
<1>1. ASSUME NEW cv \in Beds, parked' \in WakeOne(cv)
      PROVE  /\ parked' \in [Tids -> Beds] /\ \A u \in Tids : parked'[u] \in {parked[u], "no"}
             /\ \/ \A u \in Tids : parked'[u] # cv
                \/ \E v \in Tids : parked[v] = cv /\ parked'[v] = "no"
  <2>1. CASE \A u \in Tids : parked[u] # cv
    BY <1>1, <1>a, <2>1 DEF WakeOne
  <2>2. CASE \E u \in Tids : parked[u] = cv
    <3>1. PICK v \in Tids : parked[v] = cv /\ parked' = [parked EXCEPT ![v] = "no"]
      BY <1>1, <2>2 DEF WakeOne
    <3> QED BY <1>a, <3>1 DEF Beds
  <2> QED BY <2>1, <2>2
<1>2. ASSUME NEW cvs \in SUBSET (Beds \ {"no"}), parked' = WakeAll(cvs)
      PROVE  /\ parked' \in [Tids -> Beds] /\ \A u \in Tids : parked'[u] \in {parked[u], "no"}
             /\ \A u \in Tids : parked'[u] \notin cvs
  <2>1. \A u \in Tids : parked'[u] = IF parked[u] \in cvs THEN "no" ELSE parked[u]
    BY <1>2 DEF WakeAll
  <2>2. parked' \in [Tids -> Beds]
    BY <1>2, <1>a DEF WakeAll, Beds
  <2> QED BY <2>1, <2>2
<1>3. CASE op = "unlock"
  BY <1>1, <1>3 DEF Woken, Beds
<1>4. CASE op = "notify"
  <2>1. parked' = WakeAll({"cond"})
    BY <1>4 DEF Woken
  <2> QED BY <1>2, <1>4, <2>1 DEF Beds
<1>5. CASE op = "rwunlock"
  <2>1. parked' = WakeAll({"rw"})
    BY <1>5 DEF Woken
  <2> QED BY <1>2, <1>5, <2>1 DEF Beds
<1>6. CASE op = "ppost"
  BY <1>1, <1>6 DEF Woken, Beds
<1>7. CASE op = "finish"
  <2>1. parked' = WakeAll({"done"})
    BY <1>7 DEF Woken
  <2> QED BY <1>2, <1>7, <2>1 DEF Beds
<1>8. CASE op = "prelease"
  <2>1. parked' = WakeAll({"job_ready", "done"})
    BY <1>8 DEF Woken
  <2> QED BY <1>2, <1>8, <2>1 DEF Beds
<1> QED BY <1>3, <1>4, <1>5, <1>6, <1>7, <1>8 DEF Signalling

\* The notification a command ends with: what it announced is done.
LEMMA SignalSleep ==
  ASSUME Shape, Placed, Sleep, NEW t \in Tids, Advances(t), life' = life, Signal(t)
  PROVE  Sleep'
<1>1. /\ life[t] = "live" /\ at[t] = "signal" /\ Cmd(t).op \in Signalling /\ parked' \in Woken(Cmd(t).op)
      /\ UNCHANGED <<mutex, cond, sampled, rw, pool>> /\ ~Contends(t)
  BY DEF Signal, Placed, Fits, Contends, lockVars
<1>2. /\ parked' \in [Tids -> Beds] /\ \A u \in Tids : parked'[u] \in {parked[u], "no"}
  BY <1>1, WakeEffect
<1>3. parked[t] = "no"
  BY <1>1 DEF Sleep, Asleep, Beds
<1>4. ASSUME NEW u \in Tids, u # t, life[u] = "live"
      PROVE  /\ Cmd(u)' = Cmd(u) /\ (Contends(u)' <=> Contends(u))
             /\ \A op : at[u] = "signal" /\ Cmd(u).op = op => Signals(op)'
             /\ Asleep(u) /\ parked'[u] = parked[u] => Asleep(u)'
  <2>1. Undisturbed(u)
    BY <1>4, AdvanceEffect DEF Others, Undisturbed
  <2> QED BY <1>4, <2>1, RoleStays
<1>5. ASSUME NEW op, Signals(op), op # Cmd(t).op PROVE Signals(op)'
  <2>1. PICK u \in Tids : life[u] = "live" /\ at[u] = "signal" /\ Cmd(u).op = op
    BY <1>5 DEF Signals
  <2> QED BY <1>4, <1>5, <2>1
<1>6. ASSUME NEW u \in Tids, parked'[u] # "no"
      PROVE  u # t /\ parked'[u] = parked[u] /\ life[u] = "live" /\ Cmd(u)' = Cmd(u) /\ Asleep(u)'
  <2>1. u # t /\ parked'[u] = parked[u]
    BY <1>2, <1>3, <1>6
  <2>2. life[u] = "live" /\ Asleep(u)
    BY <1>6, <2>1 DEF Sleep, Asleep
  <2> QED BY <1>4, <2>1, <2>2
<1>7. ASSUME NEW u \in Tids PROVE Owed(u)'
  <2>0. Owed(u)
    BY DEF Sleep, NobodyOversleeps
  <2>1. ASSUME parked'[u] = "mutex", mutex'.count = 0
        PROVE  Signals("unlock")' \/ \E v \in Tids : Contends(v)' /\ parked'[v] = "no"
    <3>1. CASE \E v \in Tids : Contends(v) /\ parked'[v] = "no"
      <4>1. PICK v \in Tids : Contends(v) /\ parked'[v] = "no"
        BY <3>1
      <4> QED BY <1>1, <1>4, <4>1 DEF Contends
    <3>2. CASE Cmd(t).op = "unlock"
      <4>1. PICK v \in Tids : parked[v] = "mutex" /\ parked'[v] = "no"
        BY <1>1, <2>1, <3>2, WakeEffect
      <4>2. Contends(v)
        BY <4>1 DEF Sleep, Asleep
      <4> QED BY <3>1, <4>1, <4>2
    <3>3. CASE Cmd(t).op # "unlock"
      <4>1. parked[u] = "mutex" /\ mutex.count = 0
        BY <1>1, <1>6, <2>1
      <4> QED BY <1>2, <1>5, <2>0, <3>1, <3>3, <4>1 DEF Owed
    <3> QED BY <3>2, <3>3
  <2>2. ASSUME parked'[u] = "cond", cond' # sampled'[u] PROVE Signals("notify")'
    <3>1. Cmd(t).op # "notify"
      BY <1>1, <2>2, WakeEffect
    <3> QED BY <1>1, <1>5, <1>6, <2>0, <2>2, <3>1 DEF Owed
  <2>3. ASSUME parked'[u] = "rw", ~rw'.writer, Cmd(u)'.op = "rlock" \/ rw'.readers = 0
        PROVE  Signals("rwunlock")'
    <3>1. Cmd(t).op # "rwunlock"
      BY <1>1, <2>3, WakeEffect
    <3> QED BY <1>1, <1>5, <1>6, <2>0, <2>3, <3>1 DEF Owed
  <2>4. ASSUME parked'[u] = "job_ready", pool'.shutdown PROVE Signals("prelease")'
    <3>1. Cmd(t).op # "prelease"
      BY <1>1, <2>4, WakeEffect
    <3> QED BY <1>1, <1>5, <1>6, <2>0, <2>4, <3>1 DEF Owed
  <2>5. ASSUME parked'[u] = "job_ready", ~pool'.shutdown, pool'.queue # <<>>
        PROVE  Signals("ppost")' \/ \E v \in PoolWorkers : life'[v] = "live" /\ parked'[v] # "job_ready"
    <3>1. CASE Cmd(t).op = "ppost"
      <4>1. PICK v \in Tids : parked[v] = "job_ready" /\ parked'[v] = "no"
        BY <1>1, <2>5, <3>1, WakeEffect
      <4>2. v \in PoolWorkers /\ life[v] = "live"
        BY <4>1 DEF Sleep, Asleep
      <4> QED BY <4>1, <4>2
    <3>2. CASE Cmd(t).op # "ppost"
      <4>1. parked[u] = "job_ready" /\ ~pool.shutdown /\ pool.queue # <<>>
        BY <1>1, <1>6, <2>5
      <4>2. \A v \in PoolWorkers : parked[v] # "job_ready" => parked'[v] # "job_ready"
        BY <1>2 DEF Tids
      <4> QED BY <1>5, <2>0, <3>2, <4>1, <4>2 DEF Owed
    <3> QED BY <3>1, <3>2
  <2>6. ASSUME parked'[u] = "done"
        PROVE  /\ Cmd(u)'.op = "pget" /\ Cmd(u)'.job \in pool'.results => Signals("finish")'
               /\ Cmd(u)'.op = "pget" /\ pool'.shutdown => Signals("prelease")'
               /\ Cmd(u)'.op = "pwait" /\ Cmd(u)'.jobs \cap pool'.results # {} => Signals("finish")'
    <3>1. Cmd(t).op \notin {"finish", "prelease"}
      BY <1>1, <2>6, WakeEffect
    <3> QED BY <1>1, <1>5, <1>6, <2>0, <2>6, <3>1 DEF Owed
  <2> QED BY <2>1, <2>2, <2>3, <2>4, <2>5, <2>6 DEF Owed
<1>8. ASSUME NEW u \in Tids PROVE Asleep(u)'
  <2>1. CASE parked'[u] = "no"
    BY <2>1 DEF Asleep
  <2> QED BY <1>6, <2>1
<1> QED BY <1>1, <1>2, <1>7, <1>8 DEF Sleep, NobodyOversleeps

\* Every step leaves nobody asleep on what has happened.
LEMMA SleepKept ==
  ASSUME Shape, Placed, Sleep, [Next]_vars
  PROVE  Sleep'
<1>1. ASSUME NEW t \in Tids, Step(t) \/ TimeOut(t) PROVE Sleep'
  <2>1. CASE Spawn(t)
    BY <2>1, BirthSleep
  <2>2. CASE PoolNext(t)
    BY <2>2, PoolNextSleep
  <2>3. CASE Advances(t) /\ PoolCreate(t)
    BY <2>3, BirthSleep
  <2>4. CASE Advances(t) /\ life' = life
    <3>1. CASE \/ Create(t) \/ StoreHandle(t) \/ Send(t) \/ Post(t) \/ Answered(t) \/ Reply(t)
               \/ Release(t) \/ Tell(t) \/ Join(t) \/ Set(t) \/ PoolLookup(t) \/ PoolJoin(t)
      BY <2>4, <3>1, RegistrySleep
    <3>2. CASE Lock(t) \/ Relock(t)
      BY <2>4, <3>2, TakeSleep
    <3>3. CASE Unlock(t)
      BY <2>4, <3>3, UnlockSleep
    <3>4. CASE Notify(t) \/ RwUnlock(t) \/ PoolPost(t) \/ PoolShutdown(t) \/ PoolFinish(t)
      BY <2>4, <3>4, AnnouncedSleep
    <3>5. CASE ReadLock(t) \/ WriteLock(t)
      BY <2>4, <3>5, RwSleep
    <3>6. CASE Until(t)
      BY <2>4, <3>6, UntilSleep
    <3>7. CASE Recheck(t) \/ TimeOut(t)
      BY <2>4, <3>7, RecheckSleep
    <3>8. CASE PoolGet(t) \/ PoolWait(t)
      BY <2>4, <3>8, PoolAskSleep
    <3>9. CASE PoolRelease(t) \/ PoolCreate(t)
      BY <2>4, <3>9, BirthSleep
    <3>10. CASE Signal(t)
      BY <2>4, <3>10, SignalSleep
    <3> QED
      BY <1>1, <2>1, <2>2, <3>1, <3>2, <3>3, <3>4, <3>5, <3>6, <3>7, <3>8, <3>9, <3>10 DEF Step
  <2> QED BY <1>1, <2>1, <2>2, <2>3, <2>4, StepSummary
<1>2. ASSUME NEW t \in Tids, Spurious(t) PROVE Sleep'
  <2>1. /\ parked' = [parked EXCEPT ![t] = "no"]
        /\ UNCHANGED <<todo, at, life, cond, sampled, rw, pool, mutex>>
    BY <1>2 DEF Spurious, registryVars, lockVars
  <2> QED BY <2>1, WakingStep
<1>3. ASSUME NEW w \in Workers, WorkerStep(w) PROVE Sleep'
  BY <1>3, WorkerSleep
<1>4. CASE UNCHANGED vars
  <2>1. UNCHANGED <<todo, at, parked, life, mutex, cond, sampled, rw, pool>>
    BY <1>4 DEF vars
  <2>2. ASSUME NEW t \in Tids PROVE Cmd(t)' = Cmd(t) /\ (Contends(t)' <=> Contends(t))
    BY <2>1 DEF Cmd, Contends
  <2>3. \A op : Signals(op)' <=> Signals(op)
    BY <2>1, <2>2 DEF Signals
  <2>4. ASSUME NEW t \in Tids PROVE Asleep(t)' /\ Owed(t)'
    <3>1. Asleep(t) /\ Owed(t)
      BY DEF Sleep, NobodyOversleeps
    <3>2. Asleep(t)'
      BY <2>1, <2>2, <3>1 DEF Asleep
    <3>3. Owed(t)'
      BY <2>1, <2>2, <2>3, <3>1 DEF Owed
    <3> QED BY <3>2, <3>3
  <2> QED BY <2>1, <2>4 DEF Sleep, NobodyOversleeps
<1> QED BY <1>1, <1>2, <1>3, <1>4 DEF Next

\* No wakeup is lost, for any scripts, whichever sleeper notify_one chooses and
\* whatever wakes for no reason.  A thread asleep in a lock of TclMutex, on a
\* TclCond, in a TclRwMutex, in a pool worker or in tpool::get sleeps on what has
\* not happened; otherwise the thread that made it happen has still to notify or,
\* after a notify_one, somebody awake contends for the mutex or serves the pool.
\* (tpool::wait is owed the end of its jobs only: it does not look at shutdown.)
THEOREM WakeupsReachSleepers == Spec => []NobodyOversleeps
<1> DEFINE Inv == Shape /\ Placed /\ Sleep
<1>1. Init => Inv
  <2> SUFFICES ASSUME Init PROVE Inv
    OBVIOUS
  <2>1. /\ parked = [t \in Tids |-> "no"] /\ sampled = [t \in Tids |-> 0] /\ cond = 0
    BY DEF Init
  <2>2. parked \in [Tids -> Beds] /\ sampled \in [Tids -> Nat] /\ cond \in Nat
    BY <2>1 DEF Beds
  <2>3. ASSUME NEW t \in Tids PROVE Asleep(t) /\ Owed(t)
    BY <2>1 DEF Asleep, Owed
  <2> QED BY <2>2, <2>3, ThreadsStart DEF Sleep, NobodyOversleeps
<1>2. Inv /\ [Next]_vars => Inv'
  BY ShapeKept, PlacedKept, SleepKept
<1>3. Inv => NobodyOversleeps
  BY DEF Sleep
<1> QED BY <1>1, <1>2, <1>3, PTL DEF Spec
=============================================================================
