------------------------ MODULE LoopLaunch_proofs ------------------------
(***************************************************************************)
(* Theorems about LoopLaunch, for any hosts, callers, labels and bounds:   *)
(* what a request or an executor task has read still fits the rows when it *)
(* is written, so that a rollout launched once has one host, which the     *)
(* board names, and a cancel reaches the builds it was asked to stop.      *)
(*                                                                         *)
(* The inductive invariant LoopIInv is the conjunction of                  *)
(*   TypeInv   the types, and ids that were given out;                     *)
(*   CallInv   where each request may be, and what it holds there;         *)
(*   TaskInv   what an executor task's row and the hosts say of it;        *)
(*   StopInv   what the runs passed over by a stop are waiting for;        *)
(*   FinalInv  a cancelled rollout is not written again;                   *)
(*   DrainInv  the hosts a request or a task has read, and when;           *)
(*   FreeInv   the launches that have no host yet;                         *)
(*   OwnerInv  the one home of the rollout's loops;                        *)
(*   UnmetInv  a run refused for want of a host was refused for cause.     *)
(* The sections below take them in that order, one lemma per action.       *)
(***************************************************************************)
EXTENDS LoopLaunch, TLAPS, FiniteSetTheorems, SequenceTheorems

-----------------------------------------------------------------------------
(* Types *)

OpNames    == Ops \cup {"none"}
CallPlaces == {"none", "read", "hosts", "insert", "pin", "start", "started", "enqueue",
               "runs", "resume", "sweep", "write", "children", "stop", "forward", "rollout"}
TaskPlaces == {"none", "status", "hosts", "pick", "post", "confirm", "write", "recall",
               "twin", "fail", "watch"}
Reasons    == {"none", "lost"} \cup Refusal
Entry      == [run : Nat, url : Host \cup {Nil}]
CallType   == [op : OpNames, at : CallPlaces, id : Nat, allow : BOOLEAN, run : Nat,
               saw : Status \cup {"none"}, todo : SUBSET Entry, before : BOOLEAN]
TaskType   == [at : TaskPlaces, rows : Rows \cup {<<>>}, out : SUBSET Host,
               host : Host \cup {Nil}, why : Reasons]

\* A row is migrated into an empty registry: at first, and after a removal.
HostsOK ==
  /\ reg \in Rows /\ ids \in Nat /\ changes \in 0..MaxChanges
  /\ \A h \in DOMAIN reg : reg[h].id \in 1..ids
  /\ ids <= Cardinality(Host) + 2 * changes + (IF DOMAIN reg = {} THEN 0 ELSE 1)
  /\ drainedAt \in [Host -> Nat]
RunsOK ==
  /\ rollout \in [status : Status, pin : 0..ids]
  /\ runs \in Seq(Run) /\ Len(runs) <= MaxRuns
  /\ \A r \in 1..Len(runs) : runs[r].pin <= ids
  /\ live \in [RunId -> Host \cup {Nil}]
  /\ held \in [Host -> 0..Len(runs)]
  /\ \A r \in RunId : r > Len(runs) => live[r] = Nil
\* The ids that a request or a task holds were given out.
TaskOf(t) == t \in TaskType /\ \A h \in DOMAIN t.rows : t.rows[h].id \in 1..ids
TasksOK ==
  /\ task \in [RunId -> TaskType]
  /\ \A r \in RunId : TaskOf(task[r])
  /\ \A r \in RunId : r > Len(runs) => task[r] = NoTask
CallOf(x) ==
  /\ x \in CallType
  /\ x.id <= ids /\ x.run <= Len(runs)
  /\ \A t \in x.todo : t.run \in 1..Len(runs)
CallsOK ==
  /\ call \in [Caller -> CallType]
  /\ \A c \in Caller : CallOf(call[c])
BoundsOK == asked \in 0..MaxCalls /\ faults \in 0..MaxFaults

TypeInv == HostsOK /\ RunsOK /\ TasksOK /\ CallsOK /\ BoundsOK

-----------------------------------------------------------------------------
(* Where a request and a task can be, and what they hold there *)

Position(x) ==
  \/ x.op = "none" /\ x.at = "none"
  \/ x.op = "launch" /\ x.at \in {"read", "hosts", "insert", "pin", "start", "started", "enqueue"}
  \/ x.op = "lead" /\ x.at \in {"read", "started"}
  \/ x.op = "resume" /\ x.at \in {"read", "runs", "hosts", "resume", "sweep", "insert", "enqueue"}
  \/ x.op \in {"halt", "cancel"} /\ x.at \in {"read", "write", "children", "stop", "forward"}
  \/ x.op = "stop" /\ x.at \in {"read", "children", "stop", "forward"}
  \/ x.op = "build" /\ x.at \in {"read", "rollout", "hosts", "insert", "enqueue"}
\* The request inserted a run that no task has yet.
Inserted(x) == x.at = "enqueue" \/ (x.op = "launch" /\ x.at \in {"pin", "start", "started"})
Unsent(r) ==
  /\ runs[r].status \in {"pending", "cancelled"} /\ runs[r].url = Nil /\ ~runs[r].remote
  /\ live[r] = Nil /\ \A h \in Host : held[h] # r

Fits(x) ==
  /\ Position(x)
  /\ Inserted(x) => /\ x.run \in 1..Len(runs) /\ task[x.run].at = "none" /\ Unsent(x.run)
                    /\ x.op = "launch" => runs[x.run].mode = "launch" /\ runs[x.run].pin = x.id
  /\ x.op = "resume" /\ x.at = "hosts" => x.run \in Loops
  /\ x.op = "resume" /\ x.at = "read" => x.id = 0
  /\ x.op = "stop" => x.run # 0
  /\ x.at = "forward" => x.todo # {} /\ First(x.todo).url # Nil
  /\ x.op = "halt" => \A t \in x.todo : t.url = Nil
CallInv ==
  /\ \A c \in Caller : Fits(call[c])
  /\ \A c, d \in Caller :
       Inserted(call[c]) /\ Inserted(call[d]) /\ call[c].run = call[d].run => c = d

Unrouted == {"status", "hosts", "pick", "post"}
TaskFits(r) ==
  /\ task[r].at \in Unrouted => Unsent(r)
  /\ task[r].at = "post" => task[r].host \in DOMAIN task[r].rows
  /\ task[r].at \in {"post", "confirm", "write", "recall", "twin"} => task[r].host \in Host
  /\ task[r].at \in {"fail", "confirm", "write", "recall", "twin"} =>
       runs[r].status \in {"pending", "cancelled"} /\ ~runs[r].remote /\ runs[r].url = Nil
  /\ task[r].at = "fail" => r \in excused \/ (live[r] = Nil /\ \A h \in Host : held[h] # r)
  /\ task[r].at = "recall" => runs[r].status = "cancelled"
  /\ task[r].at = "twin" => IsLoop(r)
  /\ task[r].at = "watch" => runs[r].status \in {"running", "cancelled"} /\ runs[r].remote
  /\ runs[r].status = "running" => runs[r].remote
  /\ runs[r].remote => runs[r].url # Nil
  /\ \A h \in Host : held[h] = r => IsLoop(r)
TaskInv == \A r \in 1..Len(runs) : TaskFits(r)

-----------------------------------------------------------------------------
(* A cancel reaches the builds *)

\* A cancel of the rollout has the run on its list.
Listed(r) == \E c \in Caller : /\ call[c].op = "cancel" /\ call[c].at \in {"stop", "forward"}
                               /\ \E t \in call[c].todo : t.run = r
\* A request has written the run's row and is about to tell its host.
Told(r) == \E c \in Caller : call[c].at = "forward" /\ First(call[c].todo).run = r
Selecting == \E c \in Caller : At(c, "cancel", "children")

\* Its task was told that the host has it, and has not written so yet.
Sending(r) == task[r].at \in {"confirm", "write", "recall"}

\* A build of a cancelled rollout: stopped, about to be, or over on its host.
Settled(r) == rollout.status = "cancelled" /\ ~Selecting =>
                \/ runs[r].status \notin Active \/ Listed(r)
                \/ live[r] = Nil /\ task[r].at = "watch"
\* The host of a run that was stopped will hear of it.
Reached(r) == live[r] # Nil /\ runs[r].status \notin Active => Told(r) \/ Sending(r)
\* A run without a remote id is on a host only while its task is writing that.
Handed(r)  == live[r] # Nil /\ ~runs[r].remote => Sending(r)
\* The row was written before the host is told.
Written(x) == x.at = "forward" => \/ First(x.todo).run \in excused
                                  \/ runs[First(x.todo).run].status \notin Active
StopInv ==
  /\ \A r \in 1..Len(runs) : ~IsLoop(r) => r \in excused \/ (Settled(r) /\ Reached(r) /\ Handed(r))
  /\ \A c \in Caller : Written(call[c])

-----------------------------------------------------------------------------
(* A cancelled rollout stays cancelled *)

\* The request has read a status and decided to write another.
Decided(x) ==
  \/ x.op = "halt" /\ x.at = "write"
  \/ x.at = "started"
  \/ x.op = "resume" /\ x.at \in {"runs", "hosts", "resume"} /\ x.saw = "halted"
FinalInv == rollout.status = "cancelled" =>
              \A c \in Caller : Decided(call[c]) => call[c].before

-----------------------------------------------------------------------------
(* Drains *)

\* A run that reads the host undrained was made before the drain there is now.
DrainInv ==
  \A r \in 1..Len(runs) :
    /\ \A h \in DOMAIN task[r].rows \cap DOMAIN reg :
         reg[h].drained => r <= drainedAt[h] \/ task[r].rows[h].drained
    /\ task[r].at = "post" => ~task[r].rows[task[r].host].drained \/ runs[r].allow

-----------------------------------------------------------------------------
(* The host that drives the rollout *)

\* The host each id was given to.
Given(own) ==
  /\ own \in [1..ids -> Host]
  /\ \A h \in DOMAIN reg : own[reg[h].id] = h
  /\ \A r \in RunId : \A h \in DOMAIN task[r].rows : own[task[r].rows[h].id] = h

\* The request asks for a loop on a host.
Asks(x) == x.op = "resume" /\ x.at \in {"runs", "hosts", "resume", "sweep", "insert"} /\ x.id # 0

\* The loops that were sent: all to one host.
SentTo(r, home) ==
  /\ live[r] \in {home, Nil} /\ runs[r].url \in {home, Nil}
  /\ \A h \in Host : held[h] = r => h = home
  /\ task[r].at \in {"confirm", "write", "recall", "twin"} => task[r].host = home
  /\ task[r].at = "post" /\ runs[r].pin # 0 => task[r].rows[task[r].host].id = runs[r].pin
\* What is asked for next: the same host.
AskedFor(own, home) ==
  /\ \A r \in Loops : runs[r].pin # 0 => own[runs[r].pin] = home
  /\ rollout.pin # 0 => own[rollout.pin] = home
  /\ \A c \in Caller : Asks(call[c]) => own[call[c].id] = home
HomeInv(own, home) ==
  Cardinality(Launches) <= 1 => (\A r \in Loops : SentTo(r, home)) /\ AskedFor(own, home)

\* Until a loop without a pin is known to be sent, nothing asks for another.
Unasked == rollout.pin = 0 /\ \A c \in Caller : ~Asks(call[c])
FreeInv ==
  /\ \A r \in Loops : runs[r].mode = "relaunch" => runs[r].pin # 0
  /\ \A c \in Caller : At(c, "resume", "insert") => call[c].id # 0
  /\ Cardinality(Launches) <= 1 =>
       /\ \A r \in Launches : runs[r].pin = 0 /\ runs[r].url = Nil => Loops = {r} /\ Unasked
       /\ Launches = {} => Loops = {} /\ Unasked

OwnerInv == \E own \in [1..ids -> Host], home \in Host \cup {Nil} :
              Given(own) /\ HomeInv(own, home)

UnmetInv ==
  \A r \in 1..Len(runs) :
    /\ task[r].at # "fail" => task[r].why = "none"
    /\ task[r].why = "unmet" =>
      \A h \in DOMAIN task[r].rows : runs[r].pin = 0 \/ task[r].rows[h].id = runs[r].pin
                                 => ~Qualified(task[r].rows[h], Need)

LEMMA ReadFacts ==
  ASSUME TypeInv, ReadHosts
  PROVE  /\ reg' \in Rows /\ ids' \in Nat /\ ids <= ids'
         /\ \A h \in DOMAIN reg' : reg'[h].id \in 1..ids'
         /\ ids' <= Cardinality(Host) + 2 * changes + (IF DOMAIN reg' = {} THEN 0 ELSE 1)
         /\ \/ reg' = reg /\ ids' = ids
            \/ /\ DOMAIN reg = {} /\ DOMAIN reg' = {Legacy} /\ ids' = ids + 1 /\ Legacy \in Host
               /\ reg'[Legacy] = [id |-> ids + 1, drained |-> FALSE, labels |-> {}]
PROOF
<1>1. Cardinality(Host) \in Nat /\ changes \in Nat
  BY LoopAssumption, FS_CardinalityType DEF TypeInv, HostsOK
<1>2. CASE Migrated = reg
  <2>1. reg' = reg /\ ids' = ids
    BY <1>2 DEF ReadHosts
  <2> QED BY <2>1 DEF TypeInv, HostsOK
<1>3. CASE Migrated # reg
  <2>1. /\ DOMAIN reg = {} /\ Legacy # Nil /\ ids' = ids + 1
        /\ reg' = [h \in {Legacy} |-> [id |-> ids + 1, drained |-> FALSE, labels |-> {}]]
    BY <1>3 DEF ReadHosts, Migrated
  <2>2. Legacy \in Host
    BY <2>1, LoopAssumption
  <2>3. /\ DOMAIN reg' = {Legacy}
        /\ reg'[Legacy] = [id |-> ids + 1, drained |-> FALSE, labels |-> {}]
    BY <2>1
  <2>4. ids + 1 \in Nat
    BY DEF TypeInv, HostsOK
  <2>5. [id |-> ids + 1, drained |-> FALSE, labels |-> {}] \in Row
    BY <2>4 DEF Row
  <2>6. reg' \in [{Legacy} -> Row]
    BY <2>1, <2>5
  <2>7. reg' \in Rows
    BY <2>6, <2>2 DEF Rows
  <2>8. ids <= Cardinality(Host) + 2 * changes
    BY <2>1, <1>1 DEF TypeInv, HostsOK
  <2> QED BY <2>1, <2>2, <2>3, <2>4, <2>7, <2>8, <1>1 DEF TypeInv, HostsOK
<1> QED BY <1>2, <1>3

\* What was given out stays given out, and no run goes away.
Grows == ids <= ids' /\ ids' \in Nat /\ Len(runs) <= Len(runs') /\ Len(runs') \in Nat

LEMMA NumbersType == ASSUME TypeInv PROVE ids \in Nat /\ Len(runs) \in Nat /\ MaxRuns \in Nat
PROOF BY LoopAssumption DEF TypeInv, HostsOK, RunsOK

LEMMA HostsKept ==
  ASSUME TypeInv, UNCHANGED <<hosts, changes, drainedAt>>
  PROVE  HostsOK' /\ ids' = ids /\ ids' \in Nat
PROOF BY DEF TypeInv, HostsOK, hosts

LEMMA HostsRead ==
  ASSUME TypeInv, ReadHosts, UNCHANGED <<changes, drainedAt>>
  PROVE  HostsOK' /\ ids <= ids' /\ ids' \in Nat
PROOF BY ReadFacts DEF TypeInv, HostsOK

LEMMA RunsKept ==
  ASSUME TypeInv, UNCHANGED <<rollout, runs, machine>>, ids <= ids', ids' \in Nat
  PROVE  RunsOK' /\ Grows
PROOF
<1>1. rollout \in [status : Status, pin : 0..ids']
  BY NumbersType DEF TypeInv, RunsOK
<1>2. ASSUME NEW r \in 1..Len(runs) PROVE runs[r].pin \in 0..MaxId
  <2>1. runs[r] \in Run
    BY DEF TypeInv, RunsOK
  <2> QED BY <2>1 DEF Run
<1>3. \A r \in 1..Len(runs) : runs[r].pin <= ids'
  BY <1>2, NumbersType DEF TypeInv, RunsOK
<1> QED BY <1>1, <1>3, NumbersType DEF TypeInv, RunsOK, machine, Grows

LEMMA TasksKept ==
  ASSUME TypeInv, UNCHANGED task, Grows
  PROVE  TasksOK'
PROOF
<1>1. ASSUME NEW r \in RunId PROVE TaskOf(task[r])'
  <2>1. TaskOf(task[r])
    BY DEF TypeInv, TasksOK
  <2>2. \A n : n \in 1..ids => n \in 1..ids'
    BY NumbersType DEF Grows
  <2> QED BY <2>1, <2>2 DEF TaskOf
<1>2. ASSUME NEW r \in RunId, r > Len(runs') PROVE task'[r] = NoTask
  BY <1>2, NumbersType DEF Grows, TypeInv, TasksOK, RunId
<1> QED BY <1>1, <1>2 DEF TypeInv, TasksOK

LEMMA CallStays ==
  ASSUME TypeInv, Grows, NEW x, CallOf(x)
  PROVE  CallOf(x)'
PROOF
<1>1. x.id \in Nat /\ x.run \in Nat /\ x.todo \in SUBSET Entry
  BY DEF CallOf, CallType
<1>2. \A n : n \in 1..Len(runs) => n \in 1..Len(runs')
  BY NumbersType DEF Grows
<1>3. x.id <= ids' /\ x.run <= Len(runs')
  BY <1>1, NumbersType DEF Grows, CallOf
<1> QED BY <1>2, <1>3 DEF CallOf

LEMMA CallsKept ==
  ASSUME TypeInv, UNCHANGED call, Grows
  PROVE  CallsOK'
PROOF BY CallStays DEF TypeInv, CallsOK

LEMMA CallSet ==
  ASSUME TypeInv, Grows, NEW c \in Caller, NEW x, CallOf(x)', call' = [call EXCEPT ![c] = x]
  PROVE  CallsOK'
PROOF
<1>1. x \in CallType
  BY DEF CallOf
<1>2. call' \in [Caller -> CallType]
  BY <1>1 DEF TypeInv, CallsOK
<1>3. ASSUME NEW d \in Caller PROVE CallOf(call[d])'
  <2>1. CASE d = c
    <3>1. call'[d] = x
      BY <2>1 DEF TypeInv, CallsOK
    <3> QED BY <3>1 DEF CallOf
  <2>2. CASE d # c
    <3>1. call'[d] = call[d]
      BY <2>2 DEF TypeInv, CallsOK
    <3>2. CallOf(call[d])
      BY DEF TypeInv, CallsOK
    <3> QED BY <3>1, <3>2, CallStays DEF CallOf
  <2> QED BY <2>1, <2>2
<1> QED BY <1>2, <1>3 DEF CallsOK

LEMMA NoCallOf == ASSUME TypeInv PROVE CallOf(NoCall)
PROOF
<1>2. NoCall \in CallType
  BY DEF NoCall, CallType, OpNames, Ops, CallPlaces, Status
<1> QED BY <1>2, NumbersType DEF CallOf, NoCall

LEMMA CallGo ==
  ASSUME TypeInv, Grows, NEW c \in Caller, NEW at \in CallPlaces, Go(c, at)
  PROVE  CallsOK'
PROOF
<1> DEFINE x == [call[c] EXCEPT !.at = at]
<1>1. CallOf(call[c]) /\ call \in [Caller -> CallType]
  BY DEF TypeInv, CallsOK
<1>2. call' = [call EXCEPT ![c] = x]
  BY <1>1 DEF Go
<1>3. CallOf(x)
  BY <1>1 DEF CallOf, CallType
<1> QED BY <1>2, <1>3, CallStays, CallSet

LEMMA CallEnd ==
  ASSUME TypeInv, Grows, NEW c \in Caller, End(c)
  PROVE  CallsOK'
PROOF BY NoCallOf, CallStays, CallSet DEF End

LEMMA CallThen ==
  ASSUME TypeInv, Grows, NEW c \in Caller, NEW ok, NEW at \in CallPlaces, Then(c, ok, at)
  PROVE  CallsOK'
PROOF BY CallGo, CallEnd DEF Then
LEMMA ReadsType ==
  ASSUME TypeInv, UNCHANGED <<hosts, rollout, runs, task, machine, bounds, drainedAt>>
  PROVE  HostsOK' /\ RunsOK' /\ TasksOK' /\ BoundsOK' /\ Grows
PROOF
<1>1. HostsOK' /\ ids' = ids /\ ids' \in Nat
  BY HostsKept DEF hosts, bounds
<1>2. RunsOK' /\ Grows
  BY <1>1, RunsKept DEF machine
<1>3. TasksOK'
  BY <1>2, TasksKept
<1> QED BY <1>1, <1>2, <1>3 DEF bounds, TypeInv, BoundsOK

LEMMA ReadingType ==
  ASSUME TypeInv, ReadHosts, UNCHANGED <<rollout, runs, task, machine, bounds, drainedAt>>
  PROVE  HostsOK' /\ RunsOK' /\ TasksOK' /\ BoundsOK' /\ Grows
PROOF
<1>1. HostsOK' /\ ids <= ids' /\ ids' \in Nat
  BY HostsRead DEF bounds
<1>2. RunsOK' /\ Grows
  BY <1>1, RunsKept DEF machine
<1>3. TasksOK'
  BY <1>2, TasksKept
<1> QED BY <1>1, <1>2, <1>3 DEF bounds, TypeInv, BoundsOK

\* A run that is there is changed, and keeps its pin.
LEMMA RunsSet ==
  ASSUME TypeInv, ids <= ids', ids' \in Nat,
         rollout' \in [status : Status, pin : 0..ids'],
         runs' \in Seq(Run), Len(runs') = Len(runs),
         \A r \in 1..Len(runs) : runs'[r].pin = runs[r].pin,
         live' \in [RunId -> Host \cup {Nil}],
         held' \in [Host -> 0..Len(runs)],
         \A r \in RunId : r > Len(runs) => live'[r] = Nil
  PROVE  RunsOK' /\ Grows
PROOF
<1>1. ASSUME NEW r \in 1..Len(runs) PROVE runs[r].pin <= ids'
  <2>1. runs[r] \in Run /\ runs[r].pin <= ids
    BY DEF TypeInv, RunsOK
  <2>2. runs[r].pin \in 0..MaxId
    BY <2>1 DEF Run
  <2> QED BY <2>1, <2>2, NumbersType
<1> QED BY <1>1, NumbersType DEF TypeInv, RunsOK, Grows

LEMMA RunSet ==
  ASSUME TypeInv, UNCHANGED <<rollout, machine>>, ids <= ids', ids' \in Nat,
         NEW r \in 1..Len(runs), NEW x \in Run, x.pin = runs[r].pin,
         runs' = [runs EXCEPT ![r] = x]
  PROVE  RunsOK' /\ Grows
PROOF
<1>1. runs' \in Seq(Run) /\ Len(runs') = Len(runs)
  BY DEF TypeInv, RunsOK
<1>2. \A q \in 1..Len(runs) : runs'[q].pin = runs[q].pin
  BY DEF TypeInv, RunsOK
<1>3. rollout' \in [status : Status, pin : 0..ids']
  BY NumbersType DEF TypeInv, RunsOK
<1> QED BY <1>1, <1>2, <1>3, RunsSet DEF machine, TypeInv, RunsOK

LEMMA TaskStays ==
  ASSUME TypeInv, Grows, NEW t, TaskOf(t)
  PROVE  TaskOf(t)'
PROOF
<1>1. \A n : n \in 1..ids => n \in 1..ids'
  BY NumbersType DEF Grows
<1> QED BY <1>1 DEF TaskOf

LEMMA TaskSet ==
  ASSUME TypeInv, Grows, NEW r \in RunId, r <= Len(runs), NEW t, TaskOf(t)',
         task' = [task EXCEPT ![r] = t]
  PROVE  TasksOK'
PROOF
<1>1. task' \in [RunId -> TaskType]
  BY DEF TypeInv, TasksOK, TaskOf
<1>2. ASSUME NEW q \in RunId PROVE TaskOf(task[q])'
  <2>1. CASE q = r
    <3>1. task'[q] = t
      BY <2>1 DEF TypeInv, TasksOK
    <3> QED BY <3>1 DEF TaskOf
  <2>2. CASE q # r
    <3>1. task'[q] = task[q]
      BY <2>2 DEF TypeInv, TasksOK
    <3>2. TaskOf(task[q])
      BY DEF TypeInv, TasksOK
    <3> QED BY <3>1, <3>2, TaskStays DEF TaskOf
  <2> QED BY <2>1, <2>2
<1>3. ASSUME NEW q \in RunId, q > Len(runs') PROVE task'[q] = NoTask
  <2>1. q # r /\ q > Len(runs)
    BY <1>3, NumbersType DEF Grows, RunId
  <2> QED BY <2>1 DEF TypeInv, TasksOK
<1> QED BY <1>1, <1>2, <1>3 DEF TasksOK

LEMMA NoTaskOf == NoTask \in TaskType /\ \A h \in DOMAIN NoTask.rows : FALSE
PROOF
<1>1. DOMAIN NoTask.rows = {}
  BY DEF NoTask
<1> QED BY <1>1 DEF NoTask, TaskType, TaskPlaces, Reasons

LEMMA TaskMoves ==
  ASSUME TypeInv, Grows, NEW r \in RunId, r <= Len(runs), NEW at \in TaskPlaces, TaskGo(r, at)
  PROVE  TasksOK'
PROOF
<1> DEFINE t == [task[r] EXCEPT !.at = at]
<1>1. TaskOf(task[r]) /\ task \in [RunId -> TaskType]
  BY DEF TypeInv, TasksOK
<1>2. task' = [task EXCEPT ![r] = t]
  BY <1>1 DEF TaskGo
<1>3. TaskOf(t)
  BY <1>1 DEF TaskOf, TaskType
<1> QED BY <1>2, <1>3, TaskStays, TaskSet

LEMMA TaskFails ==
  ASSUME TypeInv, Grows, NEW r \in RunId, r <= Len(runs), NEW why \in Reasons, FailWith(r, why)
  PROVE  TasksOK'
PROOF
<1> DEFINE t == [task[r] EXCEPT !.at = "fail", !.why = why]
<1>1. TaskOf(task[r]) /\ task \in [RunId -> TaskType]
  BY DEF TypeInv, TasksOK
<1>2. task' = [task EXCEPT ![r] = t]
  BY <1>1 DEF FailWith
<1>3. TaskOf(t)
  BY <1>1 DEF TaskOf, TaskType, TaskPlaces
<1> QED BY <1>2, <1>3, TaskStays, TaskSet

LEMMA TaskEnds ==
  ASSUME TypeInv, Grows, NEW r \in RunId, r <= Len(runs), TaskEnd(r)
  PROVE  TasksOK'
PROOF
<1>1. TaskOf(NoTask)
  BY NoTaskOf DEF TaskOf
<1> QED BY <1>1, TaskStays, TaskSet DEF TaskEnd

LEMMA InsertType ==
  ASSUME TypeInv, NEW c \in Caller, NEW mode \in {"launch", "relaunch", "build"},
         NEW next \in CallPlaces, InsertRun(c, mode, next)
  PROVE  TypeInv'
PROOF
<1> DEFINE x == [mode |-> mode, pin |-> call[c].id, allow |-> call[c].allow,
                 status |-> "pending", url |-> Nil, remote |-> FALSE]
           n == Len(runs) + 1
<1>1. CallOf(call[c]) /\ call[c] \in CallType /\ call \in [Caller -> CallType]
  BY DEF TypeInv, CallsOK
<1>2. ids <= MaxId /\ MaxId \in Nat
  BY LoopAssumption, FS_CardinalityType DEF TypeInv, HostsOK, MaxId
<1>3. x \in Run
  BY <1>1, <1>2, NumbersType DEF CallOf, CallType, Run, Active
<1>4. runs' = Append(runs, x) /\ n <= MaxRuns
  BY DEF InsertRun
<1>5. runs \in Seq(Run)
  BY DEF TypeInv, RunsOK
<1>6. /\ runs' \in Seq(Run) /\ Len(runs') = n
      /\ \A r \in 1..Len(runs) : runs'[r] = runs[r]
      /\ runs'[n] = x
  BY <1>3, <1>4, <1>5
<1>7. UNCHANGED <<hosts, rollout, task, machine, bounds, drainedAt>>
  BY DEF InsertRun
<1>8. HostsOK' /\ ids' = ids
  BY <1>7, HostsKept DEF bounds
<1>9. Grows
  BY <1>6, <1>8, NumbersType DEF Grows
<1>10. RunsOK'
  <2>1. ASSUME NEW r \in 1..Len(runs') PROVE runs'[r].pin <= ids'
    <3>1. CASE r = n
      <4>1. runs'[r].pin = call[c].id
        BY <1>6, <3>1
      <4> QED BY <4>1, <1>1, <1>8 DEF CallOf
    <3>2. CASE r # n
      <4>1. r \in 1..Len(runs) /\ runs'[r] = runs[r]
        BY <1>6, <3>2, NumbersType
      <4> QED BY <4>1, <1>8 DEF TypeInv, RunsOK
    <3> QED BY <3>1, <3>2
  <2>2. held' \in [Host -> 0..Len(runs')]
    BY <1>6, <1>7, NumbersType DEF TypeInv, RunsOK, machine
  <2>3. \A r \in RunId : r > Len(runs') => live'[r] = Nil
    BY <1>6, <1>7, NumbersType DEF TypeInv, RunsOK, machine, RunId
  <2> QED BY <2>1, <2>2, <2>3, <1>4, <1>6, <1>7, <1>8 DEF TypeInv, RunsOK, machine
<1>11. TasksOK'
  BY <1>7, <1>9, TasksKept
<1>12. CallsOK'
  <2>1. call' = [call EXCEPT ![c].run = n, ![c].at = next]
    BY DEF InsertRun
  <2>2. call' = [call EXCEPT ![c] = [call[c] EXCEPT !.run = n, !.at = next]]
    BY <1>1, <2>1
  <2>3. PICK y : y = [call[c] EXCEPT !.run = n, !.at = next]
    OBVIOUS
  <2>4. n \in Nat
    BY NumbersType
  <2>5. y \in CallType /\ y.id = call[c].id /\ y.run = n /\ y.todo = call[c].todo
    BY <1>1, <2>3, <2>4 DEF CallType
  <2>6. y.id <= ids' /\ y.run <= Len(runs')
    BY <2>5, <1>1, <1>6, <1>8, NumbersType DEF CallOf
  <2>7. \A t \in y.todo : t.run \in 1..Len(runs')
    BY <2>5, <1>1, <1>6, NumbersType DEF CallOf
  <2>8. CallOf(y)'
    BY <2>5, <2>6, <2>7 DEF CallOf
  <2> QED BY <2>2, <2>3, <2>8, <1>9, CallSet
<1> QED BY <1>7, <1>8, <1>10, <1>11, <1>12 DEF TypeInv, BoundsOK, bounds

\* The rollout's status and pin are written; the runs stay.
LEMMA RolloutSet ==
  ASSUME TypeInv, UNCHANGED <<hosts, runs, task, machine, bounds, drainedAt>>,
         rollout' \in [status : Status, pin : 0..ids]
  PROVE  HostsOK' /\ RunsOK' /\ TasksOK' /\ BoundsOK' /\ Grows
PROOF
<1>1. HostsOK' /\ ids' = ids /\ ids' \in Nat
  BY HostsKept DEF bounds
<1>2. RunsOK' /\ Grows
  BY <1>1, NumbersType DEF TypeInv, RunsOK, machine, Grows
<1>3. TasksOK'
  BY <1>2, TasksKept
<1> QED BY <1>1, <1>2, <1>3 DEF bounds, TypeInv, BoundsOK
LEMMA StatusSet ==
  ASSUME TypeInv, UNCHANGED <<hosts, runs, task, machine, bounds, drainedAt>>,
         NEW status \in Status, SetRollout(status)
  PROVE  HostsOK' /\ RunsOK' /\ TasksOK' /\ BoundsOK' /\ Grows
PROOF
<1>1. rollout' \in [status : Status, pin : 0..ids]
  BY DEF SetRollout, TypeInv, RunsOK
<1> QED BY <1>1, RolloutSet

LEMMA ThenReads ==
  ASSUME TypeInv, NEW c \in Caller, NEW ok, NEW at \in CallPlaces, Then(c, ok, at),
         UNCHANGED <<hosts, rollout, runs, task, machine, bounds, drainedAt>>
  PROVE  TypeInv'
PROOF BY ReadsType, CallThen DEF TypeInv

LEMMA ThenReading ==
  ASSUME TypeInv, NEW c \in Caller, NEW ok, NEW at \in CallPlaces, Then(c, ok, at),
         ReadHosts, UNCHANGED <<rollout, runs, task, machine, bounds, drainedAt>>
  PROVE  TypeInv'
PROOF BY ReadingType, CallThen DEF TypeInv

\* A request is at another place with other locals.
LEMMA CallPut ==
  ASSUME TypeInv, Grows, NEW c \in Caller, NEW x \in CallType,
         x.id <= ids', x.run <= Len(runs),
         \A t \in x.todo : t.run \in 1..Len(runs),
         call' = [call EXCEPT ![c] = x]
  PROVE  CallsOK'
PROOF
<1>1. x.run \in Nat /\ x.run <= Len(runs')
  BY NumbersType DEF CallType, Grows
<1>2. \A n : n \in 1..Len(runs) => n \in 1..Len(runs')
  BY NumbersType DEF Grows
<1> QED BY <1>1, <1>2, CallSet DEF CallOf

LEMMA SimpleCallsType ==
  ASSUME TypeInv, NEW c \in Caller,
         \/ LaunchRead(c) \/ LaunchHosts(c) \/ StartRead(c) \/ HaltRead(c) \/ CancelRead(c)
         \/ StopCheck(c) \/ StopEnd(c) \/ BuildPreflight(c) \/ BuildHosts(c)
  PROVE  TypeInv'
PROOF
<1>1. CASE LaunchRead(c)
  <2>1. (IF call[c].id # 0 THEN "hosts" ELSE "insert") \in CallPlaces
    BY DEF CallPlaces
  <2> QED BY <1>1, <2>1, ThenReads DEF LaunchRead, Reads, history
<1>2. CASE LaunchHosts(c)
  BY <1>2, ThenReading DEF LaunchHosts, history, CallPlaces
<1>3. CASE StartRead(c)
  BY <1>3, ThenReads DEF StartRead, CallPlaces
<1>4. CASE HaltRead(c) \/ CancelRead(c)
  BY <1>4, ThenReads DEF HaltRead, CancelRead, CallPlaces, Reads, history
<1>5. CASE StopCheck(c)
  BY <1>5, ThenReads DEF StopCheck, CallPlaces, Reads, history
<1>6. CASE StopEnd(c)
  BY <1>6, ReadsType, CallEnd DEF StopEnd, Reads, history, TypeInv
<1>7. CASE BuildPreflight(c)
  <2>1. Go(c, "rollout") \/ End(c)
    BY <1>7 DEF BuildPreflight
  <2>2. HostsOK' /\ RunsOK' /\ TasksOK' /\ BoundsOK' /\ Grows
    BY <1>7, ReadingType DEF BuildPreflight, history
  <2>3. CallsOK'
    BY <2>1, <2>2, CallGo, CallEnd DEF CallPlaces
  <2> QED BY <2>2, <2>3 DEF TypeInv
<1>8. CASE BuildHosts(c)
  BY <1>8, ThenReading DEF BuildHosts, history, CallPlaces
<1> QED BY <1>1, <1>2, <1>3, <1>4, <1>5, <1>6, <1>7, <1>8

LEMMA StatusCallsType ==
  ASSUME TypeInv, NEW c \in Caller,
         \/ LaunchPin(c) \/ StartWrite(c) \/ ResumeWrite(c) \/ ResumeSweep(c) \/ HaltWrite(c)
         \/ CancelWrite(c)
  PROVE  TypeInv'
PROOF
<1> USE DEF history
<1>1. CASE LaunchPin(c)
  <2>1. rollout' \in [status : Status, pin : 0..ids]
    <3>1. call[c].id \in 0..ids
      BY NumbersType DEF TypeInv, CallsOK, CallOf, CallType
    <3> QED BY <1>1, <3>1 DEF LaunchPin, TypeInv, RunsOK
  <2>2. HostsOK' /\ RunsOK' /\ TasksOK' /\ BoundsOK' /\ Grows
    BY <1>1, <2>1, RolloutSet DEF LaunchPin
  <2> QED BY <1>1, <2>2, CallGo DEF LaunchPin, CallPlaces, TypeInv
<1>2. CASE StartWrite(c)
  <2>1. HostsOK' /\ RunsOK' /\ TasksOK' /\ BoundsOK' /\ Grows
    BY <1>2, StatusSet DEF StartWrite, Status
  <2> QED BY <1>2, <2>1, CallThen DEF StartWrite, CallPlaces, TypeInv
<1>3. CASE ResumeWrite(c)
  <2>1. HostsOK' /\ RunsOK' /\ TasksOK' /\ BoundsOK' /\ Grows
    BY <1>3, StatusSet, ReadsType DEF ResumeWrite, Status
  <2> QED BY <1>3, <2>1, CallGo DEF ResumeWrite, CallPlaces, TypeInv
<1>4. CASE ResumeSweep(c)
  <2>1. HostsOK' /\ RunsOK' /\ TasksOK' /\ BoundsOK' /\ Grows
    BY <1>4, StatusSet, ReadsType DEF ResumeSweep, Status
  <2>2. CallsOK'
    BY <1>4, <2>1, CallThen, CallEnd DEF ResumeSweep, CallPlaces
  <2> QED BY <2>1, <2>2 DEF TypeInv
<1>5. CASE HaltWrite(c)
  <2>1. HostsOK' /\ RunsOK' /\ TasksOK' /\ BoundsOK' /\ Grows
    BY <1>5, StatusSet DEF HaltWrite, Status
  <2> QED BY <1>5, <2>1, CallGo DEF HaltWrite, CallPlaces, TypeInv
<1>6. CASE CancelWrite(c)
  <2>1. HostsOK' /\ RunsOK' /\ TasksOK' /\ BoundsOK' /\ Grows
    BY <1>6, StatusSet DEF CancelWrite, Status
  <2>2. ASSUME NEW d \in Caller PROVE CallOf(call'[d]) /\ call'[d] \in CallType
    <3>1. CallOf(call[d]) /\ CallOf(call[c])
      BY DEF TypeInv, CallsOK
    <3>2. CASE d = c
      <4>1. call'[d] = [call[c] EXCEPT !.at = "children"]
        BY <1>6, <3>2 DEF CancelWrite
      <4> QED BY <4>1, <3>1 DEF CallOf, CallType, CallPlaces
    <3>3. CASE d # c
      <4>1. call'[d] = [call[d] EXCEPT !.before = Busy(d)]
        BY <1>6, <3>3 DEF CancelWrite
      <4>2. Busy(d) \in BOOLEAN
        BY DEF Busy
      <4> QED BY <4>1, <4>2, <3>1 DEF CallOf, CallType
    <3> QED BY <3>2, <3>3
  <2>3. call' \in [Caller -> CallType]
    BY <1>6, <2>2 DEF CancelWrite
  <2>4. runs' = runs /\ ids' = ids
    BY <1>6 DEF CancelWrite, hosts
  <2>5. CallsOK'
    BY <2>2, <2>3, <2>4 DEF CallsOK, CallOf
  <2> QED BY <2>1, <2>5 DEF TypeInv
<1> QED BY <1>1, <1>2, <1>3, <1>4, <1>5, <1>6

\* Every set of natural numbers that is not empty has a least element.
LEMMA LeastNumber ==
  ASSUME NEW T \in SUBSET Nat, T # {}
  PROVE  \E x \in T : \A y \in T : x <= y
PROOF
<1> DEFINE S == {0..x : x \in T}
<1>1. S \subseteq FiniteSubsetsOf(Nat)
  <2>1. \A x \in T : IsFiniteSet(0..x)
    BY FS_Interval
  <2> QED BY <2>1 DEF FiniteSubsetsOf
<1>2. IsWellFoundedOn(StrictSubsetOrdering(Nat), FiniteSubsetsOf(Nat))
  BY FS_StrictSubsetOrderingWellFounded
<1>3. PICK s \in S : \A u \in S : ~(<<u, s>> \in StrictSubsetOrdering(Nat))
  <2>1. S # {}
    OBVIOUS
  <2> HIDE DEF S
  <2> QED BY <1>1, <1>2, <2>1, WFMin
<1>4. PICK x \in T : s = 0..x
  BY <1>3
<1>5. ASSUME NEW y \in T PROVE x <= y
  <2>1. ~(<<0..y, s>> \in StrictSubsetOrdering(Nat))
    BY <1>3
  <2>2. SUFFICES ASSUME y < x PROVE FALSE
    OBVIOUS
  <2>3. (0..y) \subseteq s /\ (0..y) # s /\ s \subseteq Nat /\ 0..y \subseteq Nat
    BY <1>4, <2>2
  <2> QED BY <2>1, <2>3 DEF StrictSubsetOrdering
<1> QED BY <1>5

LEMMA FirstIn ==
  ASSUME NEW todo \in SUBSET Entry, todo # {}
  PROVE  First(todo) \in todo
PROOF
<1>1. {t.run : t \in todo} \in SUBSET Nat /\ {t.run : t \in todo} # {}
  BY DEF Entry
<1>2. PICK x \in {t.run : t \in todo} : \A y \in {t.run : t \in todo} : x <= y
  BY <1>1, LeastNumber
<1>3. \E t \in todo : \A u \in todo : t.run <= u.run
  BY <1>2
<1> QED BY <1>3 DEF First

LEMMA AskType ==
  ASSUME TypeInv, NEW c \in Caller, Ask(c)
  PROVE  TypeInv'
PROOF
<1>1. PICK op \in Ops \cap mix, id \in {0} \cup {reg[h].id : h \in DOMAIN reg},
           allow \in BOOLEAN, run \in 0..Len(runs) :
        call' = [call EXCEPT ![c] = [NoCall EXCEPT
          !.op = op, !.at = "read", !.id = id, !.allow = allow, !.run = run]]
  BY DEF Ask
<1>2. HostsOK' /\ ids' = ids /\ ids' \in Nat
  BY HostsKept DEF Ask, history
<1>3. RunsOK' /\ Grows
  BY <1>2, RunsKept DEF Ask
<1>4. TasksOK'
  BY <1>3, TasksKept DEF Ask
<1>5. id \in Nat /\ id <= ids /\ run \in Nat /\ run <= Len(runs)
  BY NumbersType DEF TypeInv, HostsOK
<1>6. PICK x : x = [NoCall EXCEPT
                      !.op = op, !.at = "read", !.id = id, !.allow = allow, !.run = run]
  OBVIOUS
<1>7. x \in CallType /\ x.id = id /\ x.run = run /\ x.todo = {}
  BY <1>5, <1>6 DEF NoCall, CallType, OpNames, CallPlaces
<1>8. CallsOK'
  BY <1>1, <1>2, <1>3, <1>5, <1>6, <1>7, CallPut
<1>9. BoundsOK'
  <2>1. asked < MaxCalls /\ asked' = asked + 1 /\ faults' = faults
    BY DEF Ask
  <2> QED BY <2>1, LoopAssumption DEF TypeInv, BoundsOK
<1> QED BY <1>2, <1>3, <1>4, <1>8, <1>9 DEF TypeInv

LEMMA InsertsType ==
  ASSUME TypeInv, NEW c \in Caller, LaunchInsert(c) \/ ResumeInsert(c) \/ BuildInsert(c)
  PROVE  TypeInv'
PROOF
<1>1. CASE LaunchInsert(c)
  <2>1. (IF call[c].id # 0 THEN "pin" ELSE "start") \in CallPlaces
    BY DEF CallPlaces
  <2> QED BY <1>1, <2>1, InsertType DEF LaunchInsert
<1>2. CASE ResumeInsert(c)
  BY <1>2, InsertType DEF ResumeInsert, CallPlaces
<1>3. CASE BuildInsert(c)
  BY <1>3, InsertType DEF BuildInsert, CallPlaces
<1> QED BY <1>1, <1>2, <1>3

\* What a run of a list is when it is selected.
LEMMA SelectedType ==
  ASSUME TypeInv, NEW rs \in SUBSET (1..Len(runs))
  PROVE  Selected(rs) \in SUBSET Entry /\ \A t \in Selected(rs) : t.run \in 1..Len(runs)
PROOF
<1>1. ASSUME NEW r \in rs
      PROVE  [run |-> r, url |-> IF runs[r].remote THEN runs[r].url ELSE Nil] \in Entry
  <2>1. runs[r] \in Run
    BY DEF TypeInv, RunsOK
  <2> QED BY <2>1 DEF Run, Entry
<1> QED BY <1>1 DEF Selected

LEMMA ListsType ==
  ASSUME TypeInv, CallInv, NEW c \in Caller, HaltChildren(c) \/ CancelChildren(c) \/ StopRead(c)
  PROVE  TypeInv'
PROOF
<1>1. HostsOK' /\ RunsOK' /\ TasksOK' /\ BoundsOK' /\ Grows
  BY ReadsType DEF HaltChildren, CancelChildren, StopRead, Reads, history
<1>2. CallOf(call[c]) /\ call[c] \in CallType /\ call \in [Caller -> CallType]
  BY DEF TypeInv, CallsOK
<1>3. ASSUME NEW rs \in SUBSET (1..Len(runs)), NEW at \in CallPlaces,
             call' = [call EXCEPT ![c].at = at, ![c].todo = Selected(rs)]
      PROVE  CallsOK'
  <2>1. call' = [call EXCEPT ![c] = [call[c] EXCEPT !.at = at, !.todo = Selected(rs)]]
    BY <1>2, <1>3
  <2>2. PICK x : x = [call[c] EXCEPT !.at = at, !.todo = Selected(rs)]
    OBVIOUS
  <2>3. Selected(rs) \in SUBSET Entry /\ \A t \in Selected(rs) : t.run \in 1..Len(runs)
    BY SelectedType
  <2>4. x \in CallType /\ x.id = call[c].id /\ x.run = call[c].run /\ x.todo = Selected(rs)
    BY <1>2, <2>2, <2>3 DEF CallType
  <2>5. x.id <= ids' /\ x.run <= Len(runs)
    BY <1>1, <1>2, <2>4, CallStays DEF CallOf
  <2> QED BY <1>1, <2>1, <2>2, <2>3, <2>4, <2>5, CallPut
<1>4. CASE HaltChildren(c)
  <2>1. {r \in Builds({"pending"}) : ~runs[r].remote} \in SUBSET (1..Len(runs))
    BY DEF Builds
  <2> QED BY <1>1, <1>3, <1>4, <2>1 DEF HaltChildren, CallPlaces, TypeInv
<1>5. CASE CancelChildren(c)
  <2>1. Builds(Active) \in SUBSET (1..Len(runs))
    BY DEF Builds
  <2> QED BY <1>1, <1>3, <1>5, <2>1 DEF CancelChildren, CallPlaces, TypeInv
<1>6. CASE StopRead(c)
  <2>1. CASE runs[call[c].run].status \in Active /\ call[c].run # 0
    <3>1. {call[c].run} \in SUBSET (1..Len(runs))
      BY <1>2, <2>1, NumbersType DEF CallOf, CallType
    <3>2. (IF call[c].allow THEN "stop" ELSE "children") \in CallPlaces
      BY DEF CallPlaces
    <3> QED BY <1>1, <1>3, <1>6, <2>1, <3>1, <3>2 DEF StopRead, TypeInv
  <2>2. CASE ~(runs[call[c].run].status \in Active)
    BY <1>1, <1>6, <2>2, CallEnd DEF StopRead, TypeInv
  <2>3. call[c].run # 0
    BY <1>6 DEF StopRead, At, CallInv, Fits
  <2> QED BY <2>1, <2>2, <2>3
<1> QED BY <1>4, <1>5, <1>6

LEMMA LatestLoop ==
  ASSUME TypeInv, Loops # {}
  PROVE  Latest(Loops) \in Loops /\ Latest(Loops) \in 1..Len(runs)
PROOF
<1> DEFINE T == {Len(runs) - r : r \in Loops}
<1>1. Loops \subseteq 1..Len(runs)
  BY DEF Loops
<1>2. T \in SUBSET Nat /\ T # {}
  <2>1. ASSUME NEW r \in Loops PROVE Len(runs) - r \in Nat
    BY <1>1, NumbersType
  <2> QED BY <2>1
<1>3. PICK m \in T : \A n \in T : m <= n
  <2> HIDE DEF T
  <2> QED BY <1>2, LeastNumber
<1>4. PICK r \in Loops : m = Len(runs) - r
  BY <1>3
<1>5. ASSUME NEW q \in Loops PROVE q <= r
  <2>1. Len(runs) - r <= Len(runs) - q
    BY <1>3, <1>4
  <2>2. q \in Nat /\ r \in Nat
    BY <1>1
  <2> QED BY <2>1, <2>2, NumbersType
<1> QED BY <1>1, <1>4, <1>5 DEF Latest

\* The request has the locals of x, and the list it had.
LEMMA CallMoved ==
  ASSUME TypeInv, NEW c \in Caller, Grows, NEW x \in CallType, x.id <= ids',
         x.run <= Len(runs), x.todo = call[c].todo, call' = [call EXCEPT ![c] = x]
  PROVE  CallsOK'
PROOF
<1>1. CallOf(call[c])
  BY DEF TypeInv, CallsOK
<1> QED BY <1>1, CallPut DEF CallOf

LEMMA ResumeReadType ==
  ASSUME TypeInv, NEW c \in Caller, ResumeRead(c) \/ ResumeRuns(c)
  PROVE  TypeInv'
PROOF
<1>1. CallOf(call[c]) /\ call[c] \in CallType /\ call \in [Caller -> CallType]
  BY DEF TypeInv, CallsOK
<1>2. rollout.pin \in 0..ids /\ rollout.status \in Status
  BY DEF TypeInv, RunsOK
<1>3. HostsOK' /\ RunsOK' /\ TasksOK' /\ BoundsOK' /\ Grows
  BY ReadsType DEF ResumeRead, ResumeRuns, Reads, history
<1>4. CASE call' = [call EXCEPT ![c].at = "runs", ![c].saw = rollout.status,
                                ![c].id = rollout.pin]
  <2>1. call' = [call EXCEPT ![c] = [call[c] EXCEPT !.at = "runs", !.saw = rollout.status,
                                                    !.id = rollout.pin]]
    BY <1>1, <1>4
  <2>2. PICK x : x = [call[c] EXCEPT !.at = "runs", !.saw = rollout.status,
                                     !.id = rollout.pin]
    OBVIOUS
  <2>3. x \in CallType /\ x.id = rollout.pin /\ x.run = call[c].run /\ x.todo = call[c].todo
    <3>1. rollout.pin \in Nat /\ "runs" \in CallPlaces
      BY <1>2, NumbersType DEF CallPlaces
    <3> QED BY <1>1, <1>2, <2>2, <3>1 DEF CallType
  <2>4. x.id <= ids' /\ x.run <= Len(runs)
    BY <1>1, <1>2, <1>3, <2>3, NumbersType DEF CallOf, Grows
  <2> QED BY <1>3, <2>1, <2>2, <2>3, <2>4, CallMoved DEF TypeInv
<1>5. CASE call' = [call EXCEPT ![c].at = "resume", ![c].saw = rollout.status]
  <2>1. call' = [call EXCEPT ![c] = [call[c] EXCEPT !.at = "resume", !.saw = rollout.status]]
    BY <1>1, <1>5
  <2>2. PICK x : x = [call[c] EXCEPT !.at = "resume", !.saw = rollout.status]
    OBVIOUS
  <2>3. x \in CallType /\ x.id = call[c].id /\ x.run = call[c].run /\ x.todo = call[c].todo
    BY <1>1, <1>2, <2>2 DEF CallType, CallPlaces
  <2>4. x.id <= ids' /\ x.run <= Len(runs)
    BY <1>1, <1>3, <2>3, NumbersType DEF CallOf, CallType, Grows
  <2> QED BY <1>3, <2>1, <2>2, <2>3, <2>4, CallMoved DEF TypeInv
<1>6. CASE End(c)
  BY <1>3, <1>6, CallEnd DEF TypeInv
<1>7. CASE call' = [call EXCEPT ![c].at = "resume", ![c].id = 0]
  <2>1. call' = [call EXCEPT ![c] = [call[c] EXCEPT !.at = "resume", !.id = 0]]
    BY <1>1, <1>7
  <2>2. PICK x : x = [call[c] EXCEPT !.at = "resume", !.id = 0]
    OBVIOUS
  <2>3. x \in CallType /\ x.id = 0 /\ x.run = call[c].run /\ x.todo = call[c].todo
    BY <1>1, <2>2 DEF CallType, CallPlaces
  <2>4. x.id <= ids' /\ x.run <= Len(runs)
    BY <1>1, <1>3, <2>3, NumbersType DEF CallOf, Grows
  <2> QED BY <1>3, <2>1, <2>2, <2>3, <2>4, CallMoved DEF TypeInv
<1>8. CASE Loops # {} /\ call' = [call EXCEPT ![c].at = "hosts", ![c].run = Latest(Loops)]
  <2>1. Latest(Loops) \in 1..Len(runs)
    BY <1>8, LatestLoop
  <2>2. call' = [call EXCEPT ![c] = [call[c] EXCEPT !.at = "hosts", !.run = Latest(Loops)]]
    BY <1>1, <1>8
  <2>3. PICK x : x = [call[c] EXCEPT !.at = "hosts", !.run = Latest(Loops)]
    OBVIOUS
  <2>4. /\ x \in CallType /\ x.id = call[c].id /\ x.run = Latest(Loops)
        /\ x.todo = call[c].todo
    <3>1. Latest(Loops) \in Nat /\ "hosts" \in CallPlaces
      BY <2>1, NumbersType DEF CallPlaces
    <3> QED BY <1>1, <2>3, <3>1 DEF CallType
  <2>5. x.id <= ids' /\ x.run <= Len(runs)
    BY <1>1, <1>3, <2>1, <2>4, NumbersType DEF CallOf, CallType, Grows
  <2> QED BY <1>3, <2>2, <2>3, <2>4, <2>5, CallMoved DEF TypeInv
<1>9. CASE ResumeRead(c)
  BY <1>9, <1>4, <1>5, <1>6 DEF ResumeRead
<1>10. CASE ResumeRuns(c)
  BY <1>10, <1>6, <1>7, <1>8 DEF ResumeRuns
<1> QED BY <1>9, <1>10

LEMMA BuildRolloutType ==
  ASSUME TypeInv, NEW c \in Caller, BuildRollout(c)
  PROVE  TypeInv'
PROOF
<1>1. CallOf(call[c]) /\ call[c] \in CallType /\ call \in [Caller -> CallType]
  BY DEF TypeInv, CallsOK
<1>2. rollout.pin \in 0..ids
  BY DEF TypeInv, RunsOK
<1>3. HostsOK' /\ RunsOK' /\ TasksOK' /\ BoundsOK' /\ Grows
  BY ReadsType DEF BuildRollout, Reads, history
<1>4. CASE End(c)
  BY <1>3, <1>4, CallEnd DEF TypeInv
<1>5. CASE ~End(c)
  <2>1. PICK pin \in {call[c].id, rollout.pin}, at \in {"hosts", "insert"} :
          call' = [call EXCEPT ![c].id = pin, ![c].at = at]
    BY <1>5 DEF BuildRollout
  <2>2. call' = [call EXCEPT ![c] = [call[c] EXCEPT !.id = pin, !.at = at]]
    BY <1>1, <2>1
  <2>3. PICK x : x = [call[c] EXCEPT !.id = pin, !.at = at]
    OBVIOUS
  <2>4. pin \in Nat /\ pin <= ids
    BY <1>1, <1>2, <2>1, NumbersType DEF CallOf, CallType
  <2>5. x \in CallType /\ x.id = pin /\ x.run = call[c].run /\ x.todo = call[c].todo
    BY <1>1, <2>1, <2>3, <2>4 DEF CallType, CallPlaces
  <2>6. x.id <= ids' /\ x.run <= Len(runs)
    BY <1>1, <1>3, <2>4, <2>5, NumbersType DEF CallOf, Grows
  <2> QED BY <1>3, <2>2, <2>3, <2>5, <2>6, CallMoved DEF TypeInv
<1> QED BY <1>4, <1>5

LEMMA ResumeHostsType ==
  ASSUME TypeInv, NEW c \in Caller, ResumeHosts(c)
  PROVE  TypeInv'
PROOF
<1>1. CallOf(call[c]) /\ call[c] \in CallType /\ call \in [Caller -> CallType]
  BY DEF TypeInv, CallsOK
<1>2. HostsOK' /\ RunsOK' /\ TasksOK' /\ BoundsOK' /\ Grows
  BY ReadingType DEF ResumeHosts, history
<1>3. CASE End(c)
  BY <1>2, <1>3, CallEnd DEF TypeInv
<1>4. CASE ~End(c)
  <2>1. PICK h \in Undrained(reg') :
          call' = [call EXCEPT ![c].at = "resume", ![c].id = reg'[h].id]
    BY <1>4 DEF ResumeHosts
  <2>2. call' = [call EXCEPT ![c] = [call[c] EXCEPT !.at = "resume", !.id = reg'[h].id]]
    BY <1>1, <2>1
  <2>3. PICK x : x = [call[c] EXCEPT !.at = "resume", !.id = reg'[h].id]
    OBVIOUS
  <2>4. reg'[h].id \in 1..ids' /\ ids' \in Nat /\ reg'[h].id \in Nat
    BY <1>2, <2>1 DEF HostsOK, Undrained
  <2>5. x \in CallType /\ x.id = reg'[h].id /\ x.run = call[c].run /\ x.todo = call[c].todo
    BY <1>1, <2>3, <2>4 DEF CallType, CallPlaces
  <2>6. x.id <= ids' /\ x.run <= Len(runs)
    BY <1>1, <2>4, <2>5 DEF CallOf
  <2> QED BY <1>2, <2>2, <2>3, <2>5, <2>6, CallMoved DEF TypeInv
<1> QED BY <1>3, <1>4

LEMMA EnqueueType ==
  ASSUME TypeInv, CallInv, NEW c \in Caller, Enqueue(c)
  PROVE  TypeInv'
PROOF
<1>1. Inserted(call[c])
  BY DEF Enqueue, Inserted
<1>2. call[c].run \in RunId /\ call[c].run <= Len(runs)
  BY <1>1, NumbersType DEF CallInv, Fits, TypeInv, CallsOK, CallOf, RunsOK, RunId
<1>3. HostsOK' /\ ids' = ids /\ ids' \in Nat
  BY HostsKept DEF Enqueue, history, bounds
<1>4. RunsOK' /\ Grows
  BY <1>3, RunsKept DEF Enqueue
<1>5. TaskGo(call[c].run, "status")
  BY DEF Enqueue, TaskGo
<1>6. TasksOK'
  BY <1>2, <1>4, <1>5, TaskMoves DEF TaskPlaces
<1>7. CallsOK'
  BY <1>4, CallEnd DEF Enqueue
<1> QED BY <1>3, <1>4, <1>6, <1>7 DEF TypeInv, Enqueue, bounds, BoundsOK

LEMMA StopsType ==
  ASSUME TypeInv, CallInv, NEW c \in Caller, StopWrite(c) \/ StopForward(c)
  PROVE  TypeInv'
PROOF
<1>1. CallOf(call[c]) /\ call[c] \in CallType /\ call \in [Caller -> CallType]
  BY DEF TypeInv, CallsOK
<1>2. call[c].todo \in SUBSET Entry /\ call[c].todo # {}
  BY <1>1 DEF CallType, StopWrite, StopForward, CallInv, Fits
<1>3. PICK t : t = First(call[c].todo)
  OBVIOUS
<1>4. t \in call[c].todo /\ t \in Entry /\ t.run \in 1..Len(runs)
  BY <1>1, <1>2, <1>3, FirstIn DEF CallOf
<1>5. \A n : n \in 1..Len(runs) => n \in RunId
  BY NumbersType DEF TypeInv, RunsOK, RunId
<1>6. CASE StopWrite(c)
  <2>1. HostsOK' /\ ids' = ids /\ ids' \in Nat
    BY <1>6, HostsKept DEF StopWrite, bounds
  <2>2. RunsOK' /\ Grows
    <3>1. runs[t.run] \in Run /\ runs \in Seq(Run)
      BY <1>4 DEF TypeInv, RunsOK
    <3>2. PICK x : x = [runs[t.run] EXCEPT !.status = "cancelled"]
      OBVIOUS
    <3>3. x \in Run /\ x.pin = runs[t.run].pin
      BY <3>1, <3>2 DEF Run
    <3>4. runs' = [runs EXCEPT ![t.run].status = "cancelled"]
      BY <1>6, <1>3 DEF StopWrite
    <3>5. runs' = [runs EXCEPT ![t.run] = x]
      BY <3>1, <3>2, <3>4
    <3>6. UNCHANGED <<rollout, machine>> /\ ids <= ids'
      BY <1>6, <2>1, NumbersType DEF StopWrite
    <3> QED BY <1>4, <2>1, <3>3, <3>5, <3>6, RunSet
  <2>3. TasksOK'
    BY <1>6, <2>2, TasksKept DEF StopWrite
  <2>4. CallsOK'
    <3>1. CASE call' = [call EXCEPT ![c].todo = @ \ {t}]
      <4>1. call' = [call EXCEPT ![c] = [call[c] EXCEPT !.todo = @ \ {t}]]
        BY <1>1, <3>1
      <4>2. PICK x : x = [call[c] EXCEPT !.todo = @ \ {t}]
        OBVIOUS
      <4>3. /\ x \in CallType /\ x.id = call[c].id /\ x.run = call[c].run
            /\ x.todo = call[c].todo \ {t}
        BY <1>1, <4>2 DEF CallType
      <4>4. x.id <= ids' /\ x.run <= Len(runs) /\ \A u \in x.todo : u.run \in 1..Len(runs)
        BY <1>1, <2>1, <4>3 DEF CallOf
      <4> QED BY <2>2, <4>1, <4>2, <4>3, <4>4, CallPut
    <3>2. CASE Go(c, "forward")
      BY <2>2, <3>2, CallGo DEF CallPlaces
    <3> QED BY <1>3, <1>6, <3>1, <3>2 DEF StopWrite, Go
  <2> QED BY <1>6, <2>1, <2>2, <2>3, <2>4 DEF TypeInv, StopWrite, bounds, BoundsOK
<1>7. CASE StopForward(c)
  <2>1. HostsOK' /\ ids <= ids' /\ ids' \in Nat
    BY <1>7, HostsRead DEF StopForward
  <2>2. live' \in [RunId -> Host \cup {Nil}] /\ \A r \in RunId : r > Len(runs) => live'[r] = Nil
    <3>1. live' = live \/ live' = [live EXCEPT ![t.run] = Nil]
      BY <1>3, <1>7 DEF StopForward
    <3> QED BY <3>1 DEF TypeInv, RunsOK
  <2>3. RunsOK' /\ Grows
    <3>1. rollout' \in [status : Status, pin : 0..ids'] /\ runs' = runs /\ held' = held
      BY <1>7, <2>1, NumbersType DEF StopForward, TypeInv, RunsOK
    <3> QED BY <2>1, <2>2, <3>1, RunsSet DEF TypeInv, RunsOK
  <2>4. TasksOK'
    BY <1>7, <2>3, TasksKept DEF StopForward
  <2>5. CallsOK'
    <3>1. call' = [call EXCEPT ![c].at = "stop", ![c].todo = @ \ {t}]
      BY <1>3, <1>7 DEF StopForward
    <3>2. call' = [call EXCEPT ![c] = [call[c] EXCEPT !.at = "stop", !.todo = @ \ {t}]]
      BY <1>1, <3>1
    <3>3. PICK x : x = [call[c] EXCEPT !.at = "stop", !.todo = @ \ {t}]
      OBVIOUS
    <3>4. /\ x \in CallType /\ x.id = call[c].id /\ x.run = call[c].run
          /\ x.todo = call[c].todo \ {t}
      BY <1>1, <3>3 DEF CallType, CallPlaces
    <3>5. x.id <= ids' /\ x.run <= Len(runs) /\ \A u \in x.todo : u.run \in 1..Len(runs)
      BY <1>1, <2>1, <3>4, NumbersType DEF CallOf, CallType
    <3> QED BY <2>3, <3>2, <3>3, <3>4, <3>5, CallPut
  <2>6. BoundsOK'
    BY <1>7, LoopAssumption DEF TypeInv, BoundsOK, StopForward, Lost
  <2> QED BY <2>1, <2>3, <2>4, <2>5, <2>6 DEF TypeInv
<1> QED BY <1>6, <1>7

LEMMA TaskRun ==
  ASSUME TypeInv, NEW r \in RunId, task[r].at # "none"
  PROVE  r \in 1..Len(runs) /\ r <= Len(runs)
PROOF
<1>1. ~(r > Len(runs))
  BY DEF TypeInv, TasksOK, NoTask
<1> QED BY <1>1, NumbersType DEF RunId

\* What a task reads and where it goes; the runs and the hosts stay.
LEMMA TasksMoveType ==
  ASSUME TypeInv, TaskInv, NEW r \in RunId, TaskStatus(r) \/ TaskConfirm(r) \/ TaskRefused(r)
  PROVE  TypeInv'
PROOF
<1>1. r <= Len(runs)
  BY TaskRun DEF TaskStatus, TaskConfirm, TaskRefused
<1>2. HostsOK' /\ ids' = ids /\ ids' \in Nat
  BY HostsKept DEF TaskStatus, TaskConfirm, TaskRefused, history, bounds
<1>3. RunsOK' /\ Grows
  BY <1>2, RunsKept DEF TaskStatus, TaskConfirm, TaskRefused
<1>4. CallsOK'
  BY <1>3, CallsKept DEF TaskStatus, TaskConfirm, TaskRefused
<1>5. BoundsOK'
  BY LoopAssumption DEF TypeInv, BoundsOK, TaskStatus, TaskConfirm, TaskRefused, Lost, bounds
<1>6. CASE TaskStatus(r)
  BY <1>1, <1>2, <1>3, <1>4, <1>5, <1>6, TaskMoves, TaskEnds DEF TaskStatus, TaskPlaces, TypeInv
<1>7. CASE TaskConfirm(r)
  BY <1>1, <1>2, <1>3, <1>4, <1>5, <1>7, TaskMoves DEF TaskConfirm, TaskPlaces, TypeInv
<1>8. CASE TaskRefused(r)
  <2>1. TaskOf(task[r]) /\ task[r] \in TaskType /\ task \in [RunId -> TaskType]
    BY DEF TypeInv, TasksOK
  <2>2. CASE task' = [task EXCEPT ![r].at = "pick", ![r].out = @ \cup {task[r].host}]
              /\ task[r].host \in Host
    <3>1. task' = [task EXCEPT ![r] = [task[r] EXCEPT !.at = "pick",
                                                      !.out = @ \cup {task[r].host}]]
      BY <2>1, <2>2
    <3>2. PICK t : t = [task[r] EXCEPT !.at = "pick", !.out = @ \cup {task[r].host}]
      OBVIOUS
    <3>3. t \in TaskType /\ t.rows = task[r].rows
      BY <2>1, <2>2, <3>2 DEF TaskType, TaskPlaces
    <3>4. TaskOf(t)
      BY <2>1, <3>3 DEF TaskOf
    <3>5. TasksOK'
      BY <1>1, <1>3, <3>1, <3>2, <3>4, TaskStays, TaskSet
    <3> QED BY <1>2, <1>3, <1>4, <1>5, <3>5 DEF TypeInv
  <2>3. CASE TaskGo(r, "twin")
    BY <1>1, <1>2, <1>3, <1>4, <1>5, <2>3, TaskMoves DEF TaskPlaces, TypeInv
  <2>4. ASSUME NEW why \in {"full", "lost"}, FailWith(r, why) PROVE TypeInv'
    <3>1. why \in Reasons
      BY DEF Reasons, Refusal
    <3> QED BY <1>1, <1>2, <1>3, <1>4, <1>5, <2>4, <3>1, TaskFails DEF TypeInv
  <2>5. task[r].host \in Host
    BY <1>1, <1>8 DEF TaskRefused, TaskInv, TaskFits, RunId
  <2> QED BY <1>8, <2>2, <2>3, <2>4, <2>5 DEF TaskRefused
<1> QED BY <1>6, <1>7, <1>8

LEMMA PickedRow ==
  ASSUME NEW rows, NEW id, NEW required, NEW allow, NEW excluded, NEW info,
         NEW h \in Picked(rows, id, required, allow, excluded, info)
  PROVE  /\ h \in DOMAIN rows
         /\ id # 0 => rows[h].id = id
         /\ ~rows[h].drained \/ allow
PROOF
<1>1. CASE id # 0
  <2>1. h \in WithId(rows, id) /\ PinnedRefusals(rows, id, required, allow, info) = {}
    BY <1>1 DEF Picked, Refused
  <2>2. ~("draining" \in PinnedRefusals(rows, id, required, allow, info))
    BY <2>1
  <2>3. ~(rows[h].drained /\ ~allow)
    BY <2>1, <2>2 DEF PinnedRefusals, Refusal
  <2> QED BY <2>1, <2>3 DEF WithId
<1>2. CASE id = 0
  <2>1. h \in Candidates(rows, required, excluded, info)
    BY <1>2 DEF Picked, Best
  <2> QED BY <1>2, <2>1 DEF Candidates, LabelOk, Undrained
<1> QED BY <1>1, <1>2

LEMMA TaskHostsType ==
  ASSUME TypeInv, NEW r \in RunId, TaskHosts(r)
  PROVE  TypeInv'
PROOF
<1>1. r <= Len(runs)
  BY TaskRun DEF TaskHosts
<1>2. HostsOK' /\ ids <= ids' /\ ids' \in Nat
  BY HostsRead DEF TaskHosts, history, bounds
<1>3. RunsOK' /\ Grows
  BY <1>2, RunsKept DEF TaskHosts
<1>4. CallsOK'
  BY <1>3, CallsKept DEF TaskHosts
<1>5. BoundsOK'
  BY DEF TypeInv, BoundsOK, TaskHosts, bounds
<1>6. CASE TaskGo(r, "fail")
  BY <1>1, <1>2, <1>3, <1>4, <1>5, <1>6, TaskMoves DEF TaskPlaces, TypeInv
<1>7. CASE task' = [task EXCEPT ![r].at = "pick", ![r].rows = reg']
  <2>1. TaskOf(task[r]) /\ task[r] \in TaskType /\ task \in [RunId -> TaskType]
    BY DEF TypeInv, TasksOK
  <2>2. task' = [task EXCEPT ![r] = [task[r] EXCEPT !.at = "pick", !.rows = reg']]
    BY <2>1, <1>7
  <2>3. PICK t : t = [task[r] EXCEPT !.at = "pick", !.rows = reg']
    OBVIOUS
  <2>4. reg' \in Rows /\ \A h \in DOMAIN reg' : reg'[h].id \in 1..ids'
    BY <1>2 DEF HostsOK
  <2>5. t \in TaskType /\ t.rows = reg'
    BY <2>1, <2>3, <2>4 DEF TaskType, TaskPlaces
  <2>6. TaskOf(t)'
    BY <2>4, <2>5 DEF TaskOf
  <2>7. TasksOK'
    BY <1>1, <1>3, <2>2, <2>3, <2>6, TaskSet
  <2> QED BY <1>2, <1>3, <1>4, <1>5, <2>7 DEF TypeInv
<1> QED BY <1>6, <1>7 DEF TaskHosts

\* Where a pick sends a run.
LEMMA PickChoice ==
  ASSUME NEW r \in RunId, TaskPick(r)
  PROVE  \/ TaskEnd(r)
         \/ \E why \in Refusal : FailWith(r, why)
         \/ \E h \in DOMAIN task[r].rows :
              /\ task' = [task EXCEPT ![r].at = "post", ![r].host = h]
              /\ runs[r].pin # 0 => task[r].rows[h].id = runs[r].pin
              /\ ~task[r].rows[h].drained \/ runs[r].allow
PROOF
<1>1. PICK info \in [DOMAIN task[r].rows -> Answers] :
        LET t == task[r]
            refused == Refused(t.rows, runs[r].pin, Need, runs[r].allow, t.out, info) IN
         \/ TaskEnd(r)
         \/ \E why \in refused \ {"missing"} : FailWith(r, why)
         \/ \E h \in Picked(t.rows, runs[r].pin, Need, runs[r].allow, t.out, info) :
              task' = [task EXCEPT ![r].at = "post", ![r].host = h]
  BY DEF TaskPick
<1>2. Refused(task[r].rows, runs[r].pin, Need, runs[r].allow, task[r].out, info) \subseteq Refusal
  BY DEF Refused, PinnedRefusals, AutoRefusals
<1>3. CASE \E h \in Picked(task[r].rows, runs[r].pin, Need, runs[r].allow, task[r].out, info) :
              task' = [task EXCEPT ![r].at = "post", ![r].host = h]
  <2>1. PICK h \in Picked(task[r].rows, runs[r].pin, Need, runs[r].allow, task[r].out, info) :
              task' = [task EXCEPT ![r].at = "post", ![r].host = h]
    BY <1>3
  <2>2. /\ h \in DOMAIN task[r].rows
        /\ runs[r].pin # 0 => task[r].rows[h].id = runs[r].pin
        /\ ~task[r].rows[h].drained \/ runs[r].allow
    BY PickedRow
  <2> QED BY <2>1, <2>2
<1> QED BY <1>1, <1>2, <1>3

LEMMA TaskPickType ==
  ASSUME TypeInv, NEW r \in RunId, TaskPick(r)
  PROVE  TypeInv'
PROOF
<1>1. r <= Len(runs)
  BY TaskRun DEF TaskPick
<1>2. HostsOK' /\ ids' = ids /\ ids' \in Nat
  BY HostsKept DEF TaskPick, bounds
<1>3. RunsOK' /\ Grows
  BY <1>2, RunsKept DEF TaskPick
<1>4. CallsOK'
  BY <1>3, CallsKept DEF TaskPick
<1>5. BoundsOK'
  BY DEF TypeInv, BoundsOK, TaskPick, bounds
<1>6. CASE TaskEnd(r)
  BY <1>1, <1>2, <1>3, <1>4, <1>5, <1>6, TaskEnds DEF TypeInv
<1>7. ASSUME NEW why \in Refusal, FailWith(r, why) PROVE TypeInv'
  <2>1. why \in Reasons
    BY DEF Reasons
  <2> QED BY <1>1, <1>2, <1>3, <1>4, <1>5, <1>7, <2>1, TaskFails DEF TypeInv
<1>8. ASSUME NEW h \in DOMAIN task[r].rows, task' = [task EXCEPT ![r].at = "post", ![r].host = h]
      PROVE  TypeInv'
  <2>1. TaskOf(task[r]) /\ task[r] \in TaskType /\ task \in [RunId -> TaskType]
    BY DEF TypeInv, TasksOK
  <2>2. task' = [task EXCEPT ![r] = [task[r] EXCEPT !.at = "post", !.host = h]]
    BY <2>1, <1>8
  <2>3. h \in Host
    BY <2>1 DEF TaskType, Rows
  <2>4. PICK t : t = [task[r] EXCEPT !.at = "post", !.host = h]
    OBVIOUS
  <2>5. t \in TaskType /\ t.rows = task[r].rows
    BY <2>1, <2>3, <2>4 DEF TaskType, TaskPlaces
  <2>6. TaskOf(t)
    BY <2>1, <2>5 DEF TaskOf
  <2>7. TasksOK'
    BY <1>1, <1>3, <2>2, <2>4, <2>6, TaskStays, TaskSet
  <2> QED BY <1>2, <1>3, <1>4, <1>5, <2>7 DEF TypeInv
<1> QED BY <1>6, <1>7, <1>8, PickChoice

LEMMA TaskPostType ==
  ASSUME TypeInv, TaskInv, NEW r \in RunId, TaskPost(r)
  PROVE  TypeInv'
PROOF
<1>1. r <= Len(runs) /\ r \in 1..Len(runs)
  BY TaskRun DEF TaskPost
<1>2. HostsOK' /\ ids' = ids /\ ids' \in Nat
  BY HostsKept DEF TaskPost
<1>3. task[r].host \in Host
  BY <1>1 DEF TaskPost, TaskInv, TaskFits
<1>4. /\ live' \in [RunId -> Host \cup {Nil}] /\ \A q \in RunId : q > Len(runs) => live'[q] = Nil
      /\ held' \in [Host -> 0..Len(runs)]
  <2>1. live' = [live EXCEPT ![r] = task[r].host]
    BY DEF TaskPost
  <2>2. held' = held \/ held' = [held EXCEPT ![task[r].host] = r]
    BY DEF TaskPost
  <2>3. live' \in [RunId -> Host \cup {Nil}]
    BY <1>3, <2>1 DEF TypeInv, RunsOK
  <2>4. \A q \in RunId : q > Len(runs) => live'[q] = Nil
    BY <1>1, <2>1, NumbersType DEF TypeInv, RunsOK, RunId
  <2>5. held' \in [Host -> 0..Len(runs)]
    BY <1>1, <1>3, <2>2, NumbersType DEF TypeInv, RunsOK, RunId
  <2> QED BY <2>3, <2>4, <2>5
<1>5. RunsOK' /\ Grows
  <2>1. rollout' \in [status : Status, pin : 0..ids'] /\ runs' = runs
    BY <1>2 DEF TaskPost, TypeInv, RunsOK
  <2> QED BY <1>2, <1>4, <2>1, RunsSet, NumbersType DEF TypeInv, RunsOK
<1>6. CallsOK'
  BY <1>5, CallsKept DEF TaskPost
<1>7. BoundsOK'
  BY LoopAssumption DEF TypeInv, BoundsOK, TaskPost, Lost
<1>8. TasksOK'
  <2>1. TaskGo(r, "confirm") \/ FailWith(r, "lost")
    BY DEF TaskPost
  <2> QED BY <1>1, <1>5, <2>1, TaskMoves, TaskFails DEF TaskPlaces, Reasons
<1> QED BY <1>2, <1>5, <1>6, <1>7, <1>8 DEF TypeInv

\* The run's row is written and the hosts' registry stays.
LEMMA TaskWritesType ==
  ASSUME TypeInv, TaskInv, NEW r \in RunId,
         TaskTwin(r) \/ TaskFail(r) \/ TaskWrite(r) \/ TaskWatch(r) \/ TaskRecall(r)
  PROVE  TypeInv'
PROOF
<1>1. r <= Len(runs) /\ r \in 1..Len(runs)
  BY TaskRun DEF TaskTwin, TaskFail, TaskWrite, TaskWatch, TaskRecall
<1>2. UNCHANGED <<hosts, changes, drainedAt, rollout, call, held, asked>>
  BY DEF TaskTwin, TaskFail, TaskWrite, TaskWatch, TaskRecall, bounds, history, machine
<1>3. HostsOK' /\ ids' = ids /\ ids' \in Nat
  BY <1>2, HostsKept
<1>4. runs \in Seq(Run) /\ runs[r] \in Run
  BY <1>1 DEF TypeInv, RunsOK
<1>5. PICK x \in Run : x.pin = runs[r].pin /\ runs' = [runs EXCEPT ![r] = x]
  <2>1. task[r].host \in Host \cup {Nil}
    BY DEF TypeInv, TasksOK, TaskType
  <2>2. CASE TaskTwin(r)
    <3>1. runs' = [runs EXCEPT ![r] = [runs[r] EXCEPT !.status = "cancelled",
                                                      !.url = task[r].host]]
      BY <1>4, <2>2 DEF TaskTwin
    <3>2. [runs[r] EXCEPT !.status = "cancelled", !.url = task[r].host] \in Run
      BY <1>4, <2>1 DEF Run
    <3> QED BY <1>4, <3>1, <3>2 DEF Run
  <2>3. CASE TaskFail(r)
    <3>1. runs' = [runs EXCEPT ![r] = [runs[r] EXCEPT !.status = "failed"]]
      BY <1>4, <2>3 DEF TaskFail
    <3>2. [runs[r] EXCEPT !.status = "failed"] \in Run
      BY <1>4 DEF Run
    <3> QED BY <1>4, <3>1, <3>2 DEF Run
  <2>4. CASE TaskWrite(r)
    <3>1. runs' = [runs EXCEPT ![r] = [runs[r] EXCEPT !.status = "running",
                                             !.url = task[r].host, !.remote = TRUE]]
      BY <1>4, <2>4 DEF TaskWrite
    <3>2. [runs[r] EXCEPT !.status = "running", !.url = task[r].host, !.remote = TRUE] \in Run
      BY <1>4, <2>1 DEF Run, Active
    <3> QED BY <1>4, <3>1, <3>2 DEF Run
  <2>5. CASE TaskWatch(r)
    <3>1. runs' = [runs EXCEPT ![r] = [runs[r] EXCEPT !.status = "ended"]]
      BY <1>4, <2>5 DEF TaskWatch
    <3>2. [runs[r] EXCEPT !.status = "ended"] \in Run
      BY <1>4 DEF Run
    <3> QED BY <1>4, <3>1, <3>2 DEF Run
  <2>6. CASE TaskRecall(r)
    <3>1. runs' = [runs EXCEPT ![r] = [runs[r] EXCEPT !.url = task[r].host, !.remote = TRUE]]
      BY <1>4, <2>6 DEF TaskRecall
    <3>2. [runs[r] EXCEPT !.url = task[r].host, !.remote = TRUE] \in Run
      BY <1>4, <2>1 DEF Run
    <3> QED BY <1>4, <3>1, <3>2 DEF Run
  <2> QED BY <2>2, <2>3, <2>4, <2>5, <2>6
<1>6. RunsOK' /\ Grows
  <2>1. runs' \in Seq(Run) /\ Len(runs') = Len(runs)
    BY <1>1, <1>4, <1>5
  <2>2. \A q \in 1..Len(runs) : runs'[q].pin = runs[q].pin
    BY <1>1, <1>4, <1>5
  <2>3. live' = live \/ live' = [live EXCEPT ![r] = Nil]
    BY DEF TaskTwin, TaskFail, TaskWrite, TaskWatch, TaskRecall, machine
  <2>4. live' \in [RunId -> Host \cup {Nil}] /\ \A q \in RunId : q > Len(runs) => live'[q] = Nil
    BY <2>3 DEF TypeInv, RunsOK
  <2>5. rollout' \in [status : Status, pin : 0..ids'] /\ held' \in [Host -> 0..Len(runs)]
    BY <1>2, <1>3 DEF TypeInv, RunsOK
  <2> QED BY <1>3, <2>1, <2>2, <2>4, <2>5, RunsSet, NumbersType
<1>7. CallsOK'
  BY <1>2, <1>6, CallsKept
<1>8. BoundsOK'
  BY LoopAssumption DEF TypeInv, BoundsOK, TaskTwin, TaskFail, TaskWrite, TaskWatch, TaskRecall,
                        Lost, bounds
<1>9. TasksOK'
  <2>1. TaskEnd(r) \/ TaskGo(r, "watch")
    BY DEF TaskTwin, TaskFail, TaskWrite, TaskWatch, TaskRecall
  <2> QED BY <1>1, <1>6, <2>1, TaskMoves, TaskEnds DEF TaskPlaces
<1> QED BY <1>3, <1>6, <1>7, <1>8, <1>9 DEF TypeInv

\* The operator's calls write the registry alone.
LEMMA ChangesType ==
  ASSUME TypeInv, NEW h \in Host, NEW yes \in BOOLEAN, NEW drained \in BOOLEAN,
         \/ HostAdd(h, drained, yes) \/ HostLabels(h, yes)
         \/ HostDrain(h) \/ HostUndrain(h) \/ HostRemove(h)
  PROVE  TypeInv'
PROOF
<1>1. /\ changes < MaxChanges /\ changes' = changes + 1
      /\ UNCHANGED <<rollout, runs, task, call, machine, asked, faults>>
  BY DEF HostAdd, HostLabels, HostDrain, HostUndrain, HostRemove, Change
<1>2. changes \in Nat /\ changes' \in 0..MaxChanges /\ Cardinality(Host) \in Nat
  BY <1>1, LoopAssumption, FS_CardinalityType DEF TypeInv, HostsOK
<1>3. drainedAt' \in [Host -> Nat]
  BY NumbersType DEF TypeInv, HostsOK, HostAdd, HostLabels, HostDrain, HostUndrain, HostRemove,
                     Named
<1>4. PICK H \in SUBSET Host : reg \in [H -> Row]
  BY DEF TypeInv, HostsOK, Rows
<1>5. ids \in Nat /\ \A g \in H : reg[g].id \in 1..ids /\ reg[g] \in Row
  BY <1>4 DEF TypeInv, HostsOK
<1>6. (IF yes THEN Label ELSE {}) \in SUBSET Label
  OBVIOUS
<1>7. CASE HostAdd(h, drained, yes)
  <2>1. PICK row : row = [id |-> ids + 1, drained |-> drained,
                          labels |-> IF yes THEN Label ELSE {}]
    OBVIOUS
  <2>2. row \in Row /\ row.id = ids + 1
    BY <1>5, <1>6, <2>1 DEF Row
  <2>3. reg' = [g \in H \cup {h} |-> IF g = h THEN row ELSE reg[g]] /\ ids' = ids + 1
    BY <1>4, <1>7, <2>1 DEF HostAdd
  <2>4. \A g \in H \cup {h} : reg'[g] \in Row /\ reg'[g].id \in 1..ids'
    BY <1>5, <2>2, <2>3
  <2>5. reg' \in [H \cup {h} -> Row] /\ DOMAIN reg' = H \cup {h}
    BY <2>3, <2>4
  <2>6. reg' \in Rows
    BY <2>5 DEF Rows
  <2>7. ids' <= Cardinality(Host) + 2 * changes' + (IF DOMAIN reg' = {} THEN 0 ELSE 1)
    BY <1>1, <1>2, <1>5, <2>3, <2>5 DEF TypeInv, HostsOK
  <2>8. ids' \in Nat /\ \A g \in DOMAIN reg' : reg'[g].id \in 1..ids'
    <3>1. ids' \in Nat
      BY <1>5, <2>3
    <3> QED BY <2>4, <2>5, <3>1
  <2>9. HostsOK'
    BY <1>2, <1>3, <2>6, <2>7, <2>8 DEF HostsOK
  <2> QED BY <1>1, <1>5, <2>3, <2>8, <2>9, RunsKept, TasksKept, CallsKept DEF TypeInv, BoundsOK
<1>8. CASE HostLabels(h, yes) \/ HostDrain(h) \/ HostUndrain(h)
  <2>1. PICK row : row \in Row /\ row.id = reg[h].id /\ reg' = [reg EXCEPT ![h] = row] /\ h \in H
    <3>1. h \in H /\ reg[h] \in Row
      BY <1>4, <1>8 DEF HostLabels, HostDrain, HostUndrain, Named
    <3>2. CASE HostLabels(h, yes)
      <4>1. reg' = [reg EXCEPT ![h] = [reg[h] EXCEPT !.labels = IF yes THEN Label ELSE {}]]
        BY <1>4, <3>1, <3>2 DEF HostLabels
      <4> QED BY <1>6, <3>1, <4>1 DEF Row
    <3>3. CASE HostDrain(h)
      <4>1. reg' = [reg EXCEPT ![h] = [reg[h] EXCEPT !.drained = TRUE]]
        BY <1>4, <3>1, <3>3 DEF HostDrain, DrainRow
      <4> QED BY <3>1, <4>1 DEF Row
    <3>4. CASE HostUndrain(h)
      <4>1. reg' = [reg EXCEPT ![h] = [reg[h] EXCEPT !.drained = FALSE]]
        BY <1>4, <3>1, <3>4 DEF HostUndrain, UndrainRow
      <4> QED BY <3>1, <4>1 DEF Row
    <3> QED BY <1>8, <3>2, <3>3, <3>4
  <2>2. ids' = ids
    BY <1>8 DEF HostLabels, HostDrain, HostUndrain
  <2>3. reg' \in [H -> Row] /\ DOMAIN reg' = H /\ \A g \in H : reg'[g].id \in 1..ids
    BY <1>4, <1>5, <2>1
  <2>4. reg' \in Rows
    BY <2>3 DEF Rows
  <2>5. ids' <= Cardinality(Host) + 2 * changes' + (IF DOMAIN reg' = {} THEN 0 ELSE 1)
    BY <1>1, <1>2, <1>4, <1>5, <2>2, <2>3 DEF TypeInv, HostsOK
  <2>6. HostsOK'
    BY <1>2, <1>3, <1>5, <2>2, <2>3, <2>4, <2>5 DEF HostsOK
  <2> QED BY <1>1, <1>5, <2>2, <2>6, RunsKept, TasksKept, CallsKept DEF TypeInv, BoundsOK
<1>9. CASE HostRemove(h)
  <2>1. ids' = ids /\ reg' = [g \in H \ {h} |-> reg[g]]
    BY <1>4, <1>9 DEF HostRemove
  <2>2. reg' \in [H \ {h} -> Row] /\ DOMAIN reg' = H \ {h}
        /\ \A g \in H \ {h} : reg'[g].id \in 1..ids
    BY <1>5, <2>1
  <2>3. reg' \in Rows
    BY <2>2 DEF Rows
  <2>4. ids' <= Cardinality(Host) + 2 * changes' + (IF DOMAIN reg' = {} THEN 0 ELSE 1)
    BY <1>1, <1>2, <1>4, <1>5, <2>1, <2>2 DEF TypeInv, HostsOK
  <2>5. HostsOK'
    BY <1>2, <1>3, <1>5, <2>1, <2>2, <2>3, <2>4 DEF HostsOK
  <2> QED BY <1>1, <1>5, <2>1, <2>5, RunsKept, TasksKept, CallsKept DEF TypeInv, BoundsOK
<1> QED BY <1>7, <1>8, <1>9

\* The hosts and the end of the rollout.
LEMMA MachineType ==
  ASSUME TypeInv, NEW r, NEW h,
         \/ h \in Host /\ Readopt(h)
         \/ r \in RunId /\ (WorkEnds(r) \/ LoopCrash(r))
         \/ Close
  PROVE  TypeInv'
PROOF
<1>1. CASE Close
  <2>1. HostsOK' /\ RunsOK' /\ TasksOK' /\ BoundsOK' /\ Grows
    BY <1>1, StatusSet DEF Close, Status, history
  <2> QED BY <1>1, <2>1, CallsKept DEF Close, TypeInv
<1>2. CASE (h \in Host /\ Readopt(h)) \/ (r \in RunId /\ (WorkEnds(r) \/ LoopCrash(r)))
  <2>1. UNCHANGED <<hosts, rollout, runs, task, call, asked, changes, drainedAt>>
    BY <1>2 DEF Readopt, WorkEnds, LoopCrash, HostsOnly, history
  <2>2. HostsOK' /\ ids' = ids /\ ids' \in Nat
    BY <2>1, HostsKept
  <2>3. /\ live' \in [RunId -> Host \cup {Nil}] /\ \A q \in RunId : q > Len(runs) => live'[q] = Nil
        /\ held' \in [Host -> 0..Len(runs)]
    <3>1. held \in [Host -> 0..Len(runs)] /\ live \in [RunId -> Host \cup {Nil}]
          /\ \A q \in RunId : q > Len(runs) => live[q] = Nil
      BY DEF TypeInv, RunsOK
    <3>2. CASE h \in Host /\ Readopt(h)
      <4>1. held' = held /\ live' = [live EXCEPT ![held[h]] = h] /\ held[h] <= Len(runs)
            /\ held[h] \in Nat
        BY <3>1, <3>2, NumbersType DEF Readopt
      <4>2. live' \in [RunId -> Host \cup {Nil}]
        <5>1. live' \in [RunId -> Host \cup {Nil}] \/ live' = live
          BY <3>1, <3>2, <4>1
        <5> QED BY <3>1, <5>1
      <4>3. ASSUME NEW q \in RunId, q > Len(runs) PROVE live'[q] = Nil
        BY <3>1, <4>1, <4>3, NumbersType DEF RunId
      <4> QED BY <3>1, <4>1, <4>2, <4>3
    <3>3. CASE r \in RunId /\ (WorkEnds(r) \/ LoopCrash(r))
      <4>1. live' = [live EXCEPT ![r] = Nil]
        BY <3>3 DEF WorkEnds, LoopCrash
      <4>2. held' = held \/ held' = [held EXCEPT ![live[r]] = 0]
        BY <3>3 DEF WorkEnds, LoopCrash
      <4>3. held' \in [Host -> 0..Len(runs)]
        BY <3>1, <4>2, NumbersType
      <4> QED BY <3>1, <4>1, <4>3
    <3> QED BY <1>2, <3>2, <3>3
  <2>4. RunsOK' /\ Grows
    <3>1. rollout' \in [status : Status, pin : 0..ids'] /\ runs' = runs
      BY <2>1, <2>2 DEF TypeInv, RunsOK
    <3> QED BY <2>2, <2>3, <3>1, RunsSet, NumbersType DEF TypeInv, RunsOK
  <2>5. BoundsOK'
    BY <1>2, <2>1, LoopAssumption DEF TypeInv, BoundsOK, Readopt, WorkEnds, LoopCrash
  <2> QED BY <2>1, <2>2, <2>4, <2>5, TasksKept, CallsKept DEF TypeInv
<1> QED BY <1>1, <1>2

LEMMA RestartType ==
  ASSUME TypeInv, NEW reach \in SUBSET Host, Restart(reach)
  PROVE  TypeInv'
PROOF
<1>1. HostsOK' /\ ids <= ids' /\ ids' \in Nat
  BY HostsRead DEF Restart
<1>2. PICK kept \in SUBSET (1..Len(runs)) :
        /\ \A r \in kept : runs[r].url \in reach
        /\ task' = [r \in RunId |-> IF r \in kept
                                    THEN [NoTask EXCEPT !.at = "watch", !.host = runs[r].url]
                                    ELSE NoTask]
        /\ runs' = [r \in 1..Len(runs) |->
                      IF runs[r].status \in Active /\ r \notin kept
                      THEN [runs[r] EXCEPT !.status = "failed"] ELSE runs[r]]
  BY DEF Restart
<1>3. \A r \in 1..Len(runs) : runs[r] \in Run
  BY DEF TypeInv, RunsOK
<1>4. ASSUME NEW r \in 1..Len(runs)
      PROVE  runs'[r] \in Run /\ runs'[r].pin = runs[r].pin
  <2>1. [runs[r] EXCEPT !.status = "failed"] \in Run
        /\ [runs[r] EXCEPT !.status = "failed"].pin = runs[r].pin
    BY <1>3 DEF Run
  <2>2. runs'[r] = [runs[r] EXCEPT !.status = "failed"] \/ runs'[r] = runs[r]
    BY <1>2
  <2> QED BY <1>3, <2>1, <2>2
<1>5. runs' \in Seq(Run) /\ Len(runs') = Len(runs)
  <2>1. runs' \in [1..Len(runs) -> Run]
    BY <1>2, <1>4
  <2> QED BY <2>1, NumbersType
<1>6. RunsOK' /\ Grows
  <2>1. /\ rollout' \in [status : Status, pin : 0..ids'] /\ live' = live /\ held' = held
    <3>1. UNCHANGED <<rollout, machine>>
      BY DEF Restart
    <3> QED BY <1>1, <3>1, NumbersType DEF machine, TypeInv, RunsOK
  <2> QED BY <1>1, <1>4, <1>5, <2>1, RunsSet DEF TypeInv, RunsOK
<1>7. TasksOK'
  <2>1. ASSUME NEW r \in RunId
        PROVE  task'[r] \in TaskType /\ (\A h \in DOMAIN task'[r].rows : FALSE)
               /\ (r > Len(runs') => task'[r] = NoTask)
    <3>1. CASE r \in kept
      <4>1. task'[r] = [NoTask EXCEPT !.at = "watch", !.host = runs[r].url]
        BY <1>2, <3>1
      <4>2. runs[r].url \in Host
        BY <1>2, <3>1
      <4>3. task'[r] \in TaskType /\ task'[r].rows = NoTask.rows
        BY <4>1, <4>2, NoTaskOf DEF TaskType, TaskPlaces
      <4>4. ~(r > Len(runs'))
        BY <1>5, <3>1, NumbersType
      <4> QED BY <4>3, <4>4, NoTaskOf
    <3>2. CASE r \notin kept
      <4>1. task'[r] = NoTask
        BY <1>2, <3>2
      <4> QED BY <4>1, NoTaskOf
    <3> QED BY <3>1, <3>2
  <2>2. task' \in [RunId -> TaskType]
    BY <1>2, <2>1
  <2> QED BY <2>1, <2>2 DEF TasksOK, TaskOf
<1>8. CallsOK'
  <2>1. call' = [c \in Caller |-> NoCall]
    BY DEF Restart
  <2>2. CallOf(NoCall)' /\ NoCall \in CallType
    BY <1>6, NoCallOf, CallStays DEF CallOf
  <2>3. call' \in [Caller -> CallType]
    BY <2>1, <2>2
  <2>4. ASSUME NEW c \in Caller PROVE CallOf(call[c])'
    <3>1. call'[c] = NoCall
      BY <2>1
    <3> QED BY <2>2, <3>1 DEF CallOf
  <2> QED BY <2>3, <2>4 DEF CallsOK
<1>9. BoundsOK'
  <2>1. faults < MaxFaults /\ faults' = faults + 1 /\ asked' = asked
    BY DEF Restart
  <2> QED BY <2>1, LoopAssumption DEF TypeInv, BoundsOK
<1> QED BY <1>1, <1>6, <1>7, <1>8, <1>9 DEF TypeInv

LEMMA CallFacts ==
  ASSUME TypeInv, NEW c \in Caller
  PROVE  /\ CallOf(call[c]) /\ call[c] \in CallType /\ call \in [Caller -> CallType]
         /\ call[c].run \in Nat /\ call[c].run <= Len(runs)
PROOF BY DEF TypeInv, CallsOK, CallOf, CallType

\* The runs no task has stay as they are, and every run keeps what it was made with.
SameRuns ==
  /\ Len(runs') \in Nat /\ Len(runs) <= Len(runs')
  /\ \A r \in 1..Len(runs) : /\ runs'[r].mode = runs[r].mode
                             /\ runs'[r].pin = runs[r].pin
Rests(r) ==
  /\ task'[r].at = "none" /\ live'[r] = Nil /\ \A h \in Host : held'[h] # r
  /\ runs'[r].status \in {"pending", "cancelled"} /\ runs'[r].url = Nil /\ ~runs'[r].remote

LEMMA FitsKept ==
  ASSUME TypeInv, SameRuns, NEW x \in CallType, Fits(x), Inserted(x) => Rests(x.run)
  PROVE  Fits(x)'
PROOF
<1>1. \A r \in 1..Len(runs) : r \in 1..Len(runs')
  BY NumbersType DEF SameRuns
<1>2. \A r \in Loops : r \in Loops'
  BY <1>1 DEF Loops, IsLoop, SameRuns
<1>3. Inserted(x)' = Inserted(x) /\ Position(x)' = Position(x)
  BY DEF Inserted, Position
<1>4. Inserted(x) => /\ x.run \in 1..Len(runs')
                     /\ x.op = "launch" => runs'[x.run].mode = "launch" /\ runs'[x.run].pin = x.id
  BY <1>1 DEF Fits, SameRuns
<1>5. Inserted(x) => task'[x.run].at = "none" /\ Unsent(x.run)'
  BY DEF Rests, Unsent
<1>6. x.op = "resume" /\ x.at = "hosts" => x.run \in Loops'
  BY <1>2 DEF Fits
<1>7. /\ Position(x)
      /\ x.op = "stop" => x.run # 0
      /\ x.op = "resume" /\ x.at = "read" => x.id = 0
      /\ x.at = "forward" => x.todo # {} /\ First(x.todo).url # Nil
      /\ x.op = "halt" => \A t \in x.todo : t.url = Nil
  BY DEF Fits
<1> QED BY <1>3, <1>4, <1>5, <1>6, <1>7 DEF Fits

\* The requests stay, and the runs they inserted.
LEMMA CallsRest ==
  ASSUME TypeInv, CallInv, SameRuns, UNCHANGED call,
         \A c \in Caller : Inserted(call[c]) => Rests(call[c].run)
  PROVE  CallInv'
PROOF
<1>1. ASSUME NEW c \in Caller PROVE Fits(call[c])'
  <2>1. PICK x \in CallType : x = call[c]
    BY CallFacts
  <2>2. Fits(x)'
    BY <2>1, FitsKept DEF CallInv
  <2> QED BY <2>1, <2>2 DEF Fits, Position, Inserted
<1>2. ASSUME NEW c \in Caller, NEW d \in Caller,
             (Inserted(call[c]) /\ Inserted(call[d]) /\ call[c].run = call[d].run)'
      PROVE  c = d
  BY <1>2 DEF CallInv, Inserted
<1> QED BY <1>1, <1>2 DEF CallInv

\* One request goes on; the others stay, and the runs they inserted.
LEMMA CallGoesOn ==
  ASSUME TypeInv, CallInv, SameRuns, NEW c \in Caller, NEW x \in CallType,
         call' = [call EXCEPT ![c] = x], Fits(x)',
         \A d \in Caller \ {c} : Inserted(call[d]) => Rests(call[d].run),
         \A d \in Caller \ {c} : Inserted(call[d]) /\ Inserted(x) => call[d].run # x.run
  PROVE  CallInv'
PROOF
<1>0. call'[c] = x /\ \A d \in Caller \ {c} : call'[d] = call[d]
  BY CallFacts
<1>1. ASSUME NEW d \in Caller PROVE Fits(call[d])'
  <2>1. CASE d = c
    BY <1>0, <2>1 DEF Fits, Position, Inserted
  <2>2. CASE d # c
    <3>1. PICK y \in CallType : y = call[d]
      BY CallFacts
    <3>2. Fits(y)'
      BY <2>2, <3>1, FitsKept DEF CallInv
    <3>3. call'[d] = y
      BY <1>0, <2>2, <3>1
    <3> QED BY <3>2, <3>3 DEF Fits, Position, Inserted
  <2> QED BY <2>1, <2>2
<1>2. ASSUME NEW d \in Caller, NEW e \in Caller,
             (Inserted(call[d]) /\ Inserted(call[e]) /\ call[d].run = call[e].run)'
      PROVE  d = e
  <2>1. Inserted(call'[d]) /\ Inserted(call'[e]) /\ call'[d].run = call'[e].run
    BY <1>2 DEF Inserted
  <2>2. CASE d = c /\ e # c
    BY <1>0, <2>1, <2>2
  <2>3. CASE e = c /\ d # c
    BY <1>0, <2>1, <2>3
  <2>4. CASE d # c /\ e # c
    BY <1>0, <2>1, <2>4 DEF CallInv
  <2> QED BY <2>2, <2>3, <2>4
<1> QED BY <1>1, <1>2 DEF CallInv

\* Nothing happens to the runs.
LEMMA QuietRuns ==
  ASSUME TypeInv, CallInv, UNCHANGED <<runs, task, machine>>
  PROVE  SameRuns /\ \A d \in Caller : Inserted(call[d]) => Rests(call[d].run)
PROOF
<1>1. SameRuns
  BY NumbersType DEF SameRuns
<1>2. ASSUME NEW d \in Caller, Inserted(call[d]) PROVE Rests(call[d].run)
  BY <1>2 DEF CallInv, Fits, Rests, Unsent, machine
<1> QED BY <1>1, <1>2

LEMMA QuietGo ==
  ASSUME TypeInv, CallInv, UNCHANGED <<runs, task, machine>>, NEW c \in Caller,
         NEW x \in CallType, call' = [call EXCEPT ![c] = x], Fits(x),
         Inserted(x) => Inserted(call[c]) /\ x.run = call[c].run
  PROVE  CallInv'
PROOF
<1>1. SameRuns /\ \A d \in Caller : Inserted(call[d]) => Rests(call[d].run)
  BY QuietRuns
<1>2. Fits(x)'
  BY <1>1, FitsKept
<1>3. \A d \in Caller \ {c} : Inserted(call[d]) /\ Inserted(x) => call[d].run # x.run
  BY DEF CallInv
<1> QED BY <1>1, <1>2, <1>3, CallGoesOn

LEMMA NoCallFits == NoCall \in CallType /\ Fits(NoCall) /\ ~Inserted(NoCall)
PROOF BY DEF NoCall, CallType, OpNames, Ops, CallPlaces, Status, Fits, Position, Inserted

LEMMA QuietEnd ==
  ASSUME TypeInv, CallInv, UNCHANGED <<runs, task, machine>>, NEW c \in Caller, End(c)
  PROVE  CallInv'
PROOF BY NoCallFits, QuietGo DEF End

\* From one place of a request to another, with the locals it has.
Path(x, at) ==
  /\ at \in CallPlaces
  /\ \E y : y = [x EXCEPT !.at = at] /\ Position(y) /\ (Inserted(y) => Inserted(x))
  /\ at # "forward" /\ (x.op = "resume" => at \notin {"read", "hosts"})

LEMMA QuietPath ==
  ASSUME TypeInv, CallInv, UNCHANGED <<runs, task, machine>>, NEW c \in Caller,
         NEW at, Path(call[c], at), Go(c, at)
  PROVE  CallInv'
PROOF
<1>1. call[c] \in CallType /\ call \in [Caller -> CallType]
  BY CallFacts
<1>2. PICK y : y = [call[c] EXCEPT !.at = at] /\ Position(y) /\ (Inserted(y) => Inserted(call[c]))
  BY DEF Path
<1>3. at \in CallPlaces /\ at # "forward" /\ (call[c].op = "resume" => at \notin {"read", "hosts"})
  BY DEF Path
<1>4. /\ y \in CallType /\ y.at = at /\ y.op = call[c].op /\ y.run = call[c].run
      /\ y.id = call[c].id /\ y.todo = call[c].todo
  BY <1>1, <1>2, <1>3 DEF CallType
<1>5. call' = [call EXCEPT ![c] = y]
  BY <1>1, <1>2 DEF Go
<1>6. Fits(y)
  BY <1>2, <1>3, <1>4 DEF CallInv, Fits
<1> QED BY <1>2, <1>4, <1>5, <1>6, QuietGo

LEMMA QuietThen ==
  ASSUME TypeInv, CallInv, UNCHANGED <<runs, task, machine>>, NEW c \in Caller,
         NEW ok, NEW at, Path(call[c], at), Then(c, ok, at)
  PROVE  CallInv'
PROOF BY QuietPath, QuietEnd DEF Then

LEMMA PathOf ==
  ASSUME NEW x \in CallType, NEW at \in CallPlaces, at # "forward",
         \/ x.op = "launch" /\ x.at = "read" /\ at \in {"hosts", "insert"}
         \/ x.op = "launch" /\ x.at = "hosts" /\ at = "insert"
         \/ x.op = "launch" /\ x.at = "pin" /\ at = "start"
         \/ x.op = "launch" /\ x.at = "start" /\ at = "started"
         \/ x.op = "lead" /\ x.at = "read" /\ at = "started"
         \/ x.op = "launch" /\ x.at = "started" /\ at = "enqueue"
         \/ x.op = "resume" /\ at \in {"sweep", "insert"}
         \/ x.op \in {"halt", "cancel"} /\ at \in {"write", "children"}
         \/ x.op = "stop" /\ at = "stop"
         \/ x.op = "build" /\ at \in {"rollout", "insert"}
  PROVE  Path(x, at)
PROOF
<1>1. PICK y : y = [x EXCEPT !.at = at]
  OBVIOUS
<1>2. y.at = at /\ y.op = x.op
  BY <1>1 DEF CallType
<1>3. Position(y)
  BY <1>2 DEF Position
<1>4. Inserted(y) => Inserted(x)
  BY <1>2 DEF Inserted
<1> QED BY <1>1, <1>3, <1>4 DEF Path

LEMMA MovesCall ==
  ASSUME TypeInv, CallInv, NEW c \in Caller,
         \/ LaunchRead(c) \/ LaunchHosts(c) \/ LaunchPin(c) \/ StartRead(c)
         \/ ResumeWrite(c) \/ ResumeSweep(c) \/ HaltRead(c) \/ HaltWrite(c) \/ CancelRead(c)
         \/ StopCheck(c) \/ StopEnd(c) \/ BuildPreflight(c) \/ BuildHosts(c)
  PROVE  CallInv'
PROOF
<1>1. call[c] \in CallType
  BY CallFacts
<1> USE DEF At
<1>2. CASE LaunchRead(c)
  <2>1. PICK at \in {"hosts", "insert"} : Then(c, rollout.status = "pending", at)
    BY <1>2 DEF LaunchRead
  <2>2. Path(call[c], at)
    BY <1>1, <1>2, <2>1, PathOf DEF LaunchRead, CallPlaces
  <2> QED BY <1>2, <2>1, <2>2, QuietThen DEF LaunchRead, Reads
<1>3. CASE LaunchHosts(c)
  <2>1. Path(call[c], "insert")
    BY <1>1, <1>3, PathOf DEF LaunchHosts, CallPlaces
  <2> QED BY <1>3, <2>1, QuietThen DEF LaunchHosts
<1>4. CASE LaunchPin(c)
  <2>1. Path(call[c], "start")
    BY <1>1, <1>4, PathOf DEF LaunchPin, CallPlaces
  <2> QED BY <1>4, <2>1, QuietPath DEF LaunchPin
<1>5. CASE StartRead(c)
  <2>1. Path(call[c], "started")
    BY <1>1, <1>5, PathOf DEF StartRead, CallPlaces
  <2> QED BY <1>5, <2>1, QuietThen DEF StartRead
<1>6. CASE ResumeWrite(c)
  <2>1. Path(call[c], "sweep")
    BY <1>1, <1>6, PathOf DEF ResumeWrite, CallPlaces
  <2> QED BY <1>6, <2>1, QuietPath DEF ResumeWrite
<1>7. CASE ResumeSweep(c)
  <2>1. Path(call[c], "insert")
    BY <1>1, <1>7, PathOf DEF ResumeSweep, CallPlaces
  <2>2. End(c) \/ Then(c, call[c].id # 0, "insert")
    BY <1>7 DEF ResumeSweep
  <2> QED BY <1>7, <2>1, <2>2, QuietThen, QuietEnd DEF ResumeSweep
<1>8. CASE HaltRead(c) \/ CancelRead(c)
  <2>1. Path(call[c], "write")
    BY <1>1, <1>8, PathOf DEF HaltRead, CancelRead, CallPlaces
  <2> QED BY <1>8, <2>1, QuietThen DEF HaltRead, CancelRead, Reads
<1>9. CASE HaltWrite(c)
  <2>1. Path(call[c], "children")
    BY <1>1, <1>9, PathOf DEF HaltWrite, CallPlaces
  <2> QED BY <1>9, <2>1, QuietPath DEF HaltWrite
<1>10. CASE StopCheck(c)
  <2>1. Path(call[c], "stop")
    BY <1>1, <1>10, PathOf DEF StopCheck, CallPlaces
  <2> QED BY <1>10, <2>1, QuietThen DEF StopCheck, Reads
<1>11. CASE StopEnd(c)
  BY <1>11, QuietEnd DEF StopEnd, Reads
<1>12. CASE BuildPreflight(c)
  <2>1. Path(call[c], "rollout")
    BY <1>1, <1>12, PathOf DEF BuildPreflight, CallPlaces
  <2>2. End(c) \/ Go(c, "rollout")
    BY <1>12 DEF BuildPreflight
  <2> QED BY <1>12, <2>1, <2>2, QuietPath, QuietEnd DEF BuildPreflight
<1>13. CASE BuildHosts(c)
  <2>1. Path(call[c], "insert")
    BY <1>1, <1>13, PathOf DEF BuildHosts, CallPlaces
  <2> QED BY <1>13, <2>1, QuietThen DEF BuildHosts
<1> QED BY <1>2, <1>3, <1>4, <1>5, <1>6, <1>7, <1>8, <1>9, <1>10, <1>11, <1>12, <1>13

LEMMA StartWriteCall ==
  ASSUME TypeInv, CallInv, NEW c \in Caller, StartWrite(c)
  PROVE  CallInv'
PROOF
<1>1. call[c] \in CallType
  BY CallFacts
<1>2. call[c].op \in {"launch", "lead"} /\ call[c].at = "started"
  BY DEF StartWrite, CallInv, Fits, Position
<1>3. CASE call[c].op = "launch"
  <2>1. Path(call[c], "enqueue")
    BY <1>1, <1>2, <1>3, PathOf DEF CallPlaces
  <2> QED BY <2>1, QuietThen DEF StartWrite
<1>4. CASE call[c].op = "lead"
  BY <1>4, QuietEnd DEF StartWrite, Then
<1> QED BY <1>2, <1>3, <1>4

LEMMA AskCall ==
  ASSUME TypeInv, CallInv, NEW c \in Caller, Ask(c)
  PROVE  CallInv'
PROOF
<1>1. PICK op \in Ops, id \in {0} \cup {reg[h].id : h \in DOMAIN reg},
           allow \in BOOLEAN, run \in 0..Len(runs) :
        /\ op \notin {"launch", "build"} => id = 0
        /\ run # 0 <=> op = "stop"
        /\ call' = [call EXCEPT ![c] = [NoCall EXCEPT
             !.op = op, !.at = "read", !.id = id, !.allow = allow, !.run = run]]
  BY DEF Ask
<1>2. id \in Nat /\ run \in Nat
  BY <1>1, NumbersType DEF TypeInv, HostsOK
<1>3. PICK x : x = [NoCall EXCEPT
                      !.op = op, !.at = "read", !.id = id, !.allow = allow, !.run = run]
  OBVIOUS
<1>4. x \in CallType /\ x.op = op /\ x.at = "read" /\ x.run = run /\ x.todo = {} /\ x.id = id
  BY <1>2, <1>3 DEF NoCall, CallType, OpNames, CallPlaces
<1>5. Fits(x) /\ ~Inserted(x)
  BY <1>1, <1>4 DEF Fits, Position, Inserted, Ops
<1> QED BY <1>1, <1>3, <1>4, <1>5, QuietGo DEF Ask

LEMMA CancelWriteCall ==
  ASSUME TypeInv, CallInv, NEW c \in Caller, CancelWrite(c)
  PROVE  CallInv'
PROOF
<1>1. SameRuns /\ \A d \in Caller : Inserted(call[d]) => Rests(call[d].run)
  BY QuietRuns DEF CancelWrite
<1>2. ASSUME NEW d \in Caller
      PROVE  /\ Fits(call[d])' /\ call'[d].run = call[d].run
             /\ Inserted(call'[d]) => Inserted(call[d])
  <2>1. call[d] \in CallType /\ Fits(call[d])
    BY CallFacts DEF CallInv
  <2>2. PICK x : /\ x \in CallType /\ call'[d] = x /\ Fits(x) /\ x.run = call[d].run
                 /\ Inserted(x) => Inserted(call[d])
    <3>1. CASE d = c
      <4>1. call'[d] = [call[d] EXCEPT !.at = "children"]
        BY <3>1 DEF CancelWrite
      <4>2. call[d].op = "cancel"
        BY <3>1 DEF CancelWrite, At
      <4>3. PICK x : x = [call[d] EXCEPT !.at = "children"]
        OBVIOUS
      <4>4. /\ x \in CallType /\ x.op = "cancel" /\ x.at = "children" /\ x.run = call[d].run
            /\ x.todo = call[d].todo
        BY <2>1, <4>2, <4>3 DEF CallType, CallPlaces
      <4>5. Fits(x) /\ ~Inserted(x)
        BY <4>4 DEF Fits, Position, Inserted
      <4> QED BY <4>1, <4>3, <4>4, <4>5
    <3>2. CASE d # c
      <4>1. call'[d] = [call[d] EXCEPT !.before = Busy(d)]
        BY <3>2 DEF CancelWrite
      <4>2. PICK x : x = [call[d] EXCEPT !.before = Busy(d)]
        OBVIOUS
      <4>3. Busy(d) \in BOOLEAN
        BY DEF Busy
      <4>4. /\ x \in CallType /\ x.op = call[d].op /\ x.at = call[d].at /\ x.run = call[d].run
            /\ x.id = call[d].id /\ x.todo = call[d].todo
        BY <2>1, <4>2, <4>3 DEF CallType
      <4>5. Fits(x) /\ (Inserted(x) => Inserted(call[d]))
        BY <2>1, <4>4 DEF Fits, Position, Inserted
      <4> QED BY <4>1, <4>2, <4>4, <4>5
    <3> QED BY <3>1, <3>2
  <2>3. Fits(x)'
    BY <1>1, <2>2, FitsKept
  <2> QED BY <2>2, <2>3 DEF Fits, Position, Inserted
<1>3. ASSUME NEW d \in Caller, NEW e \in Caller,
             (Inserted(call[d]) /\ Inserted(call[e]) /\ call[d].run = call[e].run)'
      PROVE  d = e
  <2>1. Inserted(call'[d]) /\ Inserted(call'[e]) /\ call'[d].run = call'[e].run
    BY <1>3 DEF Inserted
  <2> QED BY <1>2, <2>1 DEF CallInv
<1> QED BY <1>2, <1>3 DEF CallInv

\* What a request that goes on keeps of its locals.
Keeps(x, y) == y.op = x.op /\ y.allow = x.allow /\ y.before = x.before /\ y.todo = x.todo

LEMMA ResumeReadStep ==
  ASSUME TypeInv, NEW c \in Caller, ResumeRead(c)
  PROVE  \/ End(c)
         \/ \E x \in CallType :
              /\ call' = [call EXCEPT ![c] = x] /\ Keeps(call[c], x) /\ x.run = call[c].run
              /\ x.saw = rollout.status /\ x.saw \in {"halted", "running"}
              /\ \/ x.at = "runs" /\ x.id = rollout.pin
                 \/ x.at = "resume" /\ x.id = call[c].id
PROOF
<1>1. call[c] \in CallType /\ call \in [Caller -> CallType]
  BY CallFacts
<1>2. rollout.status \in Status \cup {"none"} /\ rollout.pin \in Nat
  BY NumbersType DEF TypeInv, RunsOK
<1>3. CASE /\ rollout.status \in {"halted", "running"}
           /\ call' = [call EXCEPT ![c].at = "runs", ![c].saw = rollout.status,
                                   ![c].id = rollout.pin]
  <2>1. PICK x : x = [call[c] EXCEPT !.at = "runs", !.saw = rollout.status,
                                     !.id = rollout.pin]
    OBVIOUS
  <2>2. call' = [call EXCEPT ![c] = x]
    BY <1>1, <1>3, <2>1
  <2>3. x \in CallType
    BY <1>1, <1>2, <2>1 DEF CallType, CallPlaces
  <2>4. /\ Keeps(call[c], x) /\ x.run = call[c].run /\ x.saw = rollout.status
        /\ x.at = "runs" /\ x.id = rollout.pin
    BY <1>1, <2>1 DEF CallType, Keeps
  <2> QED BY <1>3, <2>2, <2>3, <2>4
<1>4. CASE /\ rollout.status = "halted"
           /\ call' = [call EXCEPT ![c].at = "resume", ![c].saw = rollout.status]
  <2>1. PICK x : x = [call[c] EXCEPT !.at = "resume", !.saw = rollout.status]
    OBVIOUS
  <2>2. call' = [call EXCEPT ![c] = x]
    BY <1>1, <1>4, <2>1
  <2>3. x \in CallType
    BY <1>1, <1>2, <2>1 DEF CallType, CallPlaces
  <2>4. /\ Keeps(call[c], x) /\ x.run = call[c].run /\ x.saw = rollout.status
        /\ x.at = "resume" /\ x.id = call[c].id
    BY <1>1, <2>1 DEF CallType, Keeps
  <2> QED BY <1>4, <2>2, <2>3, <2>4
<1> QED BY <1>3, <1>4 DEF ResumeRead

LEMMA ResumeRunsStep ==
  ASSUME TypeInv, NEW c \in Caller, ResumeRuns(c)
  PROVE  \/ End(c)
         \/ \E x \in CallType :
              /\ call' = [call EXCEPT ![c] = x] /\ Keeps(call[c], x) /\ x.saw = call[c].saw
              /\ \/ x.at = "resume" /\ x.id = 0 /\ x.saw = "halted" /\ x.run = call[c].run
                 \/ x.at = "hosts" /\ x.id = call[c].id /\ Loops # {} /\ x.run = Latest(Loops)
                    /\ x.run \in Loops
PROOF
<1>1. call[c] \in CallType /\ call \in [Caller -> CallType]
  BY CallFacts
<1>3. CASE call[c].saw = "halted" /\ call' = [call EXCEPT ![c].at = "resume", ![c].id = 0]
  <2>1. PICK x : x = [call[c] EXCEPT !.at = "resume", !.id = 0]
    OBVIOUS
  <2>2. call' = [call EXCEPT ![c] = x]
    BY <1>1, <1>3, <2>1
  <2>3. x \in CallType
    BY <1>1, <2>1 DEF CallType, CallPlaces
  <2>4. /\ Keeps(call[c], x) /\ x.run = call[c].run /\ x.saw = call[c].saw
        /\ x.at = "resume" /\ x.id = 0
    BY <1>1, <2>1 DEF CallType, Keeps
  <2> QED BY <1>3, <2>2, <2>3, <2>4
<1>4. CASE Loops # {} /\ call' = [call EXCEPT ![c].at = "hosts", ![c].run = Latest(Loops)]
  <2>1. PICK x : x = [call[c] EXCEPT !.at = "hosts", !.run = Latest(Loops)]
    OBVIOUS
  <2>2. call' = [call EXCEPT ![c] = x]
    BY <1>1, <1>4, <2>1
  <2>5. Latest(Loops) \in Loops /\ Latest(Loops) \in Nat
    BY <1>4, LatestLoop, NumbersType
  <2>3. x \in CallType
    BY <1>1, <2>1, <2>5 DEF CallType, CallPlaces
  <2>4. /\ Keeps(call[c], x) /\ x.run = Latest(Loops) /\ x.saw = call[c].saw
        /\ x.at = "hosts" /\ x.id = call[c].id
    BY <1>1, <2>1 DEF CallType, Keeps
  <2> QED BY <1>4, <2>2, <2>3, <2>4, <2>5
<1> QED BY <1>3, <1>4 DEF ResumeRuns

LEMMA ResumeHostsStep ==
  ASSUME TypeInv, NEW c \in Caller, ResumeHosts(c)
  PROVE  \/ End(c)
         \/ \E x \in CallType, h \in Owner(reg', call[c].id, call[c].run) \cap Undrained(reg') :
              /\ call' = [call EXCEPT ![c] = x] /\ Keeps(call[c], x) /\ x.saw = call[c].saw
              /\ x.run = call[c].run /\ x.at = "resume" /\ x.id = reg'[h].id
PROOF
<1>1. call[c] \in CallType /\ call \in [Caller -> CallType]
  BY CallFacts
<1>2. ASSUME NEW h \in Owner(reg', call[c].id, call[c].run) \cap Undrained(reg'),
             call' = [call EXCEPT ![c].at = "resume", ![c].id = reg'[h].id]
      PROVE  \E x \in CallType :
              /\ call' = [call EXCEPT ![c] = x] /\ Keeps(call[c], x) /\ x.saw = call[c].saw
              /\ x.run = call[c].run /\ x.at = "resume" /\ x.id = reg'[h].id
  <2>1. PICK x : x = [call[c] EXCEPT !.at = "resume", !.id = reg'[h].id]
    OBVIOUS
  <2>2. call' = [call EXCEPT ![c] = x]
    BY <1>1, <1>2, <2>1
  <2>5. h \in DOMAIN reg'
    BY DEF Undrained
  <2>6. reg'[h].id \in Nat
    BY <2>5, ReadFacts DEF ResumeHosts
  <2>3. x \in CallType
    BY <1>1, <2>1, <2>6 DEF CallType, CallPlaces
  <2>4. /\ Keeps(call[c], x) /\ x.run = call[c].run /\ x.saw = call[c].saw
        /\ x.at = "resume" /\ x.id = reg'[h].id
    BY <1>1, <2>1 DEF CallType, Keeps
  <2> QED BY <2>2, <2>3, <2>4
<1> QED BY <1>2 DEF ResumeHosts

LEMMA BuildRolloutStep ==
  ASSUME TypeInv, NEW c \in Caller, BuildRollout(c)
  PROVE  \/ End(c)
         \/ \E x \in CallType :
              /\ call' = [call EXCEPT ![c] = x] /\ Keeps(call[c], x) /\ x.saw = call[c].saw
              /\ x.run = call[c].run /\ x.at \in {"hosts", "insert"}
PROOF
<1>1. call[c] \in CallType /\ call \in [Caller -> CallType]
  BY CallFacts
<1>2. CASE ~End(c)
  <2>1. PICK pin \in {call[c].id, rollout.pin}, at \in {"hosts", "insert"} :
          call' = [call EXCEPT ![c].id = pin, ![c].at = at]
    BY <1>2 DEF BuildRollout
  <2>2. pin \in Nat
    BY <1>1, NumbersType DEF TypeInv, RunsOK, CallType
  <2>3. PICK x : x = [call[c] EXCEPT !.id = pin, !.at = at]
    OBVIOUS
  <2>4. call' = [call EXCEPT ![c] = x]
    BY <1>1, <2>1, <2>3
  <2>5. x \in CallType
    <3>1. at \in CallPlaces
      BY DEF CallPlaces
    <3> QED BY <1>1, <2>2, <2>3, <3>1 DEF CallType
  <2>6. Keeps(call[c], x) /\ x.run = call[c].run /\ x.saw = call[c].saw /\ x.at = at
    BY <1>1, <2>3 DEF CallType, Keeps
  <2> QED BY <2>4, <2>5, <2>6
<1> QED BY <1>2

LEMMA ResumesCall ==
  ASSUME TypeInv, CallInv, NEW c \in Caller,
         ResumeRead(c) \/ ResumeRuns(c) \/ ResumeHosts(c) \/ BuildRollout(c)
  PROVE  CallInv'
PROOF
<1>1. UNCHANGED <<runs, task, machine>>
  BY DEF ResumeRead, ResumeRuns, ResumeHosts, BuildRollout, Reads
<1>2. CASE End(c)
  BY <1>1, <1>2, QuietEnd
<1>3. ASSUME NEW x \in CallType, call' = [call EXCEPT ![c] = x],
             \/ x.op = "resume" /\ x.at \in {"runs", "resume"}
             \/ x.op = "resume" /\ x.at = "hosts" /\ x.run \in Loops
             \/ x.op = "build" /\ x.at \in {"hosts", "insert"}
      PROVE  CallInv'
  <2>1. Fits(x) /\ ~Inserted(x)
    BY <1>3 DEF Fits, Position, Inserted
  <2> QED BY <1>1, <1>3, <2>1, QuietGo
<1>4. CASE ResumeRead(c)
  <2>1. call[c].op = "resume"
    BY <1>4 DEF ResumeRead, At
  <2> QED BY <1>2, <1>3, <1>4, <2>1, ResumeReadStep DEF Keeps
<1>5. CASE ResumeRuns(c)
  <2>1. call[c].op = "resume"
    BY <1>5 DEF ResumeRuns, At
  <2> QED BY <1>2, <1>3, <1>5, <2>1, ResumeRunsStep DEF Keeps
<1>6. CASE ResumeHosts(c)
  <2>1. call[c].op = "resume"
    BY <1>6 DEF ResumeHosts, At
  <2> QED BY <1>2, <1>3, <1>6, <2>1, ResumeHostsStep DEF Keeps
<1>7. CASE BuildRollout(c)
  <2>1. call[c].op = "build"
    BY <1>7 DEF BuildRollout, At
  <2> QED BY <1>2, <1>3, <1>7, <2>1, BuildRolloutStep DEF Keeps
<1> QED BY <1>4, <1>5, <1>6, <1>7

\* The lists of a halt, of a cancel and of cancel_run.
LEMMA ListsStep ==
  ASSUME TypeInv, CallInv, NEW c \in Caller, HaltChildren(c) \/ CancelChildren(c) \/ StopRead(c)
  PROVE  \/ End(c) /\ StopRead(c)
         \/ \E x \in CallType :
              /\ call' = [call EXCEPT ![c] = x]
              /\ x.op = call[c].op /\ x.before = call[c].before /\ x.run = call[c].run
              /\ \/ /\ HaltChildren(c) /\ x.at = "stop"
                    /\ x.todo = Selected({r \in Builds({"pending"}) : ~runs[r].remote})
                 \/ /\ CancelChildren(c) /\ x.at = "stop" /\ x.todo = Selected(Builds(Active))
                 \/ /\ StopRead(c) /\ x.at \in {"stop", "children"}
                    /\ x.todo = Selected({call[c].run})
PROOF
<1>1. call[c] \in CallType /\ call \in [Caller -> CallType]
  BY CallFacts
<1>2. CASE HaltChildren(c)
  <2> DEFINE todo == Selected({r \in Builds({"pending"}) : ~runs[r].remote})
  <2>1. call' = [call EXCEPT ![c].at = "stop", ![c].todo = todo]
    BY <1>2 DEF HaltChildren
  <2>2. todo \in SUBSET Entry
    BY SelectedType DEF Builds
  <2> HIDE DEF todo
  <2>3. PICK x : x = [call[c] EXCEPT !.at = "stop", !.todo = todo]
    OBVIOUS
  <2>4. call' = [call EXCEPT ![c] = x]
    BY <1>1, <2>1, <2>3
  <2>5. /\ x \in CallType /\ x.op = call[c].op /\ x.before = call[c].before /\ x.run = call[c].run
        /\ x.at = "stop" /\ x.todo = todo
    BY <1>1, <2>2, <2>3 DEF CallType, CallPlaces
  <2> QED BY <1>2, <2>4, <2>5 DEF todo
<1>3. CASE CancelChildren(c)
  <2> DEFINE todo == Selected(Builds(Active))
  <2>1. call' = [call EXCEPT ![c].at = "stop", ![c].todo = todo]
    BY <1>3 DEF CancelChildren
  <2>2. todo \in SUBSET Entry
    BY SelectedType DEF Builds
  <2> HIDE DEF todo
  <2>3. PICK x : x = [call[c] EXCEPT !.at = "stop", !.todo = todo]
    OBVIOUS
  <2>4. call' = [call EXCEPT ![c] = x]
    BY <1>1, <2>1, <2>3
  <2>5. /\ x \in CallType /\ x.op = call[c].op /\ x.before = call[c].before /\ x.run = call[c].run
        /\ x.at = "stop" /\ x.todo = todo
    BY <1>1, <2>2, <2>3 DEF CallType, CallPlaces
  <2> QED BY <1>3, <2>4, <2>5 DEF todo
<1>4. CASE StopRead(c) /\ ~End(c)
  <2> DEFINE todo == Selected({call[c].run})
             at == IF call[c].allow THEN "stop" ELSE "children"
  <2>1. /\ call' = [call EXCEPT ![c].at = at, ![c].todo = todo]
        /\ runs[call[c].run].status \in Active
    BY <1>4 DEF StopRead
  <2>2. todo \in SUBSET Entry
    <3>1. call[c].run # 0
      BY <1>4 DEF StopRead, At, CallInv, Fits
    <3>2. {call[c].run} \in SUBSET (1..Len(runs))
      BY <3>1, CallFacts, NumbersType
    <3> QED BY <3>2, SelectedType
  <2> HIDE DEF todo
  <2>6. at \in {"stop", "children"}
    OBVIOUS
  <2> HIDE DEF at
  <2>3. PICK x : x = [call[c] EXCEPT !.at = at, !.todo = todo]
    OBVIOUS
  <2>4. call' = [call EXCEPT ![c] = x]
    BY <1>1, <2>1, <2>3
  <2>7. at \in CallPlaces
    BY <2>6 DEF CallPlaces
  <2>5. /\ x \in CallType /\ x.op = call[c].op /\ x.before = call[c].before /\ x.run = call[c].run
        /\ x.at = at /\ x.todo = todo
    BY <1>1, <2>2, <2>3, <2>7 DEF CallType
  <2> QED BY <1>4, <2>4, <2>5, <2>6 DEF todo
<1> QED BY <1>2, <1>3, <1>4

LEMMA ListsCall ==
  ASSUME TypeInv, CallInv, NEW c \in Caller, HaltChildren(c) \/ CancelChildren(c) \/ StopRead(c)
  PROVE  CallInv'
PROOF
<1>1. UNCHANGED <<runs, task, machine>>
  BY DEF HaltChildren, CancelChildren, StopRead, Reads
<1>2. CASE End(c)
  BY <1>1, <1>2, QuietEnd
<1>3. ASSUME NEW x \in CallType, call' = [call EXCEPT ![c] = x],
             \/ x.op = "halt" /\ x.at = "stop" /\ \A t \in x.todo : t.url = Nil
             \/ x.op = "cancel" /\ x.at = "stop"
             \/ x.op = "stop" /\ x.at \in {"stop", "children"} /\ x.run # 0
      PROVE  CallInv'
  <2>1. Fits(x) /\ ~Inserted(x)
    BY <1>3 DEF Fits, Position, Inserted
  <2> QED BY <1>1, <1>3, <2>1, QuietGo
<1>4. CASE ~End(c)
  <2>1. PICK x \in CallType :
              /\ call' = [call EXCEPT ![c] = x]
              /\ x.op = call[c].op /\ x.before = call[c].before /\ x.run = call[c].run
              /\ \/ /\ HaltChildren(c) /\ x.at = "stop"
                    /\ x.todo = Selected({r \in Builds({"pending"}) : ~runs[r].remote})
                 \/ /\ CancelChildren(c) /\ x.at = "stop" /\ x.todo = Selected(Builds(Active))
                 \/ /\ StopRead(c) /\ x.at \in {"stop", "children"}
                    /\ x.todo = Selected({call[c].run})
    BY <1>4, ListsStep
  <2>2. CASE /\ HaltChildren(c) /\ x.at = "stop"
             /\ x.todo = Selected({r \in Builds({"pending"}) : ~runs[r].remote})
    <3>1. call[c].op = "halt"
      BY <2>2 DEF HaltChildren, At
    <3>2. \A t \in x.todo : t.url = Nil
      BY <2>2 DEF Selected
    <3> QED BY <1>3, <2>1, <2>2, <3>1, <3>2
  <2>3. CASE CancelChildren(c) /\ x.at = "stop"
    <3>1. call[c].op = "cancel"
      BY <2>3 DEF CancelChildren, At
    <3> QED BY <1>3, <2>1, <2>3, <3>1
  <2>4. CASE StopRead(c) /\ x.at \in {"stop", "children"}
    <3>1. call[c].op = "stop" /\ call[c].run # 0
      BY <2>4 DEF StopRead, At, CallInv, Fits
    <3> QED BY <1>3, <2>1, <2>4, <3>1
  <2> QED BY <2>1, <2>2, <2>3, <2>4
<1> QED BY <1>2, <1>4

\* A new run: nothing was sent, and no task is there yet.
LEMMA InsertStep ==
  ASSUME TypeInv, NEW c \in Caller, NEW mode \in {"launch", "relaunch", "build"},
         NEW next \in CallPlaces, InsertRun(c, mode, next)
  PROVE  /\ Len(runs') = Len(runs) + 1 /\ SameRuns
         /\ \A r \in 1..Len(runs) : runs'[r] = runs[r]
         /\ runs'[Len(runs) + 1] = [mode |-> mode, pin |-> call[c].id, allow |-> call[c].allow,
                                    status |-> "pending", url |-> Nil, remote |-> FALSE]
         /\ Len(runs) + 1 \in RunId /\ task[Len(runs) + 1] = NoTask /\ live[Len(runs) + 1] = Nil
         /\ \A h \in Host : held[h] # Len(runs) + 1
PROOF
<1> DEFINE n == Len(runs) + 1
           new == [mode |-> mode, pin |-> call[c].id, allow |-> call[c].allow,
                   status |-> "pending", url |-> Nil, remote |-> FALSE]
<1>1. call[c] \in CallType /\ call \in [Caller -> CallType]
  BY CallFacts
<1>2. runs' = Append(runs, new) /\ n <= MaxRuns /\ Len(runs) \in Nat /\ n \in Nat
  BY NumbersType DEF InsertRun
<1>3. new \in [mode : {"launch", "relaunch", "build"}, pin : Nat, allow : BOOLEAN,
               status : {"pending"}, url : {Nil}, remote : {FALSE}]
  BY <1>1 DEF CallType
<1>4. runs \in Seq(Run)
  BY DEF TypeInv, RunsOK
<1> HIDE DEF new
<1>5. Len(runs') = n /\ (\A r \in 1..Len(runs) : runs'[r] = runs[r]) /\ runs'[n] = new
  BY <1>2, <1>4
<1>6. SameRuns
  BY <1>2, <1>5 DEF SameRuns
<1>7. n \in RunId /\ n > Len(runs)
  BY <1>2, NumbersType DEF RunId
<1>8. task[n] = NoTask /\ live[n] = Nil
  BY <1>7 DEF TypeInv, TasksOK, RunsOK
<1>9. \A h \in Host : held[h] # n
  BY <1>7, NumbersType DEF TypeInv, RunsOK
<1> QED BY <1>5, <1>6, <1>7, <1>8, <1>9 DEF new

LEMMA InsertCall ==
  ASSUME TypeInv, NEW c \in Caller, NEW mode, NEW next \in CallPlaces, InsertRun(c, mode, next)
  PROVE  \E x \in CallType : /\ call' = [call EXCEPT ![c] = x] /\ Keeps(call[c], x)
                             /\ x.id = call[c].id /\ x.saw = call[c].saw
                             /\ x.run = Len(runs) + 1 /\ x.at = next
PROOF
<1>1. call[c] \in CallType /\ call \in [Caller -> CallType]
  BY CallFacts
<1>2. PICK n \in Nat : n = Len(runs) + 1
  BY NumbersType
<1>3. PICK x : x = [call[c] EXCEPT !.run = n, !.at = next]
  OBVIOUS
<1>4. call' = [call EXCEPT ![c] = x]
  BY <1>1, <1>2, <1>3 DEF InsertRun
<1>5. x \in CallType
  BY <1>1, <1>2, <1>3 DEF CallType
<1>6. Keeps(call[c], x) /\ x.id = call[c].id /\ x.saw = call[c].saw /\ x.run = n /\ x.at = next
  BY <1>1, <1>3 DEF CallType, Keeps
<1> QED BY <1>2, <1>4, <1>5, <1>6

LEMMA InsertsCall ==
  ASSUME TypeInv, CallInv, NEW c \in Caller, LaunchInsert(c) \/ ResumeInsert(c) \/ BuildInsert(c)
  PROVE  CallInv'
PROOF
<1>1. PICK mode \in {"launch", "relaunch", "build"}, next \in CallPlaces :
        /\ InsertRun(c, mode, next)
        /\ \/ call[c].op = "launch" /\ next \in {"pin", "start"} /\ mode = "launch"
           \/ call[c].op \in {"resume", "build"} /\ next = "enqueue"
  BY DEF LaunchInsert, ResumeInsert, BuildInsert, At, CallPlaces
<1>0. PICK n \in Nat : n = Len(runs) + 1
  BY NumbersType
<1>2. /\ Len(runs') = n /\ SameRuns
      /\ \A r \in 1..Len(runs) : runs'[r] = runs[r]
      /\ runs'[n] = [mode |-> mode, pin |-> call[c].id, allow |-> call[c].allow,
                                    status |-> "pending", url |-> Nil, remote |-> FALSE]
      /\ n \in RunId /\ task[n] = NoTask /\ live[n] = Nil
      /\ \A h \in Host : held[h] # n
  BY <1>0, <1>1, InsertStep
<1>3. PICK x \in CallType : /\ call' = [call EXCEPT ![c] = x] /\ Keeps(call[c], x)
                            /\ x.id = call[c].id /\ x.saw = call[c].saw
                            /\ x.run = n /\ x.at = next
  <2>1. \E x \in CallType : /\ call' = [call EXCEPT ![c] = x] /\ Keeps(call[c], x)
                             /\ x.id = call[c].id /\ x.saw = call[c].saw
                             /\ x.run = Len(runs) + 1 /\ x.at = next
    BY <1>1, InsertCall
  <2> QED BY <1>0, <2>1
<1>4. UNCHANGED <<task, machine>>
  BY <1>1 DEF InsertRun
<1>5. n \in Nat /\ n \in 1..Len(runs')
  BY <1>0, <1>2, NumbersType
<1>6. Fits(x)'
  <2>5. runs'[n].status = "pending" /\ runs'[n].url = Nil /\ runs'[n].remote = FALSE
    BY <1>2
  <2>6. task' = task /\ live' = live /\ held' = held
    BY <1>4 DEF machine
  <2>7. task[n].at = "none"
    BY <1>2 DEF NoTask
  <2>1. Unsent(n)' /\ task'[n].at = "none"
    BY <1>2, <2>5, <2>6, <2>7 DEF Unsent
  <2>2. x.op = "launch" => runs'[n].mode = "launch" /\ runs'[n].pin = x.id
    BY <1>1, <1>2, <1>3 DEF Keeps
  <2>3. Position(x)
    BY <1>1, <1>3 DEF Keeps, Position
  <2>4. x.op \in {"launch", "resume", "build"} /\ x.at \in {"pin", "start", "enqueue"} /\ x.run = n
    BY <1>1, <1>3 DEF Keeps
  <2> QED BY <1>5, <2>1, <2>2, <2>3, <2>4 DEF Fits, Position, Inserted
<1>7. ASSUME NEW d \in Caller, Inserted(call[d])
      PROVE  Rests(call[d].run) /\ call[d].run # n
  <2>1. PICK q : q = call[d].run
    OBVIOUS
  <2>2. q \in 1..Len(runs) /\ task[q].at = "none" /\ Unsent(q)
    BY <1>7, <2>1 DEF CallInv, Fits
  <2>3. Rests(q)
    BY <1>2, <1>4, <2>2 DEF Rests, Unsent, machine
  <2>4. q # n
    BY <1>0, <2>2, NumbersType
  <2> QED BY <2>1, <2>3, <2>4 DEF Rests
<1>8. \A d \in Caller \ {c} : Inserted(call[d]) => Rests(call[d].run)
  BY <1>7
<1>9. \A d \in Caller \ {c} : Inserted(call[d]) /\ Inserted(x) => call[d].run # x.run
  BY <1>3, <1>7
<1>10. SameRuns /\ call' = [call EXCEPT ![c] = x]
  BY <1>2, <1>3
<1> QED BY <1>6, <1>8, <1>9, <1>10, CallGoesOn

LEMMA InsertedRun ==
  ASSUME TypeInv, CallInv, NEW c \in Caller, Inserted(call[c])
  PROVE  /\ call[c].run \in 1..Len(runs) /\ call[c].run \in RunId
         /\ task[call[c].run].at = "none" /\ Unsent(call[c].run)
         /\ call[c].op = "launch" => runs[call[c].run].mode = "launch"
                                     /\ runs[call[c].run].pin = call[c].id
PROOF
<1>1. PICK x \in CallType : x = call[c]
  BY CallFacts
<1>2. /\ x.run \in 1..Len(runs) /\ task[x.run].at = "none" /\ Unsent(x.run)
      /\ x.op = "launch" => runs[x.run].mode = "launch" /\ runs[x.run].pin = x.id
  BY <1>1 DEF CallInv, Fits
<1>3. x.run \in RunId
  BY <1>2, NumbersType DEF TypeInv, RunsOK, RunId
<1> QED BY <1>1, <1>2, <1>3

LEMMA EnqueueStep ==
  ASSUME TypeInv, CallInv, NEW c \in Caller, Enqueue(c)
  PROVE  /\ Inserted(call[c]) /\ call[c].run \in 1..Len(runs) /\ call[c].run \in RunId
         /\ task[call[c].run].at = "none" /\ Unsent(call[c].run)
         /\ task'[call[c].run].at = "status"
         /\ task'[call[c].run].rows = task[call[c].run].rows
         /\ task'[call[c].run].why = task[call[c].run].why
         /\ \A q \in RunId \ {call[c].run} : task'[q] = task[q]
         /\ UNCHANGED <<hosts, rollout, runs, machine, bounds, history>>
         /\ call' = [call EXCEPT ![c] = NoCall]
PROOF
<1>1. Inserted(call[c])
  BY DEF Enqueue, Inserted
<1>2. PICK r \in RunId : r = call[c].run
  BY <1>1, InsertedRun
<1>3. task' = [task EXCEPT ![r].at = "status"] /\ task \in [RunId -> TaskType]
  BY <1>2 DEF Enqueue, TypeInv, TasksOK
<1>4. task'[r].at = "status" /\ task'[r].rows = task[r].rows /\ task'[r].why = task[r].why
  BY <1>3 DEF TaskType
<1>5. \A q \in RunId \ {r} : task'[q] = task[q]
  BY <1>3
<1> QED BY <1>1, <1>2, <1>4, <1>5, InsertedRun DEF Enqueue, End

LEMMA EnqueueCall ==
  ASSUME TypeInv, CallInv, NEW c \in Caller, Enqueue(c)
  PROVE  CallInv'
PROOF
<1>1. SameRuns
  BY NumbersType DEF Enqueue, SameRuns
<1>2. ASSUME NEW d \in Caller \ {c}, Inserted(call[d]) PROVE Rests(call[d].run)
  <2>1. PICK q \in RunId : q = call[d].run
    BY <1>2, InsertedRun
  <2>2. task[q].at = "none" /\ Unsent(q)
    BY <1>2, <2>1, InsertedRun
  <2>3. q # call[c].run
    BY <1>2, <2>1, EnqueueStep DEF CallInv
  <2>4. task'[q] = task[q] /\ UNCHANGED <<runs, machine>>
    BY <2>3, EnqueueStep
  <2>5. Rests(q)
    BY <2>2, <2>4 DEF Rests, Unsent, machine
  <2> QED BY <2>1, <2>5 DEF Rests
<1>3. Fits(NoCall)'
  BY <1>1, NoCallFits, FitsKept
<1> QED BY <1>1, <1>2, <1>3, EnqueueStep, NoCallFits, CallGoesOn

\* What a stop of a run does: the row, then the host.
LEMMA StopWriteStep ==
  ASSUME TypeInv, NEW c \in Caller, StopWrite(c)
  PROVE  \E t \in call[c].todo, x \in CallType :
           /\ t = First(call[c].todo) /\ t.run \in 1..Len(runs) /\ t.run \in RunId
           /\ Len(runs') = Len(runs) /\ SameRuns
           /\ \A q \in 1..Len(runs) \ {t.run} : runs'[q] = runs[q]
           /\ runs'[t.run].status = "cancelled" /\ runs'[t.run].url = runs[t.run].url
           /\ runs'[t.run].remote = runs[t.run].remote
           /\ runs'[t.run].allow = runs[t.run].allow
           /\ call' = [call EXCEPT ![c] = x] /\ x.op = call[c].op /\ x.run = call[c].run
           /\ x.id = call[c].id /\ x.saw = call[c].saw /\ x.before = call[c].before
           /\ \/ t.url = Nil /\ x.at = "stop" /\ x.todo = call[c].todo \ {t}
              \/ t.url # Nil /\ x.at = "forward" /\ x.todo = call[c].todo
PROOF
<1>1. CallOf(call[c]) /\ call[c] \in CallType /\ call \in [Caller -> CallType]
  BY CallFacts
<1>2. call[c].todo \in SUBSET Entry /\ call[c].todo # {} /\ call[c].at = "stop"
  BY <1>1 DEF CallType, StopWrite
<1>3. PICK t : t = First(call[c].todo)
  OBVIOUS
<1>4. t \in call[c].todo /\ t \in Entry /\ t.run \in 1..Len(runs)
  BY <1>1, <1>2, <1>3, FirstIn DEF CallOf
<1>5. t.run \in RunId
  BY <1>4, NumbersType DEF TypeInv, RunsOK, RunId
<1>6. PICK r \in 1..Len(runs) : r = t.run
  BY <1>4
<1>7. runs' = [runs EXCEPT ![r].status = "cancelled"] /\ runs \in Seq(Run) /\ runs[r] \in Run
  BY <1>3, <1>6 DEF StopWrite, TypeInv, RunsOK
<1>8. PICK y : y = [runs[r] EXCEPT !.status = "cancelled"]
  OBVIOUS
<1>9. /\ y.status = "cancelled" /\ y.url = runs[r].url /\ y.remote = runs[r].remote
      /\ y.mode = runs[r].mode /\ y.pin = runs[r].pin /\ y.allow = runs[r].allow
  BY <1>7, <1>8 DEF Run
<1>10. Len(runs') = Len(runs) /\ (\A q \in 1..Len(runs) \ {r} : runs'[q] = runs[q]) /\ runs'[r] = y
  BY <1>7, <1>8
<1>11. SameRuns
  BY <1>9, <1>10, NumbersType DEF SameRuns
<1>12. \E x \in CallType :
         /\ call' = [call EXCEPT ![c] = x] /\ x.op = call[c].op /\ x.run = call[c].run
         /\ x.id = call[c].id /\ x.saw = call[c].saw /\ x.before = call[c].before
         /\ \/ t.url = Nil /\ x.at = "stop" /\ x.todo = call[c].todo \ {t}
            \/ t.url # Nil /\ x.at = "forward" /\ x.todo = call[c].todo
  <2>1. CASE t.url = Nil
    <3>1. call' = [call EXCEPT ![c].todo = @ \ {t}]
      BY <1>3, <2>1 DEF StopWrite
    <3>2. call' = [call EXCEPT ![c] = [call[c] EXCEPT !.todo = @ \ {t}]]
      BY <1>1, <3>1
    <3>3. PICK x : x = [call[c] EXCEPT !.todo = @ \ {t}]
      OBVIOUS
    <3>4. /\ x \in CallType /\ x.id = call[c].id /\ x.run = call[c].run /\ x.op = call[c].op
          /\ x.saw = call[c].saw /\ x.before = call[c].before /\ x.at = "stop"
          /\ x.todo = call[c].todo \ {t}
      BY <1>1, <1>2, <3>3 DEF CallType
    <3> QED BY <2>1, <3>2, <3>3, <3>4
  <2>2. CASE t.url # Nil
    <3>1. call' = [call EXCEPT ![c].at = "forward"]
      BY <1>3, <2>2 DEF StopWrite
    <3>2. call' = [call EXCEPT ![c] = [call[c] EXCEPT !.at = "forward"]]
      BY <1>1, <3>1
    <3>3. PICK x : x = [call[c] EXCEPT !.at = "forward"]
      OBVIOUS
    <3>4. /\ x \in CallType /\ x.id = call[c].id /\ x.run = call[c].run /\ x.op = call[c].op
          /\ x.saw = call[c].saw /\ x.before = call[c].before /\ x.at = "forward"
          /\ x.todo = call[c].todo
      BY <1>1, <3>3 DEF CallType, CallPlaces
    <3> QED BY <2>2, <3>2, <3>3, <3>4
  <2> QED BY <2>1, <2>2
<1> QED BY <1>3, <1>4, <1>5, <1>6, <1>9, <1>10, <1>11, <1>12

LEMMA StopForwardStep ==
  ASSUME TypeInv, CallInv, NEW c \in Caller, StopForward(c)
  PROVE  \E t \in call[c].todo, x \in CallType :
           /\ t = First(call[c].todo) /\ t.run \in 1..Len(runs) /\ t.run \in RunId
           /\ t.url # Nil
           /\ \/ t.url \in DOMAIN reg' /\ live' = [live EXCEPT ![t.run] = Nil] /\ excused' = excused
              \/ live' = live /\ excused' = excused \cup {t.run}
           /\ call' = [call EXCEPT ![c] = x] /\ x.op = call[c].op /\ x.run = call[c].run
           /\ x.id = call[c].id /\ x.saw = call[c].saw /\ x.before = call[c].before
           /\ x.at = "stop" /\ x.todo = call[c].todo \ {t}
PROOF
<1>1. CallOf(call[c]) /\ call[c] \in CallType /\ call \in [Caller -> CallType]
  BY CallFacts
<1>2. call[c].todo \in SUBSET Entry /\ call[c].todo # {} /\ First(call[c].todo).url # Nil
  BY <1>1 DEF CallType, StopForward, CallInv, Fits
<1>3. PICK t : t = First(call[c].todo)
  OBVIOUS
<1>4. t \in call[c].todo /\ t \in Entry /\ t.run \in 1..Len(runs)
  BY <1>1, <1>2, <1>3, FirstIn DEF CallOf
<1>5. t.run \in RunId
  BY <1>4, NumbersType DEF TypeInv, RunsOK, RunId
<1>6. call' = [call EXCEPT ![c].at = "stop", ![c].todo = @ \ {t}]
  BY <1>3 DEF StopForward
<1>7. call' = [call EXCEPT ![c] = [call[c] EXCEPT !.at = "stop", !.todo = @ \ {t}]]
  BY <1>1, <1>6
<1>8. PICK x : x = [call[c] EXCEPT !.at = "stop", !.todo = @ \ {t}]
  OBVIOUS
<1>9. /\ x \in CallType /\ x.id = call[c].id /\ x.run = call[c].run /\ x.op = call[c].op
      /\ x.saw = call[c].saw /\ x.before = call[c].before /\ x.at = "stop"
      /\ x.todo = call[c].todo \ {t}
  BY <1>1, <1>8 DEF CallType, CallPlaces
<1>10. \/ t.url \in DOMAIN reg' /\ live' = [live EXCEPT ![t.run] = Nil] /\ excused' = excused
       \/ live' = live /\ excused' = excused \cup {t.run}
  BY <1>3 DEF StopForward
<1> QED BY <1>2, <1>3, <1>4, <1>5, <1>7, <1>8, <1>9, <1>10

LEMMA StopsCall ==
  ASSUME TypeInv, CallInv, NEW c \in Caller, StopWrite(c) \/ StopForward(c)
  PROVE  CallInv'
PROOF
<1>1. Fits(call[c]) /\ call[c].at \in {"stop", "forward"}
  BY DEF CallInv, StopWrite, StopForward
<1>2. CASE StopWrite(c)
  <2>1. PICK t \in call[c].todo, x \in CallType :
           /\ t = First(call[c].todo) /\ t.run \in 1..Len(runs) /\ t.run \in RunId
           /\ Len(runs') = Len(runs) /\ SameRuns
           /\ \A q \in 1..Len(runs) \ {t.run} : runs'[q] = runs[q]
           /\ runs'[t.run].status = "cancelled" /\ runs'[t.run].url = runs[t.run].url
           /\ runs'[t.run].remote = runs[t.run].remote
           /\ runs'[t.run].allow = runs[t.run].allow
           /\ call' = [call EXCEPT ![c] = x] /\ x.op = call[c].op /\ x.run = call[c].run
           /\ x.id = call[c].id /\ x.saw = call[c].saw /\ x.before = call[c].before
           /\ \/ t.url = Nil /\ x.at = "stop" /\ x.todo = call[c].todo \ {t}
              \/ t.url # Nil /\ x.at = "forward" /\ x.todo = call[c].todo
    BY <1>2, StopWriteStep
  <2>2. UNCHANGED <<task, machine>>
    BY <1>2 DEF StopWrite
  <2>3. ASSUME NEW d \in Caller, Inserted(call[d]) PROVE Rests(call[d].run)
    <3>1. PICK q \in RunId : q = call[d].run
      BY <2>3, InsertedRun
    <3>2. q \in 1..Len(runs) /\ task[q].at = "none" /\ Unsent(q)
      BY <2>3, <3>1, InsertedRun
    <3>3. runs'[q].status \in {"pending", "cancelled"} /\ runs'[q].url = Nil /\ ~runs'[q].remote
      BY <2>1, <3>2 DEF Unsent
    <3>4. Rests(q)
      BY <2>2, <3>2, <3>3 DEF Rests, Unsent, machine
    <3> QED BY <3>1, <3>4 DEF Rests
  <2>4. call[c].todo # {}
    BY <1>2 DEF StopWrite
  <2>5. Fits(x) /\ ~Inserted(x)
    BY <1>1, <2>1, <2>4 DEF Fits, Position, Inserted
  <2>6. Fits(x)'
    BY <2>1, <2>5, FitsKept
  <2> QED BY <2>1, <2>3, <2>5, <2>6, CallGoesOn
<1>3. CASE StopForward(c)
  <2>1. PICK t \in call[c].todo, x \in CallType :
           /\ t = First(call[c].todo) /\ t.run \in 1..Len(runs) /\ t.run \in RunId
           /\ t.url # Nil
           /\ \/ t.url \in DOMAIN reg' /\ live' = [live EXCEPT ![t.run] = Nil] /\ excused' = excused
              \/ live' = live /\ excused' = excused \cup {t.run}
           /\ call' = [call EXCEPT ![c] = x] /\ x.op = call[c].op /\ x.run = call[c].run
           /\ x.id = call[c].id /\ x.saw = call[c].saw /\ x.before = call[c].before
           /\ x.at = "stop" /\ x.todo = call[c].todo \ {t}
    BY <1>3, StopForwardStep
  <2>2. UNCHANGED <<runs, task, held>>
    BY <1>3 DEF StopForward
  <2>3. SameRuns
    BY <2>2, NumbersType DEF SameRuns
  <2>4. \A q \in RunId : live[q] = Nil => live'[q] = Nil
    BY <2>1 DEF TypeInv, RunsOK
  <2>5. ASSUME NEW d \in Caller, Inserted(call[d]) PROVE Rests(call[d].run)
    <3>1. PICK q \in RunId : q = call[d].run
      BY <2>5, InsertedRun
    <3>2. task[q].at = "none" /\ Unsent(q)
      BY <2>5, <3>1, InsertedRun
    <3>3. Rests(q)
      BY <2>2, <2>4, <3>2 DEF Rests, Unsent
    <3> QED BY <3>1, <3>3 DEF Rests
  <2>6. Fits(x) /\ ~Inserted(x)
    BY <1>1, <2>1 DEF Fits, Position, Inserted
  <2>7. Fits(x)'
    BY <2>3, <2>6, FitsKept
  <2> QED BY <2>1, <2>3, <2>5, <2>6, <2>7, CallGoesOn
<1> QED BY <1>2, <1>3

\* What a step of a task leaves alone, and what it keeps of its locals.
TaskFrame(r) ==
  /\ r \in 1..Len(runs)
  /\ UNCHANGED <<rollout, call, drainedAt>>
  /\ \A q \in RunId \ {r} : task'[q] = task[q] /\ live'[q] = live[q]
  /\ Len(runs') = Len(runs)
  /\ \A q \in 1..Len(runs) \ {r} : runs'[q] = runs[q]
  /\ runs'[r].mode = runs[r].mode /\ runs'[r].pin = runs[r].pin
  /\ runs'[r].allow = runs[r].allow
TaskTo(r, at) ==
  /\ task'[r].at = at /\ task'[r].rows = task[r].rows
  /\ task'[r].host = task[r].host /\ task'[r].why = task[r].why

LEMMA GoesTo ==
  ASSUME TypeInv, NEW r \in RunId, NEW at \in TaskPlaces, TaskGo(r, at)
  PROVE  TaskTo(r, at) /\ \A q \in RunId \ {r} : task'[q] = task[q]
PROOF BY DEF TypeInv, TasksOK, TaskType, TaskGo, TaskTo

LEMMA EndsAt ==
  ASSUME TypeInv, NEW r \in RunId, TaskEnd(r)
  PROVE  task'[r] = NoTask /\ \A q \in RunId \ {r} : task'[q] = task[q]
PROOF BY DEF TypeInv, TasksOK, TaskEnd

LEMMA FailsWith ==
  ASSUME TypeInv, NEW r \in RunId, NEW why \in Reasons, FailWith(r, why)
  PROVE  /\ task'[r].at = "fail" /\ task'[r].why = why /\ task'[r].rows = task[r].rows
         /\ \A q \in RunId \ {r} : task'[q] = task[q]
PROOF BY DEF TypeInv, TasksOK, TaskType, FailWith, TaskPlaces

LEMMA SameFrame ==
  ASSUME NEW r \in 1..Len(runs), UNCHANGED <<rollout, call, drainedAt, runs, machine>>,
         \A q \in RunId \ {r} : task'[q] = task[q]
  PROVE  TaskFrame(r)
PROOF BY DEF TaskFrame, machine

LEMMA StatusStep ==
  ASSUME TypeInv, NEW r \in RunId, TaskStatus(r)
  PROVE  /\ TaskFrame(r) /\ UNCHANGED <<hosts, runs, machine, excused>> /\ task[r].at = "status"
         /\ task'[r] = NoTask \/ TaskTo(r, "hosts")
PROOF
<1>1. r \in 1..Len(runs) /\ task[r].at = "status"
  BY TaskRun DEF TaskStatus
<1>2. UNCHANGED <<hosts, rollout, call, runs, machine, excused, drainedAt>>
  BY DEF TaskStatus, history
<1>3. TaskGo(r, "hosts") \/ TaskEnd(r)
  BY DEF TaskStatus
<1> QED BY <1>1, <1>2, <1>3, GoesTo, EndsAt, SameFrame DEF TaskPlaces

LEMMA HostsStep ==
  ASSUME TypeInv, NEW r \in RunId, TaskHosts(r)
  PROVE  /\ TaskFrame(r) /\ UNCHANGED <<runs, machine, excused>> /\ ReadHosts
         /\ task[r].at = "hosts"
         /\ \/ TaskTo(r, "fail")
            \/ /\ task'[r].at = "pick" /\ task'[r].rows = reg'
               /\ task'[r].host = task[r].host /\ task'[r].why = task[r].why
PROOF
<1>1. r \in 1..Len(runs) /\ task[r].at = "hosts"
  BY TaskRun DEF TaskHosts
<1>2. UNCHANGED <<rollout, call, runs, machine, excused, drainedAt>> /\ ReadHosts
  BY DEF TaskHosts, history
<1>3. CASE TaskGo(r, "fail")
  BY <1>1, <1>2, <1>3, GoesTo, SameFrame DEF TaskPlaces
<1>4. CASE task' = [task EXCEPT ![r].at = "pick", ![r].rows = reg']
  <2>1. /\ task'[r].at = "pick" /\ task'[r].rows = reg'
        /\ task'[r].host = task[r].host /\ task'[r].why = task[r].why
        /\ \A q \in RunId \ {r} : task'[q] = task[q]
    BY <1>4 DEF TypeInv, TasksOK, TaskType
  <2> QED BY <1>1, <1>2, <2>1, SameFrame
<1> QED BY <1>3, <1>4 DEF TaskHosts

LEMMA PickStep ==
  ASSUME TypeInv, NEW r \in RunId, TaskPick(r)
  PROVE  /\ TaskFrame(r) /\ UNCHANGED <<hosts, runs, machine, excused>> /\ task[r].at = "pick"
         /\ \/ task'[r] = NoTask
            \/ task'[r].at = "fail" /\ task'[r].rows = task[r].rows
            \/ \E h \in DOMAIN task[r].rows :
                 /\ task'[r].at = "post" /\ task'[r].host = h /\ task'[r].rows = task[r].rows
                 /\ task'[r].why = task[r].why
                 /\ runs[r].pin # 0 => task[r].rows[h].id = runs[r].pin
                 /\ ~task[r].rows[h].drained \/ runs[r].allow
PROOF
<1>1. r \in 1..Len(runs) /\ task[r].at = "pick"
  BY TaskRun DEF TaskPick
<1>2. UNCHANGED <<hosts, rollout, call, runs, machine, excused, drainedAt>>
  BY DEF TaskPick
<1>3. CASE TaskEnd(r)
  BY <1>1, <1>2, <1>3, EndsAt, SameFrame
<1>4. CASE \E why \in Refusal : FailWith(r, why)
  BY <1>1, <1>2, <1>4, FailsWith, SameFrame DEF Reasons
<1>5. ASSUME NEW h \in DOMAIN task[r].rows,
             task' = [task EXCEPT ![r].at = "post", ![r].host = h]
      PROVE  /\ task'[r].at = "post" /\ task'[r].host = h /\ task'[r].rows = task[r].rows
             /\ task'[r].why = task[r].why /\ TaskFrame(r)
  <2>1. /\ task'[r].at = "post" /\ task'[r].host = h /\ task'[r].rows = task[r].rows
        /\ task'[r].why = task[r].why
        /\ \A q \in RunId \ {r} : task'[q] = task[q]
    BY <1>5 DEF TypeInv, TasksOK, TaskType
  <2> QED BY <1>1, <1>2, <2>1, SameFrame
<1> QED BY <1>1, <1>2, <1>3, <1>4, <1>5, PickChoice

LEMMA PostStep ==
  ASSUME TypeInv, TaskInv, NEW r \in RunId, TaskPost(r)
  PROVE  /\ TaskFrame(r) /\ UNCHANGED <<hosts, runs>> /\ task[r].at = "post"
         /\ task[r].host \in Host /\ live'[r] = task[r].host
         /\ IsLoop(r) => ~Drives(task[r].host)
         /\ held' = IF IsLoop(r) THEN [held EXCEPT ![task[r].host] = r] ELSE held
         /\ \/ TaskTo(r, "confirm") /\ excused' = excused
            \/ /\ task'[r].at = "fail" /\ task'[r].rows = task[r].rows /\ task'[r].why = "lost"
               /\ excused' = excused \cup {r}
PROOF
<1>1. r \in 1..Len(runs) /\ task[r].at = "post"
  BY TaskRun DEF TaskPost
<1>2. UNCHANGED <<hosts, rollout, call, runs, drainedAt>>
  BY DEF TaskPost
<1>3. task[r].host \in Host
  BY <1>1 DEF TaskInv, TaskFits
<1>4. live' = [live EXCEPT ![r] = task[r].host]
  BY DEF TaskPost
<1>5. live'[r] = task[r].host /\ \A q \in RunId \ {r} : live'[q] = live[q]
  BY <1>4 DEF TypeInv, RunsOK
<1>6. /\ IsLoop(r) => ~Drives(task[r].host)
      /\ held' = IF IsLoop(r) THEN [held EXCEPT ![task[r].host] = r] ELSE held
  BY DEF TaskPost
<1>7. CASE TaskGo(r, "confirm") /\ excused' = excused
  <2>1. TaskTo(r, "confirm") /\ \A q \in RunId \ {r} : task'[q] = task[q]
    BY <1>7, GoesTo DEF TaskPlaces
  <2> QED BY <1>1, <1>2, <1>3, <1>5, <1>6, <1>7, <2>1 DEF TaskFrame
<1>8. CASE FailWith(r, "lost") /\ excused' = excused \cup {r}
  <2>1. /\ task'[r].at = "fail" /\ task'[r].why = "lost" /\ task'[r].rows = task[r].rows
        /\ \A q \in RunId \ {r} : task'[q] = task[q]
    BY <1>8, FailsWith DEF Reasons
  <2> QED BY <1>1, <1>2, <1>3, <1>5, <1>6, <1>8, <2>1 DEF TaskFrame
<1> QED BY <1>7, <1>8 DEF TaskPost

LEMMA RefusedStep ==
  ASSUME TypeInv, NEW r \in RunId, TaskRefused(r)
  PROVE  /\ TaskFrame(r) /\ UNCHANGED <<hosts, runs, machine, excused>> /\ task[r].at = "post"
         /\ \/ TaskTo(r, "pick")
            \/ /\ task'[r].at = "fail" /\ task'[r].why \in {"full", "lost"}
               /\ task'[r].rows = task[r].rows
            \/ TaskTo(r, "twin") /\ IsLoop(r) /\ Drives(task[r].host)
PROOF
<1>1. r \in 1..Len(runs) /\ task[r].at = "post"
  BY TaskRun DEF TaskRefused
<1>2. UNCHANGED <<hosts, rollout, call, runs, machine, excused, drainedAt>>
  BY DEF TaskRefused, history
<1>3. CASE task' = [task EXCEPT ![r].at = "pick", ![r].out = @ \cup {task[r].host}]
  <2>1. TaskTo(r, "pick") /\ \A q \in RunId \ {r} : task'[q] = task[q]
    BY <1>3 DEF TypeInv, TasksOK, TaskType, TaskTo
  <2> QED BY <1>1, <1>2, <2>1, SameFrame
<1>4. CASE FailWith(r, "full") \/ FailWith(r, "lost")
  BY <1>1, <1>2, <1>4, FailsWith, SameFrame DEF Reasons, Refusal
<1>5. CASE TaskGo(r, "twin") /\ IsLoop(r) /\ Drives(task[r].host)
  BY <1>1, <1>2, <1>5, GoesTo, SameFrame DEF TaskPlaces
<1> QED BY <1>3, <1>4, <1>5 DEF TaskRefused

LEMMA ConfirmStep ==
  ASSUME TypeInv, NEW r \in RunId, TaskConfirm(r)
  PROVE  /\ TaskFrame(r) /\ UNCHANGED <<hosts, runs, machine, excused>> /\ task[r].at = "confirm"
         /\ TaskTo(r, IF runs[r].status = "cancelled" THEN "recall" ELSE "write")
PROOF
<1>1. r \in 1..Len(runs) /\ task[r].at = "confirm"
  BY TaskRun DEF TaskConfirm
<1>2. UNCHANGED <<hosts, rollout, call, runs, machine, excused, drainedAt>>
  BY DEF TaskConfirm, history
<1>3. PICK at \in TaskPlaces : at = IF runs[r].status = "cancelled" THEN "recall" ELSE "write"
  BY DEF TaskPlaces
<1>4. TaskTo(r, at) /\ \A q \in RunId \ {r} : task'[q] = task[q]
  BY <1>3, GoesTo DEF TaskConfirm
<1> QED BY <1>1, <1>2, <1>3, <1>4, SameFrame

LEMMA RunOf == ASSUME TypeInv, NEW r \in 1..Len(runs) PROVE runs \in Seq(Run) /\ runs[r] \in Run
PROOF BY DEF TypeInv, RunsOK

\* The row of one run is written.
LEMMA WriteFrame ==
  ASSUME TypeInv, NEW r \in RunId, r \in 1..Len(runs), UNCHANGED <<rollout, call, drainedAt>>,
         \A q \in RunId \ {r} : task'[q] = task[q] /\ live'[q] = live[q],
         NEW x, runs' = [runs EXCEPT ![r] = x],
         x.mode = runs[r].mode, x.pin = runs[r].pin, x.allow = runs[r].allow
  PROVE  TaskFrame(r) /\ runs'[r] = x
PROOF
<1>1. runs \in Seq(Run)
  BY RunOf
<1>2. Len(runs') = Len(runs) /\ (\A q \in 1..Len(runs) \ {r} : runs'[q] = runs[q]) /\ runs'[r] = x
  BY <1>1
<1> QED BY <1>2 DEF TaskFrame

LEMMA TwinStep ==
  ASSUME TypeInv, NEW r \in RunId, TaskTwin(r)
  PROVE  /\ TaskFrame(r) /\ UNCHANGED <<hosts, machine, excused>> /\ task[r].at = "twin"
         /\ task'[r] = NoTask
         /\ runs'[r].status = "cancelled" /\ runs'[r].url = task[r].host
         /\ runs'[r].remote = runs[r].remote
PROOF
<1>1. r \in 1..Len(runs) /\ task[r].at = "twin"
  BY TaskRun DEF TaskTwin
<1>2. UNCHANGED <<hosts, rollout, call, machine, excused, drainedAt>>
  BY DEF TaskTwin, history
<1>3. task'[r] = NoTask /\ \A q \in RunId \ {r} : task'[q] = task[q] /\ live'[q] = live[q]
  BY <1>2, EndsAt DEF TaskTwin, machine
<1>4. PICK x : x = [runs[r] EXCEPT !.status = "cancelled", !.url = task[r].host]
  OBVIOUS
<1>5. /\ x.mode = runs[r].mode /\ x.pin = runs[r].pin /\ x.allow = runs[r].allow
      /\ x.status = "cancelled" /\ x.url = task[r].host /\ x.remote = runs[r].remote
  BY <1>1, <1>4, RunOf DEF Run
<1>6. runs' = [runs EXCEPT ![r].status = "cancelled", ![r].url = task[r].host]
  BY DEF TaskTwin
<1>7. runs' = [runs EXCEPT ![r] = x]
  BY <1>1, <1>4, <1>6, RunOf
<1>8. TaskFrame(r) /\ runs'[r] = x
  BY <1>1, <1>2, <1>3, <1>5, <1>7, WriteFrame
<1> QED BY <1>1, <1>2, <1>3, <1>5, <1>8

LEMMA FailStep ==
  ASSUME TypeInv, NEW r \in RunId, TaskFail(r)
  PROVE  /\ TaskFrame(r) /\ UNCHANGED <<hosts, machine, excused>> /\ task[r].at = "fail"
         /\ task'[r] = NoTask
         /\ runs'[r].status = "failed" /\ runs'[r].url = runs[r].url
         /\ runs'[r].remote = runs[r].remote
PROOF
<1>1. r \in 1..Len(runs) /\ task[r].at = "fail"
  BY TaskRun DEF TaskFail
<1>2. UNCHANGED <<hosts, rollout, call, machine, excused, drainedAt>>
  BY DEF TaskFail, history
<1>3. task'[r] = NoTask /\ \A q \in RunId \ {r} : task'[q] = task[q] /\ live'[q] = live[q]
  BY <1>2, EndsAt DEF TaskFail, machine
<1>4. PICK x : x = [runs[r] EXCEPT !.status = "failed"]
  OBVIOUS
<1>5. /\ x.mode = runs[r].mode /\ x.pin = runs[r].pin /\ x.allow = runs[r].allow
      /\ x.status = "failed" /\ x.url = runs[r].url /\ x.remote = runs[r].remote
  BY <1>1, <1>4, RunOf DEF Run
<1>6. runs' = [runs EXCEPT ![r].status = "failed"]
  BY DEF TaskFail
<1>7. runs' = [runs EXCEPT ![r] = x]
  BY <1>1, <1>4, <1>6, RunOf
<1>8. TaskFrame(r) /\ runs'[r] = x
  BY <1>1, <1>2, <1>3, <1>5, <1>7, WriteFrame
<1> QED BY <1>1, <1>2, <1>3, <1>5, <1>8

LEMMA WatchStep ==
  ASSUME TypeInv, NEW r \in RunId, TaskWatch(r)
  PROVE  /\ TaskFrame(r) /\ UNCHANGED <<hosts, machine, excused>> /\ task[r].at = "watch"
         /\ task'[r] = NoTask /\ live[r] = Nil
         /\ runs'[r].status = "ended" /\ runs'[r].url = runs[r].url
         /\ runs'[r].remote = runs[r].remote
PROOF
<1>1. r \in 1..Len(runs) /\ task[r].at = "watch" /\ live[r] = Nil
  BY TaskRun DEF TaskWatch
<1>2. UNCHANGED <<hosts, rollout, call, machine, excused, drainedAt>>
  BY DEF TaskWatch, history
<1>3. task'[r] = NoTask /\ \A q \in RunId \ {r} : task'[q] = task[q] /\ live'[q] = live[q]
  BY <1>2, EndsAt DEF TaskWatch, machine
<1>4. PICK x : x = [runs[r] EXCEPT !.status = "ended"]
  OBVIOUS
<1>5. /\ x.mode = runs[r].mode /\ x.pin = runs[r].pin /\ x.allow = runs[r].allow
      /\ x.status = "ended" /\ x.url = runs[r].url /\ x.remote = runs[r].remote
  BY <1>1, <1>4, RunOf DEF Run
<1>6. runs' = [runs EXCEPT ![r].status = "ended"]
  BY DEF TaskWatch
<1>7. runs' = [runs EXCEPT ![r] = x]
  BY <1>1, <1>4, <1>6, RunOf
<1>8. TaskFrame(r) /\ runs'[r] = x
  BY <1>1, <1>2, <1>3, <1>5, <1>7, WriteFrame
<1> QED BY <1>1, <1>2, <1>3, <1>5, <1>8

LEMMA WriteStep ==
  ASSUME TypeInv, NEW r \in RunId, TaskWrite(r)
  PROVE  /\ TaskFrame(r) /\ UNCHANGED <<hosts, machine>> /\ task[r].at = "write"
         /\ TaskTo(r, "watch")
         /\ runs'[r].status = "running" /\ runs'[r].url = task[r].host
         /\ runs'[r].remote = TRUE
         /\ excused' = IF runs[r].status = "cancelled" THEN excused \cup {r} ELSE excused
PROOF
<1>1. r \in 1..Len(runs) /\ task[r].at = "write"
  BY TaskRun DEF TaskWrite
<1>2. UNCHANGED <<hosts, rollout, call, machine, drainedAt>>
  BY DEF TaskWrite
<1>3. TaskTo(r, "watch") /\ \A q \in RunId \ {r} : task'[q] = task[q] /\ live'[q] = live[q]
  BY <1>2, GoesTo DEF TaskWrite, machine, TaskPlaces
<1>4. PICK x : x = [runs[r] EXCEPT !.status = "running", !.url = task[r].host, !.remote = TRUE]
  OBVIOUS
<1>5. /\ x.mode = runs[r].mode /\ x.pin = runs[r].pin /\ x.allow = runs[r].allow
      /\ x.status = "running" /\ x.url = task[r].host /\ x.remote = TRUE
  BY <1>1, <1>4, RunOf DEF Run
<1>6. /\ runs' = [runs EXCEPT ![r].status = "running", ![r].url = task[r].host,
                              ![r].remote = TRUE]
      /\ excused' = IF runs[r].status = "cancelled" THEN excused \cup {r} ELSE excused
  BY DEF TaskWrite
<1>7. runs' = [runs EXCEPT ![r] = x]
  BY <1>1, <1>4, <1>6, RunOf
<1>8. TaskFrame(r) /\ runs'[r] = x
  BY <1>1, <1>2, <1>3, <1>5, <1>7, WriteFrame
<1> QED BY <1>1, <1>2, <1>3, <1>5, <1>6, <1>8

LEMMA RecallStep ==
  ASSUME TypeInv, NEW r \in RunId, TaskRecall(r)
  PROVE  /\ TaskFrame(r) /\ UNCHANGED <<hosts, held>> /\ task[r].at = "recall"
         /\ task'[r] = NoTask
         /\ runs'[r].status = runs[r].status /\ runs'[r].url = task[r].host
         /\ runs'[r].remote = TRUE
         /\ \/ live'[r] = Nil /\ excused' = excused
            \/ live'[r] = live[r] /\ excused' = excused \cup {r}
PROOF
<1>1. r \in 1..Len(runs) /\ task[r].at = "recall"
  BY TaskRun DEF TaskRecall
<1>2. UNCHANGED <<hosts, rollout, call, held, drainedAt>>
  BY DEF TaskRecall
<1>9. \/ live' = [live EXCEPT ![r] = Nil] /\ excused' = excused
      \/ live' = live /\ excused' = excused \cup {r}
  BY DEF TaskRecall
<1>10. \/ live'[r] = Nil /\ excused' = excused
       \/ live'[r] = live[r] /\ excused' = excused \cup {r}
  BY <1>9 DEF TypeInv, RunsOK
<1>3. task'[r] = NoTask /\ \A q \in RunId \ {r} : task'[q] = task[q] /\ live'[q] = live[q]
  BY <1>9, EndsAt DEF TaskRecall, TypeInv, RunsOK
<1>4. PICK x : x = [runs[r] EXCEPT !.url = task[r].host, !.remote = TRUE]
  OBVIOUS
<1>5. /\ x.mode = runs[r].mode /\ x.pin = runs[r].pin /\ x.allow = runs[r].allow
      /\ x.status = runs[r].status /\ x.url = task[r].host /\ x.remote = TRUE
  BY <1>1, <1>4, RunOf DEF Run
<1>6. runs' = [runs EXCEPT ![r].url = task[r].host, ![r].remote = TRUE]
  BY DEF TaskRecall
<1>7. runs' = [runs EXCEPT ![r] = x]
  BY <1>1, <1>4, <1>6, RunOf
<1>8. TaskFrame(r) /\ runs'[r] = x
  BY <1>1, <1>2, <1>3, <1>5, <1>7, WriteFrame
<1> QED BY <1>1, <1>2, <1>3, <1>5, <1>8, <1>10

\* What every step of a task has in common.
LEMMA TaskSteps ==
  ASSUME TypeInv, TaskInv, NEW r \in RunId, TaskStep(r)
  PROVE  /\ TaskFrame(r) /\ task[r].at # "none"
         /\ \A h \in Host : held'[h] = held[h] \/ (held'[h] = r /\ IsLoop(r))
         /\ excused \subseteq excused' /\ excused' \subseteq excused \cup {r}
         /\ ReadHosts \/ UNCHANGED hosts
PROOF
<1>1. CASE TaskStatus(r)
  BY <1>1, StatusStep DEF machine
<1>2. CASE TaskHosts(r)
  BY <1>2, HostsStep DEF machine
<1>3. CASE TaskPick(r)
  BY <1>3, PickStep DEF machine
<1>4. CASE TaskPost(r)
  <2>1. \A h \in Host : held'[h] = held[h] \/ (held'[h] = r /\ IsLoop(r))
    BY <1>4, PostStep DEF TypeInv, RunsOK
  <2> QED BY <1>4, <2>1, PostStep
<1>5. CASE TaskRefused(r)
  BY <1>5, RefusedStep DEF machine
<1>6. CASE TaskTwin(r)
  BY <1>6, TwinStep DEF machine
<1>7. CASE TaskFail(r)
  BY <1>7, FailStep DEF machine
<1>8. CASE TaskConfirm(r)
  BY <1>8, ConfirmStep DEF machine
<1>9. CASE TaskRecall(r)
  BY <1>9, RecallStep
<1>10. CASE TaskWrite(r)
  BY <1>10, WriteStep DEF machine
<1>11. CASE TaskWatch(r)
  BY <1>11, WatchStep DEF machine
<1> QED BY <1>1, <1>2, <1>3, <1>4, <1>5, <1>6, <1>7, <1>8, <1>9, <1>10, <1>11 DEF TaskStep

LEMMA TaskStepsCall ==
  ASSUME TypeInv, CallInv, TaskInv, NEW r \in RunId, TaskStep(r)
  PROVE  CallInv'
PROOF
<1>1. /\ TaskFrame(r) /\ task[r].at # "none"
      /\ \A h \in Host : held'[h] = held[h] \/ (held'[h] = r /\ IsLoop(r))
  BY TaskSteps
<1>2. SameRuns /\ UNCHANGED call
  BY <1>1, NumbersType DEF TaskFrame, SameRuns
<1>3. ASSUME NEW c \in Caller, Inserted(call[c]) PROVE Rests(call[c].run)
  <2>1. PICK q \in RunId : q = call[c].run
    BY <1>3, InsertedRun
  <2>2. q \in 1..Len(runs) /\ task[q].at = "none" /\ Unsent(q)
    BY <1>3, <2>1, InsertedRun
  <2>3. q # r
    BY <1>1, <2>2
  <2>4. task'[q] = task[q] /\ live'[q] = live[q] /\ runs'[q] = runs[q]
    BY <1>1, <2>2, <2>3 DEF TaskFrame
  <2>5. Rests(q)
    BY <1>1, <2>2, <2>3, <2>4 DEF Rests, Unsent
  <2> QED BY <2>1, <2>5 DEF Rests
<1> QED BY <1>2, <1>3, CallsRest

HostChange(h, yes, drained) ==
  \/ HostAdd(h, drained, yes) \/ HostLabels(h, yes)
  \/ HostDrain(h) \/ HostUndrain(h) \/ HostRemove(h)

LEMMA ChangesKeep ==
  ASSUME NEW h \in Host, NEW yes, NEW drained, HostChange(h, yes, drained)
  PROVE  UNCHANGED <<rollout, runs, task, call, machine, excused>>
PROOF BY DEF HostChange, HostAdd, HostLabels, HostDrain, HostUndrain, HostRemove, Change

LEMMA WorkEndsStep ==
  ASSUME TypeInv, NEW r \in RunId, WorkEnds(r) \/ LoopCrash(r)
  PROVE  /\ UNCHANGED <<hosts, rollout, runs, task, call, excused, drainedAt>>
         /\ r \in 1..Len(runs) /\ live[r] \in Host
         /\ live'[r] = Nil /\ \A q \in RunId \ {r} : live'[q] = live[q]
         /\ \A h \in Host : held'[h] = held[h] \/ held'[h] = 0
PROOF
<1>1. live[r] # Nil /\ live' = [live EXCEPT ![r] = Nil]
  BY DEF WorkEnds, LoopCrash
<1>2. live[r] \in Host /\ live'[r] = Nil /\ \A q \in RunId \ {r} : live'[q] = live[q]
  BY <1>1 DEF TypeInv, RunsOK
<1>3. r \in 1..Len(runs)
  BY <1>1, NumbersType DEF TypeInv, RunsOK, RunId
<1>4. UNCHANGED <<hosts, rollout, runs, task, call, excused, drainedAt>>
  BY DEF WorkEnds, LoopCrash, HostsOnly, history
<1>5. held' = held \/ held' = [held EXCEPT ![live[r]] = 0]
  BY DEF WorkEnds, LoopCrash
<1>6. \A h \in Host : held'[h] = held[h] \/ held'[h] = 0
  BY <1>2, <1>5 DEF TypeInv, RunsOK
<1> QED BY <1>2, <1>3, <1>4, <1>6

LEMMA ReadoptStep ==
  ASSUME TypeInv, NEW h \in Host, Readopt(h)
  PROVE  /\ UNCHANGED <<hosts, rollout, runs, task, call, excused, drainedAt, held>>
         /\ held[h] \in 1..Len(runs) /\ held[h] \in RunId /\ ~Drives(h)
         /\ live'[held[h]] = h /\ \A q \in RunId \ {held[h]} : live'[q] = live[q]
PROOF
<1>1. held[h] \in 1..Len(runs) /\ held[h] \in RunId
  BY NumbersType DEF Readopt, TypeInv, RunsOK, RunId
<1>2. UNCHANGED <<hosts, rollout, runs, task, call, excused, drainedAt, held>> /\ ~Drives(h)
  BY DEF Readopt, HostsOnly, history
<1>3. live'[held[h]] = h /\ \A q \in RunId \ {held[h]} : live'[q] = live[q]
  BY <1>1 DEF Readopt, TypeInv, RunsOK
<1> QED BY <1>1, <1>2, <1>3

LEMMA RestartStep ==
  ASSUME TypeInv, NEW reach \in SUBSET Host, Restart(reach)
  PROVE  /\ ReadHosts /\ UNCHANGED <<rollout, machine, drainedAt>>
         /\ call' = [c \in Caller |-> NoCall]
         /\ Len(runs') = Len(runs) /\ SameRuns
         /\ excused' = excused \cup {r \in RunId : live[r] # Nil}
         /\ \A r \in 1..Len(runs) :
              /\ runs'[r].allow = runs[r].allow /\ runs'[r].url = runs[r].url
              /\ runs'[r].remote = runs[r].remote
              /\ \/ /\ runs[r].status = "running" /\ runs[r].url \in Host
                    /\ runs'[r].status = "running"
                    /\ task'[r] = [NoTask EXCEPT !.at = "watch", !.host = runs[r].url]
                 \/ /\ task'[r] = NoTask
                    /\ \/ runs'[r].status = runs[r].status /\ runs[r].status \notin Active
                       \/ runs'[r].status = "failed"
         /\ \A r \in RunId : r \notin 1..Len(runs) => task'[r] = NoTask
PROOF
<1>1. PICK kept \in SUBSET (1..Len(runs)) :
        /\ \A r \in kept : runs[r].status = "running" /\ runs[r].url \in reach
        /\ task' = [r \in RunId |-> IF r \in kept
                                    THEN [NoTask EXCEPT !.at = "watch", !.host = runs[r].url]
                                    ELSE NoTask]
        /\ runs' = [r \in 1..Len(runs) |->
                      IF runs[r].status \in Active /\ r \notin kept
                      THEN [runs[r] EXCEPT !.status = "failed"] ELSE runs[r]]
  <2>1. PICK kept : kept = {r \in 1..Len(runs) : /\ runs[r].status = "running"
                                                 /\ runs[r].url \in reach \cap DOMAIN reg'}
    OBVIOUS
  <2> QED BY <2>1 DEF Restart
<1>2. ReadHosts /\ UNCHANGED <<rollout, machine, drainedAt>>
      /\ call' = [c \in Caller |-> NoCall]
      /\ excused' = excused \cup {r \in RunId : live[r] # Nil}
  BY DEF Restart
<1>3. Len(runs') = Len(runs)
  <2>1. ASSUME NEW r \in 1..Len(runs) PROVE runs'[r] \in Run
    <3>1. [runs[r] EXCEPT !.status = "failed"] \in Run
      BY RunOf DEF Run
    <3>2. runs'[r] = [runs[r] EXCEPT !.status = "failed"] \/ runs'[r] = runs[r]
      BY <1>1
    <3> QED BY <3>1, <3>2, RunOf
  <2>2. runs' \in [1..Len(runs) -> Run]
    BY <1>1, <2>1
  <2> QED BY <2>2, NumbersType
<1>4. ASSUME NEW r \in 1..Len(runs)
      PROVE  /\ runs'[r].allow = runs[r].allow /\ runs'[r].url = runs[r].url
             /\ runs'[r].remote = runs[r].remote
             /\ runs'[r].mode = runs[r].mode /\ runs'[r].pin = runs[r].pin
             /\ \/ /\ runs[r].status = "running" /\ runs[r].url \in Host
                   /\ runs'[r].status = "running"
                   /\ task'[r] = [NoTask EXCEPT !.at = "watch", !.host = runs[r].url]
                \/ /\ task'[r] = NoTask
                   /\ \/ runs'[r].status = runs[r].status /\ runs[r].status \notin Active
                      \/ runs'[r].status = "failed"
  <2>0. r \in RunId
    BY NumbersType DEF TypeInv, RunsOK, RunId
  <2>1. CASE r \in kept
    <3>1. runs'[r] = runs[r] /\ runs[r].status = "running" /\ runs[r].url \in Host
          /\ task'[r] = [NoTask EXCEPT !.at = "watch", !.host = runs[r].url]
      BY <1>1, <2>0, <2>1
    <3> QED BY <3>1
  <2>2. CASE r \notin kept
    <3>1. task'[r] = NoTask
      BY <1>1, <2>0, <2>2
    <3>2. CASE runs[r].status \in Active
      <4>1. PICK x : x = [runs[r] EXCEPT !.status = "failed"]
        OBVIOUS
      <4>2. /\ x.mode = runs[r].mode /\ x.pin = runs[r].pin /\ x.allow = runs[r].allow
            /\ x.status = "failed" /\ x.url = runs[r].url /\ x.remote = runs[r].remote
        BY <4>1, RunOf DEF Run
      <4>3. runs'[r] = x
        BY <1>1, <2>2, <3>2, <4>1
      <4> QED BY <3>1, <4>2, <4>3
    <3>3. CASE runs[r].status \notin Active
      <4>1. runs'[r] = runs[r]
        BY <1>1, <3>3
      <4> QED BY <3>1, <3>3, <4>1
    <3> QED BY <3>2, <3>3
  <2> QED BY <2>1, <2>2
<1>5. SameRuns
  <2>1. \A r \in 1..Len(runs) : runs'[r].mode = runs[r].mode /\ runs'[r].pin = runs[r].pin
    BY <1>4
  <2>2. Len(runs') \in Nat /\ Len(runs) <= Len(runs')
    BY <1>3, NumbersType
  <2> QED BY <2>1, <2>2 DEF SameRuns
<1>6. \A r \in RunId : r \notin 1..Len(runs) => task'[r] = NoTask
  BY <1>1
<1> QED BY <1>2, <1>3, <1>4, <1>5, <1>6

LEMMA EnvironmentCall ==
  ASSUME TypeInv, CallInv, Environment
  PROVE  CallInv'
PROOF
<1>1. ASSUME UNCHANGED <<runs, task, call, machine>> PROVE CallInv'
  BY <1>1, QuietRuns, CallsRest
<1>2. ASSUME NEW h \in Host, NEW yes \in BOOLEAN, NEW drained \in BOOLEAN,
             HostChange(h, yes, drained)
      PROVE  CallInv'
  BY <1>1, <1>2, ChangesKeep
<1>3. CASE Close
  BY <1>1, <1>3 DEF Close
<1>4. ASSUME NEW r \in RunId, WorkEnds(r) \/ LoopCrash(r) PROVE CallInv'
  <2>1. SameRuns /\ UNCHANGED <<runs, task, call>>
    BY <1>4, WorkEndsStep, NumbersType DEF SameRuns
  <2>2. ASSUME NEW c \in Caller, Inserted(call[c]) PROVE Rests(call[c].run)
    <3>1. PICK q \in RunId : q = call[c].run
      BY <2>2, InsertedRun
    <3>2. q \in 1..Len(runs) /\ task[q].at = "none" /\ Unsent(q)
      BY <2>2, <3>1, InsertedRun
    <3>3. live'[q] = Nil /\ \A h \in Host : held'[h] # q
      BY <1>4, <3>2, WorkEndsStep, NumbersType DEF Unsent
    <3>4. Rests(q)
      BY <2>1, <3>2, <3>3 DEF Rests, Unsent
    <3> QED BY <3>1, <3>4 DEF Rests
  <2> QED BY <2>1, <2>2, CallsRest
<1>5. ASSUME NEW h \in Host, Readopt(h) PROVE CallInv'
  <2>1. SameRuns /\ UNCHANGED <<runs, task, call, held>>
    BY <1>5, ReadoptStep, NumbersType DEF SameRuns
  <2>2. ASSUME NEW c \in Caller, Inserted(call[c]) PROVE Rests(call[c].run)
    <3>1. PICK q \in RunId : q = call[c].run
      BY <2>2, InsertedRun
    <3>2. q \in 1..Len(runs) /\ task[q].at = "none" /\ Unsent(q)
      BY <2>2, <3>1, InsertedRun
    <3>3. live'[q] = Nil
      BY <1>5, <3>2, ReadoptStep DEF Unsent
    <3>4. Rests(q)
      BY <2>1, <3>2, <3>3 DEF Rests, Unsent
    <3> QED BY <3>1, <3>4 DEF Rests
  <2> QED BY <2>1, <2>2, CallsRest
<1>6. ASSUME NEW reach \in SUBSET Host, Restart(reach) PROVE CallInv'
  <2>1. SameRuns /\ \A c \in Caller : call'[c] = NoCall
    BY <1>6, RestartStep
  <2>2. Fits(NoCall)'
    BY <2>1, NoCallFits, FitsKept
  <2>3. \A c \in Caller : Fits(call[c])'
    BY <2>1, <2>2 DEF Fits, Position, Inserted
  <2> QED BY <2>1, <2>3, NoCallFits DEF CallInv, Inserted
<1>7. \/ \E h \in Host, yes \in BOOLEAN, drained \in BOOLEAN : HostChange(h, yes, drained)
      \/ \E h \in Host : Readopt(h)
      \/ \E r \in RunId : WorkEnds(r) \/ LoopCrash(r)
      \/ Close
      \/ \E reach \in SUBSET Host : Restart(reach)
  BY DEF Environment, HostChange
<1> QED BY <1>2, <1>3, <1>4, <1>5, <1>6, <1>7

LEMMA CallStepsCall ==
  ASSUME TypeInv, CallInv, NEW c \in Caller, Ask(c) \/ CallStep(c)
  PROVE  CallInv'
PROOF
<1>1. CASE \/ LaunchRead(c) \/ LaunchHosts(c) \/ LaunchPin(c) \/ StartRead(c)
           \/ ResumeWrite(c) \/ ResumeSweep(c) \/ HaltRead(c) \/ HaltWrite(c) \/ CancelRead(c)
           \/ StopCheck(c) \/ StopEnd(c) \/ BuildPreflight(c) \/ BuildHosts(c)
  BY <1>1, MovesCall
<1>2. CASE ResumeRead(c) \/ ResumeRuns(c) \/ ResumeHosts(c) \/ BuildRollout(c)
  BY <1>2, ResumesCall
<1>3. CASE LaunchInsert(c) \/ ResumeInsert(c) \/ BuildInsert(c)
  BY <1>3, InsertsCall
<1>4. CASE HaltChildren(c) \/ CancelChildren(c) \/ StopRead(c)
  BY <1>4, ListsCall
<1>5. CASE StopWrite(c) \/ StopForward(c)
  BY <1>5, StopsCall
<1>6. CASE Ask(c) \/ CancelWrite(c) \/ StartWrite(c) \/ Enqueue(c)
  BY <1>6, AskCall, CancelWriteCall, StartWriteCall, EnqueueCall
<1> QED BY <1>1, <1>2, <1>3, <1>4, <1>5, <1>6 DEF CallStep

LEMMA CallInvKept ==
  ASSUME TypeInv, CallInv, TaskInv, [Next]_vars
  PROVE  CallInv'
PROOF
<1>1. CASE UNCHANGED vars
  <2>1. UNCHANGED <<runs, task, call, machine>>
    BY <1>1 DEF vars
  <2> QED BY <2>1, QuietRuns, CallsRest
<1> QED BY <1>1, CallStepsCall, TaskStepsCall, EnvironmentCall DEF Next

\* A run's task goes on as it was when its row is cancelled or its work ends.
RunRests(r) ==
  /\ task'[r] = task[r]
  /\ runs'[r].mode = runs[r].mode /\ runs'[r].url = runs[r].url
  /\ runs'[r].remote = runs[r].remote
  /\ runs'[r].status \in {runs[r].status, "cancelled"}
  /\ live'[r] \in {live[r], Nil}
  /\ \A h \in Host : held'[h] = r => held[h] = r

LEMMA TaskRests ==
  ASSUME NEW r \in 1..Len(runs), TaskFits(r), RunRests(r), excused \subseteq excused'
  PROVE  TaskFits(r)'
PROOF
<1>1. Unsent(r) => Unsent(r)'
  BY DEF Unsent, RunRests
<1>2. IsLoop(r)' = IsLoop(r)
  BY DEF IsLoop, RunRests
<1>3. task'[r] = task[r]
  BY DEF RunRests
<1>4. task[r].at \in Unrouted => Unsent(r)'
  BY <1>1 DEF TaskFits
<1>5. task[r].at \in {"fail", "confirm", "write", "recall", "twin"} =>
       runs'[r].status \in {"pending", "cancelled"} /\ ~runs'[r].remote /\ runs'[r].url = Nil
  BY DEF TaskFits, RunRests
<1>6. task[r].at = "fail" => r \in excused' \/ (live'[r] = Nil /\ \A h \in Host : held'[h] # r)
  BY DEF TaskFits, RunRests
<1>7. task[r].at = "recall" => runs'[r].status = "cancelled"
  BY DEF TaskFits, RunRests
<1>8. task[r].at = "watch" => runs'[r].status \in {"running", "cancelled"} /\ runs'[r].remote
  BY DEF TaskFits, RunRests
<1>9. /\ runs'[r].status = "running" => runs'[r].remote
      /\ runs'[r].remote => runs'[r].url # Nil
  BY DEF TaskFits, RunRests
<1>10. \A h \in Host : held'[h] = r => IsLoop(r)'
  BY <1>2 DEF TaskFits, RunRests
<1>11. /\ task[r].at = "post" => task[r].host \in DOMAIN task[r].rows
       /\ task[r].at \in {"post", "confirm", "write", "recall", "twin"} => task[r].host \in Host
       /\ task[r].at = "twin" => IsLoop(r)'
  BY <1>2 DEF TaskFits
<1> QED BY <1>3, <1>4, <1>5, <1>6, <1>7, <1>8, <1>9, <1>10, <1>11 DEF TaskFits

LEMMA QuietTasks ==
  ASSUME TypeInv, TaskInv, UNCHANGED <<runs, task, machine>>, excused \subseteq excused'
  PROVE  TaskInv'
PROOF
<1>1. ASSUME NEW r \in 1..Len(runs) PROVE TaskFits(r)'
  <2>1. RunRests(r)
    BY DEF RunRests, machine
  <2> QED BY <2>1, TaskRests DEF TaskInv
<1> QED BY <1>1 DEF TaskInv

LEMMA InsertTask ==
  ASSUME TypeInv, TaskInv, NEW c \in Caller, NEW mode \in {"launch", "relaunch", "build"},
         NEW next \in CallPlaces, InsertRun(c, mode, next)
  PROVE  TaskInv'
PROOF
<1>1. PICK n \in Nat : n = Len(runs) + 1
  BY NumbersType
<1>2. /\ Len(runs') = n
      /\ \A r \in 1..Len(runs) : runs'[r] = runs[r]
      /\ runs'[n] = [mode |-> mode, pin |-> call[c].id, allow |-> call[c].allow,
                                    status |-> "pending", url |-> Nil, remote |-> FALSE]
      /\ n \in RunId /\ task[n] = NoTask /\ live[n] = Nil
      /\ \A h \in Host : held[h] # n
  BY <1>1, InsertStep
<1>3. task' = task /\ live' = live /\ held' = held /\ excused \subseteq excused'
  BY DEF InsertRun, machine
<1>4. ASSUME NEW r \in 1..Len(runs) PROVE TaskFits(r)'
  <2>1. RunRests(r)
    BY <1>2, <1>3 DEF RunRests
  <2> QED BY <1>3, <2>1, TaskRests DEF TaskInv
<1>5. TaskFits(n)'
  <2>1. runs'[n].status = "pending" /\ runs'[n].remote = FALSE
    BY <1>2
  <2>2. task'[n].at = "none" /\ \A h \in Host : held'[h] # n
    BY <1>2, <1>3 DEF NoTask
  <2> QED BY <2>1, <2>2 DEF TaskFits, Unrouted
<1>6. \A r \in 1..Len(runs') : r \in 1..Len(runs) \/ r = n
  BY <1>1, <1>2, NumbersType
<1> QED BY <1>4, <1>5, <1>6 DEF TaskInv

LEMMA CallStepsTask ==
  ASSUME TypeInv, CallInv, TaskInv, NEW c \in Caller, Ask(c) \/ CallStep(c)
  PROVE  TaskInv'
PROOF
<1>1. CASE \/ Ask(c) \/ LaunchRead(c) \/ LaunchHosts(c) \/ LaunchPin(c) \/ StartRead(c)
           \/ StartWrite(c) \/ ResumeWrite(c) \/ ResumeSweep(c) \/ HaltRead(c) \/ HaltWrite(c)
           \/ CancelRead(c) \/ CancelWrite(c)
           \/ StopCheck(c) \/ StopEnd(c) \/ BuildPreflight(c) \/ BuildHosts(c)
           \/ ResumeRead(c) \/ ResumeRuns(c) \/ ResumeHosts(c) \/ BuildRollout(c)
           \/ HaltChildren(c) \/ CancelChildren(c) \/ StopRead(c)
  <2>1. UNCHANGED <<runs, task, machine>> /\ excused \subseteq excused'
    BY <1>1 DEF Ask, LaunchRead, LaunchHosts, LaunchPin, StartRead, StartWrite, ResumeWrite,
                ResumeSweep, HaltRead, HaltWrite, CancelRead, CancelWrite, StopCheck, StopEnd,
                BuildPreflight, BuildHosts, ResumeRead, ResumeRuns, ResumeHosts, BuildRollout,
                HaltChildren, CancelChildren, StopRead, Reads, history
  <2> QED BY <2>1, QuietTasks
<1>2. CASE LaunchInsert(c) \/ ResumeInsert(c) \/ BuildInsert(c)
  <2>1. PICK mode \in {"launch", "relaunch", "build"}, next \in CallPlaces :
          InsertRun(c, mode, next)
    BY <1>2 DEF LaunchInsert, ResumeInsert, BuildInsert, CallPlaces
  <2> QED BY <2>1, InsertTask
<1>3. CASE Enqueue(c)
  <2>1. PICK q \in RunId : q = call[c].run
    BY <1>3, EnqueueStep
  <2>2. /\ q \in 1..Len(runs) /\ task[q].at = "none" /\ Unsent(q)
        /\ task'[q].at = "status"
        /\ \A r \in RunId \ {q} : task'[r] = task[r]
        /\ runs' = runs /\ live' = live /\ held' = held /\ excused' = excused
    BY <1>3, <2>1, EnqueueStep DEF machine, history
  <2>3. ASSUME NEW r \in 1..Len(runs) PROVE TaskFits(r)'
    <3>0. r \in RunId
      BY NumbersType DEF TypeInv, RunsOK, RunId
    <3>1. CASE r # q
      <4>1. RunRests(r)
        BY <2>2, <3>0, <3>1 DEF RunRests
      <4> QED BY <2>2, <4>1, TaskRests DEF TaskInv
    <3>2. CASE r = q
      <4>1. Unsent(q)'
        BY <2>2 DEF Unsent
      <4>2. /\ runs'[q].status = "running" => runs'[q].remote
            /\ runs'[q].remote => runs'[q].url # Nil
            /\ \A h \in Host : held'[h] # q
        BY <4>1 DEF Unsent
      <4> QED BY <2>2, <3>2, <4>1, <4>2 DEF TaskFits, Unrouted
    <3> QED BY <3>1, <3>2
  <2> QED BY <2>2, <2>3 DEF TaskInv
<1>4. CASE StopWrite(c)
  <2>1. PICK t \in call[c].todo :
           /\ t.run \in 1..Len(runs)
           /\ Len(runs') = Len(runs) /\ SameRuns
           /\ \A q \in 1..Len(runs) \ {t.run} : runs'[q] = runs[q]
           /\ runs'[t.run].status = "cancelled" /\ runs'[t.run].url = runs[t.run].url
           /\ runs'[t.run].remote = runs[t.run].remote
    BY <1>4, StopWriteStep
  <2>2. task' = task /\ live' = live /\ held' = held /\ excused \subseteq excused'
    BY <1>4 DEF StopWrite, machine
  <2>3. ASSUME NEW r \in 1..Len(runs) PROVE TaskFits(r)'
    <3>1. RunRests(r)
      BY <2>1, <2>2 DEF RunRests, SameRuns
    <3> QED BY <2>2, <3>1, TaskRests DEF TaskInv
  <2> QED BY <2>1, <2>3 DEF TaskInv
<1>5. CASE StopForward(c)
  <2>1. PICK t \in call[c].todo :
           /\ t.run \in RunId
           /\ \/ live' = [live EXCEPT ![t.run] = Nil] /\ excused' = excused
              \/ live' = live /\ excused' = excused \cup {t.run}
    BY <1>5, StopForwardStep
  <2>2. task' = task /\ runs' = runs /\ held' = held /\ excused \subseteq excused'
    BY <1>5, <2>1 DEF StopForward
  <2>3. ASSUME NEW r \in 1..Len(runs) PROVE TaskFits(r)'
    <3>0. r \in RunId
      BY NumbersType DEF TypeInv, RunsOK, RunId
    <3>1. live'[r] \in {live[r], Nil}
      BY <2>1, <3>0 DEF TypeInv, RunsOK
    <3>2. RunRests(r)
      BY <2>2, <3>1 DEF RunRests
    <3> QED BY <2>2, <3>2, TaskRests DEF TaskInv
  <2> QED BY <2>2, <2>3 DEF TaskInv
<1> QED BY <1>1, <1>2, <1>3, <1>4, <1>5 DEF CallStep

\* The part of TaskFits that is about the row and the hosts alone.
RowFits(r) ==
  /\ runs[r].status = "running" => runs[r].remote
  /\ runs[r].remote => runs[r].url # Nil
  /\ \A h \in Host : held[h] = r => IsLoop(r)

LEMMA AtNone ==
  ASSUME NEW r, task'[r] = NoTask, RowFits(r)'
  PROVE  TaskFits(r)'
PROOF
<1>1. task'[r].at = "none"
  BY DEF NoTask
<1> QED BY <1>1 DEF TaskFits, RowFits, Unrouted

LEMMA AtWaiting ==
  ASSUME NEW r, task'[r].at \in {"status", "hosts", "pick"}, Unsent(r)'
  PROVE  TaskFits(r)'
PROOF BY DEF TaskFits, Unsent, Unrouted

LEMMA UnsentKept ==
  ASSUME NEW r, UNCHANGED <<runs, machine>>, Unsent(r)
  PROVE  Unsent(r)'
PROOF BY DEF Unsent, machine

LEMMA RowKept ==
  ASSUME NEW r, UNCHANGED <<runs, machine>>, TaskFits(r)
  PROVE  RowFits(r)'
PROOF BY DEF RowFits, TaskFits, machine, IsLoop

LEMMA RoutingTask ==
  ASSUME TypeInv, TaskInv, NEW r \in RunId,
         TaskStatus(r) \/ TaskHosts(r) \/ TaskPick(r) \/ TaskRefused(r)
  PROVE  TaskFits(r)'
PROOF
<1>1. TaskFrame(r) /\ UNCHANGED <<runs, machine>> /\ task[r].at \in Unrouted
  BY StatusStep, HostsStep, PickStep, RefusedStep DEF Unrouted
<1>2. r \in 1..Len(runs) /\ TaskFits(r)
  BY <1>1 DEF TaskFrame, TaskInv
<1>3. Unsent(r) /\ Unsent(r)' /\ RowFits(r)'
  BY <1>1, <1>2, UnsentKept, RowKept DEF TaskFits
<1>4. CASE TaskStatus(r)
  BY <1>3, <1>4, StatusStep, AtNone, AtWaiting DEF TaskTo
<1>5. ASSUME task'[r].at = "fail" PROVE TaskFits(r)'
  BY <1>3, <1>5 DEF TaskFits, Unsent, Unrouted
<1>6. CASE TaskHosts(r)
  BY <1>3, <1>5, <1>6, HostsStep, AtWaiting DEF TaskTo
<1>7. CASE TaskPick(r)
  <2>1. ASSUME NEW h \in DOMAIN task[r].rows, task'[r].at = "post", task'[r].host = h,
               task'[r].rows = task[r].rows
        PROVE  TaskFits(r)'
    <3>1. h \in Host
      BY DEF TypeInv, TasksOK, TaskType, Rows
    <3> QED BY <1>3, <2>1, <3>1 DEF TaskFits, Unsent, Unrouted
  <2> QED BY <1>3, <1>5, <1>7, <2>1, PickStep, AtNone
<1>8. CASE TaskRefused(r)
  <2>1. ASSUME TaskTo(r, "twin"), IsLoop(r) PROVE TaskFits(r)'
    <3>1. task'[r].at = "twin" /\ task'[r].host \in Host
      BY <1>2, <1>8, <2>1, RefusedStep DEF TaskFits, TaskTo
    <3>2. IsLoop(r)'
      BY <1>1, <2>1 DEF IsLoop
    <3> QED BY <1>3, <3>1, <3>2 DEF TaskFits, Unsent, Unrouted
  <2> QED BY <1>3, <1>5, <1>8, <2>1, RefusedStep, AtWaiting DEF TaskTo
<1> QED BY <1>4, <1>6, <1>7, <1>8

LEMMA SendingTask ==
  ASSUME TypeInv, TaskInv, NEW r \in RunId,
         TaskPost(r) \/ TaskConfirm(r) \/ TaskWrite(r) \/ TaskRecall(r)
  PROVE  TaskFits(r)'
PROOF
<1>0. TaskFrame(r)
  BY PostStep, ConfirmStep, WriteStep, RecallStep
<1>1. r \in 1..Len(runs) /\ TaskFits(r)
  BY <1>0 DEF TaskFrame, TaskInv
<1>2. IsLoop(r)' = IsLoop(r)
  BY <1>0 DEF TaskFrame, IsLoop
<1>3. CASE TaskPost(r)
  <2>1. runs' = runs /\ Unsent(r) /\ task[r].host \in Host
    BY <1>1, <1>3, PostStep DEF TaskFits, Unrouted
  <2>2. \A h \in Host : held'[h] = r => IsLoop(r)'
    BY <1>2, <1>3, <2>1, TaskSteps DEF TaskStep, Unsent
  <2>3. CASE TaskTo(r, "confirm")
    BY <2>1, <2>2, <2>3 DEF TaskTo, TaskFits, Unsent, Unrouted
  <2>4. CASE task'[r].at = "fail" /\ r \in excused'
    BY <2>1, <2>2, <2>4 DEF TaskFits, Unsent, Unrouted
  <2> QED BY <1>3, <2>3, <2>4, PostStep
<1>4. CASE TaskConfirm(r)
  <2>1. UNCHANGED <<runs, machine>> /\ task[r].at = "confirm"
    BY <1>4, ConfirmStep
  <2>2. RowFits(r)'
    BY <1>1, <2>1, RowKept
  <2>3. task[r].host \in Host /\ runs[r].status \in {"pending", "cancelled"} /\ ~runs[r].remote
        /\ runs[r].url = Nil
    BY <1>1, <2>1 DEF TaskFits
  <2>4. CASE runs[r].status = "cancelled" /\ TaskTo(r, "recall")
    BY <2>1, <2>2, <2>3, <2>4 DEF TaskTo, TaskFits, Unrouted, RowFits
  <2>5. CASE TaskTo(r, "write")
    BY <2>1, <2>2, <2>3, <2>5 DEF TaskTo, TaskFits, Unrouted, RowFits
  <2> QED BY <1>4, <2>4, <2>5, ConfirmStep
<1>5. CASE TaskWrite(r)
  <2>1. /\ TaskTo(r, "watch") /\ runs'[r].status = "running" /\ runs'[r].remote
        /\ runs'[r].url = task[r].host /\ task[r].at = "write" /\ held' = held
    BY <1>5, WriteStep DEF machine
  <2>2. task[r].host \in Host
    BY <1>1, <2>1 DEF TaskFits
  <2>3. RowFits(r)'
    BY <1>1, <1>2, <2>1, <2>2, LoopAssumption DEF RowFits, TaskFits
  <2> QED BY <2>1, <2>3 DEF TaskFits, RowFits, TaskTo, Unrouted
<1>6. CASE TaskRecall(r)
  <2>1. /\ task'[r] = NoTask /\ runs'[r].status = runs[r].status /\ runs'[r].remote
        /\ runs'[r].url = task[r].host /\ task[r].at = "recall" /\ held' = held
    BY <1>6, RecallStep
  <2>2. task[r].host \in Host
    BY <1>1, <2>1 DEF TaskFits
  <2>3. RowFits(r)'
    BY <1>1, <1>2, <2>1, <2>2, LoopAssumption DEF RowFits, TaskFits
  <2> QED BY <2>1, <2>3, AtNone
<1> QED BY <1>3, <1>4, <1>5, <1>6

LEMMA EndingTask ==
  ASSUME TypeInv, TaskInv, NEW r \in RunId, TaskTwin(r) \/ TaskFail(r) \/ TaskWatch(r)
  PROVE  TaskFits(r)'
PROOF
<1>1. r \in 1..Len(runs) /\ TaskFits(r)
  BY TwinStep, FailStep, WatchStep DEF TaskFrame, TaskInv
<1>2. IsLoop(r)' = IsLoop(r)
  BY TwinStep, FailStep, WatchStep DEF TaskFrame, IsLoop
<1>3. task'[r] = NoTask /\ held' = held
  BY TwinStep, FailStep, WatchStep DEF machine
<1>4. runs'[r].remote = runs[r].remote /\ runs'[r].status # "running"
  BY TwinStep, FailStep, WatchStep
<1>5. runs'[r].remote => runs'[r].url # Nil
  BY <1>1, TwinStep, FailStep, WatchStep DEF TaskFits
<1>6. RowFits(r)'
  BY <1>1, <1>2, <1>3, <1>4, <1>5 DEF RowFits, TaskFits
<1> QED BY <1>3, <1>6, AtNone

LEMMA TaskStepsTask ==
  ASSUME TypeInv, TaskInv, NEW r \in RunId, TaskStep(r)
  PROVE  TaskInv'
PROOF
<1>1. /\ TaskFrame(r) /\ excused \subseteq excused'
      /\ \A h \in Host : held'[h] = held[h] \/ (held'[h] = r /\ IsLoop(r))
  BY TaskSteps
<1>2. ASSUME NEW q \in 1..Len(runs), q # r PROVE TaskFits(q)'
  <2>1. q \in RunId
    BY NumbersType DEF TypeInv, RunsOK, RunId
  <2>2. RunRests(q)
    BY <1>1, <1>2, <2>1 DEF TaskFrame, RunRests
  <2> QED BY <1>1, <2>2, TaskRests DEF TaskInv
<1>3. TaskFits(r)'
  BY RoutingTask, SendingTask, EndingTask DEF TaskStep
<1> QED BY <1>1, <1>2, <1>3 DEF TaskInv, TaskFrame

LEMMA EnvironmentTask ==
  ASSUME TypeInv, TaskInv, Environment
  PROVE  TaskInv'
PROOF
<1>2. ASSUME NEW h \in Host, NEW yes \in BOOLEAN, NEW drained \in BOOLEAN,
             HostChange(h, yes, drained)
      PROVE  TaskInv'
  BY <1>2, QuietTasks, ChangesKeep
<1>3. CASE Close
  BY <1>3, QuietTasks DEF Close, history
<1>4. ASSUME NEW r \in RunId, WorkEnds(r) \/ LoopCrash(r) PROVE TaskInv'
  <2>1. UNCHANGED <<runs, task, excused>>
    BY <1>4, WorkEndsStep
  <2>2. ASSUME NEW q \in 1..Len(runs) PROVE TaskFits(q)'
    <3>1. q \in RunId /\ q # 0
      BY NumbersType DEF TypeInv, RunsOK, RunId
    <3>2. live'[q] \in {live[q], Nil} /\ \A h \in Host : held'[h] = q => held[h] = q
      BY <1>4, <3>1, WorkEndsStep
    <3>3. RunRests(q)
      BY <2>1, <3>2 DEF RunRests
    <3> QED BY <2>1, <3>3, TaskRests DEF TaskInv
  <2> QED BY <2>1, <2>2 DEF TaskInv
<1>5. ASSUME NEW h \in Host, Readopt(h) PROVE TaskInv'
  <2>1. UNCHANGED <<runs, task, excused, held>>
    BY <1>5, ReadoptStep
  <2>2. ASSUME NEW q \in 1..Len(runs) PROVE TaskFits(q)'
    <3>1. q \in RunId /\ TaskFits(q)
      BY NumbersType DEF TypeInv, RunsOK, RunId, TaskInv
    <3>2. CASE q # held[h]
      <4>1. RunRests(q)
        BY <1>5, <2>1, <3>1, <3>2, ReadoptStep DEF RunRests
      <4> QED BY <2>1, <4>1, TaskRests DEF TaskInv
    <3>3. CASE q = held[h]
      <4>1. ~Unsent(q)
        BY <3>3 DEF Unsent
      <4>2. task'[q].at \notin Unrouted
        BY <2>1, <3>1, <4>1 DEF TaskFits
      <4>3. task[q].at = "fail" => q \in excused
        BY <3>1, <3>3 DEF TaskFits
      <4>4. IsLoop(q)' = IsLoop(q)
        BY <2>1 DEF IsLoop
      <4>5. task[q].at # "post"
        BY <2>1, <4>2 DEF Unrouted
      <4> QED BY <2>1, <3>1, <4>2, <4>3, <4>4, <4>5 DEF TaskFits
    <3> QED BY <3>2, <3>3
  <2> QED BY <2>1, <2>2 DEF TaskInv
<1>6. ASSUME NEW reach \in SUBSET Host, Restart(reach) PROVE TaskInv'
  <2>1. Len(runs') = Len(runs) /\ held' = held /\ SameRuns
    BY <1>6, RestartStep DEF machine
  <2>2. ASSUME NEW r \in 1..Len(runs) PROVE TaskFits(r)'
    <3>1. TaskFits(r)
      BY DEF TaskInv
    <3>2. runs'[r].url = runs[r].url /\ runs'[r].remote = runs[r].remote
          /\ runs'[r].mode = runs[r].mode
      BY <1>6, RestartStep DEF SameRuns
    <3>3. RowFits(r)'
      <4>1. runs'[r].status = "running" => runs[r].status = "running"
        BY <1>6, RestartStep DEF Active
      <4> QED BY <2>1, <3>1, <3>2, <4>1 DEF RowFits, TaskFits, IsLoop
    <3>4. CASE /\ runs[r].status = "running" /\ runs'[r].status = "running"
               /\ task'[r] = [NoTask EXCEPT !.at = "watch", !.host = runs[r].url]
      <4>1. task'[r].at = "watch"
        BY <3>4 DEF NoTask
      <4> QED BY <3>3, <3>4, <4>1 DEF TaskFits, RowFits, Unrouted
    <3>5. CASE task'[r] = NoTask
      BY <3>3, <3>5, AtNone
    <3> QED BY <1>6, <3>4, <3>5, RestartStep
  <2> QED BY <2>1, <2>2 DEF TaskInv
<1>7. \/ \E h \in Host, yes \in BOOLEAN, drained \in BOOLEAN : HostChange(h, yes, drained)
      \/ \E h \in Host : Readopt(h)
      \/ \E r \in RunId : WorkEnds(r) \/ LoopCrash(r)
      \/ Close
      \/ \E reach \in SUBSET Host : Restart(reach)
  BY DEF Environment, HostChange
<1> QED BY <1>2, <1>3, <1>4, <1>5, <1>6, <1>7

LEMMA TaskInvKept ==
  ASSUME TypeInv, CallInv, TaskInv, [Next]_vars
  PROVE  TaskInv'
PROOF
<1>1. CASE UNCHANGED vars
  <2>1. UNCHANGED <<runs, task, machine, excused>>
    BY <1>1 DEF vars, history
  <2> QED BY <2>1, QuietTasks
<1> QED BY <1>1, CallStepsTask, TaskStepsTask, EnvironmentTask DEF Next

\* What the lists of the requests say of the runs is as it was.
ListsRest ==
  /\ \A r \in Nat : Listed(r) => Listed(r)'
  /\ \A r \in Nat : Told(r) => Told(r)'
  /\ Selecting => Selecting'

StopFits(r) == ~IsLoop(r) => r \in excused \/ (Settled(r) /\ Reached(r) /\ Handed(r))

LEMMA StopParts ==
  ASSUME StopInv
  PROVE  (\A r \in 1..Len(runs) : StopFits(r)) /\ \A c \in Caller : Written(call[c])
PROOF BY DEF StopInv, StopFits

\* A run is left alone.
LEMMA StopRests ==
  ASSUME TypeInv, NEW r \in 1..Len(runs), StopFits(r), ListsRest,
         rollout'.status = rollout.status,
         runs'[r].mode = runs[r].mode, runs'[r].status = runs[r].status,
         runs'[r].remote = runs[r].remote, task'[r] = task[r], live'[r] \in {live[r], Nil},
         excused \subseteq excused'
  PROVE  StopFits(r)'
PROOF
<1>1. IsLoop(r)' = IsLoop(r)
  BY DEF IsLoop
<1>2. ASSUME Settled(r), Reached(r), Handed(r) PROVE (Settled(r) /\ Reached(r) /\ Handed(r))'
  <2>1. r \in Nat
    BY NumbersType
  <2>2. Listed(r) => Listed(r)'
    BY <2>1 DEF ListsRest
  <2>3. Told(r) => Told(r)'
    BY <2>1 DEF ListsRest
  <2>4. Selecting => Selecting'
    BY DEF ListsRest
  <2>5. Settled(r)'
    BY <1>2, <2>2, <2>4 DEF Settled
  <2>6. Reached(r)'
    BY <1>2, <2>3 DEF Reached, Sending
  <2>7. Handed(r)'
    BY <1>2 DEF Handed, Sending
  <2> QED BY <2>5, <2>6, <2>7
<1> QED BY <1>1, <1>2 DEF StopFits

LEMMA FirstRun ==
  ASSUME TypeInv, NEW c \in Caller, call[c].todo # {}
  PROVE  First(call[c].todo) \in call[c].todo /\ First(call[c].todo).run \in 1..Len(runs)
PROOF
<1>1. CallOf(call[c]) /\ call[c] \in CallType
  BY CallFacts
<1>2. call[c].todo \in SUBSET Entry
  BY <1>1 DEF CallType
<1>3. First(call[c].todo) \in call[c].todo
  BY <1>2, FirstIn
<1> QED BY <1>1, <1>3 DEF CallOf

\* The rows that requests have written stay written.
LEMMA WrittenRests ==
  ASSUME TypeInv, CallInv, NEW x \in CallType, NEW c \in Caller, x = call[c], Written(x),
         \A r \in 1..Len(runs) : runs[r].status \notin Active \/ r \in excused =>
                                   runs'[r].status \notin Active \/ r \in excused'
  PROVE  Written(x)'
PROOF
<1>1. CASE x.at = "forward"
  <2>1. call[c].todo # {}
    BY <1>1 DEF CallInv, Fits
  <2>2. First(x.todo).run \in 1..Len(runs)
    BY <2>1, FirstRun
  <2> QED BY <2>2 DEF Written
<1> QED BY <1>1 DEF Written

\* The requests stay where they are.
LEMMA ListsKept == ASSUME UNCHANGED call PROVE ListsRest
PROOF
<1>1. \A r \in Nat : Listed(r) => Listed(r)'
  BY DEF Listed
<1>2. \A r \in Nat : Told(r) => Told(r)'
  BY DEF Told
<1>3. Selecting => Selecting'
  BY DEF Selecting, At
<1> QED BY <1>1, <1>2, <1>3 DEF ListsRest

LEMMA WrittenKept ==
  ASSUME TypeInv, CallInv, StopInv, UNCHANGED call,
         \A r \in 1..Len(runs) : runs[r].status \notin Active \/ r \in excused =>
                                   runs'[r].status \notin Active \/ r \in excused'
  PROVE  \A c \in Caller : Written(call[c])'
PROOF
<1> SUFFICES ASSUME NEW c \in Caller PROVE Written(call[c])'
  OBVIOUS
<1>1. PICK x \in CallType : x = call[c]
  BY CallFacts
<1>2. Written(x)'
  BY <1>1, StopParts, WrittenRests
<1> QED BY <1>1, <1>2 DEF Written

\* One request goes on that stops nothing before or after.
LEMMA ListsMove ==
  ASSUME TypeInv, NEW c \in Caller, NEW x, call' = [call EXCEPT ![c] = x],
         ~(call[c].op = "cancel" /\ call[c].at \in {"children", "stop", "forward"}),
         call[c].at # "forward"
  PROVE  ListsRest
PROOF
<1>1. \A d \in Caller \ {c} : call'[d] = call[d]
  BY CallFacts
<1>2. ASSUME NEW r \in Nat, Listed(r) PROVE Listed(r)'
  <2>1. PICK d \in Caller : /\ call[d].op = "cancel" /\ call[d].at \in {"stop", "forward"}
                            /\ \E t \in call[d].todo : t.run = r
    BY <1>2 DEF Listed
  <2>2. call'[d] = call[d]
    BY <1>1, <2>1
  <2> QED BY <2>1, <2>2 DEF Listed
<1>3. ASSUME NEW r \in Nat, Told(r) PROVE Told(r)'
  <2>1. PICK d \in Caller : call[d].at = "forward" /\ First(call[d].todo).run = r
    BY <1>3 DEF Told
  <2>2. call'[d] = call[d]
    BY <1>1, <2>1
  <2> QED BY <2>1, <2>2 DEF Told
<1>4. ASSUME Selecting PROVE Selecting'
  <2>1. PICK d \in Caller : call[d].op = "cancel" /\ call[d].at = "children"
    BY <1>4 DEF Selecting, At
  <2>2. call'[d] = call[d]
    BY <1>1, <2>1
  <2> QED BY <2>1, <2>2 DEF Selecting, At
<1> QED BY <1>2, <1>3, <1>4 DEF ListsRest

\* A request that neither lists nor stops runs, and writes no cancel.
LEMMA QuietStop ==
  ASSUME TypeInv, CallInv, StopInv, NEW c \in Caller, NEW x, call' = [call EXCEPT ![c] = x],
         ~(call[c].op = "cancel" /\ call[c].at \in {"children", "stop", "forward"}),
         call[c].at # "forward", x.at # "forward",
         UNCHANGED <<runs, task, machine, excused>>,
         rollout'.status = rollout.status \/ rollout'.status # "cancelled"
  PROVE  StopInv'
PROOF
<1>1. ListsRest
  BY ListsMove
<1>2. ASSUME NEW r \in 1..Len(runs) PROVE StopFits(r)'
  <2>1. StopFits(r)
    BY StopParts
  <2>2. CASE rollout'.status = rollout.status
    BY <1>1, <2>1, <2>2, StopRests DEF machine
  <2>3. CASE rollout'.status # "cancelled"
    <3>1. Settled(r)'
      BY <2>3 DEF Settled
    <3>2. Reached(r) => Reached(r)'
      <4>1. r \in Nat
        BY NumbersType
      <4>2. Told(r) => Told(r)'
        BY <1>1, <4>1 DEF ListsRest
      <4> QED BY <4>2 DEF Reached, Sending, machine
    <3>3. Handed(r) => Handed(r)'
      BY DEF Handed, Sending, machine
    <3> QED BY <2>1, <3>1, <3>2, <3>3 DEF StopFits, IsLoop
  <2> QED BY <2>2, <2>3
<1>3. call'[c] = x /\ \A d \in Caller \ {c} : call'[d] = call[d]
  BY CallFacts
<1>4. ASSUME NEW d \in Caller PROVE Written(call[d])'
  <2>1. CASE d = c
    BY <1>3, <2>1 DEF Written
  <2>2. CASE d # c
    <3>1. PICK y \in CallType : y = call[d]
      BY CallFacts
    <3>2. Written(y)'
      BY <3>1, StopParts, WrittenRests
    <3> QED BY <1>3, <2>2, <3>1, <3>2 DEF Written
  <2> QED BY <2>1, <2>2
<1> QED BY <1>2, <1>4 DEF StopInv, StopFits

\* A request at another place with the locals it has.
LEMMA GoStep ==
  ASSUME TypeInv, NEW c \in Caller, NEW at \in CallPlaces, Go(c, at)
  PROVE  \E x \in CallType : /\ call' = [call EXCEPT ![c] = x] /\ Keeps(call[c], x) /\ x.at = at
                             /\ x.id = call[c].id /\ x.run = call[c].run /\ x.saw = call[c].saw
PROOF
<1>1. call[c] \in CallType /\ call \in [Caller -> CallType]
  BY CallFacts
<1>2. PICK x : x = [call[c] EXCEPT !.at = at]
  OBVIOUS
<1>3. call' = [call EXCEPT ![c] = x]
  BY <1>1, <1>2 DEF Go
<1>4. /\ x \in CallType /\ Keeps(call[c], x) /\ x.at = at
      /\ x.id = call[c].id /\ x.run = call[c].run /\ x.saw = call[c].saw
  BY <1>1, <1>2 DEF CallType, Keeps
<1> QED BY <1>3, <1>4

LEMMA ThenStep ==
  ASSUME TypeInv, NEW c \in Caller, NEW ok, NEW at \in CallPlaces, Then(c, ok, at)
  PROVE  \/ End(c)
         \/ ok /\ \E x \in CallType :
              /\ call' = [call EXCEPT ![c] = x] /\ Keeps(call[c], x) /\ x.at = at
              /\ x.id = call[c].id /\ x.run = call[c].run /\ x.saw = call[c].saw
PROOF BY GoStep DEF Then

\* Where a request goes that neither lists nor stops runs.
LEMMA MovesTo ==
  ASSUME TypeInv, NEW c \in Caller,
         \/ LaunchRead(c) \/ LaunchHosts(c) \/ LaunchPin(c) \/ StartRead(c) \/ StartWrite(c)
         \/ ResumeWrite(c) \/ ResumeSweep(c) \/ HaltRead(c) \/ HaltWrite(c) \/ CancelRead(c)
         \/ StopCheck(c) \/ BuildPreflight(c) \/ BuildHosts(c)
  PROVE  \/ End(c)
         \/ \E at \in CallPlaces \ {"forward"} : Go(c, at)
PROOF
<1>1. CASE \/ LaunchRead(c) \/ LaunchHosts(c) \/ LaunchPin(c) \/ StartRead(c) \/ StartWrite(c)
  BY <1>1 DEF LaunchRead, LaunchHosts, LaunchPin, StartRead, StartWrite, Then, CallPlaces
<1>2. CASE \/ ResumeWrite(c) \/ ResumeSweep(c) \/ HaltRead(c) \/ HaltWrite(c) \/ CancelRead(c)
  BY <1>2 DEF ResumeWrite, ResumeSweep, HaltRead, HaltWrite, CancelRead, Then, CallPlaces
<1>3. CASE StopCheck(c) \/ BuildPreflight(c) \/ BuildHosts(c)
  BY <1>3 DEF StopCheck, BuildPreflight, BuildHosts, Then, CallPlaces
<1> QED BY <1>1, <1>2, <1>3

LEMMA MovesStop ==
  ASSUME TypeInv, CallInv, StopInv, NEW c \in Caller,
         \/ LaunchRead(c) \/ LaunchHosts(c) \/ LaunchPin(c) \/ StartRead(c) \/ StartWrite(c)
         \/ ResumeWrite(c) \/ ResumeSweep(c) \/ HaltRead(c) \/ HaltWrite(c) \/ CancelRead(c)
         \/ StopCheck(c) \/ BuildPreflight(c) \/ BuildHosts(c)
  PROVE  StopInv'
PROOF
<1>1. UNCHANGED <<runs, task, machine, excused>>
  BY DEF LaunchRead, LaunchHosts, LaunchPin, StartRead, StartWrite, ResumeWrite, ResumeSweep,
         HaltRead, HaltWrite, CancelRead, StopCheck, BuildPreflight, BuildHosts, Reads, history
<1>2. rollout'.status = rollout.status \/ rollout'.status # "cancelled"
  <2>1. CASE LaunchPin(c)
    <3>1. /\ rollout' = [rollout EXCEPT !.pin = call[c].id]
          /\ rollout \in [status : Status, pin : 0..ids]
      BY <2>1 DEF LaunchPin, TypeInv, RunsOK
    <3> QED BY <3>1
  <2>2. CASE StartWrite(c) \/ ResumeWrite(c) \/ ResumeSweep(c) \/ HaltWrite(c)
    BY <2>2 DEF StartWrite, ResumeWrite, ResumeSweep, HaltWrite, SetRollout, TypeInv, RunsOK
  <2>3. CASE \/ LaunchRead(c) \/ LaunchHosts(c) \/ StartRead(c) \/ HaltRead(c) \/ CancelRead(c)
             \/ StopCheck(c) \/ BuildPreflight(c) \/ BuildHosts(c)
    BY <2>3 DEF LaunchRead, LaunchHosts, StartRead, HaltRead, CancelRead, StopCheck,
                BuildPreflight, BuildHosts, Reads
  <2> QED BY <2>1, <2>2, <2>3
<1>3. call[c].at # "forward" /\ ~(call[c].op = "cancel" /\ call[c].at \in {"children", "stop"})
  <2>1. Position(call[c])
    BY DEF CallInv, Fits
  <2>2. CASE \/ LaunchRead(c) \/ LaunchHosts(c) \/ LaunchPin(c) \/ StartRead(c) \/ StartWrite(c)
    BY <2>2 DEF LaunchRead, LaunchHosts, LaunchPin, StartRead, StartWrite, At
  <2>3. CASE \/ ResumeWrite(c) \/ ResumeSweep(c) \/ HaltRead(c) \/ HaltWrite(c) \/ CancelRead(c)
    BY <2>3 DEF ResumeWrite, ResumeSweep, HaltRead, HaltWrite, CancelRead, At
  <2>4. CASE StopCheck(c) \/ BuildPreflight(c) \/ BuildHosts(c)
    BY <2>4 DEF StopCheck, BuildPreflight, BuildHosts, At
  <2> QED BY <2>2, <2>3, <2>4
<1>4. CASE End(c)
  <2>1. NoCall.at # "forward"
    BY DEF NoCall
  <2> QED BY <1>1, <1>2, <1>3, <1>4, <2>1, QuietStop DEF End
<1>5. ASSUME NEW at \in CallPlaces \ {"forward"}, Go(c, at) PROVE StopInv'
  <2>1. PICK x \in CallType : call' = [call EXCEPT ![c] = x] /\ x.at = at
    BY <1>5, GoStep
  <2> QED BY <1>1, <1>2, <1>3, <2>1, QuietStop
<1> QED BY <1>4, <1>5, MovesTo

LEMMA OthersStop ==
  ASSUME TypeInv, CallInv, StopInv, NEW c \in Caller,
         \/ Ask(c) \/ ResumeRead(c) \/ ResumeRuns(c) \/ ResumeHosts(c) \/ BuildRollout(c)
         \/ HaltChildren(c) \/ StopRead(c)
  PROVE  StopInv'
PROOF
<1>1. UNCHANGED <<runs, task, machine, excused, rollout>>
  BY DEF Ask, ResumeRead, ResumeRuns, ResumeHosts, BuildRollout, HaltChildren, StopRead, Reads,
         history
<1>2. call[c].at # "forward" /\ call[c].op # "cancel"
  <2>1. CASE Ask(c)
    BY <2>1 DEF Ask, Busy, CallInv, Fits, Position
  <2>2. CASE ResumeRead(c) \/ ResumeRuns(c) \/ ResumeHosts(c) \/ BuildRollout(c)
    BY <2>2 DEF ResumeRead, ResumeRuns, ResumeHosts, BuildRollout, At
  <2>3. CASE HaltChildren(c) \/ StopRead(c)
    BY <2>3 DEF HaltChildren, StopRead, At
  <2> QED BY <2>1, <2>2, <2>3
<1>3. ASSUME NEW x, call' = [call EXCEPT ![c] = x], x.at # "forward" PROVE StopInv'
  BY <1>1, <1>2, <1>3, QuietStop
<1>4. CASE End(c)
  <2>1. NoCall.at # "forward"
    BY DEF NoCall
  <2> QED BY <1>3, <1>4, <2>1 DEF End
<1>5. CASE Ask(c)
  <2>1. PICK op, id, allow, run :
          call' = [call EXCEPT ![c] = [NoCall EXCEPT
               !.op = op, !.at = "read", !.id = id, !.allow = allow, !.run = run]]
    BY <1>5 DEF Ask
  <2>2. PICK x : x = [NoCall EXCEPT
                      !.op = op, !.at = "read", !.id = id, !.allow = allow, !.run = run]
    OBVIOUS
  <2>3. x.at # "forward"
    BY <2>2 DEF NoCall
  <2> QED BY <1>3, <2>1, <2>2, <2>3
<1>6. CASE ResumeRead(c)
  <2>1. End(c) \/ \E x \in CallType : call' = [call EXCEPT ![c] = x] /\ x.at \in {"runs", "resume"}
    BY <1>6, ResumeReadStep
  <2> QED BY <1>3, <1>4, <2>1
<1>7. CASE ResumeRuns(c)
  <2>1. End(c) \/ \E x \in CallType : call' = [call EXCEPT ![c] = x] /\ x.at \in {"resume", "hosts"}
    BY <1>7, ResumeRunsStep
  <2> QED BY <1>3, <1>4, <2>1
<1>8. CASE ResumeHosts(c)
  <2>1. End(c) \/ \E x \in CallType : call' = [call EXCEPT ![c] = x] /\ x.at = "resume"
    BY <1>8, ResumeHostsStep
  <2> QED BY <1>3, <1>4, <2>1
<1>9. CASE BuildRollout(c)
  <2>1. End(c) \/ \E x \in CallType : call' = [call EXCEPT ![c] = x] /\ x.at \in {"hosts", "insert"}
    BY <1>9, BuildRolloutStep
  <2> QED BY <1>3, <1>4, <2>1
<1>10. CASE HaltChildren(c) \/ StopRead(c)
  <2>1. \/ End(c)
        \/ \E x \in CallType : call' = [call EXCEPT ![c] = x] /\ x.at \in {"stop", "children"}
    BY <1>10, ListsStep
  <2> QED BY <1>3, <1>4, <2>1
<1> QED BY <1>5, <1>6, <1>7, <1>8, <1>9, <1>10

\* A cancel writes the status and will list the children next.
LEMMA CancelWriteStop ==
  ASSUME TypeInv, CallInv, StopInv, NEW c \in Caller, CancelWrite(c)
  PROVE  StopInv'
PROOF
<1>1. UNCHANGED <<runs, task, live, excused>>
  BY DEF CancelWrite, machine, history
<1>2. ASSUME NEW d \in Caller, d # c
      PROVE  call'[d].op = call[d].op /\ call'[d].at = call[d].at /\ call'[d].todo = call[d].todo
  <2>1. call'[d] = [call[d] EXCEPT !.before = Busy(d)]
    BY <1>2 DEF CancelWrite
  <2>2. call[d] \in CallType
    BY CallFacts
  <2> QED BY <2>1, <2>2 DEF CallType
<1>3. call'[c].op = "cancel" /\ call'[c].at = "children" /\ call[c].at = "write"
  <2>1. call'[c] = [call[c] EXCEPT !.at = "children"]
    BY DEF CancelWrite
  <2>2. call[c] \in CallType
    BY CallFacts
  <2> QED BY <2>1, <2>2 DEF CallType, CancelWrite, At
<1>4. Selecting'
  BY <1>3 DEF Selecting, At
<1>5. ASSUME NEW r \in 1..Len(runs) PROVE StopFits(r)'
  <2>1. Settled(r)'
    BY <1>4 DEF Settled
  <2>2. Told(r) => Told(r)'
    <3>1. ASSUME Told(r) PROVE Told(r)'
      <4>1. PICK d \in Caller : call[d].at = "forward" /\ First(call[d].todo).run = r
        BY <3>1 DEF Told
      <4>2. call'[d].at = "forward" /\ call'[d].todo = call[d].todo
        BY <1>2, <1>3, <4>1
      <4>3. First(call'[d].todo).run = r
        BY <4>1, <4>2
      <4> QED BY <4>2, <4>3 DEF Told
    <3> QED BY <3>1
  <2>3. StopFits(r)
    BY StopParts
  <2> QED BY <1>1, <2>1, <2>2, <2>3 DEF StopFits, Reached, Handed, Sending, IsLoop
<1>6. ASSUME NEW d \in Caller PROVE Written(call[d])'
  <2>1. CASE d = c
    BY <1>3, <2>1 DEF Written
  <2>2. CASE d # c
    <3>1. Written(call[d])
      BY StopParts
    <3>2. call'[d].at = call[d].at /\ call'[d].todo = call[d].todo
      BY <1>2, <2>2
    <3>3. call[d].at = "forward" =>
            \/ First(call[d].todo).run \in excused
            \/ runs[First(call[d].todo).run].status \notin Active
      BY <3>1 DEF Written
    <3> QED BY <1>1, <3>2, <3>3 DEF Written
  <2> QED BY <2>1, <2>2
<1> QED BY <1>1, <1>5, <1>6 DEF StopInv, StopFits

\* The requests that stop nothing before or after, by their fields.
LEMMA OthersWritten ==
  ASSUME TypeInv, CallInv, StopInv, NEW c \in Caller, NEW x, call' = [call EXCEPT ![c] = x],
         Written(x)',
         \A r \in 1..Len(runs) : runs[r].status \notin Active \/ r \in excused =>
                                   runs'[r].status \notin Active \/ r \in excused'
  PROVE  \A d \in Caller : Written(call[d])'
PROOF
<1>3. call'[c] = x /\ \A d \in Caller \ {c} : call'[d] = call[d]
  BY CallFacts
<1>4. ASSUME NEW d \in Caller PROVE Written(call[d])'
  <2>1. CASE d = c
    BY <1>3, <2>1 DEF Written
  <2>2. CASE d # c
    <3>1. PICK y \in CallType : y = call[d]
      BY CallFacts
    <3>2. Written(y)'
      BY <3>1, StopParts, WrittenRests
    <3> QED BY <1>3, <2>2, <3>1, <3>2 DEF Written
  <2> QED BY <2>1, <2>2
<1> QED BY <1>4

\* Every build that is active is listed now.
LEMMA CancelChildrenStop ==
  ASSUME TypeInv, CallInv, StopInv, NEW c \in Caller, CancelChildren(c)
  PROVE  StopInv'
PROOF
<1>1. UNCHANGED <<runs, task, live, excused, rollout>>
  BY DEF CancelChildren, Reads, machine, history
<1>2. PICK x \in CallType : /\ call' = [call EXCEPT ![c] = x] /\ x.op = "cancel" /\ x.at = "stop"
                            /\ x.todo = Selected(Builds(Active))
  <2>1. call[c].op = "cancel" /\ call[c].at = "children"
    BY DEF CancelChildren, At
  <2>2. ~HaltChildren(c) /\ ~StopRead(c)
    BY <2>1 DEF HaltChildren, StopRead, At
  <2> QED BY <2>1, <2>2, ListsStep
<1>3. call'[c] = x /\ \A d \in Caller \ {c} : call'[d] = call[d]
  BY <1>2, CallFacts
<1>4. call[c].at = "children"
  BY DEF CancelChildren, At
<1>5. ASSUME NEW r \in 1..Len(runs) PROVE StopFits(r)'
  <2>1. CASE IsLoop(r)
    BY <1>1, <2>1 DEF StopFits, IsLoop
  <2>2. CASE ~IsLoop(r)
    <3>1. runs[r].status \in Active => Listed(r)'
      <4>1. ASSUME runs[r].status \in Active
            PROVE  \E t \in x.todo : t.run = r
        <5>1. r \in Builds(Active)
          BY <2>2, <4>1 DEF Builds
        <5>2. PICK t : t = [run |-> r, url |-> IF runs[r].remote THEN runs[r].url ELSE Nil]
          OBVIOUS
        <5>3. t \in Selected(Builds(Active)) /\ t.run = r
          BY <5>1, <5>2 DEF Selected
        <5> QED BY <1>2, <5>3
      <4> QED BY <1>2, <1>3, <4>1 DEF Listed
    <3>2. Settled(r)'
      BY <1>1, <3>1 DEF Settled
    <3>3. Told(r) => Told(r)'
      BY <1>3, <1>4 DEF Told
    <3>4. StopFits(r)
      BY StopParts
    <3> QED BY <1>1, <3>2, <3>3, <3>4 DEF StopFits, Reached, Handed, Sending, IsLoop
  <2> QED BY <2>1, <2>2
<1>6. \A d \in Caller : Written(call[d])'
  <2>1. Written(x)'
    BY <1>2 DEF Written
  <2> QED BY <1>1, <1>2, <2>1, OthersWritten
<1> QED BY <1>1, <1>5, <1>6 DEF StopInv, StopFits

LEMMA InsertStop ==
  ASSUME TypeInv, CallInv, StopInv, NEW c \in Caller, NEW mode \in {"launch", "relaunch", "build"},
         NEW next \in CallPlaces \ {"forward"}, InsertRun(c, mode, next), call[c].at = "insert"
  PROVE  StopInv'
PROOF
<1>1. PICK n \in Nat : n = Len(runs) + 1
  BY NumbersType
<1>2. /\ Len(runs') = n
      /\ \A r \in 1..Len(runs) : runs'[r] = runs[r]
      /\ runs'[n] = [mode |-> mode, pin |-> call[c].id, allow |-> call[c].allow,
                                    status |-> "pending", url |-> Nil, remote |-> FALSE]
      /\ n \in RunId /\ live[n] = Nil
  BY <1>1, InsertStep
<1>3. task' = task /\ live' = live /\ rollout' = rollout
      /\ excused' = IF mode = "build" /\ rollout.status # "running" THEN excused \cup {n}
                    ELSE excused
  BY <1>1 DEF InsertRun, machine
<1>4. PICK x \in CallType : call' = [call EXCEPT ![c] = x] /\ x.at = next
  BY InsertCall
<1>5. ListsRest
  BY <1>4, ListsMove
<1>6. ASSUME NEW r \in 1..Len(runs) PROVE StopFits(r)'
  <2>1. runs'[r] = runs[r] /\ StopFits(r) /\ excused \subseteq excused'
    BY <1>2, <1>3, StopParts
  <2> QED BY <1>3, <1>5, <2>1, StopRests
<1>7. StopFits(n)'
  <2>1. runs'[n].mode = mode
    BY <1>2
  <2>2. CASE mode # "build"
    BY <2>1, <2>2 DEF StopFits, IsLoop
  <2>3. CASE mode = "build" /\ rollout.status # "running"
    BY <1>3, <2>3 DEF StopFits
  <2>4. CASE rollout.status = "running"
    <3>1. Settled(n)'
      BY <1>3, <2>4 DEF Settled
    <3>2. live'[n] = Nil
      BY <1>2, <1>3
    <3>3. Reached(n)' /\ Handed(n)'
      BY <3>2 DEF Reached, Handed
    <3> QED BY <3>1, <3>3 DEF StopFits
  <2> QED BY <2>2, <2>3, <2>4
<1>8. \A d \in Caller : Written(call[d])'
  <2>1. Written(x)'
    BY <1>4 DEF Written
  <2> QED BY <1>2, <1>3, <1>4, <2>1, OthersWritten
<1>9. \A r \in 1..Len(runs') : r \in 1..Len(runs) \/ r = n
  BY <1>1, <1>2, NumbersType
<1> QED BY <1>6, <1>7, <1>8, <1>9 DEF StopInv, StopFits

LEMMA EnqueueStop ==
  ASSUME TypeInv, CallInv, StopInv, NEW c \in Caller, Enqueue(c)
  PROVE  StopInv'
PROOF
<1>1. PICK q \in RunId : q = call[c].run
  BY EnqueueStep
<1>2. /\ q \in 1..Len(runs) /\ task[q].at = "none" /\ Unsent(q)
      /\ \A r \in RunId \ {q} : task'[r] = task[r]
      /\ runs' = runs /\ live' = live /\ excused' = excused /\ rollout' = rollout
      /\ call' = [call EXCEPT ![c] = NoCall]
  BY <1>1, EnqueueStep DEF machine, history
<1>3. call[c].at = "enqueue"
  BY DEF Enqueue
<1>4. ListsRest
  BY <1>2, <1>3, ListsMove
<1>5. ASSUME NEW r \in 1..Len(runs) PROVE StopFits(r)'
  <2>1. r \in RunId /\ r \in Nat
    BY NumbersType DEF TypeInv, RunsOK, RunId
  <2>2. StopFits(r)
    BY StopParts
  <2>3. CASE r # q
    <3>1. task'[r] = task[r]
      BY <1>2, <2>1, <2>3
    <3> QED BY <1>2, <1>4, <2>2, <3>1, StopRests
  <2>4. CASE r = q
    <3>1. live'[r] = Nil
      BY <1>2, <2>4 DEF Unsent
    <3>2. Reached(r)' /\ Handed(r)'
      BY <3>1 DEF Reached, Handed
    <3>3. Settled(r) => Settled(r)'
      <4>1. (Listed(r) => Listed(r)') /\ (Selecting => Selecting')
        BY <1>4, <2>1 DEF ListsRest
      <4>2. task[r].at # "watch"
        BY <1>2, <2>4
      <4> QED BY <1>2, <4>1, <4>2 DEF Settled
    <3> QED BY <1>2, <2>2, <3>2, <3>3 DEF StopFits, IsLoop
  <2> QED BY <2>3, <2>4
<1>6. \A d \in Caller : Written(call[d])'
  <2>1. Written(NoCall)'
    BY DEF Written, NoCall
  <2> QED BY <1>2, <2>1, OthersWritten
<1> QED BY <1>2, <1>5, <1>6 DEF StopInv, StopFits

LEMMA StopEndStop ==
  ASSUME TypeInv, CallInv, StopInv, NEW c \in Caller, StopEnd(c)
  PROVE  StopInv'
PROOF
<1>1. UNCHANGED <<runs, task, live, excused, rollout>>
  BY DEF StopEnd, Reads, machine, history
<1>2. call[c].at = "stop" /\ call[c].todo = {} /\ call' = [call EXCEPT ![c] = NoCall]
  BY DEF StopEnd, End
<1>3. \A d \in Caller \ {c} : call'[d] = call[d]
  BY <1>2, CallFacts
<1>4. ListsRest
  <2>1. \A r \in Nat : Listed(r) => Listed(r)'
    BY <1>2, <1>3 DEF Listed
  <2>2. \A r \in Nat : Told(r) => Told(r)'
    BY <1>2, <1>3 DEF Told
  <2>3. Selecting => Selecting'
    BY <1>2, <1>3 DEF Selecting, At
  <2> QED BY <2>1, <2>2, <2>3 DEF ListsRest
<1>5. ASSUME NEW r \in 1..Len(runs) PROVE StopFits(r)'
  BY <1>1, <1>4, StopParts, StopRests
<1>6. \A d \in Caller : Written(call[d])'
  <2>1. Written(NoCall)'
    BY DEF Written, NoCall
  <2> QED BY <1>1, <1>2, <2>1, OthersWritten
<1> QED BY <1>1, <1>5, <1>6 DEF StopInv, StopFits

LEMMA StopWriteStop ==
  ASSUME TypeInv, CallInv, StopInv, NEW c \in Caller, StopWrite(c)
  PROVE  StopInv'
PROOF
<1>1. PICK t \in call[c].todo, x \in CallType :
           /\ t = First(call[c].todo) /\ t.run \in 1..Len(runs) /\ t.run \in RunId
           /\ Len(runs') = Len(runs) /\ SameRuns
           /\ \A q \in 1..Len(runs) \ {t.run} : runs'[q] = runs[q]
           /\ runs'[t.run].status = "cancelled" /\ runs'[t.run].url = runs[t.run].url
           /\ runs'[t.run].remote = runs[t.run].remote
           /\ runs'[t.run].allow = runs[t.run].allow
           /\ call' = [call EXCEPT ![c] = x] /\ x.op = call[c].op /\ x.run = call[c].run
           /\ x.id = call[c].id /\ x.saw = call[c].saw /\ x.before = call[c].before
           /\ \/ t.url = Nil /\ x.at = "stop" /\ x.todo = call[c].todo \ {t}
              \/ t.url # Nil /\ x.at = "forward" /\ x.todo = call[c].todo
  BY StopWriteStep
<1>2. /\ call[c].at = "stop" /\ UNCHANGED <<task, live, rollout>>
      /\ excused' = IF t.url = Nil /\ runs[t.run].remote THEN excused \cup {t.run} ELSE excused
  BY <1>1 DEF StopWrite, machine
<1>3. call'[c] = x /\ \A d \in Caller \ {c} : call'[d] = call[d]
  BY <1>1, CallFacts
<1>4. \A r \in Nat : Told(r) => Told(r)'
  BY <1>2, <1>3 DEF Told
<1>5. Selecting => Selecting'
  BY <1>2, <1>3 DEF Selecting, At
<1>6. ASSUME NEW r \in Nat, Listed(r), r # t.run PROVE Listed(r)'
  <2>1. PICK d \in Caller : /\ call[d].op = "cancel" /\ call[d].at \in {"stop", "forward"}
                            /\ \E u \in call[d].todo : u.run = r
    BY <1>6 DEF Listed
  <2>2. PICK u \in call[d].todo : u.run = r
    BY <2>1
  <2>3. CASE d # c
    BY <1>3, <2>1, <2>3 DEF Listed
  <2>4. CASE d = c
    <3>1. u \in x.todo
      BY <1>1, <1>6, <2>2, <2>4
    <3>2. x.op = "cancel" /\ x.at \in {"stop", "forward"}
      BY <1>1, <2>1, <2>4
    <3> QED BY <1>3, <2>2, <3>1, <3>2 DEF Listed
  <2> QED BY <2>3, <2>4
<1>7. ASSUME NEW r \in 1..Len(runs) PROVE StopFits(r)'
  <2>0. r \in Nat
    BY NumbersType
  <2>1. StopFits(r) /\ runs'[r].mode = runs[r].mode
    BY <1>1, StopParts DEF SameRuns
  <2>2. CASE r # t.run
    <3>1. runs'[r] = runs[r]
      BY <1>1, <2>2
    <3>2. Settled(r) => Settled(r)'
      BY <1>2, <1>5, <1>6, <2>0, <2>2, <3>1 DEF Settled
    <3>3. Reached(r) => Reached(r)'
      BY <1>2, <1>4, <2>0, <3>1 DEF Reached, Sending
    <3>4. Handed(r) => Handed(r)'
      BY <1>2, <3>1 DEF Handed, Sending
    <3> QED BY <1>2, <2>1, <3>2, <3>3, <3>4 DEF StopFits, IsLoop
  <2>3. CASE r = t.run
    <3>1. Settled(r)'
      BY <1>1, <2>3 DEF Settled, Active
    <3>2. Handed(r) => Handed(r)'
      BY <1>1, <1>2, <2>3 DEF Handed, Sending
    <3>3. CASE t.url # Nil
      <4>1. Told(r)'
        <5>1. x.at = "forward" /\ First(x.todo) = t
          BY <1>1, <3>3
        <5> QED BY <1>3, <2>3, <5>1 DEF Told
      <4> QED BY <1>2, <2>1, <3>1, <3>2, <4>1 DEF StopFits, Reached, IsLoop
    <3>4. CASE t.url = Nil /\ runs[r].remote
      BY <1>2, <2>3, <3>4 DEF StopFits
    <3>5. CASE ~runs[r].remote
      <4>1. Handed(r) => Reached(r)'
        BY <1>2, <3>5 DEF Handed, Reached, Sending
      <4> QED BY <1>2, <2>1, <3>1, <3>2, <4>1 DEF StopFits, IsLoop
    <3> QED BY <3>3, <3>4, <3>5
  <2> QED BY <2>2, <2>3
<1>8. \A d \in Caller : Written(call[d])'
  <2>1. Written(x)'
    <3>1. CASE x.at = "forward"
      <4>1. First(x.todo).run = t.run
        BY <1>1, <3>1
      <4>2. runs'[First(x.todo).run].status = "cancelled"
        BY <1>1, <4>1
      <4> QED BY <4>2 DEF Written, Active
    <3> QED BY <3>1 DEF Written
  <2>2. \A r \in 1..Len(runs) : runs[r].status \notin Active \/ r \in excused =>
                                   runs'[r].status \notin Active \/ r \in excused'
    <3>1. excused \subseteq excused'
      BY <1>2
    <3>2. runs'[t.run].status \notin Active
      BY <1>1 DEF Active
    <3> QED BY <1>1, <3>1, <3>2
  <2> QED BY <1>1, <2>1, <2>2, OthersWritten
<1> QED BY <1>1, <1>7, <1>8 DEF StopInv, StopFits

LEMMA StopForwardStop ==
  ASSUME TypeInv, CallInv, StopInv, NEW c \in Caller, StopForward(c)
  PROVE  StopInv'
PROOF
<1>1. PICK t \in call[c].todo, x \in CallType :
           /\ t = First(call[c].todo) /\ t.run \in 1..Len(runs) /\ t.run \in RunId
           /\ t.url # Nil
           /\ \/ t.url \in DOMAIN reg' /\ live' = [live EXCEPT ![t.run] = Nil] /\ excused' = excused
              \/ live' = live /\ excused' = excused \cup {t.run}
           /\ call' = [call EXCEPT ![c] = x] /\ x.op = call[c].op /\ x.run = call[c].run
           /\ x.id = call[c].id /\ x.saw = call[c].saw /\ x.before = call[c].before
           /\ x.at = "stop" /\ x.todo = call[c].todo \ {t}
  BY StopForwardStep
<1>2. call[c].at = "forward" /\ UNCHANGED <<task, runs, rollout>> /\ excused \subseteq excused'
  BY <1>1 DEF StopForward
<1>3. call'[c] = x /\ \A d \in Caller \ {c} : call'[d] = call[d]
  BY <1>1, CallFacts
<1>4. ASSUME NEW r \in Nat, Told(r), r # t.run PROVE Told(r)'
  <2>1. PICK d \in Caller : call[d].at = "forward" /\ First(call[d].todo).run = r
    BY <1>4 DEF Told
  <2>2. d # c
    BY <1>1, <1>4, <2>1
  <2> QED BY <1>3, <2>1, <2>2 DEF Told
<1>5. Selecting => Selecting'
  BY <1>2, <1>3 DEF Selecting, At
<1>6. ASSUME NEW r \in Nat, Listed(r), r # t.run PROVE Listed(r)'
  <2>1. PICK d \in Caller : /\ call[d].op = "cancel" /\ call[d].at \in {"stop", "forward"}
                            /\ \E u \in call[d].todo : u.run = r
    BY <1>6 DEF Listed
  <2>2. PICK u \in call[d].todo : u.run = r
    BY <2>1
  <2>3. CASE d # c
    BY <1>3, <2>1, <2>3 DEF Listed
  <2>4. CASE d = c
    <3>1. u \in x.todo
      BY <1>1, <1>6, <2>2, <2>4
    <3>2. x.op = "cancel" /\ x.at \in {"stop", "forward"}
      BY <1>1, <2>1, <2>4
    <3> QED BY <1>3, <2>2, <3>1, <3>2 DEF Listed
  <2> QED BY <2>3, <2>4
<1>7. ASSUME NEW r \in 1..Len(runs) PROVE StopFits(r)'
  <2>0. r \in Nat /\ r \in RunId
    BY NumbersType DEF TypeInv, RunsOK, RunId
  <2>1. StopFits(r)
    BY StopParts
  <2>2. live'[r] \in {live[r], Nil}
    BY <1>1, <2>0 DEF TypeInv, RunsOK
  <2>3. CASE r # t.run
    <3>1. (Listed(r) => Listed(r)') /\ (Told(r) => Told(r)')
      BY <1>4, <1>6, <2>0, <2>3
    <3>2. Settled(r) => Settled(r)'
      BY <1>2, <1>5, <2>2, <3>1 DEF Settled
    <3>3. Reached(r) => Reached(r)'
      BY <1>2, <2>2, <3>1 DEF Reached, Sending
    <3>4. Handed(r) => Handed(r)'
      BY <1>2, <2>2 DEF Handed, Sending
    <3> QED BY <1>2, <2>1, <3>2, <3>3, <3>4 DEF StopFits, IsLoop
  <2>4. CASE r = t.run
    <3>1. CASE r \in excused'
      BY <3>1 DEF StopFits
    <3>2. CASE r \notin excused'
      <4>1. live'[r] = Nil
        BY <1>1, <2>4, <3>2 DEF TypeInv, RunsOK
      <4>2. runs[r].status \notin Active
        <5>1. Written(call[c])
          BY StopParts
        <5> QED BY <1>1, <1>2, <2>4, <3>2, <5>1 DEF Written
      <4>3. Settled(r)' /\ Reached(r)' /\ Handed(r)'
        BY <1>2, <4>1, <4>2 DEF Settled, Reached, Handed
      <4> QED BY <4>3 DEF StopFits
    <3> QED BY <3>1, <3>2
  <2> QED BY <2>3, <2>4
<1>8. \A d \in Caller : Written(call[d])'
  <2>1. Written(x)'
    BY <1>1 DEF Written
  <2> QED BY <1>1, <1>2, <2>1, OthersWritten
<1> QED BY <1>2, <1>7, <1>8 DEF StopInv, StopFits

LEMMA CallStepsStop ==
  ASSUME TypeInv, CallInv, StopInv, NEW c \in Caller, Ask(c) \/ CallStep(c)
  PROVE  StopInv'
PROOF
<1>1. CASE \/ LaunchRead(c) \/ LaunchHosts(c) \/ LaunchPin(c) \/ StartRead(c) \/ StartWrite(c)
           \/ ResumeWrite(c) \/ ResumeSweep(c) \/ HaltRead(c) \/ HaltWrite(c) \/ CancelRead(c)
           \/ StopCheck(c) \/ BuildPreflight(c) \/ BuildHosts(c)
  BY <1>1, MovesStop
<1>2. CASE \/ Ask(c) \/ ResumeRead(c) \/ ResumeRuns(c) \/ ResumeHosts(c) \/ BuildRollout(c)
           \/ HaltChildren(c) \/ StopRead(c)
  BY <1>2, OthersStop
<1>3. CASE LaunchInsert(c) \/ ResumeInsert(c) \/ BuildInsert(c)
  <2>1. PICK mode \in {"launch", "relaunch", "build"}, next \in CallPlaces \ {"forward"} :
          InsertRun(c, mode, next) /\ call[c].at = "insert"
    BY <1>3 DEF LaunchInsert, ResumeInsert, BuildInsert, CallPlaces, At
  <2> QED BY <2>1, InsertStop
<1>4. CASE CancelWrite(c) \/ CancelChildren(c) \/ Enqueue(c)
  BY <1>4, CancelWriteStop, CancelChildrenStop, EnqueueStop
<1>5. CASE StopWrite(c) \/ StopForward(c) \/ StopEnd(c)
  BY <1>5, StopWriteStop, StopForwardStop, StopEndStop
<1> QED BY <1>1, <1>2, <1>3, <1>4, <1>5 DEF CallStep

LEMMA RoutingStop ==
  ASSUME TypeInv, TaskInv, StopInv, NEW r \in RunId,
         TaskStatus(r) \/ TaskHosts(r) \/ TaskPick(r) \/ TaskRefused(r)
  PROVE  StopFits(r)'
PROOF
<1>1. TaskFrame(r) /\ UNCHANGED <<runs, machine, excused>> /\ task[r].at \in Unrouted
  BY StatusStep, HostsStep, PickStep, RefusedStep DEF Unrouted
<1>2. r \in 1..Len(runs) /\ TaskFits(r) /\ StopFits(r) /\ r \in Nat
  BY <1>1, StopParts, NumbersType DEF TaskFrame, TaskInv
<1>3. live'[r] = Nil
  BY <1>1, <1>2 DEF TaskFits, Unsent, machine
<1>4. ListsRest
  BY <1>1, ListsKept DEF TaskFrame
<1>5. (Listed(r) => Listed(r)') /\ (Selecting => Selecting')
  BY <1>2, <1>4 DEF ListsRest
<1>6. Settled(r) => Settled(r)'
  BY <1>1, <1>5 DEF Settled, Unrouted, TaskFrame
<1>7. Reached(r)' /\ Handed(r)'
  BY <1>3 DEF Reached, Handed
<1> QED BY <1>1, <1>2, <1>6, <1>7 DEF StopFits, IsLoop

LEMMA SendingStop ==
  ASSUME TypeInv, TaskInv, StopInv, NEW r \in RunId,
         TaskPost(r) \/ TaskConfirm(r) \/ TaskWrite(r) \/ TaskRecall(r)
  PROVE  StopFits(r)'
PROOF
<1>1. TaskFrame(r) /\ excused \subseteq excused'
  BY PostStep, ConfirmStep, WriteStep, RecallStep
<1>2. r \in 1..Len(runs) /\ TaskFits(r) /\ StopFits(r) /\ r \in Nat
  BY <1>1, StopParts, NumbersType DEF TaskFrame, TaskInv
<1>4. ListsRest /\ rollout' = rollout /\ IsLoop(r)' = IsLoop(r)
  BY <1>1, ListsKept DEF TaskFrame, IsLoop
<1>5. (Listed(r) => Listed(r)') /\ (Selecting => Selecting')
  BY <1>2, <1>4 DEF ListsRest
<1>6. CASE TaskPost(r) \/ TaskConfirm(r)
  <2>1. runs' = runs /\ task[r].at \in {"post", "confirm"}
    BY <1>6, PostStep, ConfirmStep
  <2>2. Settled(r) => Settled(r)'
    BY <1>4, <1>5, <2>1 DEF Settled
  <2>3. r \in excused' \/ task'[r].at \in {"confirm", "recall", "write"}
    BY <1>6, PostStep, ConfirmStep DEF TaskTo
  <2>4. CASE task'[r].at \in {"confirm", "recall", "write"}
    <3>1. Reached(r)' /\ Handed(r)'
      BY <2>4 DEF Reached, Handed, Sending
    <3> QED BY <1>1, <1>2, <1>4, <2>2, <3>1 DEF StopFits
  <2> QED BY <2>3, <2>4 DEF StopFits
<1>7. CASE TaskWrite(r)
  <2>1. /\ runs'[r].status = "running" /\ runs'[r].remote = TRUE /\ task[r].at = "write"
        /\ excused' = IF runs[r].status = "cancelled" THEN excused \cup {r} ELSE excused
    BY <1>7, WriteStep
  <2>2. Reached(r)' /\ Handed(r)'
    BY <2>1 DEF Reached, Handed, Active
  <2>3. CASE runs[r].status = "cancelled"
    BY <2>1, <2>3 DEF StopFits
  <2>4. CASE runs[r].status = "pending"
    <3>1. Settled(r) => Settled(r)'
      BY <1>4, <1>5, <2>1, <2>4 DEF Settled, Active
    <3> QED BY <1>1, <1>2, <1>4, <2>2, <3>1 DEF StopFits
  <2>5. runs[r].status \in {"pending", "cancelled"}
    BY <1>2, <2>1 DEF TaskFits
  <2> QED BY <2>3, <2>4, <2>5
<1>8. CASE TaskRecall(r)
  <2>1. /\ runs'[r].status = runs[r].status /\ task[r].at = "recall"
        /\ live'[r] = Nil \/ r \in excused'
    BY <1>8, RecallStep
  <2>2. runs'[r].status = "cancelled"
    BY <1>2, <2>1 DEF TaskFits
  <2>3. Settled(r)'
    BY <2>2 DEF Settled, Active
  <2>4. live'[r] = Nil => Reached(r)' /\ Handed(r)'
    BY DEF Reached, Handed
  <2> QED BY <2>1, <2>3, <2>4 DEF StopFits
<1> QED BY <1>6, <1>7, <1>8

LEMMA EndingStop ==
  ASSUME TypeInv, TaskInv, StopInv, NEW r \in RunId, TaskTwin(r) \/ TaskFail(r) \/ TaskWatch(r)
  PROVE  StopFits(r)'
PROOF
<1>1. TaskFrame(r) /\ UNCHANGED <<machine, excused>>
  BY TwinStep, FailStep, WatchStep
<1>2. r \in 1..Len(runs) /\ TaskFits(r) /\ IsLoop(r)' = IsLoop(r)
  BY <1>1 DEF TaskFrame, TaskInv, IsLoop
<1>3. CASE TaskTwin(r)
  BY <1>2, <1>3, TwinStep DEF TaskFits, StopFits
<1>4. CASE TaskFail(r) \/ TaskWatch(r)
  <2>1. runs'[r].status \notin Active /\ (r \in excused' \/ live'[r] = Nil)
    BY <1>1, <1>2, <1>4, FailStep, WatchStep DEF TaskFits, Active, machine
  <2>2. Settled(r)'
    BY <2>1 DEF Settled
  <2>3. live'[r] = Nil => Reached(r)' /\ Handed(r)'
    BY DEF Reached, Handed
  <2> QED BY <2>1, <2>2, <2>3 DEF StopFits
<1> QED BY <1>3, <1>4

LEMMA TaskStepsStop ==
  ASSUME TypeInv, CallInv, TaskInv, StopInv, NEW r \in RunId, TaskStep(r)
  PROVE  StopInv'
PROOF
<1>1. TaskFrame(r) /\ excused \subseteq excused'
  BY TaskSteps
<1>2. ASSUME NEW q \in 1..Len(runs) PROVE StopFits(q)'
  <2>1. q \in RunId /\ StopFits(q)
    BY StopParts, NumbersType DEF TypeInv, RunsOK, RunId
  <2>2. CASE q # r
    <3>1. task'[q] = task[q] /\ live'[q] = live[q] /\ runs'[q] = runs[q] /\ rollout' = rollout
      BY <1>1, <2>1, <2>2 DEF TaskFrame
    <3>2. ListsRest
      BY <1>1, ListsKept DEF TaskFrame
    <3> QED BY <1>1, <2>1, <3>1, <3>2, StopRests
  <2>3. CASE q = r
    BY <2>3, RoutingStop, SendingStop, EndingStop DEF TaskStep
  <2> QED BY <2>2, <2>3
<1>3. ASSUME NEW q \in 1..Len(runs), runs[q].status \notin Active \/ q \in excused
      PROVE  runs'[q].status \notin Active \/ q \in excused'
  <2>1. CASE q # r \/ q \in excused
    BY <1>1, <1>3, <2>1 DEF TaskFrame
  <2>2. CASE q = r /\ runs[r].status \notin Active
    <3>1. TaskFits(r)
      BY <2>2 DEF TaskInv
    <3>2. CASE TaskStatus(r) \/ TaskHosts(r) \/ TaskPick(r) \/ TaskRefused(r) \/ TaskPost(r)
               \/ TaskConfirm(r)
      BY <2>2, <3>2, StatusStep, HostsStep, PickStep, RefusedStep, PostStep, ConfirmStep
    <3>3. CASE TaskTwin(r) \/ TaskFail(r) \/ TaskWatch(r) \/ TaskRecall(r)
      BY <2>2, <3>3, TwinStep, FailStep, WatchStep, RecallStep DEF Active
    <3>4. CASE TaskWrite(r)
      BY <2>2, <3>1, <3>4, WriteStep DEF TaskFits, Active
    <3> QED BY <3>2, <3>3, <3>4 DEF TaskStep
  <2> QED BY <1>3, <2>1, <2>2
<1>4. \A c \in Caller : Written(call[c])'
  BY <1>1, <1>3, WrittenKept DEF TaskFrame
<1> QED BY <1>1, <1>2, <1>4 DEF StopInv, StopFits, TaskFrame

LEMMA EnvironmentStop ==
  ASSUME TypeInv, CallInv, TaskInv, StopInv, Environment
  PROVE  StopInv'
PROOF
<1>1. ASSUME UNCHANGED <<runs, task, call, machine, excused>>,
             rollout'.status = rollout.status \/ rollout'.status # "cancelled"
      PROVE  StopInv'
  <2>1. ListsRest
    BY <1>1, ListsKept
  <2>2. ASSUME NEW r \in 1..Len(runs) PROVE StopFits(r)'
    <3>1. StopFits(r) /\ r \in Nat
      BY StopParts, NumbersType
    <3>2. CASE rollout'.status = rollout.status
      BY <1>1, <2>1, <3>1, <3>2, StopRests DEF machine
    <3>3. CASE rollout'.status # "cancelled"
      <4>1. Settled(r)'
        BY <3>3 DEF Settled
      <4>2. Told(r) => Told(r)'
        BY <2>1, <3>1 DEF ListsRest
      <4>3. (Reached(r) => Reached(r)') /\ (Handed(r) => Handed(r)')
        BY <1>1, <4>2 DEF Reached, Handed, Sending, machine
      <4> QED BY <1>1, <3>1, <4>1, <4>3 DEF StopFits, IsLoop
    <3> QED BY <1>1, <3>2, <3>3
  <2>3. \A c \in Caller : Written(call[c])'
    BY <1>1, WrittenKept
  <2> QED BY <1>1, <2>2, <2>3 DEF StopInv, StopFits
<1>2. ASSUME NEW h \in Host, NEW yes \in BOOLEAN, NEW drained \in BOOLEAN,
             HostChange(h, yes, drained)
      PROVE  StopInv'
  BY <1>1, <1>2, ChangesKeep
<1>3. CASE Close
  <2>1. rollout'.status = "closed"
    BY <1>3 DEF Close, SetRollout, TypeInv, RunsOK
  <2> QED BY <1>1, <1>3, <2>1 DEF Close, history
<1>4. ASSUME NEW r \in RunId, WorkEnds(r) \/ LoopCrash(r) PROVE StopInv'
  <2>1. UNCHANGED <<runs, task, call, excused, rollout>>
    BY <1>4, WorkEndsStep
  <2>2. ASSUME NEW q \in 1..Len(runs) PROVE StopFits(q)'
    <3>1. q \in RunId /\ StopFits(q)
      BY StopParts, NumbersType DEF TypeInv, RunsOK, RunId
    <3>2. live'[q] \in {live[q], Nil}
      BY <1>4, <3>1, WorkEndsStep
    <3> QED BY <2>1, <3>1, <3>2, ListsKept, StopRests
  <2> QED BY <2>1, <2>2, WrittenKept DEF StopInv, StopFits
<1>5. ASSUME NEW h \in Host, Readopt(h) PROVE StopInv'
  <2>1. UNCHANGED <<runs, task, call, excused, rollout>>
    BY <1>5, ReadoptStep
  <2>2. ASSUME NEW q \in 1..Len(runs) PROVE StopFits(q)'
    <3>1. q \in RunId /\ StopFits(q) /\ TaskFits(q)
      BY StopParts, NumbersType DEF TypeInv, RunsOK, RunId, TaskInv
    <3>2. CASE q # held[h]
      <4>1. live'[q] = live[q]
        BY <1>5, <3>1, <3>2, ReadoptStep
      <4> QED BY <2>1, <3>1, <4>1, ListsKept, StopRests
    <3>3. CASE q = held[h]
      BY <2>1, <3>1, <3>3 DEF TaskFits, StopFits, IsLoop
    <3> QED BY <3>2, <3>3
  <2> QED BY <2>1, <2>2, WrittenKept DEF StopInv, StopFits
<1>6. ASSUME NEW reach \in SUBSET Host, Restart(reach) PROVE StopInv'
  <2>1. Len(runs') = Len(runs) /\ (\A c \in Caller : call'[c] = NoCall) /\ live' = live
        /\ excused' = excused \cup {r \in RunId : live[r] # Nil}
    BY <1>6, RestartStep DEF machine
  <2>2. ASSUME NEW r \in 1..Len(runs) PROVE StopFits(r)'
    <3>1. r \in RunId
      BY NumbersType DEF TypeInv, RunsOK, RunId
    <3>2. CASE live[r] # Nil
      BY <2>1, <3>1, <3>2 DEF StopFits
    <3>3. CASE live[r] = Nil
      <4>1. Reached(r)' /\ Handed(r)'
        BY <2>1, <3>3 DEF Reached, Handed
      <4>2. CASE task'[r] = [NoTask EXCEPT !.at = "watch", !.host = runs[r].url]
        <5>1. task'[r].at = "watch"
          BY <4>2 DEF NoTask
        <5>2. Settled(r)'
          BY <2>1, <3>3, <5>1 DEF Settled
        <5> QED BY <4>1, <5>2 DEF StopFits
      <4>3. CASE runs'[r].status \notin Active
        <5>1. Settled(r)'
          BY <4>3 DEF Settled
        <5> QED BY <4>1, <5>1 DEF StopFits
      <4> QED BY <1>6, <4>2, <4>3, RestartStep DEF Active
    <3> QED BY <3>2, <3>3
  <2>3. \A c \in Caller : Written(call[c])'
    BY <2>1 DEF Written, NoCall
  <2> QED BY <2>1, <2>2, <2>3 DEF StopInv, StopFits
<1>7. \/ \E h \in Host, yes \in BOOLEAN, drained \in BOOLEAN : HostChange(h, yes, drained)
      \/ \E h \in Host : Readopt(h)
      \/ \E r \in RunId : WorkEnds(r) \/ LoopCrash(r)
      \/ Close
      \/ \E reach \in SUBSET Host : Restart(reach)
  BY DEF Environment, HostChange
<1> QED BY <1>2, <1>3, <1>4, <1>5, <1>6, <1>7

LEMMA StopInvKept ==
  ASSUME TypeInv, CallInv, TaskInv, StopInv, [Next]_vars
  PROVE  StopInv'
PROOF
<1>1. CASE UNCHANGED vars
  <2>1. UNCHANGED <<runs, task, call, machine, excused, rollout>>
    BY <1>1 DEF vars, history
  <2>2. \A r \in 1..Len(runs) : StopFits(r)'
    BY <2>1, ListsKept, StopParts, StopRests DEF machine
  <2> QED BY <2>1, <2>2, WrittenKept DEF StopInv, StopFits
<1> QED BY <1>1, CallStepsStop, TaskStepsStop, EnvironmentStop DEF Next

LEMMA StopCorrect ==
  ASSUME TypeInv, CallInv, StopInv
  PROVE  StopReachesChildren
PROOF
<1> SUFFICES ASSUME rollout.status = "cancelled", \A c \in Caller : call[c].op # "cancel",
                    NEW r \in 1..Len(runs), ~IsLoop(r), live[r] # Nil, r \notin excused
             PROVE  BeingStopped(r) \/ task[r].at \in {"confirm", "write", "recall"}
  BY DEF StopReachesChildren
<1>1. Settled(r) /\ Reached(r)
  BY StopParts DEF StopFits
<1>2. ~Selecting /\ ~Listed(r)
  BY DEF Selecting, Listed, At
<1>3. Told(r) \/ Sending(r)
  BY <1>1, <1>2 DEF Settled, Reached
<1>4. ASSUME Told(r) PROVE BeingStopped(r)
  <2>1. PICK c \in Caller : call[c].at = "forward" /\ First(call[c].todo).run = r
    BY <1>4 DEF Told
  <2>2. Fits(call[c])
    BY DEF CallInv
  <2>3. call[c].todo # {} /\ First(call[c].todo).url # Nil
    BY <2>1, <2>2 DEF Fits
  <2>4. First(call[c].todo) \in call[c].todo
    BY <2>3, FirstRun
  <2>5. call[c].op # "halt"
    BY <2>2, <2>3, <2>4 DEF Fits
  <2>6. call[c].op = "stop"
    BY <2>1, <2>2, <2>5 DEF Fits, Position
  <2> QED BY <2>1, <2>6 DEF BeingStopped, At
<1> QED BY <1>3, <1>4 DEF Sending

\* One request goes on: it has decided nothing new of a cancelled rollout.
LEMMA FinalMoves ==
  ASSUME TypeInv, FinalInv, NEW c \in Caller, NEW x, call' = [call EXCEPT ![c] = x],
         rollout'.status = "cancelled" => rollout.status = "cancelled",
         Decided(x) => (Decided(call[c]) /\ x.before = call[c].before)
                       \/ rollout'.status # "cancelled"
  PROVE  FinalInv'
PROOF
<1>1. call'[c] = x /\ \A d \in Caller \ {c} : call'[d] = call[d]
  BY CallFacts
<1>2. ASSUME rollout'.status = "cancelled", NEW d \in Caller, Decided(call[d])'
      PROVE  call'[d].before
  <2>1. Decided(call'[d])
    BY <1>2 DEF Decided
  <2>2. CASE d = c
    BY <1>1, <1>2, <2>1, <2>2 DEF FinalInv
  <2>3. CASE d # c
    BY <1>1, <1>2, <2>1, <2>3 DEF FinalInv
  <2> QED BY <2>2, <2>3
<1> QED BY <1>2 DEF FinalInv

LEMMA NotDecided ==
  ASSUME NEW x, NEW op, x.op = op, Position(x),
         \/ x.at \notin {"write", "started", "runs", "hosts", "resume"}
         \/ op \notin {"halt", "launch", "lead", "resume"}
         \/ op = "launch" /\ x.at # "started"
  PROVE  ~Decided(x)
PROOF BY DEF Decided, Position

LEMMA StatusWritten ==
  ASSUME TypeInv, NEW status, SetRollout(status)
  PROVE  rollout'.status = status
PROOF BY DEF TypeInv, RunsOK, SetRollout

LEMMA FinalEnd ==
  ASSUME TypeInv, FinalInv, NEW c \in Caller, End(c),
         rollout'.status = "cancelled" => rollout.status = "cancelled"
  PROVE  FinalInv'
PROOF
<1>1. ~Decided(NoCall)
  BY DEF Decided, NoCall
<1> QED BY <1>1, FinalMoves DEF End

\* To a place where nothing is decided, or of a rollout that is not cancelled.
LEMMA FinalGo ==
  ASSUME TypeInv, FinalInv, NEW c \in Caller, NEW at \in CallPlaces, Go(c, at),
         rollout'.status = "cancelled" => rollout.status = "cancelled",
         \/ rollout'.status # "cancelled"
         \/ at \notin {"write", "started", "runs", "hosts", "resume"}
         \/ call[c].op \in {"launch", "build", "cancel", "stop"} /\ at # "started"
  PROVE  FinalInv'
PROOF
<1>1. PICK x \in CallType : call' = [call EXCEPT ![c] = x] /\ Keeps(call[c], x) /\ x.at = at
  BY GoStep
<1>2. Decided(x) => rollout'.status # "cancelled"
  BY <1>1 DEF Decided, Keeps
<1> QED BY <1>1, <1>2, FinalMoves

LEMMA FinalThen ==
  ASSUME TypeInv, FinalInv, NEW c \in Caller, NEW ok, NEW at \in CallPlaces, Then(c, ok, at),
         rollout'.status = "cancelled" => rollout.status = "cancelled",
         \/ ok => rollout'.status # "cancelled"
         \/ at \notin {"write", "started", "runs", "hosts", "resume"}
         \/ call[c].op \in {"launch", "build", "cancel", "stop"} /\ at # "started"
  PROVE  FinalInv'
PROOF BY FinalEnd, FinalGo DEF Then

LEMMA MovesFinal ==
  ASSUME TypeInv, CallInv, FinalInv, NEW c \in Caller,
         \/ LaunchRead(c) \/ LaunchHosts(c) \/ LaunchPin(c) \/ StartRead(c) \/ StartWrite(c)
         \/ ResumeWrite(c) \/ ResumeSweep(c) \/ HaltRead(c) \/ HaltWrite(c) \/ CancelRead(c)
         \/ StopCheck(c) \/ BuildPreflight(c) \/ BuildHosts(c)
  PROVE  FinalInv'
PROOF
<1> USE DEF CallPlaces
<1>1. CASE LaunchRead(c)
  <2>1. call[c].op = "launch" /\ rollout' = rollout
    BY <1>1 DEF LaunchRead, At, Reads
  <2>2. PICK at \in {"hosts", "insert"} : Then(c, rollout.status = "pending", at)
    BY <1>1 DEF LaunchRead
  <2> QED BY <2>1, <2>2, FinalThen
<1>2. CASE LaunchHosts(c) \/ BuildHosts(c)
  <2>1. rollout' = rollout
    BY <1>2 DEF LaunchHosts, BuildHosts
  <2>2. PICK ok : Then(c, ok, "insert")
    BY <1>2 DEF LaunchHosts, BuildHosts
  <2> QED BY <2>1, <2>2, FinalThen
<1>3. CASE LaunchPin(c)
  <2>1. rollout'.status = rollout.status /\ Go(c, "start")
    BY <1>3 DEF LaunchPin, TypeInv, RunsOK
  <2> QED BY <2>1, FinalGo
<1>4. CASE StartRead(c)
  <2>1. rollout' = rollout /\ Then(c, rollout.status = "pending", "started")
    BY <1>4 DEF StartRead
  <2> QED BY <2>1, FinalThen
<1>5. CASE StartWrite(c)
  <2>1. rollout'.status = "running" /\ Then(c, call[c].op = "launch", "enqueue")
    BY <1>5, StatusWritten DEF StartWrite
  <2> QED BY <2>1, FinalThen
<1>6. CASE ResumeWrite(c)
  <2>1. Go(c, "sweep")
    BY <1>6 DEF ResumeWrite
  <2>2. rollout'.status = "running" \/ rollout' = rollout
    BY <1>6, StatusWritten DEF ResumeWrite
  <2> QED BY <2>1, <2>2, FinalGo
<1>7. CASE ResumeSweep(c)
  <2>1. \/ rollout'.status = "closed" /\ End(c)
        \/ rollout' = rollout /\ Then(c, call[c].id # 0, "insert")
    BY <1>7, StatusWritten DEF ResumeSweep
  <2> QED BY <2>1, FinalEnd, FinalThen
<1>8. CASE HaltRead(c)
  <2>1. rollout' = rollout /\ Then(c, rollout.status \in {"running", "pending"}, "write")
    BY <1>8 DEF HaltRead, Reads
  <2> QED BY <2>1, FinalThen
<1>9. CASE HaltWrite(c)
  <2>1. rollout'.status = "halted" /\ Go(c, "children")
    BY <1>9, StatusWritten DEF HaltWrite
  <2> QED BY <2>1, FinalGo
<1>10. CASE CancelRead(c)
  <2>1. rollout' = rollout /\ call[c].op = "cancel"
        /\ Then(c, rollout.status \notin {"cancelled", "closed"}, "write")
    BY <1>10 DEF CancelRead, At, Reads
  <2> QED BY <2>1, FinalThen
<1>11. CASE StopCheck(c)
  <2>1. rollout' = rollout /\ \E ok : Then(c, ok, "stop")
    BY <1>11 DEF StopCheck, Reads
  <2> QED BY <2>1, FinalThen
<1>12. CASE BuildPreflight(c)
  <2>1. rollout' = rollout /\ (End(c) \/ Go(c, "rollout"))
    BY <1>12 DEF BuildPreflight
  <2> QED BY <2>1, FinalEnd, FinalGo
<1> QED BY <1>1, <1>2, <1>3, <1>4, <1>5, <1>6, <1>7, <1>8, <1>9, <1>10, <1>11, <1>12

LEMMA CancelWriteFinal ==
  ASSUME TypeInv, CallInv, FinalInv, NEW c \in Caller, CancelWrite(c)
  PROVE  FinalInv'
PROOF
<1> SUFFICES ASSUME NEW d \in Caller, Decided(call[d])' PROVE call'[d].before
  BY DEF FinalInv
<1>1. Decided(call'[d]) /\ call[d] \in CallType /\ Position(call[d])
  BY CallFacts DEF Decided, CallInv, Fits
<1>2. CASE d = c
  <2>1. call'[d] = [call[d] EXCEPT !.at = "children"] /\ call[d].op = "cancel"
    BY <1>2 DEF CancelWrite, At
  <2> QED BY <1>1, <2>1 DEF CallType, Decided
<1>3. CASE d # c
  <2>1. call'[d] = [call[d] EXCEPT !.before = Busy(d)]
    BY <1>3 DEF CancelWrite
  <2>2. call'[d].before = Busy(d) /\ call'[d].op = call[d].op /\ call'[d].at = call[d].at
    BY <1>1, <2>1 DEF CallType
  <2> QED BY <1>1, <2>2 DEF Decided, Position, Busy
<1> QED BY <1>2, <1>3

LEMMA OthersFinal ==
  ASSUME TypeInv, CallInv, FinalInv, NEW c \in Caller,
         \/ Ask(c) \/ ResumeRead(c) \/ ResumeRuns(c) \/ ResumeHosts(c) \/ BuildRollout(c)
         \/ HaltChildren(c) \/ CancelChildren(c) \/ StopRead(c) \/ StopWrite(c) \/ StopForward(c)
         \/ StopEnd(c) \/ Enqueue(c) \/ LaunchInsert(c) \/ ResumeInsert(c) \/ BuildInsert(c)
  PROVE  FinalInv'
PROOF
<1>1. rollout' = rollout
  <2>1. CASE \/ Ask(c) \/ ResumeRead(c) \/ ResumeRuns(c) \/ ResumeHosts(c) \/ BuildRollout(c)
             \/ HaltChildren(c) \/ CancelChildren(c) \/ StopRead(c) \/ StopEnd(c)
    BY <2>1 DEF Ask, ResumeRead, ResumeRuns, ResumeHosts, BuildRollout, HaltChildren,
                CancelChildren, StopRead, StopEnd, Reads
  <2>2. CASE \/ StopWrite(c) \/ StopForward(c) \/ Enqueue(c)
             \/ LaunchInsert(c) \/ ResumeInsert(c) \/ BuildInsert(c)
    BY <2>2 DEF StopWrite, StopForward, Enqueue, LaunchInsert, ResumeInsert, BuildInsert, InsertRun
  <2> QED BY <2>1, <2>2
<1>2. ASSUME NEW x, call' = [call EXCEPT ![c] = x],
             Decided(x) => (Decided(call[c]) /\ x.before = call[c].before)
                           \/ rollout'.status # "cancelled"
      PROVE  FinalInv'
  BY <1>1, <1>2, FinalMoves
<1>3. CASE End(c)
  BY <1>1, <1>3, FinalEnd
<1>4. CASE Ask(c)
  <2>1. PICK op, id, allow, run :
          call' = [call EXCEPT ![c] = [NoCall EXCEPT
               !.op = op, !.at = "read", !.id = id, !.allow = allow, !.run = run]]
    BY <1>4 DEF Ask
  <2>2. PICK x : x = [NoCall EXCEPT
                      !.op = op, !.at = "read", !.id = id, !.allow = allow, !.run = run]
    OBVIOUS
  <2>3. x.at = "read"
    BY <2>2 DEF NoCall
  <2>4. ~Decided(x)
    BY <2>3 DEF Decided
  <2> QED BY <1>2, <2>1, <2>2, <2>4
<1>5. CASE ResumeRead(c)
  <2>1. End(c) \/ \E x \in CallType : call' = [call EXCEPT ![c] = x] /\ Keeps(call[c], x)
                                      /\ x.saw = rollout.status
    BY <1>5, ResumeReadStep
  <2>2. call[c].op = "resume" /\ call[c].at = "read"
    BY <1>5 DEF ResumeRead, At
  <2>3. ASSUME NEW x \in CallType, call' = [call EXCEPT ![c] = x], Keeps(call[c], x),
               x.saw = rollout.status, x.at \in {"runs", "resume"}
        PROVE  FinalInv'
    <3>1. Decided(x) => rollout'.status # "cancelled"
      BY <1>1, <2>2, <2>3 DEF Decided, Keeps
    <3> QED BY <1>2, <2>3, <3>1
  <2> QED BY <1>3, <1>5, <2>3, ResumeReadStep
<1>6. CASE ResumeRuns(c) \/ ResumeHosts(c)
  <2>1. call[c].op = "resume" /\ call[c].at \in {"runs", "hosts"}
    BY <1>6 DEF ResumeRuns, ResumeHosts, At
  <2>3. ASSUME NEW x \in CallType, call' = [call EXCEPT ![c] = x], Keeps(call[c], x),
               x.saw = call[c].saw, x.at \in {"hosts", "resume"}
        PROVE  FinalInv'
    <3>1. Decided(x) => Decided(call[c]) /\ x.before = call[c].before
      BY <2>1, <2>3 DEF Decided, Keeps
    <3> QED BY <1>2, <2>3, <3>1
  <2> QED BY <1>3, <1>6, <2>3, ResumeRunsStep, ResumeHostsStep
<1>7. CASE BuildRollout(c)
  <2>1. call[c].op = "build"
    BY <1>7 DEF BuildRollout, At
  <2>3. ASSUME NEW x \in CallType, call' = [call EXCEPT ![c] = x], Keeps(call[c], x),
               x.at \in {"hosts", "insert"}
        PROVE  FinalInv'
    <3>1. ~Decided(x)
      BY <2>1, <2>3 DEF Decided, Keeps
    <3> QED BY <1>2, <2>3, <3>1
  <2> QED BY <1>3, <1>7, <2>3, BuildRolloutStep
<1>8. ASSUME NEW x \in CallType, call' = [call EXCEPT ![c] = x],
             x.at \in {"stop", "children", "forward", "pin", "start", "enqueue"}
      PROVE  FinalInv'
  <2>1. ~Decided(x)
    BY <1>8 DEF Decided
  <2> QED BY <1>2, <1>8, <2>1
<1>9. CASE HaltChildren(c) \/ CancelChildren(c) \/ StopRead(c)
  <2>1. \/ End(c)
        \/ \E x \in CallType : call' = [call EXCEPT ![c] = x] /\ x.at \in {"stop", "children"}
    BY <1>9, ListsStep
  <2> QED BY <1>3, <1>8, <2>1
<1>10. CASE StopWrite(c) \/ StopForward(c)
  <2>1. \E x \in CallType : call' = [call EXCEPT ![c] = x] /\ x.at \in {"stop", "forward"}
    BY <1>10, StopWriteStep, StopForwardStep
  <2> QED BY <1>8, <2>1
<1>11. CASE StopEnd(c) \/ Enqueue(c)
  BY <1>3, <1>11 DEF StopEnd, Enqueue
<1>12. CASE LaunchInsert(c) \/ ResumeInsert(c) \/ BuildInsert(c)
  <2>4. ASSUME LaunchInsert(c)
        PROVE  \E mode \in {"launch", "relaunch", "build"}, next \in {"pin", "start", "enqueue"} :
                 InsertRun(c, mode, next)
    <3>1. InsertRun(c, "launch", IF call[c].id # 0 THEN "pin" ELSE "start")
      BY <2>4 DEF LaunchInsert
    <3> QED BY <3>1
  <2>5. ASSUME ResumeInsert(c) \/ BuildInsert(c)
        PROVE  \E mode \in {"launch", "relaunch", "build"}, next \in {"pin", "start", "enqueue"} :
                 InsertRun(c, mode, next)
    <3>1. InsertRun(c, "relaunch", "enqueue") \/ InsertRun(c, "build", "enqueue")
      BY <2>5 DEF ResumeInsert, BuildInsert
    <3> QED BY <3>1
  <2>1. PICK mode \in {"launch", "relaunch", "build"}, next \in {"pin", "start", "enqueue"} :
          InsertRun(c, mode, next)
    BY <1>12, <2>4, <2>5
  <2>2. next \in CallPlaces
    BY DEF CallPlaces
  <2>3. \E x \in CallType : call' = [call EXCEPT ![c] = x] /\ x.at = next
    BY <2>1, <2>2, InsertCall
  <2> QED BY <1>8, <2>3
<1> QED BY <1>4, <1>5, <1>6, <1>7, <1>9, <1>10, <1>11, <1>12

LEMMA FinalInvKept ==
  ASSUME TypeInv, CallInv, FinalInv, TaskInv, [Next]_vars
  PROVE  FinalInv'
PROOF
<1>1. ASSUME UNCHANGED call, rollout'.status = "cancelled" => rollout.status = "cancelled"
      PROVE  FinalInv'
  BY <1>1 DEF FinalInv, Decided
<1>2. CASE UNCHANGED vars
  BY <1>1, <1>2 DEF vars
<1>3. ASSUME NEW c \in Caller, Ask(c) \/ CallStep(c) PROVE FinalInv'
  BY <1>3, MovesFinal, CancelWriteFinal, OthersFinal DEF CallStep
<1>4. ASSUME NEW r \in RunId, TaskStep(r) PROVE FinalInv'
  <2>1. UNCHANGED <<call, rollout>>
    BY <1>4, TaskSteps DEF TaskFrame
  <2> QED BY <1>1, <2>1
<1>5. CASE Environment
  <2>1. ASSUME NEW h \in Host, NEW yes \in BOOLEAN, NEW drained \in BOOLEAN,
               HostChange(h, yes, drained)
        PROVE  FinalInv'
    BY <1>1, <2>1, ChangesKeep
  <2>2. CASE Close
    BY <1>1, <2>2, StatusWritten DEF Close
  <2>3. ASSUME NEW r \in RunId, WorkEnds(r) \/ LoopCrash(r) PROVE FinalInv'
    BY <1>1, <2>3, WorkEndsStep
  <2>4. ASSUME NEW h \in Host, Readopt(h) PROVE FinalInv'
    BY <1>1, <2>4, ReadoptStep
  <2>5. ASSUME NEW reach \in SUBSET Host, Restart(reach) PROVE FinalInv'
    <3>1. \A c \in Caller : call'[c] = NoCall
      BY <2>5, RestartStep
    <3> QED BY <3>1 DEF FinalInv, Decided, NoCall
  <2>6. \/ \E h \in Host, yes \in BOOLEAN, drained \in BOOLEAN : HostChange(h, yes, drained)
        \/ \E h \in Host : Readopt(h)
        \/ \E r \in RunId : WorkEnds(r) \/ LoopCrash(r)
        \/ Close
        \/ \E reach \in SUBSET Host : Restart(reach)
    BY <1>5 DEF Environment, HostChange
  <2> QED BY <2>1, <2>2, <2>3, <2>4, <2>5, <2>6
<1> QED BY <1>2, <1>3, <1>4, <1>5 DEF Next

-----------------------------------------------------------------------------
(* A cancelled rollout stays cancelled *)

\* The requests that write the status, and those of them that had decided to.
LEMMA StatusWriters ==
  ASSUME TypeInv, NEW c \in Caller, Ask(c) \/ CallStep(c),
         rollout.status = "cancelled", rollout'.status # "cancelled"
  PROVE  Decided(call[c]) /\ call'[c] # call[c]
PROOF
<1>1. call[c] \in CallType /\ call \in [Caller -> CallType]
  BY CallFacts
<1>2. UNCHANGED rollout => FALSE
  OBVIOUS
<1>3. ASSUME NEW at \in CallPlaces, Go(c, at), call[c].at # at PROVE call'[c] # call[c]
  BY <1>1, <1>3, GoStep
<1>4. CASE StartWrite(c)
  <2>1. call[c].at = "started" /\ Then(c, call[c].op = "launch", "enqueue")
    BY <1>4 DEF StartWrite
  <2>2. call'[c] # call[c]
    <3>1. CASE call[c].op = "launch"
      BY <1>3, <2>1, <3>1 DEF Then, CallPlaces
    <3>2. CASE End(c)
      <4>1. call'[c] = NoCall
        BY <1>1, <3>2 DEF End
      <4> QED BY <2>1, <4>1 DEF NoCall
    <3> QED BY <2>1, <3>1, <3>2 DEF Then
  <2> QED BY <2>1, <2>2 DEF Decided
<1>5. CASE ResumeWrite(c)
  <2>1. call[c].op = "resume" /\ call[c].at = "resume" /\ Go(c, "sweep") /\ call[c].saw = "halted"
    BY <1>2, <1>5 DEF ResumeWrite, At
  <2> QED BY <1>3, <2>1 DEF Decided, CallPlaces
<1>6. CASE HaltWrite(c)
  <2>1. call[c].op = "halt" /\ call[c].at = "write" /\ Go(c, "children")
    BY <1>6 DEF HaltWrite, At
  <2> QED BY <1>3, <2>1 DEF Decided, CallPlaces
<1>7. CASE CancelWrite(c)
  BY <1>7, StatusWritten DEF CancelWrite
<1>8. CASE LaunchPin(c)
  <2>1. rollout'.status = rollout.status
    BY <1>8 DEF LaunchPin, TypeInv, RunsOK
  <2> QED BY <2>1
<1>9. CASE ResumeSweep(c)
  BY <1>2, <1>9 DEF ResumeSweep
<1>10. CASE \/ Ask(c) \/ LaunchRead(c) \/ LaunchHosts(c) \/ StartRead(c) \/ Enqueue(c)
            \/ ResumeRead(c) \/ ResumeRuns(c) \/ ResumeHosts(c)
            \/ HaltRead(c) \/ HaltChildren(c) \/ CancelRead(c) \/ CancelChildren(c)
  BY <1>2, <1>10 DEF Ask, LaunchRead, LaunchHosts, StartRead, Enqueue, ResumeRead, ResumeRuns,
     ResumeHosts, HaltRead, HaltChildren, CancelRead, CancelChildren, Reads
<1>11. CASE \/ StopRead(c) \/ StopCheck(c) \/ StopWrite(c) \/ StopForward(c) \/ StopEnd(c)
            \/ BuildPreflight(c) \/ BuildRollout(c) \/ BuildHosts(c)
            \/ LaunchInsert(c) \/ ResumeInsert(c) \/ BuildInsert(c)
  BY <1>2, <1>11 DEF StopRead, StopCheck, StopWrite, StopForward, StopEnd, BuildPreflight,
     BuildRollout, BuildHosts, Reads, LaunchInsert, ResumeInsert, BuildInsert, InsertRun
<1> QED BY <1>4, <1>5, <1>6, <1>7, <1>8, <1>9, <1>10, <1>11 DEF CallStep

LEMMA CancelledStep ==
  ASSUME TypeInv, TaskInv, FinalInv, [Next]_vars,
         rollout.status = "cancelled", rollout'.status # "cancelled"
  PROVE  \E c \in Caller : call[c].before /\ call'[c] # call[c]
PROOF
<1>1. ASSUME NEW c \in Caller, Ask(c) \/ CallStep(c)
      PROVE  \E d \in Caller : call[d].before /\ call'[d] # call[d]
  <2>1. Decided(call[c]) /\ call'[c] # call[c]
    BY <1>1, StatusWriters
  <2> QED BY <2>1 DEF FinalInv
<1>2. UNCHANGED rollout => FALSE
  OBVIOUS
<1>3. ASSUME NEW r \in RunId, TaskStep(r) PROVE FALSE
  BY <1>2, <1>3, TaskSteps DEF TaskFrame
<1>4. CASE Environment
  BY <1>2, <1>4 DEF Environment, HostAdd, HostLabels, HostDrain, HostUndrain, HostRemove, Change,
     Readopt, WorkEnds, LoopCrash, HostsOnly, Close, Restart
<1> QED BY <1>1, <1>2, <1>3, <1>4 DEF Next, vars

-----------------------------------------------------------------------------
(* Types *)

LEMMA TypeInvKept ==
  ASSUME TypeInv, CallInv, TaskInv, [Next]_vars
  PROVE  TypeInv'
PROOF
<1>1. CASE UNCHANGED vars
  <2>1. UNCHANGED <<hosts, rollout, runs, task, machine, bounds, drainedAt, call>>
    BY <1>1 DEF vars, history
  <2> QED BY <2>1, ReadsType, CallsKept DEF TypeInv
<1>2. ASSUME NEW c \in Caller, Ask(c) \/ CallStep(c) PROVE TypeInv'
  BY <1>2, AskType, SimpleCallsType, StatusCallsType, InsertsType, ListsType, ResumeReadType,
     BuildRolloutType, ResumeHostsType, EnqueueType, StopsType DEF CallStep
<1>3. ASSUME NEW r \in RunId, TaskStep(r) PROVE TypeInv'
  BY <1>3, TasksMoveType, TaskHostsType, TaskPickType, TaskPostType, TaskWritesType DEF TaskStep
<1>4. CASE Environment
  <2>1. ASSUME NEW h \in Host, NEW yes \in BOOLEAN, NEW drained \in BOOLEAN,
               HostChange(h, yes, drained)
        PROVE  TypeInv'
    BY <2>1, ChangesType DEF HostChange
  <2>2. ASSUME NEW h, NEW r,
               \/ h \in Host /\ Readopt(h)
               \/ r \in RunId /\ (WorkEnds(r) \/ LoopCrash(r))
               \/ Close
        PROVE  TypeInv'
    BY <2>2, MachineType
  <2>3. ASSUME NEW reach \in SUBSET Host, Restart(reach) PROVE TypeInv'
    BY <2>3, RestartType
  <2> QED BY <1>4, <2>1, <2>2, <2>3 DEF Environment, HostChange
<1> QED BY <1>1, <1>2, <1>3, <1>4 DEF Next

-----------------------------------------------------------------------------
(* Drains *)

\* A host that is drained now was so before, or every run there is came before.
RegDrains ==
  \A h \in DOMAIN reg' : reg'[h].drained =>
    \/ h \in DOMAIN reg /\ reg[h].drained /\ drainedAt'[h] = drainedAt[h]
    \/ drainedAt'[h] = Len(runs)
DrainFits(r) ==
  /\ \A h \in DOMAIN task[r].rows \cap DOMAIN reg :
       reg[h].drained => r <= drainedAt[h] \/ task[r].rows[h].drained
  /\ task[r].at = "post" => ~task[r].rows[task[r].host].drained \/ runs[r].allow

LEMMA ReadDrains ==
  ASSUME TypeInv, ReadHosts \/ UNCHANGED hosts, UNCHANGED drainedAt
  PROVE  RegDrains
PROOF
<1>1. CASE reg' = reg
  BY <1>1 DEF RegDrains
<1>2. CASE reg' # reg
  <2>1. /\ DOMAIN reg' = {Legacy}
        /\ reg'[Legacy] = [id |-> ids + 1, drained |-> FALSE, labels |-> {}]
    BY <1>2, ReadFacts DEF hosts
  <2>2. reg'[Legacy].drained = FALSE
    BY <2>1
  <2> QED BY <2>1, <2>2 DEF RegDrains
<1> QED BY <1>1, <1>2

LEMMA ChangesDrain ==
  ASSUME TypeInv, NEW h \in Host, NEW yes, NEW drained, HostChange(h, yes, drained)
  PROVE  RegDrains
PROOF
<1>0. drainedAt \in [Host -> Nat] /\ DOMAIN reg \subseteq Host /\ reg \in [DOMAIN reg -> Row]
  BY DEF TypeInv, HostsOK, Rows
<1>1. CASE HostAdd(h, drained, yes)
  <2>1. DOMAIN reg' = DOMAIN reg \cup {h} /\ \A g \in DOMAIN reg \ {h} : reg'[g] = reg[g]
    BY <1>1 DEF HostAdd
  <2>2. drainedAt' = [drainedAt EXCEPT ![h] = Len(runs)]
    BY <1>1 DEF HostAdd
  <2> QED BY <1>0, <2>1, <2>2 DEF RegDrains
<1>2. CASE HostDrain(h)
  <2>1. h \in DOMAIN reg /\ reg' = [reg EXCEPT ![h].drained = TRUE]
    BY <1>2 DEF HostDrain, Named, DrainRow
  <2>2. DOMAIN reg' = DOMAIN reg /\ \A g \in DOMAIN reg \ {h} : reg'[g] = reg[g]
    BY <2>1
  <2>3. drainedAt' = [drainedAt EXCEPT ![h] = IF reg[h].drained THEN @ ELSE Len(runs)]
    BY <1>2 DEF HostDrain
  <2> QED BY <1>0, <2>1, <2>2, <2>3 DEF RegDrains
<1>3. CASE HostUndrain(h)
  <2>1. h \in DOMAIN reg /\ reg' = [reg EXCEPT ![h].drained = FALSE] /\ drainedAt' = drainedAt
    BY <1>3 DEF HostUndrain, Named, UndrainRow
  <2>2. DOMAIN reg' = DOMAIN reg /\ \A g \in DOMAIN reg \ {h} : reg'[g] = reg[g]
    BY <2>1
  <2>3. reg'[h].drained = FALSE
    BY <1>0, <2>1 DEF Row
  <2> QED BY <1>0, <2>1, <2>2, <2>3 DEF RegDrains
<1>4. CASE HostLabels(h, yes)
  <2>1. /\ h \in DOMAIN reg /\ drainedAt' = drainedAt
        /\ reg' = [reg EXCEPT ![h].labels = IF yes THEN Label ELSE {}]
    BY <1>4 DEF HostLabels
  <2>2. DOMAIN reg' = DOMAIN reg /\ \A g \in DOMAIN reg \ {h} : reg'[g] = reg[g]
    BY <2>1
  <2>3. reg'[h].drained = reg[h].drained
    BY <1>0, <2>1 DEF Row
  <2> QED BY <1>0, <2>1, <2>2, <2>3 DEF RegDrains
<1>5. CASE HostRemove(h)
  <2>1. /\ reg' = [g \in DOMAIN reg \ {h} |-> reg[g]] /\ drainedAt' = drainedAt
    BY <1>5 DEF HostRemove
  <2> QED BY <2>1 DEF RegDrains
<1> QED BY <1>1, <1>2, <1>3, <1>4, <1>5 DEF HostChange

LEMMA DrainRests ==
  ASSUME TypeInv, DrainInv, RegDrains, NEW r \in 1..Len(runs),
         task'[r].rows = task[r].rows \/ task'[r].rows = reg' \/ DOMAIN task'[r].rows = {},
         task'[r].at = "post" =>
           ~task'[r].rows[task'[r].host].drained \/ runs'[r].allow
  PROVE  DrainFits(r)'
PROOF
<1>1. DrainFits(r)
  BY DEF DrainInv, DrainFits
<1>2. ASSUME NEW h \in DOMAIN task'[r].rows \cap DOMAIN reg', reg'[h].drained
      PROVE  r <= drainedAt'[h] \/ task'[r].rows[h].drained
  <2>1. CASE drainedAt'[h] = Len(runs)
    BY <2>1, NumbersType
  <2>2. CASE h \in DOMAIN reg /\ reg[h].drained /\ drainedAt'[h] = drainedAt[h]
    BY <1>1, <1>2, <2>2 DEF DrainFits
  <2> QED BY <1>2, <2>1, <2>2 DEF RegDrains
<1> QED BY <1>2 DEF DrainFits

\* A run whose task does not move, and whose row keeps its flags.
LEMMA DrainStays ==
  ASSUME TypeInv, DrainInv, RegDrains, NEW r \in 1..Len(runs),
         task'[r] = task[r] \/ task'[r] = NoTask \/ task'[r].at # "post",
         task'[r].rows = task[r].rows \/ task'[r] = NoTask,
         runs'[r].allow = runs[r].allow
  PROVE  DrainFits(r)'
PROOF
<1>1. DOMAIN NoTask.rows = {} /\ NoTask.at = "none"
  BY NoTaskOf DEF NoTask
<1>2. task[r].at = "post" => ~task[r].rows[task[r].host].drained \/ runs[r].allow
  BY DEF DrainInv
<1>3. task'[r].at = "post" => task'[r] = task[r]
  BY <1>1
<1>4. task'[r].at = "post" => ~task'[r].rows[task'[r].host].drained \/ runs'[r].allow
  BY <1>2, <1>3
<1>5. task'[r].rows = task[r].rows \/ DOMAIN task'[r].rows = {}
  BY <1>1
<1> QED BY <1>4, <1>5, DrainRests

LEMMA DrainParts ==
  ASSUME \A r \in 1..Len(runs') : DrainFits(r)'
  PROVE  DrainInv'
PROOF BY DEF DrainInv, DrainFits

LEMMA InsertDrain ==
  ASSUME TypeInv, DrainInv, NEW c \in Caller, NEW mode \in {"launch", "relaunch", "build"},
         NEW next \in CallPlaces, InsertRun(c, mode, next)
  PROVE  DrainInv'
PROOF
<1>1. PICK n \in Nat : n = Len(runs) + 1
  BY NumbersType
<1>2. /\ Len(runs') = n /\ \A r \in 1..Len(runs) : runs'[r] = runs[r]
      /\ n \in RunId /\ task[n] = NoTask
  BY <1>1, InsertStep
<1>3. UNCHANGED <<hosts, task, drainedAt>>
  BY DEF InsertRun
<1>4. RegDrains
  BY <1>3, ReadDrains
<1>5. ASSUME NEW r \in 1..Len(runs) PROVE DrainFits(r)'
  BY <1>2, <1>3, <1>4, DrainStays
<1>6. DrainFits(n)'
  <2>1. DOMAIN task'[n].rows = {} /\ task'[n].at = "none"
    BY <1>2, <1>3, NoTaskOf DEF NoTask
  <2> QED BY <2>1 DEF DrainFits
<1>7. \A r \in 1..Len(runs') : r \in 1..Len(runs) \/ r = n
  BY <1>1, <1>2, NumbersType
<1> QED BY <1>5, <1>6, <1>7, DrainParts

LEMMA CallStepsDrain ==
  ASSUME TypeInv, CallInv, DrainInv, NEW c \in Caller, Ask(c) \/ CallStep(c)
  PROVE  DrainInv'
PROOF
<1>0. ASSUME ReadHosts \/ UNCHANGED hosts, UNCHANGED drainedAt, Len(runs') = Len(runs),
             \A r \in 1..Len(runs) :
               /\ task'[r] = task[r] \/ task'[r].at # "post"
               /\ task'[r].rows = task[r].rows
               /\ runs'[r].allow = runs[r].allow
      PROVE  DrainInv'
  <2>1. ASSUME NEW r \in 1..Len(runs) PROVE DrainFits(r)'
    BY <1>0, ReadDrains, DrainStays
  <2> QED BY <1>0, <2>1, DrainParts
<1>1. CASE \/ Ask(c) \/ LaunchRead(c) \/ LaunchHosts(c) \/ LaunchPin(c) \/ StartRead(c)
           \/ StartWrite(c) \/ ResumeWrite(c) \/ ResumeSweep(c) \/ HaltRead(c) \/ HaltWrite(c)
           \/ CancelRead(c) \/ CancelWrite(c)
           \/ StopCheck(c) \/ StopEnd(c) \/ BuildPreflight(c) \/ BuildHosts(c)
           \/ ResumeRead(c) \/ ResumeRuns(c) \/ ResumeHosts(c) \/ BuildRollout(c)
           \/ HaltChildren(c) \/ CancelChildren(c) \/ StopRead(c) \/ StopForward(c)
  <2>1. UNCHANGED <<runs, task, drainedAt>> /\ (ReadHosts \/ UNCHANGED hosts)
    BY <1>1 DEF Ask, LaunchRead, LaunchHosts, LaunchPin, StartRead, StartWrite, ResumeWrite,
                ResumeSweep, HaltRead, HaltWrite, CancelRead, CancelWrite, StopCheck, StopEnd,
                BuildPreflight, BuildHosts, ResumeRead, ResumeRuns, ResumeHosts, BuildRollout,
                HaltChildren, CancelChildren, StopRead, StopForward, Reads, history
  <2> QED BY <1>0, <2>1
<1>2. CASE LaunchInsert(c) \/ ResumeInsert(c) \/ BuildInsert(c)
  <2>1. PICK mode \in {"launch", "relaunch", "build"}, next \in CallPlaces :
          InsertRun(c, mode, next)
    BY <1>2 DEF LaunchInsert, ResumeInsert, BuildInsert, CallPlaces
  <2> QED BY <2>1, InsertDrain
<1>3. CASE Enqueue(c)
  <2>1. PICK q \in RunId : q = call[c].run
    BY <1>3, EnqueueStep
  <2>2. /\ task'[q].at = "status" /\ task'[q].rows = task[q].rows
        /\ \A r \in RunId \ {q} : task'[r] = task[r]
        /\ UNCHANGED <<hosts, runs, drainedAt>>
    BY <1>3, <2>1, EnqueueStep DEF history
  <2>3. \A r \in 1..Len(runs) : r \in RunId
    BY NumbersType DEF TypeInv, RunsOK, RunId
  <2>4. \A r \in 1..Len(runs) : /\ task'[r] = task[r] \/ task'[r].at # "post"
                                /\ task'[r].rows = task[r].rows
    BY <2>2, <2>3
  <2> QED BY <1>0, <2>2, <2>4
<1>4. CASE StopWrite(c)
  <2>1. PICK t \in call[c].todo :
           /\ t.run \in 1..Len(runs)
           /\ Len(runs') = Len(runs)
           /\ \A q \in 1..Len(runs) \ {t.run} : runs'[q] = runs[q]
           /\ runs'[t.run].allow = runs[t.run].allow
    BY <1>4, StopWriteStep
  <2>2. UNCHANGED <<hosts, task, drainedAt>>
    BY <1>4 DEF StopWrite
  <2>3. \A r \in 1..Len(runs) : runs'[r].allow = runs[r].allow
    BY <2>1
  <2> QED BY <1>0, <2>1, <2>2, <2>3
<1> QED BY <1>1, <1>2, <1>3, <1>4 DEF CallStep

LEMMA TaskStepDrain ==
  ASSUME TypeInv, TaskInv, DrainInv, NEW r \in RunId, TaskStep(r), RegDrains,
         runs'[r].allow = runs[r].allow, r \in 1..Len(runs)
  PROVE  DrainFits(r)'
PROOF
<1>1. ASSUME task'[r] = NoTask PROVE DrainFits(r)'
  BY <1>1, DrainStays
<1>2. ASSUME task'[r].at # "post", task'[r].rows = task[r].rows PROVE DrainFits(r)'
  BY <1>2, DrainStays
<1>3. CASE TaskStatus(r)
  BY <1>1, <1>2, <1>3, StatusStep DEF TaskTo
<1>4. CASE TaskHosts(r)
  <2>1. CASE TaskTo(r, "fail")
    BY <1>2, <2>1 DEF TaskTo
  <2>2. CASE task'[r].at = "pick" /\ task'[r].rows = reg'
    BY <2>2, DrainRests
  <2> QED BY <1>4, <2>1, <2>2, HostsStep
<1>5. CASE TaskPick(r)
  <2>1. ASSUME NEW h \in DOMAIN task[r].rows,
               task'[r].at = "post", task'[r].host = h, task'[r].rows = task[r].rows,
               ~task[r].rows[h].drained \/ runs[r].allow
        PROVE  DrainFits(r)'
    BY <2>1, DrainRests
  <2>2. CASE task'[r].at = "fail" /\ task'[r].rows = task[r].rows
    BY <1>2, <2>2
  <2> QED BY <1>1, <1>5, <2>1, <2>2, PickStep
<1>6. CASE TaskPost(r)
  BY <1>2, <1>6, PostStep DEF TaskTo
<1>7. CASE TaskRefused(r)
  BY <1>2, <1>7, RefusedStep DEF TaskTo
<1>8. CASE TaskConfirm(r)
  BY <1>2, <1>8, ConfirmStep DEF TaskTo
<1>9. CASE TaskWrite(r)
  BY <1>2, <1>9, WriteStep DEF TaskTo
<1>10. CASE TaskTwin(r) \/ TaskFail(r) \/ TaskWatch(r) \/ TaskRecall(r)
  BY <1>1, <1>10, TwinStep, FailStep, WatchStep, RecallStep
<1> QED BY <1>3, <1>4, <1>5, <1>6, <1>7, <1>8, <1>9, <1>10 DEF TaskStep

LEMMA TaskStepsDrain ==
  ASSUME TypeInv, TaskInv, DrainInv, NEW r \in RunId, TaskStep(r)
  PROVE  DrainInv'
PROOF
<1>1. TaskFrame(r) /\ (ReadHosts \/ UNCHANGED hosts)
  BY TaskSteps
<1>2. RegDrains
  BY <1>1, ReadDrains DEF TaskFrame
<1>3. ASSUME NEW q \in 1..Len(runs), q # r PROVE DrainFits(q)'
  <2>1. q \in RunId
    BY NumbersType DEF TypeInv, RunsOK, RunId
  <2>2. task'[q] = task[q] /\ runs'[q].allow = runs[q].allow
    BY <1>1, <1>3, <2>1 DEF TaskFrame
  <2> QED BY <1>2, <2>2, DrainStays
<1>4. DrainFits(r)'
  BY <1>1, <1>2, TaskStepDrain DEF TaskFrame
<1>5. \A q \in 1..Len(runs') : DrainFits(q)'
  BY <1>1, <1>3, <1>4 DEF TaskFrame
<1> QED BY <1>5, DrainParts

LEMMA EnvironmentDrain ==
  ASSUME TypeInv, DrainInv, Environment
  PROVE  DrainInv'
PROOF
<1>0. ASSUME RegDrains, UNCHANGED <<runs, task>> PROVE DrainInv'
  <2>1. ASSUME NEW r \in 1..Len(runs) PROVE DrainFits(r)'
    BY <1>0, DrainStays
  <2> QED BY <1>0, <2>1, DrainParts
<1>1. ASSUME UNCHANGED <<hosts, drainedAt, runs, task>> PROVE DrainInv'
  BY <1>0, <1>1, ReadDrains
<1>2. ASSUME NEW h \in Host, NEW yes \in BOOLEAN, NEW drained \in BOOLEAN,
             HostChange(h, yes, drained)
      PROVE  DrainInv'
  BY <1>0, <1>2, ChangesDrain, ChangesKeep
<1>3. CASE Close
  BY <1>1, <1>3 DEF Close, history
<1>4. ASSUME NEW r \in RunId, WorkEnds(r) \/ LoopCrash(r) PROVE DrainInv'
  BY <1>1, <1>4, WorkEndsStep
<1>5. ASSUME NEW h \in Host, Readopt(h) PROVE DrainInv'
  BY <1>1, <1>5, ReadoptStep
<1>6. ASSUME NEW reach \in SUBSET Host, Restart(reach) PROVE DrainInv'
  <2>1. RegDrains /\ Len(runs') = Len(runs)
    BY <1>6, RestartStep, ReadDrains
  <2>2. ASSUME NEW r \in 1..Len(runs) PROVE DrainFits(r)'
    <3>1. CASE task'[r] = NoTask
      BY <1>6, <2>1, <3>1, RestartStep, DrainStays
    <3>2. CASE task'[r] = [NoTask EXCEPT !.at = "watch", !.host = runs[r].url]
      <4>1. task'[r].at = "watch" /\ task'[r].rows = NoTask.rows
        BY <3>2 DEF NoTask
      <4>2. DOMAIN task'[r].rows = {}
        BY <4>1, NoTaskOf
      <4> QED BY <4>1, <4>2 DEF DrainFits
    <3> QED BY <1>6, <3>1, <3>2, RestartStep
  <2> QED BY <2>1, <2>2, DrainParts
<1>7. \/ \E h \in Host, yes \in BOOLEAN, drained \in BOOLEAN : HostChange(h, yes, drained)
      \/ \E h \in Host : Readopt(h)
      \/ \E r \in RunId : WorkEnds(r) \/ LoopCrash(r)
      \/ Close
      \/ \E reach \in SUBSET Host : Restart(reach)
  BY DEF Environment, HostChange
<1> QED BY <1>2, <1>3, <1>4, <1>5, <1>6, <1>7

LEMMA DrainInvKept ==
  ASSUME TypeInv, CallInv, TaskInv, DrainInv, [Next]_vars
  PROVE  DrainInv'
PROOF
<1>1. CASE UNCHANGED vars
  <2>1. UNCHANGED <<hosts, runs, task, drainedAt>>
    BY <1>1 DEF vars, history
  <2>2. RegDrains
    BY <2>1, ReadDrains
  <2>3. ASSUME NEW r \in 1..Len(runs) PROVE DrainFits(r)'
    BY <2>1, <2>2, DrainStays
  <2> QED BY <2>1, <2>3, DrainParts
<1> QED BY <1>1, CallStepsDrain, TaskStepsDrain, EnvironmentDrain DEF Next

-----------------------------------------------------------------------------
\* What is sent to a host was picked from rows that were read after the run
\* was made.
LEMMA DrainStep ==
  ASSUME TypeInv, CallInv, TaskInv, DrainInv, [Next]_vars, NEW r \in 1..Len(runs),
         task[r].at = "post", live'[r] # live[r], live'[r] \in DOMAIN reg
  PROVE  ~reg[live'[r]].drained \/ r <= drainedAt[live'[r]] \/ runs[r].allow
PROOF
<1>0. r \in RunId /\ Nil \notin DOMAIN reg /\ live \in [RunId -> Host \cup {Nil}]
  BY NumbersType, LoopAssumption DEF TypeInv, RunsOK, RunId, HostsOK, Rows
<1>1. TaskFits(r) /\ Unsent(r)
  BY DEF TaskInv, TaskFits, Unrouted
<1>2. live'[r] \in {live[r], Nil} => FALSE
  BY <1>0
<1>3. ASSUME NEW c \in Caller, Ask(c) \/ CallStep(c) PROVE FALSE
  <2>1. CASE StopForward(c)
    BY <1>0, <1>2, <2>1, StopForwardStep
  <2>2. CASE ~StopForward(c)
    <3>1. UNCHANGED live
      BY <1>3, <2>2 DEF Ask, CallStep, LaunchRead, LaunchHosts, LaunchPin, StartRead, StartWrite,
         ResumeWrite, ResumeSweep, HaltRead, HaltWrite, CancelRead, CancelWrite, StopCheck, StopEnd,
         BuildPreflight, BuildHosts, ResumeRead, ResumeRuns, ResumeHosts, BuildRollout,
         HaltChildren, CancelChildren, StopRead, StopWrite, Enqueue, Reads, machine,
         LaunchInsert, ResumeInsert, BuildInsert, InsertRun
    <3> QED BY <1>2, <3>1
  <2> QED BY <2>1, <2>2
<1>4. ASSUME NEW q \in RunId, TaskStep(q), q # r PROVE FALSE
  BY <1>0, <1>2, <1>4, TaskSteps DEF TaskFrame
<1>5. CASE TaskStep(r)
  <2>1. TaskPost(r) \/ TaskRefused(r)
    BY <1>5 DEF TaskStep, TaskStatus, TaskHosts, TaskPick, TaskTwin, TaskFail, TaskConfirm,
                TaskRecall, TaskWrite, TaskWatch
  <2>2. TaskPost(r)
    BY <1>0, <1>2, <2>1, RefusedStep DEF machine
  <2>3. live'[r] = task[r].host /\ task[r].host \in DOMAIN task[r].rows
    BY <1>0, <1>1, <2>2, PostStep DEF TaskFits
  <2> QED BY <2>3 DEF DrainInv
<1>6. CASE Environment
  <2>1. ASSUME NEW h \in Host, Readopt(h) PROVE FALSE
    <3>1. held[h] # r
      BY <1>1, <2>1 DEF Unsent
    <3> QED BY <1>0, <1>2, <2>1, <3>1, ReadoptStep
  <2>2. ASSUME NEW q \in RunId, WorkEnds(q) \/ LoopCrash(q) PROVE FALSE
    BY <1>0, <1>2, <2>2, WorkEndsStep
  <2>3. UNCHANGED live => FALSE
    BY <1>2
  <2> QED BY <1>6, <2>1, <2>2, <2>3 DEF Environment, HostAdd, HostLabels, HostDrain, HostUndrain,
       HostRemove, Change, Close, Restart, machine
<1>7. CASE UNCHANGED vars
  BY <1>2, <1>7 DEF vars, machine
<1> QED BY <1>3, <1>4, <1>5, <1>6, <1>7 DEF Next

-----------------------------------------------------------------------------
(* One launch *)

LEMMA AtMostOne ==
  ASSUME NEW S, IsFiniteSet(S)
  PROVE  Cardinality(S) <= 1 <=> \A q, r \in S : q = r
PROOF
<1>1. CASE S = {}
  BY <1>1, FS_EmptySet
<1>2. CASE S # {}
  <2>1. PICK r : r \in S
    BY <1>2
  <2>2. ASSUME Cardinality(S) <= 1 PROVE \A p, q \in S : p = q
    <3>1. Cardinality({r}) = 1 /\ {r} \subseteq S
      BY <2>1, FS_Singleton
    <3>2. Cardinality(S) \in Nat /\ Cardinality({r}) <= Cardinality(S)
      BY <3>1, FS_Subset, FS_CardinalityType
    <3>3. Cardinality(S) = Cardinality({r})
      BY <2>2, <3>1, <3>2
    <3>4. S = {r}
      BY <3>1, <3>3, FS_Subset
    <3> QED BY <3>4
  <2>3. ASSUME \A p, q \in S : p = q PROVE Cardinality(S) <= 1
    <3>1. S = {r}
      BY <2>1, <2>3
    <3> QED BY <3>1, FS_Singleton
  <2> QED BY <2>2, <2>3
<1> QED BY <1>1, <1>2

LEMMA LaunchesOne ==
  ASSUME TypeInv
  PROVE  IsFiniteSet(Launches) /\ (Cardinality(Launches) <= 1 <=> \A q, r \in Launches : q = r)
PROOF
<1>1. Launches \subseteq 1..Len(runs) /\ IsFiniteSet(1..Len(runs))
  BY NumbersType, FS_Interval DEF Launches
<1>2. IsFiniteSet(Launches)
  BY <1>1, FS_Subset
<1> QED BY <1>2, AtMostOne

LEMMA LoopsThen ==
  ASSUME TypeInv, SameRuns, Len(runs') = Len(runs)
  PROVE  Loops' = Loops /\ Launches' = Launches
PROOF BY DEF SameRuns, Loops, Launches, IsLoop

LEMMA LaunchIsLoop == ASSUME NEW r \in Launches PROVE r \in Loops /\ runs[r].mode = "launch"
PROOF BY DEF Launches, Loops, IsLoop

\* A run that was inserted.
LEMMA LoopsInsert ==
  ASSUME TypeInv, NEW c \in Caller, NEW mode \in {"launch", "relaunch", "build"},
         NEW next \in CallPlaces, InsertRun(c, mode, next),
         NEW n, n = Len(runs) + 1
  PROVE  /\ Loops' = IF mode = "build" THEN Loops ELSE Loops \cup {n}
         /\ Launches' = IF mode = "launch" THEN Launches \cup {n} ELSE Launches
         /\ n \notin Loops /\ n \notin Launches
PROOF
<1>1. /\ Len(runs') = n /\ \A r \in 1..Len(runs) : runs'[r] = runs[r]
      /\ runs'[n].mode = mode
  <2>1. /\ Len(runs') = n /\ \A r \in 1..Len(runs) : runs'[r] = runs[r]
        /\ runs'[n] = [mode |-> mode, pin |-> call[c].id, allow |-> call[c].allow,
                       status |-> "pending", url |-> Nil, remote |-> FALSE]
    BY InsertStep
  <2> QED BY <2>1
<1>2. 1..Len(runs') = 1..Len(runs) \cup {n} /\ n \notin 1..Len(runs)
  BY <1>1, NumbersType
<1> QED BY <1>1, <1>2 DEF Loops, Launches, IsLoop

-----------------------------------------------------------------------------
(* Nothing is asked for while an unpinned loop is on its way *)

\* No more is asked for than before.
AsksRest == /\ rollout'.pin = rollout.pin
            /\ \A c \in Caller : Asks(call'[c]) => Asks(call[c])
InsertPinned == \A c \in Caller : At(c, "resume", "insert") => call[c].id # 0

LEMMA FreeRests ==
  ASSUME TypeInv, FreeInv, SameRuns, Len(runs') = Len(runs), AsksRest, InsertPinned',
         \A r \in Launches : runs'[r].url = Nil => runs[r].url = Nil
  PROVE  FreeInv'
PROOF
<1>1. Loops' = Loops /\ Launches' = Launches
  BY LoopsThen
<1>2. \A r \in Loops : runs'[r].mode = runs[r].mode /\ runs'[r].pin = runs[r].pin
  BY DEF SameRuns, Loops
<1>3. \A r \in Launches : runs'[r].pin = runs[r].pin
  BY <1>2, LaunchIsLoop
<1>4. Unasked => Unasked'
  BY DEF AsksRest, Unasked
<1> QED BY <1>1, <1>2, <1>3, <1>4 DEF FreeInv, InsertPinned

LEMMA AsksMove ==
  ASSUME TypeInv, NEW c \in Caller, NEW x, call' = [call EXCEPT ![c] = x],
         rollout'.pin = rollout.pin, Asks(x) => Asks(call[c])
  PROVE  AsksRest
PROOF
<1>1. call \in [Caller -> CallType]
  BY DEF TypeInv, CallsOK
<1> QED BY <1>1 DEF AsksRest

LEMMA InsertsMove ==
  ASSUME TypeInv, FreeInv, NEW c \in Caller, NEW x, call' = [call EXCEPT ![c] = x],
         x.op = "resume" /\ x.at = "insert" => x.id # 0
  PROVE  InsertPinned'
PROOF
<1>1. call \in [Caller -> CallType]
  BY DEF TypeInv, CallsOK
<1>2. InsertPinned
  BY DEF FreeInv, InsertPinned
<1> QED BY <1>1, <1>2 DEF InsertPinned, At

\* A request moves on, and asks for no more than it did.
LEMMA FreeMoves ==
  ASSUME TypeInv, FreeInv, SameRuns, Len(runs') = Len(runs),
         NEW c \in Caller, NEW x, call' = [call EXCEPT ![c] = x],
         rollout'.pin = rollout.pin, Asks(x) => Asks(call[c]),
         x.op = "resume" /\ x.at = "insert" => x.id # 0,
         \A r \in Launches : runs'[r].url = Nil => runs[r].url = Nil
  PROVE  FreeInv'
PROOF BY AsksMove, InsertsMove, FreeRests

LEMMA FreeQuiet ==
  ASSUME TypeInv, FreeInv, UNCHANGED <<call, rollout>>, SameRuns, Len(runs') = Len(runs),
         \A r \in Launches : runs'[r].url = Nil => runs[r].url = Nil
  PROVE  FreeInv'
PROOF
<1>1. AsksRest /\ InsertPinned'
  BY DEF FreeInv, AsksRest, InsertPinned, At
<1> QED BY <1>1, FreeRests

LEMMA SameRunsKept == ASSUME TypeInv, UNCHANGED runs PROVE SameRuns /\ Len(runs') = Len(runs)
PROOF BY NumbersType DEF SameRuns

LEMMA PinKept ==
  ASSUME TypeInv, NEW status, UNCHANGED rollout \/ SetRollout(status)
  PROVE  rollout'.pin = rollout.pin
PROOF BY DEF SetRollout, TypeInv, RunsOK

LEMMA FreeEnd ==
  ASSUME TypeInv, FreeInv, UNCHANGED runs, rollout'.pin = rollout.pin, NEW c \in Caller, End(c)
  PROVE  FreeInv'
PROOF
<1>1. ~Asks(NoCall) /\ NoCall.op = "none"
  BY DEF Asks, NoCall
<1>2. call' = [call EXCEPT ![c] = NoCall]
  BY DEF End
<1> QED BY <1>1, <1>2, SameRunsKept, FreeMoves

LEMMA FreeGo ==
  ASSUME TypeInv, FreeInv, UNCHANGED runs, rollout'.pin = rollout.pin, NEW c \in Caller,
         NEW at \in CallPlaces, Go(c, at),
         \/ call[c].op # "resume"
         \/ call[c].at = "resume" /\ at = "sweep"
         \/ call[c].at = "sweep" /\ at = "insert" /\ call[c].id # 0
  PROVE  FreeInv'
PROOF
<1>1. PICK x \in CallType : /\ call' = [call EXCEPT ![c] = x] /\ x.op = call[c].op /\ x.at = at
                            /\ x.id = call[c].id
  BY GoStep DEF Keeps
<1>2. Asks(x) => Asks(call[c])
  BY <1>1 DEF Asks
<1>3. x.op = "resume" /\ x.at = "insert" => x.id # 0
  BY <1>1
<1> QED BY <1>1, <1>2, <1>3, SameRunsKept, FreeMoves

LEMMA MovesFree ==
  ASSUME TypeInv, CallInv, FreeInv, NEW c \in Caller,
         \/ LaunchRead(c) \/ LaunchHosts(c) \/ StartRead(c) \/ StartWrite(c)
         \/ ResumeWrite(c) \/ ResumeSweep(c) \/ HaltRead(c) \/ HaltWrite(c) \/ CancelRead(c)
         \/ StopCheck(c) \/ BuildPreflight(c) \/ BuildHosts(c)
  PROVE  FreeInv'
PROOF
<1>1. UNCHANGED runs /\ (UNCHANGED rollout \/ \E status : SetRollout(status))
  BY DEF LaunchRead, LaunchHosts, StartRead, StartWrite, ResumeWrite, ResumeSweep,
         HaltRead, HaltWrite, CancelRead, StopCheck, BuildPreflight, BuildHosts, Reads
<1>2. rollout'.pin = rollout.pin
  BY <1>1, PinKept
<1>3. CASE ResumeWrite(c)
  <2>1. call[c].at = "resume" /\ Go(c, "sweep") /\ "sweep" \in CallPlaces
    BY <1>3 DEF ResumeWrite, At, CallPlaces
  <2> QED BY <1>1, <1>2, <2>1, FreeGo
<1>4. CASE ResumeSweep(c)
  <2>1. call[c].at = "sweep" /\ "insert" \in CallPlaces
    BY <1>4 DEF ResumeSweep, At, CallPlaces
  <2>2. End(c) \/ Then(c, call[c].id # 0, "insert")
    BY <1>4 DEF ResumeSweep
  <2>3. End(c) \/ (call[c].id # 0 /\ Go(c, "insert"))
    BY <2>2 DEF Then
  <2> QED BY <1>1, <1>2, <2>1, <2>3, FreeGo, FreeEnd
<1>5. CASE ~ResumeWrite(c) /\ ~ResumeSweep(c)
  <2>1. call[c].op # "resume"
    <3>1. CASE StartWrite(c)
      <4>1. call[c].at = "started" /\ Position(call[c])
        BY <3>1 DEF StartWrite, CallInv, Fits
      <4> QED BY <4>1 DEF Position
    <3>2. CASE ~StartWrite(c)
      BY <1>5, <3>2 DEF LaunchRead, LaunchHosts, StartRead,
           HaltRead, HaltWrite, CancelRead, StopCheck, BuildPreflight, BuildHosts, At
    <3> QED BY <3>1, <3>2
  <2>2. End(c) \/ \E at \in CallPlaces \ {"forward"} : Go(c, at)
    BY MovesTo
  <2> QED BY <1>1, <1>2, <2>1, <2>2, FreeGo, FreeEnd
<1> QED BY <1>3, <1>4, <1>5

\* The pin that is written is that of the launch's own run.
LEMMA PinFree ==
  ASSUME TypeInv, CallInv, FreeInv, NEW c \in Caller, LaunchPin(c)
  PROVE  FreeInv'
PROOF
<1>1. /\ call[c].op = "launch" /\ call[c].at = "pin" /\ Go(c, "start") /\ UNCHANGED runs
      /\ rollout' = [rollout EXCEPT !.pin = call[c].id]
  BY DEF LaunchPin, At
<1>2. rollout'.pin = call[c].id
  BY <1>1 DEF TypeInv, RunsOK
<1>3. PICK q : q = call[c].run
  OBVIOUS
<1>4. q \in Launches /\ runs[q].pin = call[c].id
  BY <1>1, <1>3, InsertedRun DEF Inserted, Launches
<1>5. CASE call[c].id = 0
  <2>1. PICK x \in CallType : /\ call' = [call EXCEPT ![c] = x] /\ x.op = call[c].op
                              /\ x.at = "start"
    BY <1>1, GoStep DEF Keeps, CallPlaces
  <2>2. /\ \A d \in Caller : Asks(call'[d]) => Asks(call[d])
        /\ InsertPinned'
    <3>1. ~Asks(x) /\ ~(x.op = "resume" /\ x.at = "insert")
      BY <2>1 DEF Asks
    <3>2. call \in [Caller -> CallType]
      BY DEF TypeInv, CallsOK
    <3>3. \A d \in Caller : Asks(call'[d]) => Asks(call[d])
      BY <2>1, <3>1, <3>2
    <3> QED BY <2>1, <3>1, <3>3, InsertsMove
  <2>3. Loops' = Loops /\ Launches' = Launches
    BY <1>1, LoopsThen, SameRunsKept
  <2>4. Unasked => Unasked'
    BY <1>2, <1>5, <2>2 DEF Unasked
  <2> QED BY <1>1, <2>2, <2>3, <2>4 DEF FreeInv, InsertPinned
<1>6. CASE call[c].id # 0
  <2>1. PICK x \in CallType : /\ call' = [call EXCEPT ![c] = x] /\ x.op = call[c].op
                              /\ x.at = "start"
    BY <1>1, GoStep DEF Keeps, CallPlaces
  <2>2. InsertPinned'
    BY <1>1, <2>1, InsertsMove
  <2>3. Loops' = Loops /\ Launches' = Launches
    BY <1>1, LoopsThen, SameRunsKept
  <2>4. Cardinality(Launches) <= 1 => \A r \in Launches : runs[r].pin # 0
    BY <1>4, <1>6, LaunchesOne
  <2> QED BY <1>1, <1>4, <2>2, <2>3, <2>4 DEF FreeInv, InsertPinned
<1> QED BY <1>5, <1>6

LEMMA CancelWriteFree ==
  ASSUME TypeInv, FreeInv, NEW c \in Caller, CancelWrite(c)
  PROVE  FreeInv'
PROOF
<1>1. /\ UNCHANGED runs /\ call[c].op = "cancel"
      /\ call' = [d \in Caller |->
                IF d = c THEN [call[c] EXCEPT !.at = "children"]
                ELSE [call[d] EXCEPT !.before = Busy(d)]]
  BY DEF CancelWrite, At
<1>2. rollout'.pin = rollout.pin
  BY PinKept DEF CancelWrite
<1>3. ASSUME NEW d \in Caller
      PROVE  /\ call'[d].op = call[d].op /\ call'[d].id = call[d].id
             /\ call[d].op = "resume" => call'[d].at = call[d].at
  <2>1. call[d] \in CallType
    BY CallFacts
  <2>2. CASE d = c
    BY <1>1, <2>1, <2>2 DEF CallType
  <2>3. CASE d # c
    <3>1. call'[d] = [call[d] EXCEPT !.before = Busy(d)]
      BY <1>1, <2>3
    <3> QED BY <2>1, <3>1 DEF CallType
  <2> QED BY <2>2, <2>3
<1>4. AsksRest
  BY <1>2, <1>3 DEF AsksRest, Asks
<1>5. InsertPinned'
  <2>1. InsertPinned
    BY DEF FreeInv, InsertPinned
  <2> QED BY <1>3, <2>1 DEF InsertPinned, At
<1> QED BY <1>1, <1>4, <1>5, SameRunsKept, FreeRests

\* The latest loop's host is asked for only when there is one.
LEMMA ResumesFree ==
  ASSUME TypeInv, CallInv, FreeInv, NEW c \in Caller,
         ResumeRead(c) \/ ResumeRuns(c) \/ ResumeHosts(c)
  PROVE  FreeInv'
PROOF
<1>1. UNCHANGED <<runs, rollout>> /\ call[c].op = "resume"
  BY DEF ResumeRead, ResumeRuns, ResumeHosts, Reads, At
<1>2. SameRuns /\ Len(runs') = Len(runs) /\ Loops' = Loops /\ Launches' = Launches
  BY <1>1, SameRunsKept, LoopsThen
<1>3. ASSUME NEW x \in CallType, call' = [call EXCEPT ![c] = x], x.at # "insert",
             Asks(x) => \/ Asks(call[c]) \/ rollout.pin # 0
                        \/ \E r \in Loops : runs[r].url # Nil
      PROVE  FreeInv'
  <2>1. InsertPinned'
    BY <1>3, InsertsMove
  <2>2. call \in [Caller -> CallType]
    BY DEF TypeInv, CallsOK
  <2>3. Unasked /\ (\A r \in Loops : runs[r].url = Nil) => Unasked'
    BY <1>1, <1>3, <2>2 DEF Unasked
  <2>4. \A r \in Launches : runs[r].pin = 0 /\ runs[r].url = Nil /\ Loops = {r} =>
          \A q \in Loops : runs[q].url = Nil
    OBVIOUS
  <2>5. Loops = {} => \A q \in Loops : runs[q].url = Nil
    OBVIOUS
  <2> QED BY <1>1, <1>2, <2>1, <2>3, <2>4, <2>5 DEF FreeInv, InsertPinned
<1>4. CASE End(c)
  BY <1>1, <1>4, FreeEnd
<1>5. CASE ResumeRead(c)
  <2>0. call[c].id = 0
    BY <1>5 DEF ResumeRead, At, CallInv, Fits
  <2>1. CASE End(c)
    BY <1>4, <2>1
  <2>2. ASSUME NEW x \in CallType, call' = [call EXCEPT ![c] = x],
               \/ x.at = "runs" /\ x.id = rollout.pin
               \/ x.at = "resume" /\ x.id = call[c].id
        PROVE  FreeInv'
    BY <1>3, <2>0, <2>2 DEF Asks
  <2> QED BY <1>5, <2>1, <2>2, ResumeReadStep
<1>6. CASE ResumeRuns(c)
  <2>0. call[c].at = "runs"
    BY <1>6 DEF ResumeRuns, At
  <2>1. CASE End(c)
    BY <1>4, <2>1
  <2>2. ASSUME NEW x \in CallType, call' = [call EXCEPT ![c] = x],
               \/ x.at = "resume" /\ x.id = 0
               \/ x.at = "hosts" /\ x.id = call[c].id
        PROVE  FreeInv'
    <3>1. Asks(x) => Asks(call[c])
      BY <1>1, <2>0, <2>2 DEF Asks
    <3> QED BY <1>3, <2>2, <3>1
  <2> QED BY <1>6, <2>1, <2>2, ResumeRunsStep
<1>7. CASE ResumeHosts(c)
  <2>0. call[c].at = "hosts" /\ call[c].run \in Loops
    BY <1>1, <1>7 DEF ResumeHosts, At, CallInv, Fits
  <2>1. CASE End(c)
    BY <1>4, <2>1
  <2>2. ASSUME NEW x \in CallType, NEW h \in Owner(reg', call[c].id, call[c].run),
               call' = [call EXCEPT ![c] = x], x.at = "resume"
        PROVE  FreeInv'
    <3>1. CASE call[c].id # 0
      <4>1. Asks(call[c])
        BY <1>1, <2>0, <3>1 DEF Asks
      <4> QED BY <1>3, <2>2, <4>1
    <3>2. CASE call[c].id = 0
      <4>1. h = runs[call[c].run].url /\ h \in DOMAIN reg'
        BY <2>2, <3>2 DEF Owner
      <4>2. reg' \in Rows
        BY <1>7, ReadFacts DEF ResumeHosts
      <4>3. h # Nil
        BY <4>1, <4>2, LoopAssumption DEF Rows
      <4>4. \E r \in Loops : runs[r].url # Nil
        BY <2>0, <4>1, <4>3
      <4> QED BY <1>3, <2>2, <4>4
    <3> QED BY <3>1, <3>2
  <2> QED BY <1>7, <2>1, <2>2, ResumeHostsStep
<1> QED BY <1>5, <1>6, <1>7

LEMMA OthersFree ==
  ASSUME TypeInv, CallInv, FreeInv, NEW c \in Caller,
         \/ Ask(c) \/ BuildRollout(c) \/ HaltChildren(c) \/ CancelChildren(c) \/ StopRead(c)
         \/ StopWrite(c) \/ StopForward(c) \/ StopEnd(c) \/ Enqueue(c)
  PROVE  FreeInv'
PROOF
<1>1. UNCHANGED rollout
  BY DEF Ask, BuildRollout, HaltChildren, CancelChildren, StopRead, StopWrite, StopForward,
         StopEnd, Enqueue, Reads
<1>2. ASSUME NEW x, call' = [call EXCEPT ![c] = x], SameRuns, Len(runs') = Len(runs),
             x.op # "resume" \/ x.at \in {"read", "stop", "forward", "children"},
             \A r \in 1..Len(runs) : runs'[r].url = runs[r].url
      PROVE  FreeInv'
  <2>1. ~Asks(x) /\ ~(x.op = "resume" /\ x.at = "insert")
    BY <1>2 DEF Asks
  <2>2. \A r \in Launches : runs'[r].url = runs[r].url
    BY <1>2 DEF Launches
  <2> QED BY <1>1, <1>2, <2>1, <2>2, FreeMoves
<1>3. ASSUME UNCHANGED runs
      PROVE  /\ SameRuns /\ Len(runs') = Len(runs)
             /\ \A r \in 1..Len(runs) : runs'[r].url = runs[r].url
  BY <1>3, SameRunsKept
<1>4. CASE End(c) /\ UNCHANGED runs
  BY <1>1, <1>4, FreeEnd
<1>5. CASE Ask(c)
  <2>1. PICK op, id, allow, run : call' = [call EXCEPT ![c] = [NoCall EXCEPT
            !.op = op, !.at = "read", !.id = id, !.allow = allow, !.run = run]]
    BY <1>5 DEF Ask
  <2>2. PICK x : x = [NoCall EXCEPT
            !.op = op, !.at = "read", !.id = id, !.allow = allow, !.run = run]
    OBVIOUS
  <2>3. x.at = "read"
    BY <2>2 DEF NoCall
  <2>4. UNCHANGED runs
    BY <1>5 DEF Ask
  <2> QED BY <1>2, <1>3, <2>1, <2>2, <2>3, <2>4
<1>6. CASE BuildRollout(c)
  <2>1. call[c].op = "build" /\ UNCHANGED runs
    BY <1>6 DEF BuildRollout, At, Reads
  <2>2. End(c) \/ \E x \in CallType : call' = [call EXCEPT ![c] = x] /\ x.op = call[c].op
    BY <1>6, BuildRolloutStep DEF Keeps
  <2> QED BY <1>2, <1>3, <1>4, <2>1, <2>2
<1>7. CASE HaltChildren(c) \/ CancelChildren(c) \/ StopRead(c)
  <2>1. UNCHANGED runs
    BY <1>7 DEF HaltChildren, CancelChildren, StopRead, Reads
  <2>2. \/ End(c)
        \/ \E x \in CallType : call' = [call EXCEPT ![c] = x] /\ x.at \in {"stop", "children"}
    BY <1>7, ListsStep
  <2> QED BY <1>2, <1>3, <1>4, <2>1, <2>2
<1>8. CASE StopWrite(c)
  <2>1. \E t \in call[c].todo, x \in CallType :
           /\ Len(runs') = Len(runs) /\ SameRuns
           /\ \A q \in 1..Len(runs) \ {t.run} : runs'[q] = runs[q]
           /\ runs'[t.run].url = runs[t.run].url
           /\ call' = [call EXCEPT ![c] = x] /\ x.at \in {"stop", "forward"}
    BY <1>8, StopWriteStep
  <2> QED BY <1>2, <2>1
<1>9. CASE StopForward(c)
  <2>1. UNCHANGED runs
    BY <1>9 DEF StopForward
  <2>2. \E x \in CallType : call' = [call EXCEPT ![c] = x] /\ x.at = "stop"
    BY <1>9, StopForwardStep
  <2> QED BY <1>2, <1>3, <2>1, <2>2
<1>10. CASE StopEnd(c) \/ Enqueue(c)
  BY <1>4, <1>10 DEF StopEnd, Enqueue, Reads
<1> QED BY <1>5, <1>6, <1>7, <1>8, <1>9, <1>10

LEMMA InsertsFree ==
  ASSUME TypeInv, CallInv, FreeInv, NEW c \in Caller,
         LaunchInsert(c) \/ ResumeInsert(c) \/ BuildInsert(c)
  PROVE  FreeInv'
PROOF
<1>1. PICK mode \in {"launch", "relaunch", "build"}, next \in CallPlaces :
        /\ InsertRun(c, mode, next)
        /\ next # "insert" /\ (mode = "launch" <=> call[c].op = "launch")
        /\ mode = "relaunch" => call[c].op = "resume" /\ call[c].at = "insert"
        /\ mode # "relaunch" => call[c].op # "resume"
  BY DEF LaunchInsert, ResumeInsert, BuildInsert, At, CallPlaces
<1>2. PICK n \in Nat : n = Len(runs) + 1
  BY NumbersType
<1>3. /\ Len(runs') = n /\ SameRuns /\ \A r \in 1..Len(runs) : runs'[r] = runs[r]
      /\ runs'[n].mode = mode /\ runs'[n].pin = call[c].id
  <2>1. /\ Len(runs') = n /\ SameRuns /\ \A r \in 1..Len(runs) : runs'[r] = runs[r]
        /\ runs'[n] = [mode |-> mode, pin |-> call[c].id, allow |-> call[c].allow,
                      status |-> "pending", url |-> Nil, remote |-> FALSE]
    BY <1>1, <1>2, InsertStep
  <2> QED BY <2>1
<1>4. PICK x \in CallType : /\ call' = [call EXCEPT ![c] = x] /\ x.op = call[c].op
                            /\ x.id = call[c].id /\ x.at = next
  BY <1>1, InsertCall DEF Keeps
<1>5. InsertPinned' /\ UNCHANGED rollout
  BY <1>1, <1>4, InsertsMove DEF InsertRun
<1>6. /\ Loops' = IF mode = "build" THEN Loops ELSE Loops \cup {n}
      /\ Launches' = IF mode = "launch" THEN Launches \cup {n} ELSE Launches
      /\ n \notin Loops /\ n \notin Launches
  BY <1>1, <1>2, LoopsInsert
<1>7. \A r \in Loops : runs'[r] = runs[r]
  BY <1>3 DEF Loops
<1>8. \A r \in Launches : r \in Loops /\ runs'[r] = runs[r]
  BY <1>7, LaunchIsLoop
<1>9. Cardinality(Launches') <= 1 => \A q, r \in Launches' : q = r
  <2>1. IsFiniteSet(Launches')
    BY <1>6, LaunchesOne, FS_AddElement
  <2> QED BY <2>1, AtMostOne
<1>10. CASE mode = "launch"
  <2>1. ~Asks(x)
    BY <1>1, <1>4, <1>10 DEF Asks
  <2>2. Unasked => Unasked'
    BY <1>4, <1>5, <2>1, AsksMove DEF AsksRest, Unasked
  <2>3. Cardinality(Launches') <= 1 => Launches = {}
    BY <1>6, <1>9, <1>10
  <2>4. Launches = {} => Loops = {} /\ Unasked
    BY FS_EmptySet DEF FreeInv
  <2>5. \A r \in Loops' : runs'[r].mode = "relaunch" => runs'[r].pin # 0
    BY <1>3, <1>6, <1>7, <1>10 DEF FreeInv
  <2> QED BY <1>5, <1>6, <1>10, <2>2, <2>3, <2>4, <2>5 DEF FreeInv, InsertPinned
<1>11. CASE mode = "relaunch"
  <2>1. call[c].id # 0 /\ Asks(call[c])
    BY <1>1, <1>11 DEF FreeInv, At, Asks
  <2>2. ~Unasked
    BY <2>1 DEF Unasked
  <2>3. \A r \in Loops' : runs'[r].mode = "relaunch" => runs'[r].pin # 0
    BY <1>3, <1>6, <1>7, <1>11, <2>1 DEF FreeInv
  <2> QED BY <1>5, <1>6, <1>8, <1>11, <2>2, <2>3 DEF FreeInv, InsertPinned
<1>12. CASE mode = "build"
  <2>1. ~Asks(x)
    BY <1>1, <1>4, <1>12 DEF Asks
  <2>2. Unasked => Unasked'
    BY <1>4, <1>5, <2>1, AsksMove DEF AsksRest, Unasked
  <2> QED BY <1>5, <1>6, <1>7, <1>8, <1>12, <2>2 DEF FreeInv, InsertPinned
<1> QED BY <1>10, <1>11, <1>12

\* A task that writes a host writes the one it sent the run to.
LEMMA UrlWritten ==
  ASSUME TypeInv, TaskInv, NEW r \in RunId, TaskStep(r)
  PROVE  \/ runs'[r].url = runs[r].url
         \/ /\ runs'[r].url = task[r].host /\ task[r].host \in Host
            /\ task[r].at \in {"twin", "write", "recall"}
PROOF
<1>1. TaskFrame(r)
  BY TaskSteps
<1>2. TaskFits(r)
  BY <1>1 DEF TaskFrame, TaskInv
<1>3. task[r].at \in {"twin", "write", "recall"} => task[r].host \in Host
  BY <1>2 DEF TaskFits
<1>4. CASE TaskTwin(r) \/ TaskWrite(r) \/ TaskRecall(r)
  BY <1>3, <1>4, TwinStep, WriteStep, RecallStep
<1>5. CASE TaskFail(r) \/ TaskWatch(r)
  BY <1>5, FailStep, WatchStep
<1>6. CASE \/ TaskStatus(r) \/ TaskHosts(r) \/ TaskPick(r) \/ TaskPost(r) \/ TaskRefused(r)
           \/ TaskConfirm(r)
  BY <1>6 DEF TaskStatus, TaskHosts, TaskPick, TaskPost, TaskRefused, TaskConfirm
<1> QED BY <1>4, <1>5, <1>6 DEF TaskStep

LEMMA TaskStepsFree ==
  ASSUME TypeInv, TaskInv, FreeInv, NEW r \in RunId, TaskStep(r)
  PROVE  FreeInv'
PROOF
<1>1. TaskFrame(r)
  BY TaskSteps
<1>2. SameRuns /\ Len(runs') = Len(runs) /\ UNCHANGED <<call, rollout>>
  BY <1>1, NumbersType DEF TaskFrame, SameRuns
<1>3. \A q \in 1..Len(runs) : runs'[q].url = Nil => runs[q].url = Nil
  BY <1>1, UrlWritten, LoopAssumption DEF TaskFrame
<1>4. \A q \in Launches : runs'[q].url = Nil => runs[q].url = Nil
  BY <1>3 DEF Launches
<1> QED BY <1>2, <1>4, FreeQuiet

LEMMA EnvironmentFree ==
  ASSUME TypeInv, FreeInv, Environment
  PROVE  FreeInv'
PROOF
<1>1. ASSUME UNCHANGED <<runs, call, rollout>> PROVE FreeInv'
  BY <1>1, SameRunsKept, FreeQuiet
<1>2. ASSUME NEW h \in Host, NEW yes \in BOOLEAN, NEW drained \in BOOLEAN,
             HostChange(h, yes, drained)
      PROVE  FreeInv'
  BY <1>1, <1>2, ChangesKeep
<1>3. CASE Close
  <2>1. UNCHANGED <<runs, call>> /\ rollout'.pin = rollout.pin
    BY <1>3, PinKept DEF Close
  <2>2. AsksRest /\ InsertPinned'
    BY <2>1 DEF FreeInv, AsksRest, InsertPinned, At
  <2> QED BY <2>1, <2>2, SameRunsKept, FreeRests
<1>4. ASSUME NEW r \in RunId, WorkEnds(r) \/ LoopCrash(r) PROVE FreeInv'
  BY <1>1, <1>4, WorkEndsStep
<1>5. ASSUME NEW h \in Host, Readopt(h) PROVE FreeInv'
  BY <1>1, <1>5, ReadoptStep
<1>6. ASSUME NEW reach \in SUBSET Host, Restart(reach) PROVE FreeInv'
  <2>1. /\ UNCHANGED rollout /\ call' = [c \in Caller |-> NoCall]
        /\ SameRuns /\ Len(runs') = Len(runs)
        /\ \A r \in 1..Len(runs) : runs'[r].url = runs[r].url
    BY <1>6, RestartStep
  <2>2. AsksRest /\ InsertPinned'
    BY <2>1 DEF AsksRest, InsertPinned, At, Asks, NoCall
  <2>3. \A r \in Launches : runs'[r].url = runs[r].url
    BY <2>1 DEF Launches
  <2> QED BY <2>1, <2>2, <2>3, FreeRests
<1>7. \/ \E h \in Host, yes \in BOOLEAN, drained \in BOOLEAN : HostChange(h, yes, drained)
      \/ \E h \in Host : Readopt(h)
      \/ \E r \in RunId : WorkEnds(r) \/ LoopCrash(r)
      \/ Close
      \/ \E reach \in SUBSET Host : Restart(reach)
  BY DEF Environment, HostChange
<1> QED BY <1>2, <1>3, <1>4, <1>5, <1>6, <1>7

LEMMA FreeInvKept ==
  ASSUME TypeInv, CallInv, TaskInv, FreeInv, [Next]_vars
  PROVE  FreeInv'
PROOF
<1>1. CASE UNCHANGED vars
  <2>1. UNCHANGED <<runs, call, rollout>>
    BY <1>1 DEF vars
  <2> QED BY <2>1, SameRunsKept, FreeQuiet
<1>2. ASSUME NEW c \in Caller, Ask(c) \/ CallStep(c) PROVE FreeInv'
  BY <1>2, MovesFree, PinFree, CancelWriteFree, ResumesFree, OthersFree, InsertsFree DEF CallStep
<1> QED BY <1>1, <1>2, TaskStepsFree, EnvironmentFree DEF Next

-----------------------------------------------------------------------------
(* The ids *)

\* The rows that a task holds are those it held, or those of the registry.
RowsMove == \A r \in RunId : \/ task'[r].rows = task[r].rows \/ task'[r].rows = reg'
                             \/ DOMAIN task'[r].rows = {}
\* A row that was not there has the next id.
IdsMove ==
  \/ ids' = ids /\ \A g \in DOMAIN reg' : g \in DOMAIN reg /\ reg'[g].id = reg[g].id
  \/ /\ ids' = ids + 1
     /\ \E h \in Host : \A g \in DOMAIN reg' : \/ g \in DOMAIN reg /\ reg'[g].id = reg[g].id
                                               \/ g = h /\ reg'[g].id = ids + 1
\* The hosts that had an id keep it.
Extends(own, next) == \A i \in 1..ids : next[i] = own[i]

LEMMA GivenOn ==
  ASSUME TypeInv, NEW own, Given(own), RowsMove, IdsMove
  PROVE  \E next : Given(next)' /\ Extends(own, next)
PROOF
<1>0. ids \in Nat
  BY DEF TypeInv, HostsOK
<1>1. own \in [1..ids -> Host]
  BY DEF Given
<1>2. \A g \in DOMAIN reg : reg[g].id \in 1..ids /\ own[reg[g].id] = g
  BY DEF TypeInv, HostsOK, Given
<1>3. ASSUME NEW next \in [1..ids' -> Host], \A i \in 1..ids : next[i] = own[i],
             \A g \in DOMAIN reg' : next[reg'[g].id] = g
      PROVE  Given(next)' /\ Extends(own, next)
  <2>1. ASSUME NEW r \in RunId, NEW g \in DOMAIN task'[r].rows PROVE next[task'[r].rows[g].id] = g
    <3>1. CASE task'[r].rows = task[r].rows
      <4>1. task[r].rows[g].id \in 1..ids /\ own[task[r].rows[g].id] = g
        BY <2>1, <3>1 DEF TypeInv, TasksOK, TaskOf, Given
      <4> QED BY <1>3, <3>1, <4>1
    <3>2. CASE task'[r].rows = reg'
      BY <1>3, <2>1, <3>2
    <3> QED BY <2>1, <3>1, <3>2 DEF RowsMove
  <2> QED BY <1>3, <2>1 DEF Given, Extends
<1>4. CASE ids' = ids /\ \A g \in DOMAIN reg' : g \in DOMAIN reg /\ reg'[g].id = reg[g].id
  <2>1. own \in [1..ids' -> Host] /\ \A g \in DOMAIN reg' : own[reg'[g].id] = g
    BY <1>1, <1>2, <1>4
  <2> QED BY <1>3, <2>1
<1>5. ASSUME ids' = ids + 1, NEW h \in Host,
             \A g \in DOMAIN reg' : \/ g \in DOMAIN reg /\ reg'[g].id = reg[g].id
                                    \/ g = h /\ reg'[g].id = ids + 1
      PROVE  \E next : Given(next)' /\ Extends(own, next)
  <2>1. PICK next : next = [i \in 1..ids' |-> IF i \in 1..ids THEN own[i] ELSE h]
    OBVIOUS
  <2>2. next \in [1..ids' -> Host]
    BY <1>1, <2>1
  <2>3. \A i \in 1..ids : next[i] = own[i]
    BY <1>0, <1>5, <2>1
  <2>4. next[ids + 1] = h
    <3>1. ids + 1 \in 1..ids' /\ ids + 1 \notin 1..ids
      BY <1>0, <1>5
    <3> QED BY <2>1, <3>1
  <2>5. ASSUME NEW g \in DOMAIN reg' PROVE next[reg'[g].id] = g
    BY <1>2, <1>5, <2>3, <2>4
  <2> QED BY <1>3, <2>2, <2>3, <2>5
<1> QED BY <1>4, <1>5 DEF IdsMove

LEMMA ReadIds ==
  ASSUME TypeInv, ReadHosts \/ UNCHANGED hosts
  PROVE  IdsMove
PROOF
<1>1. CASE reg' = reg /\ ids' = ids
  BY <1>1 DEF IdsMove
<1>2. CASE /\ DOMAIN reg' = {Legacy} /\ ids' = ids + 1 /\ Legacy \in Host
           /\ reg'[Legacy] = [id |-> ids + 1, drained |-> FALSE, labels |-> {}]
  <2>1. reg'[Legacy].id = ids + 1
    BY <1>2
  <2> QED BY <1>2, <2>1 DEF IdsMove
<1> QED BY <1>1, <1>2, ReadFacts DEF hosts

LEMMA ChangesIds ==
  ASSUME TypeInv, NEW h \in Host, NEW yes, NEW drained, HostChange(h, yes, drained)
  PROVE  IdsMove
PROOF
<1>0. reg \in [DOMAIN reg -> Row]
  BY DEF TypeInv, HostsOK, Rows
<1>1. CASE HostAdd(h, drained, yes)
  <2>1. /\ DOMAIN reg' = DOMAIN reg \cup {h} /\ \A g \in DOMAIN reg \ {h} : reg'[g] = reg[g]
        /\ reg'[h] = [id |-> ids + 1, drained |-> drained, labels |-> IF yes THEN Label ELSE {}]
    BY <1>1 DEF HostAdd
  <2>2. reg'[h].id = ids + 1 /\ ids' = ids + 1
    BY <1>1, <2>1 DEF HostAdd
  <2>3. \A g \in DOMAIN reg' : \/ g \in DOMAIN reg /\ reg'[g].id = reg[g].id
                               \/ g = h /\ reg'[g].id = ids + 1
    BY <2>1, <2>2
  <2> QED BY <2>2, <2>3 DEF IdsMove
<1>2. CASE HostDrain(h) \/ HostUndrain(h)
  <2>1. /\ h \in DOMAIN reg /\ ids' = ids
        /\ reg' = [reg EXCEPT ![h].drained = TRUE] \/ reg' = [reg EXCEPT ![h].drained = FALSE]
    BY <1>2 DEF HostDrain, HostUndrain, Named, DrainRow, UndrainRow
  <2>2. DOMAIN reg' = DOMAIN reg /\ \A g \in DOMAIN reg \ {h} : reg'[g] = reg[g]
    BY <2>1
  <2>3. reg'[h].id = reg[h].id
    BY <1>0, <2>1 DEF Row
  <2> QED BY <2>1, <2>2, <2>3 DEF IdsMove
<1>3. CASE HostLabels(h, yes)
  <2>1. /\ h \in DOMAIN reg /\ ids' = ids
        /\ reg' = [reg EXCEPT ![h].labels = IF yes THEN Label ELSE {}]
    BY <1>3 DEF HostLabels
  <2>2. DOMAIN reg' = DOMAIN reg /\ \A g \in DOMAIN reg \ {h} : reg'[g] = reg[g]
    BY <2>1
  <2>3. reg'[h].id = reg[h].id
    BY <1>0, <2>1 DEF Row
  <2> QED BY <2>1, <2>2, <2>3 DEF IdsMove
<1>4. CASE HostRemove(h)
  <2>1. reg' = [g \in DOMAIN reg \ {h} |-> reg[g]] /\ ids' = ids
    BY <1>4 DEF HostRemove
  <2> QED BY <2>1 DEF IdsMove
<1> QED BY <1>1, <1>2, <1>3, <1>4 DEF HostChange

LEMMA CallsRead ==
  ASSUME NEW c \in Caller, Ask(c) \/ CallStep(c)
  PROVE  (ReadHosts \/ UNCHANGED hosts) /\ (UNCHANGED task \/ Enqueue(c))
PROOF BY DEF Ask, CallStep, LaunchRead, LaunchHosts, LaunchPin, StartRead, StartWrite,
     ResumeWrite, ResumeSweep, HaltRead, HaltWrite, CancelRead, CancelWrite, StopCheck, StopEnd,
     BuildPreflight, BuildHosts, ResumeRead, ResumeRuns, ResumeHosts, BuildRollout, StopForward,
     HaltChildren, CancelChildren, StopRead, StopWrite, Enqueue, Reads,
     LaunchInsert, ResumeInsert, BuildInsert, InsertRun

LEMMA IdsStep ==
  ASSUME TypeInv, CallInv, TaskInv, [Next]_vars
  PROVE  IdsMove /\ RowsMove
PROOF
<1>1. ASSUME UNCHANGED hosts, UNCHANGED task PROVE IdsMove /\ RowsMove
  BY <1>1, ReadIds DEF RowsMove
<1>2. CASE UNCHANGED vars
  BY <1>1, <1>2 DEF vars
<1>3. ASSUME NEW c \in Caller, Ask(c) \/ CallStep(c) PROVE IdsMove /\ RowsMove
  <2>1. IdsMove
    BY <1>3, CallsRead, ReadIds
  <2>2. CASE UNCHANGED task
    BY <2>1, <2>2 DEF RowsMove
  <2>3. CASE Enqueue(c)
    BY <2>1, <2>3, EnqueueStep DEF RowsMove
  <2> QED BY <1>3, <2>2, <2>3, CallsRead
<1>4. ASSUME NEW r \in RunId, TaskStep(r) PROVE IdsMove /\ RowsMove
  <2>1. TaskFrame(r) /\ IdsMove
    BY <1>4, TaskSteps, ReadIds
  <2>2. ASSUME task'[r] = NoTask PROVE DOMAIN task'[r].rows = {}
    BY <2>2, NoTaskOf
  <2>3. \/ task'[r].rows = task[r].rows \/ task'[r].rows = reg' \/ task'[r] = NoTask
    <3>1. CASE TaskStatus(r) \/ TaskConfirm(r) \/ TaskWrite(r)
      BY <3>1, StatusStep, ConfirmStep, WriteStep DEF TaskTo
    <3>2. CASE TaskHosts(r)
      BY <3>2, HostsStep DEF TaskTo
    <3>3. CASE TaskPick(r)
      BY <3>3, PickStep
    <3>4. CASE TaskPost(r) \/ TaskRefused(r)
      BY <3>4, PostStep, RefusedStep DEF TaskTo
    <3>5. CASE TaskTwin(r) \/ TaskFail(r) \/ TaskWatch(r) \/ TaskRecall(r)
      BY <3>5, TwinStep, FailStep, WatchStep, RecallStep
    <3> QED BY <1>4, <3>1, <3>2, <3>3, <3>4, <3>5 DEF TaskStep
  <2> QED BY <2>1, <2>2, <2>3 DEF RowsMove, TaskFrame
<1>5. CASE Environment
  <2>1. ASSUME NEW h \in Host, NEW yes \in BOOLEAN, NEW drained \in BOOLEAN,
               HostChange(h, yes, drained)
        PROVE  IdsMove /\ RowsMove
    BY <2>1, ChangesIds, ChangesKeep DEF RowsMove
  <2>2. CASE Close
    BY <1>1, <2>2 DEF Close
  <2>3. ASSUME NEW r \in RunId, WorkEnds(r) \/ LoopCrash(r) PROVE IdsMove /\ RowsMove
    BY <1>1, <2>3, WorkEndsStep
  <2>4. ASSUME NEW h \in Host, Readopt(h) PROVE IdsMove /\ RowsMove
    BY <1>1, <2>4, ReadoptStep
  <2>5. ASSUME NEW reach \in SUBSET Host, Restart(reach) PROVE IdsMove /\ RowsMove
    <3>1. IdsMove
      BY <2>5, RestartStep, ReadIds
    <3>2. ASSUME NEW r \in RunId PROVE DOMAIN task'[r].rows = {}
      <4>1. CASE task'[r] = NoTask
        BY <4>1, NoTaskOf
      <4>2. CASE task'[r] = [NoTask EXCEPT !.at = "watch", !.host = runs[r].url]
        <5>1. task'[r].rows = NoTask.rows
          BY <4>2 DEF NoTask
        <5> QED BY <5>1, NoTaskOf
      <4> QED BY <2>5, <4>1, <4>2, RestartStep
    <3> QED BY <3>1, <3>2 DEF RowsMove
  <2>6. \/ \E h \in Host, yes \in BOOLEAN, drained \in BOOLEAN : HostChange(h, yes, drained)
        \/ \E h \in Host : Readopt(h)
        \/ \E r \in RunId : WorkEnds(r) \/ LoopCrash(r)
        \/ Close
        \/ \E reach \in SUBSET Host : Restart(reach)
    BY <1>5 DEF Environment, HostChange
  <2> QED BY <2>1, <2>2, <2>3, <2>4, <2>5, <2>6
<1> QED BY <1>2, <1>3, <1>4, <1>5 DEF Next

-----------------------------------------------------------------------------
(* One host *)

LEMMA LoopFacts ==
  ASSUME TypeInv, NEW r \in Loops
  PROVE  /\ r \in 1..Len(runs) /\ r \in RunId /\ IsLoop(r) /\ runs[r] \in Run
         /\ runs[r].pin # 0 => runs[r].pin \in 1..ids
PROOF
<1>1. r \in 1..Len(runs) /\ IsLoop(r)
  BY DEF Loops
<1>2. runs[r] \in Run
  BY <1>1, RunOf
<1>3. runs[r].pin \in Nat /\ runs[r].pin <= ids
  <2>1. MaxChanges \in Nat /\ Cardinality(Host) \in Nat
    BY LoopAssumption, FS_CardinalityType
  <2>2. runs[r].pin \in 0..MaxId /\ MaxId \in Nat
    BY <1>2, <2>1 DEF Run, MaxId
  <2> QED BY <1>1, <2>2 DEF TypeInv, RunsOK
<1> QED BY <1>1, <1>2, <1>3, NumbersType DEF RunId, TypeInv, RunsOK

\* The host stays the one it was when nothing else is sent or asked for.
LEMMA HomeRests ==
  ASSUME TypeInv, NEW own, NEW next, NEW home, HomeInv(own, home), Extends(own, next),
         SameRuns, Len(runs') = Len(runs),
         Cardinality(Launches) <= 1 =>
           /\ \A r \in Loops : SentTo(r, home)'
           /\ rollout'.pin # rollout.pin /\ rollout'.pin # 0 => next[rollout'.pin] = home
           /\ \A c \in Caller : Asks(call'[c]) =>
                \/ Asks(call[c]) /\ call'[c].id = call[c].id
                \/ next[call'[c].id] = home
  PROVE  HomeInv(next, home)'
PROOF
<1>1. Loops' = Loops /\ Launches' = Launches
  BY LoopsThen
<1>2. ASSUME Cardinality(Launches) <= 1
      PROVE  AskedFor(next, home)'
  <2>1. AskedFor(own, home)
    BY <1>2 DEF HomeInv
  <2>2. ASSUME NEW r \in Loops, runs'[r].pin # 0 PROVE next[runs'[r].pin] = home
    <3>1. runs'[r].pin = runs[r].pin
      BY DEF SameRuns, Loops
    <3>2. runs[r].pin \in 1..ids
      BY <2>2, <3>1, LoopFacts
    <3> QED BY <2>1, <2>2, <3>1, <3>2 DEF AskedFor, Extends
  <2>3. ASSUME rollout'.pin # 0 PROVE next[rollout'.pin] = home
    <3>1. rollout.pin \in 0..ids
      BY DEF TypeInv, RunsOK
    <3>2. rollout.pin # 0 => rollout.pin \in 1..ids
      BY <3>1, NumbersType
    <3> QED BY <1>2, <2>1, <2>3, <3>2 DEF AskedFor, Extends
  <2>4. ASSUME NEW c \in Caller, Asks(call'[c]) PROVE next[call'[c].id] = home
    <3>1. CASE Asks(call[c]) /\ call'[c].id = call[c].id
      <4>1. call[c].id \in Nat /\ call[c].id <= ids
        BY CallFacts DEF CallOf, CallType
      <4>2. call[c].id \in 1..ids
        BY <3>1, <4>1, NumbersType DEF Asks
      <4> QED BY <2>1, <3>1, <4>2 DEF AskedFor, Extends
    <3> QED BY <1>2, <2>4, <3>1
  <2> QED BY <1>1, <2>2, <2>3, <2>4 DEF AskedFor
<1> QED BY <1>1, <1>2 DEF HomeInv

LEMMA SentRests ==
  ASSUME NEW r, NEW home, SentTo(r, home),
         task'[r] = task[r] \/ task'[r].at \notin {"post", "confirm", "write", "recall", "twin"},
         runs'[r].pin = runs[r].pin, runs'[r].url = runs[r].url,
         live'[r] \in {live[r], Nil}, \A h \in Host : held'[h] = r => held[h] = r
  PROVE  SentTo(r, home)'
PROOF BY DEF SentTo

\* Only a resume that reads the pin or the hosts asks for anything new.
LEMMA AsksSame ==
  ASSUME TypeInv, CallInv, NEW c \in Caller, Ask(c) \/ CallStep(c),
         ~ResumeRead(c), ~ResumeHosts(c),
         NEW d \in Caller, Asks(call'[d])
  PROVE  Asks(call[d]) /\ call'[d].id = call[d].id
PROOF
<1>0. call \in [Caller -> CallType]
  BY DEF TypeInv, CallsOK
<1>1. ASSUME NEW x, call' = [call EXCEPT ![c] = x], Asks(x) => Asks(call[c]) /\ x.id = call[c].id
      PROVE  Asks(call[d]) /\ call'[d].id = call[d].id
  BY <1>0, <1>1
<1>2. CASE End(c)
  <2>1. call' = [call EXCEPT ![c] = NoCall] /\ ~Asks(NoCall)
    BY <1>2 DEF End, Asks, NoCall
  <2> QED BY <1>1, <2>1
<1>3. ASSUME NEW at \in CallPlaces, Go(c, at),
             call[c].op = "resume" => call[c].at \in {"resume", "sweep"}
      PROVE  Asks(call[d]) /\ call'[d].id = call[d].id
  <2>1. PICK x : /\ call' = [call EXCEPT ![c] = x] /\ x.op = call[c].op /\ x.id = call[c].id
    BY <1>3, GoStep DEF Keeps
  <2> QED BY <1>1, <1>3, <2>1 DEF Asks
<1>4. CASE \/ LaunchRead(c) \/ LaunchHosts(c) \/ LaunchPin(c) \/ StartRead(c) \/ StartWrite(c)
           \/ ResumeWrite(c) \/ ResumeSweep(c) \/ HaltRead(c) \/ HaltWrite(c) \/ CancelRead(c)
           \/ StopCheck(c) \/ BuildPreflight(c) \/ BuildHosts(c)
  <2>1. call[c].op = "resume" => call[c].at \in {"resume", "sweep"}
    <3>1. CASE StartWrite(c)
      <4>1. call[c].at = "started" /\ Position(call[c])
        BY <3>1 DEF StartWrite, CallInv, Fits
      <4> QED BY <4>1 DEF Position
    <3> QED BY <1>4, <3>1 DEF LaunchRead, LaunchHosts, LaunchPin, StartRead, ResumeWrite,
         ResumeSweep, HaltRead, HaltWrite, CancelRead, StopCheck, BuildPreflight, BuildHosts, At
  <2> QED BY <1>2, <1>3, <1>4, <2>1, MovesTo
<1>5. CASE CancelWrite(c)
  <2>1. /\ call[c].op = "cancel"
        /\ call' = [e \in Caller |->
                  IF e = c THEN [call[c] EXCEPT !.at = "children"]
                  ELSE [call[e] EXCEPT !.before = Busy(e)]]
    BY <1>5 DEF CancelWrite, At
  <2>2. CASE d = c
    <3>1. call'[d].op = "cancel"
      BY <1>0, <2>1, <2>2 DEF CallType
    <3> QED BY <3>1 DEF Asks
  <2>3. CASE d # c
    <3>1. call'[d] = [call[d] EXCEPT !.before = Busy(d)]
      BY <2>1, <2>3
    <3>2. call'[d].op = call[d].op /\ call'[d].id = call[d].id /\ call'[d].at = call[d].at
      BY <1>0, <3>1 DEF CallType
    <3> QED BY <3>2 DEF Asks
  <2> QED BY <2>2, <2>3
<1>6. CASE ResumeRuns(c)
  <2>1. call[c].op = "resume" /\ call[c].at = "runs"
    BY <1>6 DEF ResumeRuns, At
  <2>2. \/ End(c)
        \/ \E x \in CallType : /\ call' = [call EXCEPT ![c] = x]
                               /\ x.id = 0 \/ x.id = call[c].id
    BY <1>6, ResumeRunsStep
  <2> QED BY <1>1, <1>2, <2>1, <2>2 DEF Asks
<1>7. ASSUME NEW x, call' = [call EXCEPT ![c] = x],
             \/ x.op # "resume"
             \/ x.at \in {"read", "stop", "forward", "children", "enqueue"}
      PROVE  Asks(call[d]) /\ call'[d].id = call[d].id
  BY <1>1, <1>7 DEF Asks
<1>8. CASE Ask(c)
  <2>1. PICK op, id, allow, run : call' = [call EXCEPT ![c] = [NoCall EXCEPT
            !.op = op, !.at = "read", !.id = id, !.allow = allow, !.run = run]]
    BY <1>8 DEF Ask
  <2>2. PICK x : x = [NoCall EXCEPT
            !.op = op, !.at = "read", !.id = id, !.allow = allow, !.run = run]
    OBVIOUS
  <2>3. x.at = "read"
    BY <2>2 DEF NoCall
  <2> QED BY <1>7, <2>1, <2>2, <2>3
<1>9. CASE BuildRollout(c)
  <2>1. call[c].op = "build"
    BY <1>9 DEF BuildRollout, At
  <2>2. End(c) \/ \E x \in CallType : call' = [call EXCEPT ![c] = x] /\ x.op = call[c].op
    BY <1>9, BuildRolloutStep DEF Keeps
  <2> QED BY <1>2, <1>7, <2>1, <2>2
<1>10. CASE \/ HaltChildren(c) \/ CancelChildren(c) \/ StopRead(c) \/ StopWrite(c)
            \/ StopForward(c)
  <2>1. End(c) \/ \E x \in CallType : /\ call' = [call EXCEPT ![c] = x]
                                      /\ x.at \in {"stop", "forward", "children"}
    BY <1>10, ListsStep, StopWriteStep, StopForwardStep
  <2> QED BY <1>2, <1>7, <2>1
<1>11. CASE StopEnd(c) \/ Enqueue(c)
  BY <1>2, <1>11 DEF StopEnd, Enqueue
<1>12. CASE LaunchInsert(c)
  <2>1. call[c].op = "launch" /\ \E next \in {"pin", "start"} : InsertRun(c, "launch", next)
    BY <1>12 DEF LaunchInsert, At
  <2>2. \E x \in CallType : call' = [call EXCEPT ![c] = x] /\ x.op = call[c].op
    BY <2>1, InsertCall DEF Keeps, CallPlaces
  <2> QED BY <1>7, <2>1, <2>2
<1>13. CASE ResumeInsert(c) \/ BuildInsert(c)
  <2>1. \E mode : InsertRun(c, mode, "enqueue")
    BY <1>13 DEF ResumeInsert, BuildInsert
  <2>2. \E x \in CallType : call' = [call EXCEPT ![c] = x] /\ x.at = "enqueue"
    BY <2>1, InsertCall DEF CallPlaces
  <2> QED BY <1>7, <2>2
<1> QED BY <1>4, <1>5, <1>6, <1>8, <1>9, <1>10, <1>11, <1>12, <1>13 DEF CallStep

Insert(c) == LaunchInsert(c) \/ ResumeInsert(c) \/ BuildInsert(c)

LEMMA CallsSent ==
  ASSUME TypeInv, CallInv, NEW c \in Caller, Ask(c) \/ CallStep(c), ~Insert(c),
         NEW r \in Loops, NEW home, SentTo(r, home)
  PROVE  SentTo(r, home)'
PROOF
<1>0. r \in 1..Len(runs) /\ r \in RunId
  BY LoopFacts
<1>1. CASE Enqueue(c)
  <2>1. PICK q \in RunId : q = call[c].run
    BY <1>1, EnqueueStep
  <2>2. /\ task'[q].at = "status" /\ \A p \in RunId \ {q} : task'[p] = task[p]
        /\ UNCHANGED <<runs, machine>>
    BY <1>1, <2>1, EnqueueStep
  <2>3. task'[r] = task[r] \/ task'[r].at = "status"
    BY <1>0, <2>2
  <2> QED BY <2>2, <2>3, SentRests DEF machine
<1>2. CASE StopWrite(c)
  <2>1. \E t \in call[c].todo : /\ SameRuns
                                /\ \A q \in 1..Len(runs) \ {t.run} : runs'[q] = runs[q]
                                /\ runs'[t.run].url = runs[t.run].url
    BY <1>2, StopWriteStep
  <2>2. runs'[r].pin = runs[r].pin /\ runs'[r].url = runs[r].url
    BY <1>0, <2>1 DEF SameRuns
  <2>3. UNCHANGED <<task, machine>>
    BY <1>2 DEF StopWrite
  <2> QED BY <2>2, <2>3, SentRests DEF machine
<1>3. CASE StopForward(c)
  <2>1. \E t : live' = [live EXCEPT ![t] = Nil] \/ live' = live
    BY <1>3 DEF StopForward
  <2>2. live'[r] \in {live[r], Nil}
    BY <1>0, <2>1 DEF TypeInv, RunsOK
  <2>3. UNCHANGED <<task, runs, held>>
    BY <1>3 DEF StopForward
  <2> QED BY <2>2, <2>3, SentRests
<1>4. CASE ~Enqueue(c) /\ ~StopWrite(c) /\ ~StopForward(c)
  <2>1. UNCHANGED <<task, runs, machine>>
    BY <1>4 DEF Insert, Ask, CallStep, LaunchRead, LaunchHosts, LaunchPin, StartRead, StartWrite,
         ResumeWrite, ResumeSweep, HaltRead, HaltWrite, CancelRead, CancelWrite, StopCheck, StopEnd,
         BuildPreflight, BuildHosts, ResumeRead, ResumeRuns, ResumeHosts, BuildRollout,
         HaltChildren, CancelChildren, StopRead, Reads
  <2> QED BY <2>1, SentRests DEF machine
<1> QED BY <1>1, <1>2, <1>3, <1>4

LEMMA CallsRuns ==
  ASSUME TypeInv, CallInv, NEW c \in Caller, Ask(c) \/ CallStep(c), ~Insert(c)
  PROVE  SameRuns /\ Len(runs') = Len(runs)
PROOF
<1>1. CASE StopWrite(c)
  BY <1>1, StopWriteStep
<1>2. CASE ~StopWrite(c)
  <2>1. UNCHANGED runs
    BY <1>2 DEF Insert, Ask, CallStep, LaunchRead, LaunchHosts, LaunchPin, StartRead, StartWrite,
         ResumeWrite, ResumeSweep, HaltRead, HaltWrite, CancelRead, CancelWrite, StopCheck, StopEnd,
         BuildPreflight, BuildHosts, ResumeRead, ResumeRuns, ResumeHosts, BuildRollout,
         HaltChildren, CancelChildren, StopRead, Reads, Enqueue, StopForward
  <2> QED BY <2>1, SameRunsKept
<1> QED BY <1>1, <1>2

LEMMA PinWritten ==
  ASSUME TypeInv, NEW c \in Caller, Ask(c) \/ CallStep(c), ~LaunchPin(c)
  PROVE  rollout'.pin = rollout.pin
PROOF
<1>1. UNCHANGED rollout \/ \E status : SetRollout(status)
  BY DEF Ask, CallStep, LaunchRead, LaunchHosts, StartRead, StartWrite,
     ResumeWrite, ResumeSweep, HaltRead, HaltWrite, CancelRead, CancelWrite, StopCheck, StopEnd,
     BuildPreflight, BuildHosts, ResumeRead, ResumeRuns, ResumeHosts, BuildRollout, StopForward,
     HaltChildren, CancelChildren, StopRead, StopWrite, Enqueue, Reads,
     LaunchInsert, ResumeInsert, BuildInsert, InsertRun
<1> QED BY <1>1, PinKept

LEMMA CallsHome ==
  ASSUME TypeInv, CallInv, NEW own, NEW next, NEW home, Given(next)',
         HomeInv(own, home), Extends(own, next),
         NEW c \in Caller, Ask(c) \/ CallStep(c), ~Insert(c)
  PROVE  HomeInv(next, home)'
PROOF
<1>1. SameRuns /\ Len(runs') = Len(runs)
  BY CallsRuns
<1>2. ASSUME Cardinality(Launches) <= 1, NEW r \in Loops PROVE SentTo(r, home)'
  BY <1>2, CallsSent DEF HomeInv
<1>3. ASSUME Cardinality(Launches) <= 1, rollout'.pin # rollout.pin, rollout'.pin # 0
      PROVE  next[rollout'.pin] = home
  <2>1. LaunchPin(c)
    BY <1>3, PinWritten
  <2>2. /\ call[c].op = "launch" /\ call[c].at = "pin"
        /\ rollout' = [rollout EXCEPT !.pin = call[c].id]
    BY <2>1 DEF LaunchPin, At
  <2>3. rollout'.pin = call[c].id
    BY <2>2 DEF TypeInv, RunsOK
  <2>4. PICK q : q = call[c].run
    OBVIOUS
  <2>5. q \in Loops /\ runs[q].pin = call[c].id
    BY <2>2, <2>4, InsertedRun DEF Inserted, Loops, IsLoop
  <2>6. own[runs[q].pin] = home
    BY <1>3, <2>3, <2>5 DEF HomeInv, AskedFor
  <2>7. runs[q].pin \in 1..ids
    BY <1>3, <2>3, <2>5, LoopFacts
  <2> QED BY <2>3, <2>5, <2>6, <2>7 DEF Extends
<1>4. ASSUME Cardinality(Launches) <= 1, NEW d \in Caller, Asks(call'[d])
      PROVE  \/ Asks(call[d]) /\ call'[d].id = call[d].id
             \/ next[call'[d].id] = home
  <2>0. call \in [Caller -> CallType]
    BY DEF TypeInv, CallsOK
  <2>1. CASE ~ResumeRead(c) /\ ~ResumeHosts(c)
    BY <1>4, <2>1, AsksSame
  <2>2. ASSUME NEW x \in CallType, call' = [call EXCEPT ![c] = x],
               Asks(x) => (Asks(call[c]) /\ x.id = call[c].id) \/ next[x.id] = home
        PROVE  \/ Asks(call[d]) /\ call'[d].id = call[d].id
               \/ next[call'[d].id] = home
    BY <1>4, <2>0, <2>2
  <2>3. CASE End(c)
    <3>1. call' = [call EXCEPT ![c] = NoCall] /\ ~Asks(NoCall) /\ NoCall \in CallType
      BY <2>3, NoCallFits DEF End, Asks, NoCall
    <3> QED BY <2>2, <3>1
  <2>4. CASE ResumeRead(c)
    <3>1. call[c].id = 0 /\ UNCHANGED rollout
      BY <2>4 DEF ResumeRead, At, CallInv, Fits, Reads
    <3>2. rollout.pin # 0 => next[rollout.pin] = home
      <4>1. rollout.pin \in 0..ids
        BY DEF TypeInv, RunsOK
      <4>2. rollout.pin # 0 => rollout.pin \in 1..ids
        BY <4>1, NumbersType
      <4> QED BY <1>4, <4>2 DEF HomeInv, AskedFor, Extends
    <3>3. ASSUME NEW x \in CallType, call' = [call EXCEPT ![c] = x],
                 x.id = rollout.pin \/ x.id = call[c].id
          PROVE  \/ Asks(call[d]) /\ call'[d].id = call[d].id
                 \/ next[call'[d].id] = home
      <4>1. Asks(x) => x.id # 0
        BY DEF Asks
      <4> QED BY <2>2, <3>1, <3>2, <3>3, <4>1
    <3> QED BY <2>3, <2>4, <3>3, ResumeReadStep
  <2>5. CASE ResumeHosts(c)
    <3>0. call[c].op = "resume" /\ call[c].at = "hosts" /\ call[c].run \in Loops
      BY <2>5 DEF ResumeHosts, At, CallInv, Fits
    <3>1. ASSUME NEW x \in CallType, NEW h \in Owner(reg', call[c].id, call[c].run),
                 call' = [call EXCEPT ![c] = x], x.id = reg'[h].id
          PROVE  \/ Asks(call[d]) /\ call'[d].id = call[d].id
                 \/ next[call'[d].id] = home
      <4>1. CASE call[c].id # 0
        <5>1. reg'[h].id = call[c].id
          BY <3>1, <4>1 DEF Owner, WithId
        <5> QED BY <2>2, <3>0, <3>1, <4>1, <5>1 DEF Asks
      <4>2. CASE call[c].id = 0
        <5>1. h = runs[call[c].run].url /\ h \in DOMAIN reg'
          BY <3>1, <4>2 DEF Owner
        <5>2. reg' \in Rows
          BY <2>5, ReadFacts DEF ResumeHosts
        <5>3. h # Nil
          BY <5>1, <5>2, LoopAssumption DEF Rows
        <5>4. h = home
          BY <1>4, <3>0, <5>1, <5>3 DEF HomeInv, SentTo
        <5>5. next[reg'[h].id] = h
          BY <5>1 DEF Given
        <5> QED BY <2>2, <3>1, <5>4, <5>5
      <4> QED BY <4>1, <4>2
    <3> QED BY <2>3, <2>5, <3>1, ResumeHostsStep
  <2> QED BY <2>1, <2>4, <2>5
<1> QED BY <1>1, <1>2, <1>3, <1>4, HomeRests

\* A first launch chooses the host, if it has a pin; a relaunch has that host's.
LEMMA InsertsHome ==
  ASSUME TypeInv, CallInv, FreeInv, NEW own, NEW next, NEW home \in Host \cup {Nil}, Given(own),
         HomeInv(own, home), Extends(own, next), NEW c \in Caller, Insert(c)
  PROVE  \E place \in Host \cup {Nil} : HomeInv(next, place)'
PROOF
<1>1. PICK mode \in {"launch", "relaunch", "build"}, to \in CallPlaces :
        /\ InsertRun(c, mode, to)
        /\ mode = "launch" => call[c].op = "launch"
        /\ mode = "relaunch" => call[c].op = "resume" /\ call[c].at = "insert"
        /\ call[c].op # "resume" \/ to = "enqueue"
  BY DEF Insert, LaunchInsert, ResumeInsert, BuildInsert, At, CallPlaces
<1>2. PICK n \in Nat : n = Len(runs) + 1
  BY NumbersType
<1>3. /\ Len(runs') = n /\ SameRuns /\ \A r \in 1..Len(runs) : runs'[r] = runs[r]
      /\ runs'[n].mode = mode /\ runs'[n].pin = call[c].id /\ runs'[n].url = Nil
      /\ n \in RunId /\ task[n] = NoTask /\ live[n] = Nil
      /\ \A h \in Host : held[h] # n
  <2>1. /\ Len(runs') = n /\ SameRuns /\ \A r \in 1..Len(runs) : runs'[r] = runs[r]
        /\ runs'[n] = [mode |-> mode, pin |-> call[c].id, allow |-> call[c].allow,
                      status |-> "pending", url |-> Nil, remote |-> FALSE]
        /\ n \in RunId /\ task[n] = NoTask /\ live[n] = Nil
        /\ \A h \in Host : held[h] # n
    BY <1>1, <1>2, InsertStep
  <2> QED BY <2>1
<1>4. UNCHANGED <<task, machine, rollout>>
  BY <1>1 DEF InsertRun
<1>5. PICK x \in CallType : /\ call' = [call EXCEPT ![c] = x] /\ x.op = call[c].op /\ x.at = to
  BY <1>1, InsertCall DEF Keeps
<1>6. \A d \in Caller : Asks(call'[d]) => Asks(call[d]) /\ call'[d].id = call[d].id
  <2>1. call \in [Caller -> CallType]
    BY DEF TypeInv, CallsOK
  <2>2. ~Asks(x)
    BY <1>1, <1>5 DEF Asks
  <2> QED BY <1>5, <2>1, <2>2
<1>7. /\ Loops' = IF mode = "build" THEN Loops ELSE Loops \cup {n}
      /\ Launches' = IF mode = "launch" THEN Launches \cup {n} ELSE Launches
      /\ n \notin Loops /\ n \notin Launches
  BY <1>1, <1>2, LoopsInsert
<1>8. \A r \in Loops : runs'[r] = runs[r]
  BY <1>3 DEF Loops
<1>9. ASSUME NEW place \in Host \cup {Nil} PROVE SentTo(n, place)'
  <2>1. task'[n].at = "none" /\ live'[n] = Nil /\ \A h \in Host : held'[h] # n
    BY <1>3, <1>4 DEF NoTask, machine
  <2> QED BY <1>3, <2>1 DEF SentTo
<1>10. ASSUME NEW r \in Loops, NEW place, SentTo(r, place) PROVE SentTo(r, place)'
  BY <1>4, <1>8, <1>10, SentRests DEF machine
<1>11. call[c].id # 0 => call[c].id \in 1..ids
  <2>1. call[c].id \in Nat /\ call[c].id <= ids
    BY CallFacts DEF CallOf, CallType
  <2> QED BY <2>1, NumbersType
\* What was asked for before still names the host.
<1>12. ASSUME AskedFor(own, home)
       PROVE  /\ \A r \in Loops : runs'[r].pin # 0 => next[runs'[r].pin] = home
              /\ rollout'.pin # 0 => next[rollout'.pin] = home
              /\ \A d \in Caller : Asks(call'[d]) => next[call'[d].id] = home
  <2>1. ASSUME NEW r \in Loops, runs'[r].pin # 0 PROVE next[runs'[r].pin] = home
    BY <1>8, <1>12, <2>1, LoopFacts DEF AskedFor, Extends
  <2>2. rollout'.pin # 0 => next[rollout'.pin] = home
    <3>1. rollout.pin \in 0..ids
      BY DEF TypeInv, RunsOK
    <3>2. rollout.pin # 0 => rollout.pin \in 1..ids
      BY <3>1, NumbersType
    <3> QED BY <1>4, <1>12, <3>2 DEF AskedFor, Extends
  <2>3. ASSUME NEW d \in Caller, Asks(call'[d]) PROVE next[call'[d].id] = home
    <3>1. Asks(call[d]) /\ call'[d].id = call[d].id
      BY <1>6, <2>3
    <3>2. call[d].id \in Nat /\ call[d].id <= ids
      BY CallFacts DEF CallOf, CallType
    <3>3. call[d].id \in 1..ids
      BY <3>1, <3>2, NumbersType DEF Asks
    <3> QED BY <1>12, <3>1, <3>3 DEF AskedFor, Extends
  <2> QED BY <2>1, <2>2, <2>3
<1>13. CASE mode = "build"
  <2>1. ASSUME Cardinality(Launches) <= 1
        PROVE  (\A r \in Loops' : SentTo(r, home)') /\ AskedFor(next, home)'
    <3>1. AskedFor(own, home) /\ \A r \in Loops : SentTo(r, home)
      BY <2>1 DEF HomeInv
    <3> QED BY <1>7, <1>10, <1>12, <1>13, <3>1 DEF AskedFor
  <2> QED BY <1>7, <1>13, <2>1 DEF HomeInv
<1>14. CASE mode = "relaunch"
  <2>1. Asks(call[c])
    BY <1>1, <1>14 DEF FreeInv, At, Asks
  <2>2. ASSUME Cardinality(Launches) <= 1
        PROVE  (\A r \in Loops' : SentTo(r, home)') /\ AskedFor(next, home)'
    <3>1. AskedFor(own, home) /\ \A r \in Loops : SentTo(r, home)
      BY <2>2 DEF HomeInv
    <3>2. runs'[n].pin # 0 => next[runs'[n].pin] = home
      BY <1>3, <1>11, <2>1, <3>1 DEF AskedFor, Extends
    <3>3. \A r \in Loops' : runs'[r].pin # 0 => next[runs'[r].pin] = home
      BY <1>7, <1>12, <1>14, <3>1, <3>2
    <3> QED BY <1>7, <1>9, <1>10, <1>12, <1>14, <3>1, <3>3 DEF AskedFor
  <2> QED BY <1>7, <1>14, <2>2 DEF HomeInv
<1>15. CASE mode = "launch"
  <2>1. IsFiniteSet(Launches')
    BY <1>7, LaunchesOne, FS_AddElement
  <2>2. Cardinality(Launches') <= 1 => Launches = {}
    BY <1>7, <1>15, <2>1, AtMostOne
  <2>3. Launches = {} => Loops = {} /\ Unasked
    BY FS_EmptySet DEF FreeInv
  <2>4. PICK place \in Host \cup {Nil} : call[c].id # 0 => next[call[c].id] = place
    <3>1. call[c].id # 0 => own[call[c].id] \in Host /\ next[call[c].id] = own[call[c].id]
      BY <1>11 DEF Given, Extends
    <3> QED BY <3>1
  <2>5. ASSUME Launches = {} PROVE (\A r \in Loops' : SentTo(r, place)') /\ AskedFor(next, place)'
    <3>1. Loops' = {n} /\ Unasked
      BY <1>7, <1>15, <2>3, <2>5
    <3>2. rollout'.pin = 0 /\ \A d \in Caller : ~Asks(call'[d])
      BY <1>4, <1>6, <3>1 DEF Unasked
    <3> QED BY <1>3, <1>9, <2>4, <3>1, <3>2 DEF AskedFor
  <2> QED BY <2>2, <2>5 DEF HomeInv
<1> QED BY <1>13, <1>14, <1>15

-----------------------------------------------------------------------------
\* The task of a loop keeps to the host, when it does not choose it.
LEMMA SentMoves ==
  ASSUME TypeInv, TaskInv, NEW own, NEW home \in Host \cup {Nil}, Given(own),
         \A q \in Loops : SentTo(q, home), AskedFor(own, home),
         NEW r \in Loops, TaskStep(r), ~(TaskPost(r) /\ runs[r].pin = 0)
  PROVE  SentTo(r, home)'
PROOF
<1>0. r \in RunId /\ IsLoop(r) /\ TaskFits(r) /\ SentTo(r, home)
  BY LoopFacts DEF TaskInv
<1>1. TaskFrame(r) /\ \A h \in Host : held'[h] = held[h] \/ held'[h] = r
  BY <1>0, TaskSteps
<1>2. runs'[r].pin = runs[r].pin
  BY <1>1 DEF TaskFrame
<1>3. ASSUME UNCHANGED machine, runs'[r].url = runs[r].url \/ runs'[r].url = home,
             task'[r].at \in {"confirm", "write", "recall", "twin"} => task'[r].host = home,
             task'[r].at # "post"
      PROVE  SentTo(r, home)'
  BY <1>0, <1>2, <1>3 DEF SentTo, machine
<1>4. task[r].at \in {"confirm", "write", "recall", "twin"} => task[r].host = home
  BY <1>0 DEF SentTo
<1>5. CASE TaskStatus(r) \/ TaskHosts(r)
  <2>1. UNCHANGED <<runs, machine>> /\ task'[r].at \in {"none", "hosts", "fail", "pick"}
    BY <1>0, <1>5, StatusStep, HostsStep DEF TaskTo, NoTask
  <2> QED BY <1>3, <2>1
<1>6. CASE TaskPick(r)
  <2>1. UNCHANGED <<runs, machine>>
    BY <1>0, <1>6, PickStep
  <2>2. CASE task'[r].at # "post"
    <3>1. task'[r].at \in {"none", "fail"}
      BY <1>0, <1>6, <2>2, PickStep DEF NoTask
    <3> QED BY <1>3, <2>1, <3>1
  <2>3. CASE task'[r].at = "post"
    <3>1. runs[r].pin # 0 => task'[r].rows[task'[r].host].id = runs[r].pin
      BY <1>0, <1>6, <2>3, PickStep DEF NoTask
    <3> QED BY <1>0, <1>2, <2>1, <2>3, <3>1 DEF SentTo, machine
  <2> QED BY <2>2, <2>3
<1>7. CASE TaskRefused(r)
  <2>1. UNCHANGED <<runs, machine>>
    BY <1>0, <1>7, RefusedStep
  <2>2. CASE task'[r].at \in {"pick", "fail"}
    BY <1>3, <2>1, <2>2
  <2>3. CASE TaskTo(r, "twin") /\ Drives(task[r].host)
    <3>1. task[r].at = "post" /\ task[r].host \in Host
      BY <1>0, <1>7, RefusedStep DEF TaskFits
    <3>2. PICK q \in Loops : live[q] = task[r].host
      BY <2>3 DEF Drives
    <3>3. task[r].host = home
      BY <3>1, <3>2, LoopAssumption DEF SentTo
    <3> QED BY <1>3, <2>1, <2>3, <3>3 DEF TaskTo
  <2> QED BY <1>0, <1>7, <2>2, <2>3, RefusedStep DEF TaskTo
<1>8. CASE TaskConfirm(r)
  <2>1. UNCHANGED <<runs, machine>> /\ task[r].at = "confirm"
        /\ task'[r].at \in {"write", "recall"} /\ task'[r].host = task[r].host
    BY <1>0, <1>8, ConfirmStep DEF TaskTo
  <2> QED BY <1>3, <1>4, <2>1
<1>9. CASE TaskWrite(r)
  <2>1. UNCHANGED machine /\ task[r].at = "write" /\ task'[r].at = "watch"
        /\ runs'[r].url = task[r].host
    BY <1>0, <1>9, WriteStep DEF TaskTo
  <2> QED BY <1>3, <1>4, <2>1
<1>10. CASE TaskTwin(r) \/ TaskFail(r) \/ TaskWatch(r)
  <2>1. UNCHANGED machine /\ task'[r].at = "none"
        /\ (runs'[r].url = runs[r].url \/ (task[r].at = "twin" /\ runs'[r].url = task[r].host))
    BY <1>0, <1>10, TwinStep, FailStep, WatchStep DEF NoTask
  <2> QED BY <1>3, <1>4, <2>1
<1>11. CASE TaskRecall(r)
  <2>0. held' = held /\ task'[r] = NoTask /\ task[r].at = "recall"
    BY <1>0, <1>11, RecallStep
  <2>2. runs'[r].url = task[r].host /\ (live'[r] = live[r] \/ live'[r] = Nil)
    BY <1>0, <1>11, RecallStep
  <2>1. UNCHANGED held /\ task'[r].at = "none" /\ task[r].at = "recall"
        /\ runs'[r].url = task[r].host /\ live'[r] \in {live[r], Nil}
    BY <2>0, <2>2 DEF NoTask
  <2> QED BY <1>0, <1>2, <1>4, <2>1 DEF SentTo
<1>12. CASE TaskPost(r)
  <2>1. /\ task[r].at = "post" /\ live'[r] = task[r].host /\ task[r].host \in Host
        /\ UNCHANGED runs
        /\ held' = [held EXCEPT ![task[r].host] = r]
        /\ \/ task'[r].at = "confirm" /\ task'[r].host = task[r].host
           \/ task'[r].at = "fail"
    BY <1>0, <1>12, PostStep DEF TaskTo
  <2>2. runs[r].pin # 0 /\ task[r].rows[task[r].host].id = runs[r].pin
    BY <1>0, <1>12, <2>1 DEF SentTo
  <2>3. task[r].host \in DOMAIN task[r].rows
    BY <1>0, <2>1 DEF TaskFits
  <2>4. task[r].host = home
    BY <1>0, <2>2, <2>3 DEF Given, AskedFor
  <2>5. \A h \in Host : held'[h] = r => h = home
    <3>1. held \in [Host -> 0..Len(runs)]
      BY DEF TypeInv, RunsOK
    <3> QED BY <1>0, <2>1, <2>4, <3>1 DEF SentTo
  <2> QED BY <1>0, <2>1, <2>4, <2>5 DEF SentTo
<1> QED BY <1>5, <1>6, <1>7, <1>8, <1>9, <1>10, <1>11, <1>12 DEF TaskStep

LEMMA TasksHome ==
  ASSUME TypeInv, CallInv, TaskInv, FreeInv, NEW own, NEW next, NEW home \in Host \cup {Nil},
         Given(own), HomeInv(own, home), Extends(own, next), NEW r \in RunId, TaskStep(r)
  PROVE  \E place \in Host \cup {Nil} : HomeInv(next, place)'
PROOF
<1>1. /\ TaskFrame(r) /\ r \in 1..Len(runs)
      /\ \A h \in Host : held'[h] = held[h] \/ (held'[h] = r /\ IsLoop(r))
  BY TaskSteps DEF TaskFrame
<1>2. SameRuns /\ Len(runs') = Len(runs) /\ UNCHANGED <<call, rollout>>
  BY <1>1, NumbersType DEF TaskFrame, SameRuns
<1>3. Loops' = Loops /\ Launches' = Launches
  BY <1>2, LoopsThen
<1>4. ASSUME NEW q \in Loops, q # r, NEW place, SentTo(q, place) PROVE SentTo(q, place)'
  <2>1. q \in 1..Len(runs) /\ q \in RunId
    BY LoopFacts
  <2>2. /\ task'[q] = task[q] /\ live'[q] = live[q] /\ runs'[q] = runs[q]
        /\ \A h \in Host : held'[h] = q => held[h] = q
    BY <1>1, <1>4, <2>1 DEF TaskFrame
  <2> QED BY <1>4, <2>2, SentRests
\* A loop without a pin is the only one, and nothing else was asked for.
<1>5. CASE TaskPost(r) /\ r \in Loops /\ runs[r].pin = 0
  <2>1. TaskFits(r) /\ IsLoop(r)
    BY <1>1, <1>5, LoopFacts DEF TaskInv
  <2>2. /\ task[r].at = "post" /\ live'[r] = task[r].host /\ task[r].host \in Host
        /\ UNCHANGED runs
        /\ held' = [held EXCEPT ![task[r].host] = r]
        /\ \/ task'[r].at = "confirm" /\ task'[r].host = task[r].host
           \/ task'[r].at = "fail"
    BY <1>5, <2>1, PostStep DEF TaskTo
  <2>3. runs[r].url = Nil /\ \A h \in Host : held[h] # r
    BY <2>1, <2>2 DEF TaskFits, Unrouted, Unsent
  <2>4. r \in Launches
    <3>1. runs[r].mode # "relaunch"
      BY <1>5 DEF FreeInv
    <3>2. runs[r].mode \in {"launch", "relaunch", "build"}
      BY <1>5, LoopFacts DEF Run
    <3> QED BY <1>1, <2>1, <3>1, <3>2 DEF Launches, IsLoop
  <2>5. PICK place \in Host \cup {Nil} : place = task[r].host
    BY <2>2
  <2>6. ASSUME Cardinality(Launches) <= 1
        PROVE  (\A q \in Loops' : SentTo(q, place)') /\ AskedFor(next, place)'
    <3>1. Loops = {r} /\ Unasked
      BY <1>5, <2>3, <2>4, <2>6 DEF FreeInv
    <3>2. \A h \in Host : held'[h] = r => h = place
      <4>1. held \in [Host -> 0..Len(runs)]
        BY DEF TypeInv, RunsOK
      <4> QED BY <2>2, <2>3, <2>5, <4>1
    <3>3. SentTo(r, place)'
      BY <1>5, <2>2, <2>3, <2>5, <3>2 DEF SentTo
    <3>4. Unasked'
      BY <1>2, <3>1 DEF Unasked
    <3> QED BY <1>3, <1>5, <2>2, <3>1, <3>3, <3>4 DEF AskedFor, Unasked
  <2> QED BY <1>3, <2>6 DEF HomeInv
<1>6. CASE ~(TaskPost(r) /\ r \in Loops /\ runs[r].pin = 0)
  <2>1. ASSUME Cardinality(Launches) <= 1, NEW q \in Loops PROVE SentTo(q, home)'
    <3>1. (\A p \in Loops : SentTo(p, home)) /\ AskedFor(own, home)
      BY <2>1 DEF HomeInv
    <3>2. CASE q # r
      BY <1>4, <3>1, <3>2
    <3>3. CASE q = r
      BY <1>6, <3>1, <3>3, SentMoves
    <3> QED BY <3>2, <3>3
  <2>2. HomeInv(next, home)'
    BY <1>2, <2>1, HomeRests
  <2> QED BY <2>2
<1> QED BY <1>5, <1>6

LEMMA EnvironmentHome ==
  ASSUME TypeInv, TaskInv, NEW own, NEW next, NEW home \in Host \cup {Nil},
         HomeInv(own, home), Extends(own, next), Environment
  PROVE  HomeInv(next, home)'
PROOF
<1>0. ASSUME SameRuns, Len(runs') = Len(runs), rollout'.pin = rollout.pin,
             \A c \in Caller : call'[c] = call[c] \/ call'[c] = NoCall,
             \A r \in Loops : SentTo(r, home) => SentTo(r, home)'
      PROVE  HomeInv(next, home)'
  <2>1. ~Asks(NoCall)
    BY DEF Asks, NoCall
  <2>2. Cardinality(Launches) <= 1 => \A r \in Loops : SentTo(r, home)'
    BY <1>0 DEF HomeInv
  <2> QED BY <1>0, <2>1, <2>2, HomeRests
<1>1. ASSUME UNCHANGED <<runs, task, call, machine>>, rollout'.pin = rollout.pin
      PROVE  HomeInv(next, home)'
  <2>1. \A r \in Loops : SentTo(r, home) => SentTo(r, home)'
    BY <1>1, SentRests DEF machine
  <2> QED BY <1>0, <1>1, <2>1, SameRunsKept
<1>2. ASSUME NEW h \in Host, NEW yes \in BOOLEAN, NEW drained \in BOOLEAN,
             HostChange(h, yes, drained)
      PROVE  HomeInv(next, home)'
  BY <1>1, <1>2, ChangesKeep
<1>3. CASE Close
  BY <1>1, <1>3, PinKept DEF Close
<1>4. ASSUME NEW q \in RunId, WorkEnds(q) \/ LoopCrash(q) PROVE HomeInv(next, home)'
  <2>1. UNCHANGED <<runs, task, call, rollout>>
    BY <1>4, WorkEndsStep
  <2>2. ASSUME NEW r \in Loops, SentTo(r, home) PROVE SentTo(r, home)'
    <3>1. r \in RunId /\ r # 0
      BY LoopFacts, NumbersType DEF RunId
    <3>2. live'[r] \in {live[r], Nil} /\ \A h \in Host : held'[h] = r => held[h] = r
      BY <1>4, <3>1, WorkEndsStep
    <3> QED BY <2>1, <2>2, <3>2, SentRests
  <2> QED BY <1>0, <2>1, <2>2, SameRunsKept
<1>5. ASSUME NEW h \in Host, Readopt(h) PROVE HomeInv(next, home)'
  <2>1. UNCHANGED <<runs, task, call, rollout, held>>
    BY <1>5, ReadoptStep
  <2>2. ASSUME NEW r \in Loops, SentTo(r, home) PROVE SentTo(r, home)'
    <3>1. r \in RunId
      BY LoopFacts
    <3>2. CASE r = held[h]
      <4>1. live'[r] = home
        BY <1>5, <2>2, <3>2, ReadoptStep DEF SentTo
      <4> QED BY <2>1, <2>2, <4>1 DEF SentTo
    <3>3. CASE r # held[h]
      BY <1>5, <2>1, <2>2, <3>1, <3>3, ReadoptStep, SentRests
    <3> QED BY <3>2, <3>3
  <2> QED BY <1>0, <2>1, <2>2, SameRunsKept
<1>6. ASSUME NEW reach \in SUBSET Host, Restart(reach) PROVE HomeInv(next, home)'
  <2>1. /\ UNCHANGED rollout /\ live' = live /\ held' = held
        /\ SameRuns /\ Len(runs') = Len(runs)
        /\ call' = [c \in Caller |-> NoCall]
    BY <1>6, RestartStep DEF machine
  <2>2. ASSUME NEW r \in Loops, SentTo(r, home) PROVE SentTo(r, home)'
    <3>1. r \in 1..Len(runs)
      BY LoopFacts
    <3>2. runs'[r].url = runs[r].url /\ runs'[r].pin = runs[r].pin
      BY <1>6, <3>1, RestartStep DEF SameRuns
    <3>3. task'[r].at \in {"none", "watch"}
      <4>1. \/ task'[r] = NoTask
            \/ task'[r] = [NoTask EXCEPT !.at = "watch", !.host = runs[r].url]
        BY <1>6, <3>1, RestartStep
      <4>2. CASE task'[r] = NoTask
        BY <4>2 DEF NoTask
      <4>3. CASE task'[r] = [NoTask EXCEPT !.at = "watch", !.host = runs[r].url]
        BY <4>3 DEF NoTask
      <4> QED BY <4>1, <4>2, <4>3
    <3> QED BY <2>1, <2>2, <3>2, <3>3, SentRests
  <2> QED BY <1>0, <2>1, <2>2
<1>7. \/ \E h \in Host, yes \in BOOLEAN, drained \in BOOLEAN : HostChange(h, yes, drained)
      \/ \E h \in Host : Readopt(h)
      \/ \E r \in RunId : WorkEnds(r) \/ LoopCrash(r)
      \/ Close
      \/ \E reach \in SUBSET Host : Restart(reach)
  BY DEF Environment, HostChange
<1> QED BY <1>2, <1>3, <1>4, <1>5, <1>6, <1>7

LEMMA OwnerInvKept ==
  ASSUME TypeInv, CallInv, TaskInv, FreeInv, OwnerInv, [Next]_vars
  PROVE  OwnerInv'
PROOF
<1>1. PICK own \in [1..ids -> Host], home \in Host \cup {Nil} : Given(own) /\ HomeInv(own, home)
  BY DEF OwnerInv
<1>2. PICK next : Given(next)' /\ Extends(own, next)
  BY <1>1, IdsStep, GivenOn
<1>3. \E place \in Host \cup {Nil} : HomeInv(next, place)'
  <2>1. CASE UNCHANGED vars
    <3>1. UNCHANGED <<runs, task, call, machine, rollout>>
      BY <2>1 DEF vars
    <3>2. \A r \in Loops : SentTo(r, home) => SentTo(r, home)'
      BY <3>1, SentRests DEF machine
    <3>3. Cardinality(Launches) <= 1 => \A r \in Loops : SentTo(r, home)'
      BY <1>1, <3>2 DEF HomeInv
    <3>4. HomeInv(next, home)'
      BY <1>1, <1>2, <3>1, <3>3, SameRunsKept, HomeRests
    <3> QED BY <3>4
  <2>2. ASSUME NEW c \in Caller, Ask(c) \/ CallStep(c)
        PROVE  \E place \in Host \cup {Nil} : HomeInv(next, place)'
    BY <1>1, <1>2, <2>2, CallsHome, InsertsHome
  <2>3. ASSUME NEW r \in RunId, TaskStep(r)
        PROVE  \E place \in Host \cup {Nil} : HomeInv(next, place)'
    BY <1>1, <1>2, <2>3, TasksHome
  <2>4. CASE Environment
    BY <1>1, <1>2, <2>4, EnvironmentHome
  <2> QED BY <2>1, <2>2, <2>3, <2>4 DEF Next
<1> QED BY <1>2, <1>3 DEF OwnerInv, Given

LEMMA OwnerCorrect ==
  ASSUME TypeInv, OwnerInv
  PROVE  OneLoop /\ OwnerIsRight
PROOF
<1>1. PICK own \in [1..ids -> Host], home \in Host \cup {Nil} : Given(own) /\ HomeInv(own, home)
  BY DEF OwnerInv
<1>2. ASSUME Cardinality(Launches) <= 1 PROVE Cardinality({live[r] : r \in Loops} \ {Nil}) <= 1
  <2>1. PICK S : S = {live[r] : r \in Loops} \ {Nil}
    OBVIOUS
  <2>2. S \subseteq {home}
    BY <1>1, <1>2, <2>1 DEF HomeInv, SentTo
  <2>3. IsFiniteSet(S)
    BY <2>2, FS_Singleton, FS_Subset
  <2>4. Cardinality(S) <= 1
    BY <2>2, <2>3, AtMostOne
  <2> QED BY <2>1, <2>4
<1>3. ASSUME Cardinality(Launches) <= 1, NEW r \in Loops, live[r] # Nil
      PROVE  LoopHost \subseteq {live[r]}
  <2>1. live[r] = home /\ AskedFor(own, home) /\ \A q \in Loops : SentTo(q, home)
    BY <1>1, <1>3 DEF HomeInv, SentTo
  <2>2. CASE rollout.pin # 0
    BY <1>1, <2>1, <2>2 DEF LoopHost, WithId, AskedFor, Given
  <2>3. CASE rollout.pin = 0
    <3>1. Latest(Loops) \in Loops
      BY <1>3, LatestLoop
    <3>2. runs[Latest(Loops)].url \in {home, Nil}
      BY <2>1, <3>1 DEF SentTo
    <3> QED BY <1>3, <2>1, <2>3, <3>2 DEF LoopHost
  <2> QED BY <2>2, <2>3
<1> QED BY <1>2, <1>3 DEF OneLoop, OwnerIsRight

-----------------------------------------------------------------------------
(* Refusals *)

UnmetFits(r) ==
  /\ task[r].at # "fail" => task[r].why = "none"
  /\ task[r].why = "unmet" =>
       \A h \in DOMAIN task[r].rows : runs[r].pin = 0 \/ task[r].rows[h].id = runs[r].pin
                                        => ~Qualified(task[r].rows[h], Need)

LEMMA UnmetParts ==
  ASSUME \A r \in 1..Len(runs') : UnmetFits(r)'
  PROVE  UnmetInv'
PROOF BY DEF UnmetInv, UnmetFits

LEMMA UnmetRests ==
  ASSUME UnmetInv, NEW r \in 1..Len(runs), task'[r] = task[r], runs'[r].pin = runs[r].pin
  PROVE  UnmetFits(r)'
PROOF BY DEF UnmetInv, UnmetFits

LEMMA UnmetNone ==
  ASSUME NEW r, task'[r].why # "unmet", task'[r].at # "fail" => task'[r].why = "none"
  PROVE  UnmetFits(r)'
PROOF BY DEF UnmetFits

\* No host of those the run may go to has the labels, drained or not.
LEMMA UnmetRefusal ==
  ASSUME NEW rows, NEW id, NEW allow, NEW out, NEW info,
         \A g, h \in DOMAIN rows : rows[g].id = rows[h].id => g = h,
         "unmet" \in Refused(rows, id, Need, allow, out, info)
  PROVE  \A h \in DOMAIN rows : id = 0 \/ rows[h].id = id => ~Qualified(rows[h], Need)
PROOF
<1>1. CASE id # 0
  <2>1. "unmet" \in PinnedRefusals(rows, id, Need, allow, info)
    BY <1>1 DEF Refused
  <2>2. \E h \in WithId(rows, id) : ~Qualified(rows[h], Need)
    BY <2>1 DEF PinnedRefusals
  <2> QED BY <1>1, <2>2 DEF WithId
<1>2. CASE id = 0
  <2>1. "unmet" \in AutoRefusals(rows, Need, out, info)
    BY <1>2 DEF Refused
  <2>2. /\ LabelOk(rows, Need) = {}
        /\ {h \in DOMAIN rows : rows[h].drained /\ Qualified(rows[h], Need)} = {}
    BY <2>1 DEF AutoRefusals
  <2> QED BY <2>2 DEF LabelOk, Undrained
<1> QED BY <1>1, <1>2

LEMMA PickUnmet ==
  ASSUME TypeInv, TaskInv, UnmetInv, OwnerInv, NEW r \in RunId, TaskPick(r)
  PROVE  UnmetFits(r)'
PROOF
<1>0. /\ TaskFrame(r) /\ r \in 1..Len(runs) /\ UNCHANGED runs /\ task[r].at = "pick"
      /\ task[r].why = "none"
  BY PickStep DEF TaskFrame, UnmetInv
<1>1. ASSUME NEW why \in Refusal, FailWith(r, why),
             why = "unmet" => \A h \in DOMAIN task[r].rows :
               runs[r].pin = 0 \/ task[r].rows[h].id = runs[r].pin
                 => ~Qualified(task[r].rows[h], Need)
      PROVE  UnmetFits(r)'
  <2>1. task'[r].at = "fail" /\ task'[r].why = why /\ task'[r].rows = task[r].rows
    BY <1>1, FailsWith DEF Reasons
  <2> QED BY <1>0, <1>1, <2>1 DEF UnmetFits
<1>2. ASSUME TaskEnd(r) PROVE UnmetFits(r)'
  BY <1>2, EndsAt, UnmetNone DEF NoTask
<1>3. ASSUME NEW h \in DOMAIN task[r].rows,
             task' = [task EXCEPT ![r].at = "post", ![r].host = h]
      PROVE  UnmetFits(r)'
  <2>1. task'[r].at = "post" /\ task'[r].why = task[r].why
    BY <1>3 DEF TypeInv, TasksOK, TaskType
  <2> QED BY <1>0, <2>1, UnmetNone
<1>4. \A g, h \in DOMAIN task[r].rows : task[r].rows[g].id = task[r].rows[h].id => g = h
  BY DEF OwnerInv, Given
<1>5. \E info :
         \/ TaskEnd(r)
         \/ \E why \in Refused(task[r].rows, runs[r].pin, Need, runs[r].allow, task[r].out, info) :
              FailWith(r, why)
         \/ \E h \in Picked(task[r].rows, runs[r].pin, Need, runs[r].allow, task[r].out, info) :
              task' = [task EXCEPT ![r].at = "post", ![r].host = h]
  BY DEF TaskPick
<1>6. ASSUME NEW info,
             NEW why \in Refused(task[r].rows, runs[r].pin, Need, runs[r].allow, task[r].out, info),
             FailWith(r, why)
      PROVE  UnmetFits(r)'
  <2>1. why \in Refusal
    BY <1>6 DEF Refused, PinnedRefusals, AutoRefusals
  <2>2. why = "unmet" => \A h \in DOMAIN task[r].rows :
               runs[r].pin = 0 \/ task[r].rows[h].id = runs[r].pin
                 => ~Qualified(task[r].rows[h], Need)
    BY <1>4, <1>6, UnmetRefusal
  <2> QED BY <1>1, <1>6, <2>1, <2>2
<1> QED BY <1>2, <1>3, <1>5, <1>6, PickedRow

LEMMA TaskStepUnmet ==
  ASSUME TypeInv, TaskInv, UnmetInv, OwnerInv, NEW r \in RunId, TaskStep(r)
  PROVE  UnmetFits(r)'
PROOF
<1>0. r \in 1..Len(runs) /\ UnmetFits(r)
  BY TaskSteps DEF TaskFrame, UnmetInv, UnmetFits
<1>1. ASSUME task'[r] = NoTask PROVE UnmetFits(r)'
  BY <1>1, UnmetNone DEF NoTask
<1>2. ASSUME task[r].at # "fail", task'[r].why = task[r].why PROVE UnmetFits(r)'
  BY <1>0, <1>2, UnmetNone DEF UnmetFits
<1>3. ASSUME task'[r].at = "fail", task'[r].why \in {"full", "lost"} PROVE UnmetFits(r)'
  BY <1>3, UnmetNone
<1>4. CASE TaskStatus(r) \/ TaskConfirm(r) \/ TaskWrite(r)
  <2>1. task'[r] = NoTask \/ (task[r].at # "fail" /\ task'[r].why = task[r].why)
    BY <1>4, StatusStep, ConfirmStep, WriteStep DEF TaskTo
  <2> QED BY <1>1, <1>2, <2>1
<1>5. CASE TaskHosts(r)
  BY <1>2, <1>5, HostsStep DEF TaskTo
<1>6. CASE TaskPick(r)
  BY <1>6, PickUnmet
<1>7. CASE TaskPost(r) \/ TaskRefused(r)
  <2>1. \/ task[r].at # "fail" /\ task'[r].why = task[r].why
        \/ task'[r].at = "fail" /\ task'[r].why \in {"full", "lost"}
    BY <1>7, PostStep, RefusedStep DEF TaskTo
  <2> QED BY <1>2, <1>3, <2>1
<1>8. CASE TaskTwin(r) \/ TaskFail(r) \/ TaskWatch(r) \/ TaskRecall(r)
  BY <1>1, <1>8, TwinStep, FailStep, WatchStep, RecallStep
<1> QED BY <1>4, <1>5, <1>6, <1>7, <1>8 DEF TaskStep

LEMMA UnmetInvKept ==
  ASSUME TypeInv, CallInv, TaskInv, OwnerInv, UnmetInv, [Next]_vars
  PROVE  UnmetInv'
PROOF
<1>0. \A r \in 1..Len(runs) : r \in RunId
  BY NumbersType DEF TypeInv, RunsOK, RunId
<1>1. ASSUME SameRuns, Len(runs') = Len(runs), UNCHANGED task PROVE UnmetInv'
  <2>1. ASSUME NEW r \in 1..Len(runs) PROVE UnmetFits(r)'
    BY <1>1, UnmetRests DEF SameRuns
  <2> QED BY <1>1, <2>1, UnmetParts
<1>2. CASE UNCHANGED vars
  BY <1>1, <1>2, SameRunsKept DEF vars
<1>3. ASSUME NEW c \in Caller, Ask(c) \/ CallStep(c) PROVE UnmetInv'
  <2>1. CASE ~Insert(c) /\ UNCHANGED task
    BY <1>1, <1>3, <2>1, CallsRuns
  <2>2. CASE Enqueue(c)
    <3>1. PICK q \in RunId : q = call[c].run
      BY <2>2, EnqueueStep
    <3>2. /\ q \in 1..Len(runs) /\ task[q].at = "none"
          /\ task'[q].at = "status" /\ task'[q].why = task[q].why
          /\ \A p \in RunId \ {q} : task'[p] = task[p]
          /\ UNCHANGED runs
      BY <2>2, <3>1, EnqueueStep
    <3>3. UnmetFits(q)'
      BY <3>2, UnmetNone DEF UnmetInv
    <3>4. ASSUME NEW r \in 1..Len(runs), r # q PROVE UnmetFits(r)'
      BY <1>0, <3>2, <3>4, UnmetRests
    <3> QED BY <3>2, <3>3, <3>4, UnmetParts
  <2>3. CASE Insert(c)
    <3>1. PICK mode \in {"launch", "relaunch", "build"}, next \in CallPlaces :
            InsertRun(c, mode, next)
      BY <2>3 DEF Insert, LaunchInsert, ResumeInsert, BuildInsert, CallPlaces
    <3>2. PICK n \in Nat : n = Len(runs) + 1
      BY NumbersType
    <3>3. /\ Len(runs') = n /\ SameRuns /\ task[n] = NoTask
      BY <3>1, <3>2, InsertStep
    <3>4. UNCHANGED task
      BY <3>1 DEF InsertRun
    <3>5. UnmetFits(n)'
      BY <3>3, <3>4, UnmetNone DEF NoTask
    <3>6. ASSUME NEW r \in 1..Len(runs) PROVE UnmetFits(r)'
      BY <3>3, <3>4, UnmetRests DEF SameRuns
    <3>7. \A r \in 1..Len(runs') : r \in 1..Len(runs) \/ r = n
      BY <3>2, <3>3, NumbersType
    <3> QED BY <3>5, <3>6, <3>7, UnmetParts
  <2> QED BY <1>3, <2>1, <2>2, <2>3, CallsRead
<1>4. ASSUME NEW r \in RunId, TaskStep(r) PROVE UnmetInv'
  <2>1. TaskFrame(r)
    BY <1>4, TaskSteps
  <2>2. ASSUME NEW q \in 1..Len(runs), q # r PROVE UnmetFits(q)'
    BY <1>0, <2>1, <2>2, UnmetRests DEF TaskFrame
  <2>3. UnmetFits(r)'
    BY <1>4, TaskStepUnmet
  <2> QED BY <2>1, <2>2, <2>3, UnmetParts DEF TaskFrame
<1>5. CASE Environment
  <2>1. ASSUME UNCHANGED <<runs, task>> PROVE UnmetInv'
    BY <1>1, <2>1, SameRunsKept
  <2>2. ASSUME NEW h \in Host, NEW yes \in BOOLEAN, NEW drained \in BOOLEAN,
               HostChange(h, yes, drained)
        PROVE  UnmetInv'
    BY <2>1, <2>2, ChangesKeep
  <2>3. CASE Close
    BY <2>1, <2>3 DEF Close
  <2>4. ASSUME NEW q \in RunId, WorkEnds(q) \/ LoopCrash(q) PROVE UnmetInv'
    BY <2>1, <2>4, WorkEndsStep
  <2>5. ASSUME NEW h \in Host, Readopt(h) PROVE UnmetInv'
    BY <2>1, <2>5, ReadoptStep
  <2>6. ASSUME NEW reach \in SUBSET Host, Restart(reach) PROVE UnmetInv'
    <3>1. ASSUME NEW r \in 1..Len(runs) PROVE UnmetFits(r)'
      <4>1. \/ task'[r] = NoTask
            \/ task'[r] = [NoTask EXCEPT !.at = "watch", !.host = runs[r].url]
        BY <2>6, RestartStep
      <4>2. CASE task'[r] = NoTask
        BY <4>2, UnmetNone DEF NoTask
      <4>3. CASE task'[r] = [NoTask EXCEPT !.at = "watch", !.host = runs[r].url]
        BY <4>3, UnmetNone DEF NoTask
      <4> QED BY <4>1, <4>2, <4>3
    <3> QED BY <2>6, <3>1, RestartStep, UnmetParts
  <2>7. \/ \E h \in Host, yes \in BOOLEAN, drained \in BOOLEAN : HostChange(h, yes, drained)
        \/ \E h \in Host : Readopt(h)
        \/ \E r \in RunId : WorkEnds(r) \/ LoopCrash(r)
        \/ Close
        \/ \E reach \in SUBSET Host : Restart(reach)
    BY <1>5 DEF Environment, HostChange
  <2> QED BY <2>2, <2>3, <2>4, <2>5, <2>6, <2>7
<1> QED BY <1>2, <1>3, <1>4, <1>5 DEF Next

-----------------------------------------------------------------------------
(* The initial states *)

LEMMA Numbered ==
  /\ Number \in [Host -> 1..Cardinality(Host)]
  /\ \A g, h \in Host : Number[g] = Number[h] => g = h
  /\ \E own \in [1..Cardinality(Host) -> Host] : \A h \in Host : own[Number[h]] = h
PROOF
<1>1. PICK n \in Nat : ExistsBijection(1..n, Host)
  BY FS_NatBijection, LoopAssumption
<1>2. n = Cardinality(Host)
  BY <1>1, FS_CountingElements
<1>3. PICK f \in Bijection(1..n, Host) : TRUE
  BY <1>1 DEF ExistsBijection
<1>4. f \in [1..n -> Host] /\ \A h \in Host : \E i \in 1..n : f[i] = h
  BY <1>3 DEF Bijection, Injection, Surjection
<1>5. \E m \in [Host -> 1..n] : \A g, h \in Host : m[g] = m[h] => g = h
  <2>1. PICK m : m = [h \in Host |-> CHOOSE i \in 1..n : f[i] = h]
    OBVIOUS
  <2>2. \A h \in Host : m[h] \in 1..n /\ f[m[h]] = h
    BY <1>4, <2>1
  <2>3. m \in [Host -> 1..n]
    BY <2>1, <2>2
  <2>4. \A g, h \in Host : m[g] = m[h] => g = h
    BY <2>2
  <2> QED BY <2>3, <2>4
<1>6. /\ Number \in [Host -> 1..n]
      /\ \A g, h \in Host : Number[g] = Number[h] => g = h
  BY <1>2, <1>5 DEF Number
<1>7. \E own \in [1..n -> Host] : \A h \in Host : own[Number[h]] = h
  <2>1. PICK own : own = [i \in 1..n |-> IF \E h \in Host : Number[h] = i
                                         THEN CHOOSE h \in Host : Number[h] = i ELSE f[i]]
    OBVIOUS
  <2>2. own \in [1..n -> Host]
    BY <1>4, <2>1
  <2>3. ASSUME NEW h \in Host PROVE own[Number[h]] = h
    <3>1. PICK i \in 1..n : i = Number[h]
      BY <1>6
    <3>2. own[i] = CHOOSE g \in Host : Number[g] = i
      BY <2>1, <3>1
    <3>3. own[i] \in Host /\ Number[own[i]] = i
      BY <3>1, <3>2
    <3> QED BY <1>6, <3>1, <3>3
  <2> QED BY <2>2, <2>3
<1> QED BY <1>2, <1>6, <1>7

LoopIInv == /\ TypeInv /\ CallInv /\ TaskInv /\ StopInv /\ FinalInv
            /\ DrainInv /\ FreeInv /\ OwnerInv /\ UnmetInv

LEMMA InitType == ASSUME Init PROVE TypeInv
PROOF
<1>1. /\ rollout = [status |-> "pending", pin |-> 0] /\ runs = <<>>
      /\ task = [r \in RunId |-> NoTask] /\ live = [r \in RunId |-> Nil]
      /\ held = [h \in Host |-> 0] /\ ids = Cardinality(Host)
      /\ call = [c \in Caller |-> NoCall]
      /\ asked \in 0..MaxCalls /\ changes = 0 /\ faults = 0
      /\ drainedAt = [h \in Host |-> 0]
  BY DEF Init, Unlaunched, Idle
<1>2. PICK listed \in SUBSET Host, qualified \in SUBSET Host :
        reg = [h \in listed |-> [id |-> Number[h], drained |-> FALSE,
                                 labels |-> IF h \in qualified THEN Label ELSE {}]]
  BY DEF Init, Idle
<1>3. Cardinality(Host) \in Nat /\ {MaxRuns, MaxCalls, MaxChanges, MaxFaults} \subseteq Nat
  BY FS_CardinalityType, LoopAssumption
<1>4. \A h \in listed : Number[h] \in 1..Cardinality(Host)
  BY Numbered
<1>5. HostsOK
  <2>1. reg \in [listed -> Row]
    BY <1>2, <1>3, <1>4 DEF Row
  <2>2. reg \in Rows
    BY <2>1 DEF Rows
  <2>3. \A h \in DOMAIN reg : reg[h].id \in 1..ids
    BY <1>1, <1>2, <1>4
  <2> QED BY <1>1, <1>3, <2>2, <2>3 DEF HostsOK
<1>6. RunsOK
  <2>1. Len(runs) = 0 /\ runs \in Seq(Run)
    BY <1>1
  <2>2. rollout \in [status : Status, pin : 0..ids]
    BY <1>1, <1>3 DEF Status
  <2>3. held \in [Host -> 0..Len(runs)] /\ live \in [RunId -> Host \cup {Nil}]
    BY <1>1, <2>1
  <2> QED BY <1>1, <1>3, <2>1, <2>2, <2>3 DEF RunsOK
<1>7. TasksOK
  <2>1. TaskOf(NoTask)
    BY NoTaskOf DEF TaskOf
  <2> QED BY <1>1, <2>1, NoTaskOf DEF TasksOK, TaskOf
<1>8. CallsOK
  <2>1. NoCall \in CallType /\ NoCall.id = 0 /\ NoCall.run = 0 /\ NoCall.todo = {}
    BY NoCallFits DEF NoCall
  <2>2. CallOf(NoCall)
    BY <1>1, <1>3, <2>1 DEF CallOf
  <2> QED BY <1>1, <2>1, <2>2 DEF CallsOK
<1>9. BoundsOK
  BY <1>1, <1>3 DEF BoundsOK
<1> QED BY <1>5, <1>6, <1>7, <1>8, <1>9 DEF TypeInv

LEMMA InitInv == ASSUME Init PROVE LoopIInv
PROOF
<1>1. /\ rollout = [status |-> "pending", pin |-> 0] /\ runs = <<>>
      /\ task = [r \in RunId |-> NoTask] /\ live = [r \in RunId |-> Nil]
      /\ held = [h \in Host |-> 0] /\ ids = Cardinality(Host)
      /\ call = [c \in Caller |-> NoCall]
  BY DEF Init, Unlaunched, Idle
<1>2. PICK listed \in SUBSET Host, qualified \in SUBSET Host :
        reg = [h \in listed |-> [id |-> Number[h], drained |-> FALSE,
                                 labels |-> IF h \in qualified THEN Label ELSE {}]]
  BY DEF Init, Idle
<1>3. Len(runs) = 0 /\ 1..Len(runs) = {} /\ Loops = {} /\ Launches = {}
  <2>1. Len(runs) = 0
    BY <1>1
  <2> QED BY <2>1 DEF Loops, Launches
<1>4. \A c \in Caller : call[c] = NoCall
  BY <1>1
<1>5. /\ NoCall.op = "none" /\ NoCall.at = "none" /\ NoCall.todo = {}
      /\ ~Asks(NoCall) /\ ~Decided(NoCall) /\ Written(NoCall)
  BY DEF NoCall, Asks, Decided, Written
<1>6. TypeInv
  BY InitType
<1>7. CallInv
  BY <1>4, <1>5, NoCallFits DEF CallInv
<1>8. TaskInv /\ StopInv /\ DrainInv /\ UnmetInv
  BY <1>3, <1>4, <1>5 DEF TaskInv, StopInv, DrainInv, UnmetInv
<1>9. FinalInv
  BY <1>4, <1>5 DEF FinalInv
<1>10. rollout.pin = 0 /\ Unasked
  BY <1>1, <1>4, <1>5 DEF Unasked
<1>11. FreeInv
  BY <1>3, <1>4, <1>5, <1>10 DEF FreeInv, At
<1>12. OwnerInv
  <2>1. PICK own \in [1..Cardinality(Host) -> Host] : \A h \in Host : own[Number[h]] = h
    BY Numbered
  <2>2. \A r \in RunId : DOMAIN task[r].rows = {}
    BY <1>1, NoTaskOf
  <2>3. \A h \in DOMAIN reg : own[reg[h].id] = h
    BY <1>2, <2>1
  <2>4. Given(own)
    BY <1>1, <2>1, <2>2, <2>3 DEF Given
  <2>5. HomeInv(own, Nil)
    BY <1>3, <1>10 DEF HomeInv, AskedFor, Unasked
  <2> QED BY <1>1, <2>1, <2>4, <2>5 DEF OwnerInv
<1> QED BY <1>6, <1>7, <1>8, <1>9, <1>11, <1>12 DEF LoopIInv

LEMMA NextInv == ASSUME LoopIInv, [Next]_vars PROVE LoopIInv'
PROOF BY TypeInvKept, CallInvKept, TaskInvKept, StopInvKept, FinalInvKept, DrainInvKept,
         FreeInvKept, OwnerInvKept, UnmetInvKept DEF LoopIInv

LEMMA TypesCorrect == ASSUME TypeInv, CallInv, TaskInv PROVE TypeOK
PROOF
<1>1. ids <= MaxId
  <2>1. Cardinality(Host) \in Nat /\ MaxChanges \in Nat /\ changes \in 0..MaxChanges
    BY FS_CardinalityType, LoopAssumption DEF TypeInv, HostsOK
  <2> QED BY <2>1 DEF TypeInv, HostsOK, MaxId
<1>2. ASSUME NEW h \in DOMAIN reg
      PROVE  reg[h] \in [id : 1..ids, drained : BOOLEAN, labels : SUBSET Label]
  <2>1. reg[h] \in Row /\ reg[h].id \in 1..ids
    BY DEF TypeInv, HostsOK, Rows
  <2> QED BY <2>1 DEF Row
<1>3. ASSUME NEW r \in RunId, task[r].at \in {"post", "confirm", "write"}
      PROVE  task[r].host \in Host
  <2>1. r \in 1..Len(runs)
    BY <1>3, TaskRun
  <2> QED BY <1>3, <2>1 DEF TaskInv, TaskFits
<1>4. \A c \in Caller : call[c].run \in 0..Len(runs)
  BY CallFacts, NumbersType
<1> QED BY <1>1, <1>2, <1>3, <1>4 DEF TypeOK, TypeInv, HostsOK, RunsOK, TasksOK, BoundsOK, Rows

-----------------------------------------------------------------------------
(* Theorems *)

\* The inductive invariant of the module.
THEOREM LoopInductive == Spec => []LoopIInv
PROOF
<1>1. Init => LoopIInv
  BY InitInv
<1>2. LoopIInv /\ [Next]_vars => LoopIInv'
  BY NextInv
<1> QED BY <1>1, <1>2, PTL DEF Spec

\* One host drives a rollout that was launched once, and the board names that
\* host or none, whatever is added, drained, removed, lost or restarted.
THEOREM LoopCorrect == Spec => []LoopInv
PROOF
<1>1. LoopIInv => LoopInv
  BY TypesCorrect, OwnerCorrect DEF LoopIInv, LoopInv
<1> QED BY <1>1, LoopInductive, PTL

\* A cancel leaves no agent on a build, but for those that are excused, that
\* another request is stopping, or that their task recalls.
THEOREM CancelReaches == Spec => []StopReachesChildren
PROOF
<1>1. LoopIInv => StopReachesChildren
  BY StopCorrect DEF LoopIInv
<1> QED BY <1>1, LoopInductive, PTL

\* "unmet" is said only when no host the run may go to has the labels.
THEOREM UnmetCorrect == Spec => []UnmetIsFinal
PROOF
<1>1. LoopIInv => UnmetIsFinal
  <2> SUFFICES ASSUME LoopIInv, NEW r \in 1..Len(runs), task[r].at = "fail", task[r].why = "unmet",
                      NEW h \in DOMAIN task[r].rows,
                      runs[r].pin = 0 \/ task[r].rows[h].id = runs[r].pin
               PROVE  ~Qualified(task[r].rows[h], Need)
    BY DEF UnmetIsFinal
  <2> QED BY DEF LoopIInv, UnmetInv
<1> QED BY <1>1, LoopInductive, PTL

\* A host that is drained is sent no run made after the drain, unless the
\* operator asked for that host.
THEOREM DrainsHold == Spec => DrainHolds
PROOF
<1>1. ASSUME LoopIInv, [Next]_vars
      PROVE  [\A r \in 1..Len(runs) :
                LET h == live'[r] IN
                task[r].at = "post" /\ h # live[r] /\ h \in DOMAIN reg
                  => ~reg[h].drained \/ r <= drainedAt[h] \/ runs[r].allow]_vars
  BY <1>1, DrainStep DEF LoopIInv
<1> QED BY <1>1, LoopInductive, PTL DEF Spec, DrainHolds

\* Only a call that was being served when it was cancelled revives a rollout.
THEOREM CancelIsFinal == Spec => CancelledIsFinal
PROOF
<1>1. ASSUME LoopIInv, [Next]_vars
      PROVE  [rollout.status = "cancelled" /\ rollout'.status # "cancelled" =>
                \E c \in Caller : call[c].before /\ call'[c] # call[c]]_vars
  BY <1>1, CancelledStep DEF LoopIInv
<1> QED BY <1>1, LoopInductive, PTL DEF Spec, CancelledIsFinal

=============================================================================
