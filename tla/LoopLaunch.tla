----------------------------- MODULE LoopLaunch -----------------------------
(***************************************************************************)
(* The runs of one rollout and the hosts they go to: the registry of       *)
(* dispatch hosts, the launch and relaunch of the rollout's loop, the      *)
(* dispatch of its builds, halt and cancel with the stop calls they        *)
(* forward, and the worker that routes a pending run.                      *)
(*                                                                         *)
(* An action is one await and the Python code up to the next.  Rollout has *)
(* the items of a rollout and RunLifecycle a single run in detail; here a  *)
(* rollout is its status and its pin, and a run is where it was sent.      *)
(* The hosts (agent-gtd-dispatch) are external: one loop of a rollout per  *)
(* host, 503 when full, and after a restart they go on with the loops they *)
(* hold a row for.                                                         *)
(***************************************************************************)
EXTENDS Routing, Sequences, FiniteSets

CONSTANTS
  Nil,
  Legacy,    \* the host in the settings from before the registry, or Nil
  Need,      \* SUBSET Label, what project and item require together
  Caller,    \* requests served at the same time
  Mixes,     \* a bound: a behaviour has the operations of one of these sets
  MaxRuns, MaxCalls, MaxChanges, MaxFaults  \* bounds

ASSUME LoopAssumption ==
  /\ Nil \notin Host /\ IsFiniteSet(Host)
  /\ Legacy \in Host \cup {Nil}
  /\ Need \subseteq Label
  /\ {MaxRuns, MaxCalls, MaxChanges, MaxFaults} \subseteq Nat

VARIABLES
  reg,      \* Rows, dispatch_hosts of the project's owner
  ids,      \* how many row ids were given out; uuid4 repeats none
  rollout,  \* [status, pin], autonomous_rollouts; pin is a row id, 0 for none
  runs,     \* Seq(Run), claude_runs of the rollout by created_at
  task,     \* [RunId -> Task], the worker's tasks and their locals
  call,     \* [Caller -> Call], the requests being served and their locals
  live,     \* [RunId -> Host \cup {Nil}], where a run is being worked on
  held,     \* [Host -> Nat], the loop whose local row the host holds, 0 for none
  asked, changes, faults, mix,  \* bounds
  \* History, read by the properties only:
  excused,  \* children no stop reached: message lost, inserted late, overrun
  orphans,  \* runs whose launch or task ended and left them pending
  drainedAt \* [Host -> Nat], how many runs there were when the host was drained

hosts   == <<reg, ids>>
machine == <<live, held>>
bounds  == <<asked, changes, faults, mix>>
history == <<excused, orphans, drainedAt>>
vars    == <<hosts, rollout, runs, task, call, machine, bounds, history>>

-----------------------------------------------------------------------------
RunId   == 1..MaxRuns
MaxId   == Cardinality(Host) + 2 * MaxChanges + 1
Status  == {"pending", "running", "halted", "cancelled", "closed"}  \* of a rollout
Active  == {"pending", "running"}  \* of a run; cloning is as running
Run     == [mode : {"launch", "relaunch", "build"}, pin : 0..MaxId, allow : BOOLEAN,
            status : Active \cup {"ended", "cancelled", "failed"},
            url : Host \cup {Nil}, remote : BOOLEAN]
\* manage-mode runs, from dispatch_rollout_run or from resume_rollout
IsLoop(r)  == runs[r].mode # "build"
Loops      == {r \in 1..Len(runs) : IsLoop(r)}
Latest(rs) == CHOOSE r \in rs : \A q \in rs : q <= r
Drives(h)  == \E r \in Loops : live[r] = h

NoTask == [at |-> "none", rows |-> <<>>, out |-> {}, host |-> Nil, why |-> "none"]
NoCall == [op |-> "none", at |-> "none", id |-> 0, allow |-> FALSE, run |-> 0,
           saw |-> "none", todo |-> {}, before |-> FALSE]
Busy(c)   == call[c].op # "none"
At(c, op, at)  == call[c].op = op /\ call[c].at = at
Go(c, at)      == call' = [call EXCEPT ![c].at = at]
End(c)         == call' = [call EXCEPT ![c] = NoCall]
Then(c, ok, at) == IF ok THEN Go(c, at) ELSE End(c)

\* The rows there are at first have ids of their own.
Number == CHOOSE n \in [Host -> 1..Cardinality(Host)] :
            \A g, h \in Host : n[g] = n[h] => g = h

\* No loop was launched yet.
Unlaunched ==
  /\ rollout = [status |-> "pending", pin |-> 0]
  /\ runs = <<>>
  /\ task = [r \in RunId |-> NoTask]
  /\ live = [r \in RunId |-> Nil]
  /\ held = [h \in Host |-> 0]

Idle ==
  /\ mix \in Mixes
  /\ \E listed, qualified \in SUBSET Host :
       reg = [h \in listed |-> [id |-> Number[h], drained |-> FALSE,
                                labels |-> IF h \in qualified THEN Label ELSE {}]]
  /\ ids = Cardinality(Host)
  /\ call = [c \in Caller |-> NoCall]
  /\ asked \in 0..MaxCalls /\ changes = 0 /\ faults = 0
  /\ excused = {} /\ orphans = {}
  /\ drainedAt = [h \in Host |-> 0]

Init == Unlaunched /\ Idle

-----------------------------------------------------------------------------
(* The registry of hosts *)

\* get_dispatch_hosts: with no row and the old settings still there, it writes
\* their row, undrained.
Migrated == IF DOMAIN reg = {} /\ Legacy # Nil
            THEN [h \in {Legacy} |-> [id |-> ids + 1, drained |-> FALSE, labels |-> {}]]
            ELSE reg
ReadHosts == reg' = Migrated /\ ids' = IF Migrated = reg THEN ids ELSE ids + 1

\* The operator's calls: each finds the row, then writes it by its id, which
\* does nothing if the row went in between.
Change(op) ==
  /\ op \in mix /\ changes < MaxChanges
  /\ changes' = changes + 1
  /\ UNCHANGED <<rollout, runs, task, call, machine, asked, faults, mix, excused, orphans>>

\* add_dispatch_host: the URL is unique; drained unless asked otherwise.
HostAdd(h, drained, qualified) ==
  /\ Change("add")
  /\ h \notin DOMAIN reg
  /\ reg' = [g \in DOMAIN reg \cup {h} |->
               IF g = h THEN [id |-> ids + 1, drained |-> drained,
                              labels |-> IF qualified THEN Label ELSE {}]
               ELSE reg[g]]
  /\ ids' = ids + 1
  /\ drainedAt' = [drainedAt EXCEPT ![h] = Len(runs)]

\* A host may be named by id, label or part of its URL: it is one row or none.
Named(h) == h \in DOMAIN reg
\* A drained host stays so, with the new reason or the old.
DrainRow(h) == reg' = [reg EXCEPT ![h].drained = TRUE]
UndrainRow(h) == reg' = [reg EXCEPT ![h].drained = FALSE]

HostDrain(h) ==
  /\ Change("drain")
  /\ Named(h) /\ DrainRow(h)
  /\ drainedAt' = [drainedAt EXCEPT ![h] = IF reg[h].drained THEN @ ELSE Len(runs)]
  /\ UNCHANGED ids
HostUndrain(h) ==
  /\ Change("undrain")
  /\ Named(h) /\ UndrainRow(h)
  /\ UNCHANGED <<ids, drainedAt>>

HostLabels(h, qualified) ==
  /\ Change("labels")
  /\ h \in DOMAIN reg
  /\ reg' = [reg EXCEPT ![h].labels = IF qualified THEN Label ELSE {}]
  /\ UNCHANGED <<ids, drainedAt>>

HostRemove(h) ==
  /\ Change("remove")
  /\ h \in DOMAIN reg
  /\ reg' = [g \in DOMAIN reg \ {h} |-> reg[g]]
  /\ UNCHANGED <<ids, drainedAt>>

-----------------------------------------------------------------------------
(* Requests *)

Ops == {"launch", "lead", "resume", "halt", "cancel", "stop", "build"}
\* id: the host asked for; allow: allow_drained_host, or cancel_run's force.
Ask(c) ==
  /\ ~Busy(c) /\ asked < MaxCalls
  /\ asked' = asked + 1
  /\ \E op \in Ops \cap mix, id \in {0} \cup {reg[h].id : h \in DOMAIN reg},
        allow \in BOOLEAN, run \in 0..Len(runs) :
       /\ op \notin {"launch", "build"} => id = 0
       /\ allow => op \in {"stop", "build"} /\ (op = "build" => id # 0)
       /\ run # 0 <=> op = "stop"
       /\ call' = [call EXCEPT ![c] = [NoCall EXCEPT
            !.op = op, !.at = "read", !.id = id, !.allow = allow, !.run = run]]
  /\ UNCHANGED <<hosts, rollout, runs, task, machine, changes, faults, mix, history>>

\* A bound on the messages to hosts that fail or are lost.
Lost   == "lost" \in mix /\ faults < MaxFaults /\ faults' = faults + 1
Reads  == UNCHANGED <<hosts, rollout, runs, task, machine, bounds, history>>
InsertRun(c, mode, next) ==
  LET r == Len(runs) + 1 IN
  /\ r <= MaxRuns
  /\ runs' = Append(runs, [mode |-> mode, pin |-> call[c].id, allow |-> call[c].allow,
                           status |-> "pending", url |-> Nil, remote |-> FALSE])
  /\ call' = [call EXCEPT ![c].run = r, ![c].at = next]
  /\ excused' = IF mode = "build" /\ rollout.status # "running" THEN excused \cup {r}
                ELSE excused
  /\ UNCHANGED <<hosts, rollout, task, machine, bounds, orphans, drainedAt>>

\* enqueue_run: the worker makes a task of it.
Enqueue(c) ==
  /\ call[c].at = "enqueue"
  /\ task' = [task EXCEPT ![call[c].run].at = "status"]
  /\ End(c)
  /\ UNCHANGED <<hosts, rollout, runs, machine, bounds, history>>

SetRollout(status) == rollout' = [rollout EXCEPT !.status = status]

-----------------------------------------------------------------------------
(* dispatch_rollout_run, and start_rollout by the lead *)

LaunchRead(c) ==
  /\ At(c, "launch", "read")
  /\ Then(c, rollout.status = "pending", IF call[c].id # 0 THEN "hosts" ELSE "insert")
  /\ Reads

\* The pin must be registered and not drained.
LaunchHosts(c) ==
  /\ At(c, "launch", "hosts")
  /\ ReadHosts
  /\ Then(c, \E h \in Undrained(reg') : reg'[h].id = call[c].id, "insert")
  /\ UNCHANGED <<rollout, runs, task, machine, bounds, history>>

LaunchInsert(c) ==
  /\ At(c, "launch", "insert")
  /\ InsertRun(c, "launch", IF call[c].id # 0 THEN "pin" ELSE "start")

\* The pin of the rollout; a launch without one leaves what is there.
LaunchPin(c) ==
  /\ At(c, "launch", "pin")
  /\ rollout' = [rollout EXCEPT !.pin = call[c].id]
  /\ Go(c, "start")
  /\ UNCHANGED <<hosts, runs, task, machine, bounds, history>>

\* start_rollout reads the status anew; when it raises, the run of a launch
\* stays, pending and queued by nobody.
StartRead(c) ==
  /\ At(c, "launch", "start") \/ At(c, "lead", "read")
  /\ Then(c, rollout.status = "pending", "started")
  /\ orphans' = IF rollout.status # "pending" /\ call[c].op = "launch"
                THEN orphans \cup {call[c].run} ELSE orphans
  /\ UNCHANGED <<hosts, rollout, runs, task, machine, bounds, excused, drainedAt>>

StartWrite(c) ==
  /\ call[c].at = "started"
  /\ SetRollout("running")
  /\ Then(c, call[c].op = "launch", "enqueue")
  /\ UNCHANGED <<hosts, runs, task, machine, bounds, history>>

-----------------------------------------------------------------------------
(* resume_rollout: back to running, and a loop on the host that owned it *)

\* The row read here gives the pin too; relaunch is a flag of the request.
ResumeRead(c) ==
  /\ At(c, "resume", "read")
  /\ \/ /\ rollout.status \in {"halted", "running"}
        /\ call' = [call EXCEPT ![c].at = "runs", ![c].saw = rollout.status,
                                ![c].id = rollout.pin]
     \/ /\ rollout.status = "halted"  \* relaunch = false
        /\ call' = [call EXCEPT ![c].at = "resume", ![c].saw = rollout.status]
     \/ rollout.status # "halted" /\ End(c)
  /\ Reads

\* resolve_loop_relaunch: the manage runs.  A pending one refuses; none at all
\* is a rollout driven by the lead.
ResumeRuns(c) ==
  /\ At(c, "resume", "runs")
  /\ IF Loops = {} /\ call[c].saw = "halted"
     THEN call' = [call EXCEPT ![c].at = "resume", ![c].id = 0]
     ELSE IF Loops = {} \/ \E r \in Loops : runs[r].status = "pending" THEN End(c)
     ELSE call' = [call EXCEPT ![c].at = "hosts", ![c].run = Latest(Loops)]
  /\ Reads

\* The owning host: the one of the pin, else the one of the latest manage run.
\* It is never another: unresolved or drained, the call is refused.
MutantOwner(rows, pin, latest) ==
  IF pin # 0 THEN WithId(rows, pin)
  ELSE IF runs[latest].url \in Undrained(rows) THEN {runs[latest].url} ELSE Undrained(rows)
Owner(rows, pin, latest) ==
  IF pin # 0 THEN WithId(rows, pin) ELSE DOMAIN rows \cap {runs[latest].url}
ResumeHosts(c) ==
  /\ At(c, "resume", "hosts")
  /\ ReadHosts
  /\ LET owner == Owner(reg', call[c].id, call[c].run) IN
       \/ owner \cap Undrained(reg') = {} /\ End(c)
       \/ \E h \in owner \cap Undrained(reg') :
            call' = [call EXCEPT ![c].at = "resume", ![c].id = reg'[h].id]
  /\ UNCHANGED <<rollout, runs, task, machine, bounds, history>>

\* _resume_halted_rollout, then _sweep_done_items, which may find every item
\* done and close the rollout: no loop then.
ResumeWrite(c) ==
  /\ At(c, "resume", "resume")
  /\ IF call[c].saw = "halted" THEN SetRollout("running") ELSE UNCHANGED rollout
  /\ Go(c, "sweep")
  /\ UNCHANGED <<hosts, runs, task, machine, bounds, history>>
ResumeSweep(c) ==
  /\ At(c, "resume", "sweep")
  /\ \/ /\ rollout.status = "running" /\ "close" \in mix
        /\ SetRollout("closed") /\ End(c)
     \/ Then(c, call[c].id # 0, "insert") /\ UNCHANGED rollout
  /\ UNCHANGED <<hosts, runs, task, machine, bounds, history>>
ResumeInsert(c) ==
  /\ At(c, "resume", "insert")
  /\ InsertRun(c, "relaunch", "enqueue")

-----------------------------------------------------------------------------
(* halt_rollout, cancel_rollout and cancel_run *)

\* The rows that are selected keep the remote id and the host they had then.
Selected(rs) == {[run |-> r, url |-> IF runs[r].remote THEN runs[r].url ELSE Nil] : r \in rs}
\* They are stopped one by one in the order of created_at.
First(todo) == CHOOSE t \in todo : \A u \in todo : t.run <= u.run
Builds(statuses) == {r \in 1..Len(runs) : ~IsLoop(r) /\ runs[r].status \in statuses}

MutantHaltRead(c) ==
  /\ At(c, "halt", "read")
  /\ Then(c, rollout.status # "closed", "write")
  /\ Reads
HaltRead(c) ==
  /\ At(c, "halt", "read")
  /\ Then(c, rollout.status \in {"running", "pending"}, "write")
  /\ Reads
\* A second cancel is a no-op.
CancelRead(c) ==
  /\ At(c, "cancel", "read")
  /\ Then(c, rollout.status \notin {"cancelled", "closed"}, "write")
  /\ Reads

\* The status is written whatever it is by now; the children are read after.
\* Calls that are in progress when a cancel is written may not know of it.
HaltWrite(c) ==
  /\ At(c, "halt", "write")
  /\ SetRollout("halted")
  /\ Go(c, "children")
  /\ UNCHANGED <<hosts, runs, task, machine, bounds, history>>
CancelWrite(c) ==
  /\ At(c, "cancel", "write")
  /\ SetRollout("cancelled")
  /\ call' = [d \in Caller |->
                IF d = c THEN [call[c] EXCEPT !.at = "children"]
                ELSE [call[d] EXCEPT !.before = Busy(d)]]
  /\ UNCHANGED <<hosts, runs, task, machine, bounds, history>>

\* _fetch_active_child_runs: a halt keeps those not yet handed to a host.
HaltChildren(c) ==
  /\ At(c, "halt", "children")
  /\ call' = [call EXCEPT ![c].at = "stop",
                          ![c].todo = Selected({r \in Builds({"pending"}) : ~runs[r].remote})]
  /\ Reads
MutantCancelChildren(c) ==
  /\ At(c, "cancel", "children")
  /\ call' = [call EXCEPT ![c].at = "stop", ![c].todo = Selected(Builds({"running"}))]
  /\ Reads
CancelChildren(c) ==
  /\ At(c, "cancel", "children")
  /\ call' = [call EXCEPT ![c].at = "stop", ![c].todo = Selected(Builds(Active))]
  /\ Reads

\* cancel_run: an active run; without force no loop, and no child of a rollout
\* that is pending or running.
StopRead(c) ==
  /\ At(c, "stop", "read")
  /\ IF runs[call[c].run].status \in Active
     THEN call' = [call EXCEPT ![c].at = IF call[c].allow THEN "stop" ELSE "children",
                               ![c].todo = Selected({call[c].run})]
     ELSE End(c)
  /\ Reads
StopCheck(c) ==
  /\ At(c, "stop", "children")
  /\ Then(c, ~IsLoop(call[c].run) /\ rollout.status \notin {"pending", "running"}, "stop")
  /\ Reads

\* cancel_run_and_forward, run by run: the row, then the host, when the row
\* that was read had a remote id.  What fails there is only logged.
StopWrite(c) ==
  /\ call[c].at = "stop" /\ call[c].todo # {}
  /\ LET t == First(call[c].todo) IN
       /\ runs' = [runs EXCEPT ![t.run].status = "cancelled"]
       /\ call' = IF t.url = Nil THEN [call EXCEPT ![c].todo = @ \ {t}]
                  ELSE [call EXCEPT ![c].at = "forward"]
       /\ excused' = IF t.url = Nil /\ runs[t.run].remote THEN excused \cup {t.run}
                     ELSE excused
  /\ UNCHANGED <<hosts, rollout, task, machine, bounds, orphans, drainedAt>>
StopForward(c) ==
  /\ call[c].at = "forward"
  /\ ReadHosts
  /\ LET t == First(call[c].todo) IN
       /\ \/ /\ t.url \in DOMAIN reg'
             /\ live' = [live EXCEPT ![t.run] = Nil]
             /\ UNCHANGED <<faults, excused>>
          \/ /\ IF t.url \in DOMAIN reg' THEN Lost ELSE UNCHANGED faults
             /\ excused' = excused \cup {t.run}
             /\ UNCHANGED live
       /\ call' = [call EXCEPT ![c].at = "stop", ![c].todo = @ \ {t}]
  /\ UNCHANGED <<rollout, runs, task, held, asked, changes, mix, orphans, drainedAt>>
StopEnd(c) ==
  /\ call[c].at = "stop" /\ call[c].todo = {}
  /\ End(c)
  /\ Reads

-----------------------------------------------------------------------------
(* POST /items/{id}/dispatch of a build of the rollout *)

\* dispatch_preflight: some host is registered and answers; the one asked for
\* exists, is not drained unless that is allowed, and may be found full.
BuildPreflight(c) ==
  /\ At(c, "build", "read")
  /\ ReadHosts
  /\ \/ /\ DOMAIN reg' # {}
        /\ call[c].id # 0 =>
             \E h \in WithId(reg', call[c].id) : ~reg'[h].drained \/ call[c].allow
        /\ Go(c, "rollout")
     \/ End(c)
  /\ UNCHANGED <<rollout, runs, task, machine, bounds, history>>

\* create_run: the rollout must be running; its pin is inherited.
BuildRollout(c) ==
  /\ At(c, "build", "rollout")
  /\ IF rollout.status # "running" THEN End(c)
     ELSE LET pin == IF call[c].id # 0 THEN call[c].id ELSE rollout.pin IN
          call' = [call EXCEPT ![c].id = pin, ![c].at = IF pin # 0 THEN "hosts" ELSE "insert"]
  /\ Reads
\* An early refusal when the host of the pin is there and drained.
BuildHosts(c) ==
  /\ At(c, "build", "hosts")
  /\ ReadHosts
  /\ Then(c, \A h \in WithId(reg', call[c].id) : ~reg'[h].drained \/ call[c].allow, "insert")
  /\ UNCHANGED <<rollout, runs, task, machine, bounds, history>>
BuildInsert(c) ==
  /\ At(c, "build", "insert")
  /\ InsertRun(c, "build", "enqueue")

-----------------------------------------------------------------------------
(* execute_run: the worker routes a pending run *)

TaskGo(r, at) == task' = [task EXCEPT ![r].at = at]
TaskEnd(r)    == task' = [task EXCEPT ![r] = NoTask]
FailWith(r, why) == task' = [task EXCEPT ![r].at = "fail", ![r].why = why]

TaskStatus(r) ==
  /\ task[r].at = "status"
  /\ IF runs[r].status = "pending" THEN TaskGo(r, "hosts") ELSE TaskEnd(r)
  /\ UNCHANGED <<hosts, rollout, runs, call, machine, bounds, history>>

\* The rows are read once, before the retries.
TaskHosts(r) ==
  /\ task[r].at = "hosts"
  /\ ReadHosts
  /\ IF DOMAIN reg' = {} THEN TaskGo(r, "fail")
     ELSE task' = [task EXCEPT ![r].at = "pick", ![r].rows = reg']
  /\ UNCHANGED <<rollout, runs, call, machine, bounds, history>>

\* pick_dispatch_host asks the hosts.  That the pinned row is missing is not
\* among the refusals execute_run catches: the run stays pending.
Answers == [fit : BOOLEAN, free : 0..1]
TaskPick(r) ==
  /\ task[r].at = "pick"
  /\ \E info \in [DOMAIN task[r].rows -> Answers] :
       LET t == task[r]
           refused == Refused(t.rows, runs[r].pin, Need, runs[r].allow, t.out, info) IN
         \/ "missing" \in refused /\ TaskEnd(r) /\ orphans' = orphans \cup {r}
         \/ \E why \in refused \ {"missing"} : FailWith(r, why) /\ UNCHANGED orphans
         \/ \E h \in Picked(t.rows, runs[r].pin, Need, runs[r].allow, t.out, info) :
              /\ task' = [task EXCEPT ![r].at = "post", ![r].host = h]
              /\ UNCHANGED orphans
  /\ UNCHANGED <<hosts, rollout, runs, call, machine, bounds, excused, drainedAt>>

\* The host takes the run, and its answer comes or is lost.
TaskPost(r) ==
  /\ task[r].at = "post"
  /\ LET h == task[r].host IN
       /\ ~(IsLoop(r) /\ Drives(h))
       /\ live' = [live EXCEPT ![r] = h]
       /\ held' = IF IsLoop(r) THEN [held EXCEPT ![h] = r] ELSE held
  /\ \/ TaskGo(r, "confirm") /\ UNCHANGED <<faults, excused>>
     \/ /\ Lost
        /\ FailWith(r, "lost")
        /\ excused' = excused \cup {r}
  /\ UNCHANGED <<hosts, rollout, runs, call, asked, changes, mix, orphans, drainedAt>>

\* The host does not: it is full (503), which only an auto-routed run tries
\* again elsewhere, or it drives the rollout already (409), or it fails.
MutantTaskRefused(r) ==
  /\ task[r].at = "post"
  /\ \/ TaskGo(r, IF runs[r].pin = 0 THEN "pick" ELSE "fail") /\ UNCHANGED faults
     \/ IsLoop(r) /\ Drives(task[r].host) /\ TaskGo(r, "twin") /\ UNCHANGED faults
     \/ Lost /\ FailWith(r, "lost")
  /\ UNCHANGED <<hosts, rollout, runs, call, machine, asked, changes, mix, history>>
TaskRefused(r) ==
  /\ task[r].at = "post"
  /\ \/ /\ runs[r].pin = 0
        /\ task' = [task EXCEPT ![r].at = "pick", ![r].out = @ \cup {task[r].host}]
        /\ UNCHANGED faults
     \/ runs[r].pin # 0 /\ FailWith(r, "full") /\ UNCHANGED faults
     \/ IsLoop(r) /\ Drives(task[r].host) /\ TaskGo(r, "twin") /\ UNCHANGED faults
     \/ Lost /\ FailWith(r, "lost")
  /\ UNCHANGED <<hosts, rollout, runs, call, machine, asked, changes, mix, history>>

\* The live loop goes on; this run is cancelled, with the host on it.
TaskTwin(r) ==
  /\ task[r].at = "twin"
  /\ runs' = [runs EXCEPT ![r].status = "cancelled", ![r].url = task[r].host]
  /\ TaskEnd(r)
  /\ UNCHANGED <<hosts, rollout, call, machine, bounds, history>>
TaskFail(r) ==
  /\ task[r].at = "fail"
  /\ runs' = [runs EXCEPT ![r].status = "failed"]
  /\ TaskEnd(r)
  /\ UNCHANGED <<hosts, rollout, call, machine, bounds, history>>

\* Cancelled while it was routed?  Then it is recalled, else it is running,
\* even when the cancel came between the two statements.
TaskConfirm(r) ==
  /\ task[r].at = "confirm"
  /\ TaskGo(r, IF runs[r].status = "cancelled" THEN "recall" ELSE "write")
  /\ UNCHANGED <<hosts, rollout, runs, call, machine, bounds, history>>
TaskRecall(r) ==
  /\ task[r].at = "recall"
  /\ \/ live' = [live EXCEPT ![r] = Nil] /\ UNCHANGED <<faults, excused>>
     \/ /\ Lost
        /\ excused' = excused \cup {r} /\ UNCHANGED live
  /\ runs' = [runs EXCEPT ![r].url = task[r].host, ![r].remote = TRUE]
  /\ TaskEnd(r)
  /\ UNCHANGED <<hosts, rollout, call, held, asked, changes, mix, orphans, drainedAt>>
TaskWrite(r) ==
  /\ task[r].at = "write"
  /\ runs' = [runs EXCEPT ![r].status = "running", ![r].url = task[r].host,
                          ![r].remote = TRUE]
  /\ excused' = IF runs[r].status = "cancelled" THEN excused \cup {r} ELSE excused
  /\ TaskGo(r, "watch")
  /\ UNCHANGED <<hosts, rollout, call, machine, bounds, orphans, drainedAt>>

\* The poller finds the remote run at its end.
TaskWatch(r) ==
  /\ task[r].at = "watch" /\ live[r] = Nil
  /\ runs' = [runs EXCEPT ![r].status = "ended"]
  /\ TaskEnd(r)
  /\ UNCHANGED <<hosts, rollout, call, machine, bounds, history>>

-----------------------------------------------------------------------------
(* The hosts, the items, and a restart of the board *)

HostsOnly == UNCHANGED <<hosts, rollout, runs, task, call, asked, changes, mix, history>>

\* A build ends; a loop ends when its rollout runs no more, and gives up its row.
WorkEnds(r) ==
  /\ live[r] # Nil
  /\ IF IsLoop(r) THEN /\ rollout.status # "running"
                       /\ held' = [held EXCEPT ![live[r]] = 0]
                  ELSE UNCHANGED held
  /\ live' = [live EXCEPT ![r] = Nil]
  /\ UNCHANGED faults /\ HostsOnly
\* A loop fails, or its host goes down; a host that comes back goes on with it.
LoopCrash(r) ==
  /\ "crash" \in mix /\ faults < MaxFaults /\ faults' = faults + 1
  /\ live[r] # Nil /\ IsLoop(r)
  /\ live' = [live EXCEPT ![r] = Nil]
  /\ UNCHANGED held /\ HostsOnly
Readopt(h) ==
  /\ held[h] # 0 /\ ~Drives(h) /\ rollout.status = "running"
  /\ live' = [live EXCEPT ![held[h]] = h]
  /\ UNCHANGED <<held, faults>> /\ HostsOnly

\* The last item is completed.
Close ==
  /\ "close" \in mix /\ rollout.status = "running"
  /\ SetRollout("closed")
  /\ UNCHANGED <<hosts, runs, task, call, machine, bounds, history>>

\* reconcile_active_runs: what was never sent is failed; what was is watched
\* again when its host is registered and answers, else failed too.
Restart(reach) ==
  /\ "restart" \in mix /\ faults < MaxFaults /\ faults' = faults + 1
  /\ ReadHosts
  /\ call' = [c \in Caller |-> NoCall]
  /\ LET kept == {r \in 1..Len(runs) : /\ runs[r].status = "running"
                                       /\ runs[r].url \in reach \cap DOMAIN reg'} IN
       /\ task' = [r \in RunId |-> IF r \in kept
                                   THEN [NoTask EXCEPT !.at = "watch", !.host = runs[r].url]
                                   ELSE NoTask]
       /\ runs' = [r \in 1..Len(runs) |->
                     IF runs[r].status \in Active /\ r \notin kept
                     THEN [runs[r] EXCEPT !.status = "failed"] ELSE runs[r]]
  /\ excused' = excused \cup {r \in RunId : live[r] # Nil}
  /\ UNCHANGED <<rollout, machine, asked, changes, mix, orphans, drainedAt>>

-----------------------------------------------------------------------------
CallStep(c) ==
  \/ LaunchRead(c) \/ LaunchHosts(c) \/ LaunchInsert(c) \/ LaunchPin(c)
  \/ StartRead(c) \/ StartWrite(c) \/ Enqueue(c)
  \/ ResumeRead(c) \/ ResumeRuns(c) \/ ResumeHosts(c) \/ ResumeWrite(c)
  \/ ResumeSweep(c) \/ ResumeInsert(c)
  \/ HaltRead(c) \/ HaltWrite(c) \/ HaltChildren(c)
  \/ CancelRead(c) \/ CancelWrite(c) \/ CancelChildren(c)
  \/ StopRead(c) \/ StopCheck(c) \/ StopWrite(c) \/ StopForward(c) \/ StopEnd(c)
  \/ BuildPreflight(c) \/ BuildRollout(c) \/ BuildHosts(c) \/ BuildInsert(c)
TaskStep(r) ==
  \/ TaskStatus(r) \/ TaskHosts(r) \/ TaskPick(r) \/ TaskPost(r) \/ TaskRefused(r)
  \/ TaskTwin(r) \/ TaskFail(r) \/ TaskConfirm(r) \/ TaskRecall(r) \/ TaskWrite(r)
  \/ TaskWatch(r)
Environment ==
  \/ \E h \in Host, yes \in BOOLEAN : \/ \E drained \in BOOLEAN : HostAdd(h, drained, yes)
                                      \/ HostLabels(h, yes)
  \/ \E h \in Host : HostDrain(h) \/ HostUndrain(h) \/ HostRemove(h) \/ Readopt(h)
  \/ \E r \in RunId : WorkEnds(r) \/ LoopCrash(r)
  \/ Close
  \/ \E reach \in SUBSET Host : Restart(reach)

Next ==
  \/ \E c \in Caller : Ask(c) \/ CallStep(c)
  \/ \E r \in RunId : TaskStep(r)
  \/ Environment

\* The event loop resumes every coroutine and every task; requests, operators
\* and hosts owe nothing.
Fairness == /\ \A c \in Caller : WF_vars(CallStep(c))
            /\ \A r \in RunId : WF_vars(TaskStep(r))
Spec == Init /\ [][Next]_vars /\ Fairness

-----------------------------------------------------------------------------
(* Properties *)

\* The types, and that a task or a caller is for a run there is.
TypeOK ==
  /\ DOMAIN reg \subseteq Host
  /\ \A h \in DOMAIN reg : reg[h] \in [id : 1..ids, drained : BOOLEAN, labels : SUBSET Label]
  /\ ids <= MaxId
  /\ rollout \in [status : Status, pin : 0..ids]
  /\ runs \in Seq(Run) /\ Len(runs) <= MaxRuns
  /\ \A r \in RunId : r > Len(runs) => task[r] = NoTask /\ live[r] = Nil
  /\ \A r \in RunId : task[r].at \in {"post", "confirm", "write"} => task[r].host \in Host
  /\ \A c \in Caller : call[c].run \in 0..Len(runs)
  /\ live \in [RunId -> Host \cup {Nil}]
  /\ held \in [Host -> 0..Len(runs)]
  /\ asked \in 0..MaxCalls /\ changes \in 0..MaxChanges /\ faults \in 0..MaxFaults

Launches == {r \in 1..Len(runs) : runs[r].mode = "launch"}

\* No two hosts drive the rollout: relaunches go to the host that owns it, and
\* a host takes one loop, so its loop may crash, come back from its row or be
\* replaced.  It holds as long as the rollout was launched once: two launches
\* that both read "pending" make two loops.
OneLoop ==
  Cardinality(Launches) <= 1 => Cardinality({live[r] : r \in Loops} \ {Nil}) <= 1

\* _loop_host_drain_reason: the host a reader is told drives the rollout.
LoopHost == IF rollout.pin # 0 THEN WithId(reg, rollout.pin)
            ELSE IF Loops = {} THEN {} ELSE {runs[Latest(Loops)].url} \ {Nil}
\* What the board says of the loop's host is right or "not known": whoever
\* drains or undrains that host to stop or to free the rollout acts on the
\* machine that drives it.
OwnerIsRight ==
  Cardinality(Launches) <= 1 => \A r \in Loops : live[r] # Nil => LoopHost \subseteq {live[r]}

\* A stop of this run alone has written its row and not yet told the host: a
\* cancel of the rollout that comes in between passes the run over.
BeingStopped(r) == \E c \in Caller : At(c, "stop", "forward") /\ First(call[c].todo).run = r

\* When a cancel has been served, no agent works on a build of the rollout,
\* but for those excused by a lost message, a restart, a dispatch that found
\* the rollout running before, or a row written between two statements, those
\* that another request is stopping, and those whose task will recall them.
StopReachesChildren ==
  rollout.status = "cancelled" /\ (\A c \in Caller : call[c].op # "cancel") =>
    \A r \in 1..Len(runs) :
      ~IsLoop(r) /\ live[r] # Nil =>
        r \in excused \/ BeingStopped(r) \/ task[r].at \in {"confirm", "write", "recall"}

\* A run refused for its labels would not have been served by undraining a
\* host: "draining" asks the caller to wait, "unmet" to change the labels.
UnmetIsFinal ==
  \A r \in 1..Len(runs) :
    LET t == task[r] IN
    t.at = "fail" /\ t.why = "unmet" =>
      \A h \in DOMAIN t.rows : runs[r].pin = 0 \/ t.rows[h].id = runs[r].pin
                                 => ~Qualified(t.rows[h], Need)

\* A drain holds for every run made after it, however the run was routed and
\* whatever was read before: a host still drained is sent none of them, but by
\* an operator who asked for that very host.
DrainHolds ==
  [][\A r \in 1..Len(runs) :
       LET h == live'[r] IN
       task[r].at = "post" /\ h # live[r] /\ h \in DOMAIN reg
         => ~reg[h].drained \/ r <= drainedAt[h] \/ runs[r].allow]_vars

\* A cancelled rollout stays so, but for calls that were being served when it
\* was cancelled: they wrote what they had decided on before.
CancelledIsFinal ==
  [][rollout.status = "cancelled" /\ rollout'.status # "cancelled" =>
       \E c \in Caller : call[c].before /\ call'[c] # call[c]]_vars

Pending(r) == r <= Len(runs) /\ runs[r].status = "pending"
\* Every run made is sent, refused, failed or stopped, through restarts, full
\* hosts and twins; the exceptions are the launch that found its rollout
\* started and the pin whose row went.
EveryRunRouted == \A r \in RunId : Pending(r) ~> ~Pending(r) \/ r \in orphans

\* One host drives the rollout, and the board names that host or none.
LoopInv == TypeOK /\ OneLoop /\ OwnerIsRight

\* Every run made is routed or refused in the end, and the refusal is the
\* right one: labels that no host of the pool has.
RunsAreRouted == EveryRunRouted /\ []UnmetIsFinal
=============================================================================
