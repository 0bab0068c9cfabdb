# Verification of Agent GTD

Agent GTD is a task board that dispatches coding agents. A user (or an agent,
through MCP) asks the board to *dispatch* an item; the board creates a run,
routes it to a *dispatch host* (another program, agent-gtd-dispatch), polls it,
and reports how it ended. *Rollouts* drive a set of items with dependencies
through the same machinery. This directory holds TLA+ models of that behaviour,
TLC configurations that check them on small instances, and TLAPS proofs.

All paths below are relative to `src/agent_gtd/` in the repository, unless they
begin with `frontend/` or `docs/`.

## Inventory

The board is one Python process with one asyncio event loop over SQLite or
PostgreSQL. Almost no handler opens a transaction, so a handler is atomic only
between two awaits, and each SQL statement is atomic by itself. That is the
source of most hazards: a row read before an await may have changed after it.

| component | state | operations | hard behaviour | module |
|---|---|---|---|---|
| executor and poller (`dispatch_worker.py`), reaper (`services/run_reaper.py`), lifespan (`main.py`) | one task per run, its locals, the queue, the pass in progress | execute_run, _resume_polling, reconcile_active_runs, reap_stuck_runs | lost answers, 503 retries, restarts, unguarded result writes | RunLifecycle |
| run creation, cancel (`services/dispatch_service.py`) | rows of `claude_runs` | create_run, dispatch_rollout_run, relaunch, cancel_run | check-then-insert, stale reaping, cancel against launch | RunLifecycle, LoopLaunch |
| rollouts (`services/rollout_service.py`, `rollout_lock_service.py`) | `autonomous_rollouts`, `rollout_items`, item locks | start, advance, complete, halt, resume, cancel, reset, auto-close | several statements per handler, completion against halt and cancel, repeats that heal | Rollout |
| planning (`services/rollout_service.py`, `rollout_dag.py`) | `rollout_plans` | validate, derive, insert | items edited meanwhile, half-made plans, overlap of paths, cycles | PlanRollout, RolloutDag |
| router (`services/dispatch_router.py`), registry (`services/settings_service.py`) | `dispatch_hosts` | pick_dispatch_host, add, drain, undrain, labels, remove | stale capacity and drain, refusals told apart | Routing, LoopLaunch |
| rollout log (`services/rollout_service.py`) | `rollout_events`, the banner columns | append, feeds, paging | a number read and used in two statements | RolloutLog |
| events (`event_bus.py`, `event_helpers.py`, `routes/event_routes.py`, `frontend/src/hooks/useEventStream.ts`) | subscriber queues, `events` | publish, subscribe, replay, drain | bounded queues, the gap between replay and registration | EventStream |
| items, projects, notes, comments, attachments (their services and routes) | their tables, the files on disk | create, versioned update, claim, move, blockers, share, upload, delete | lost updates, checks against inserts, cascades, file against row | Board |
| accounts (`auth.py`, `routes/auth_routes.py`, `routes/admin_routes.py`) | `users`, `invites`, `password_resets`, `api_keys` | register, reset, change password, keys, promote, delete | two registrations with one invite, deletion table by table | Accounts |
| MCP, command line, frontend views | none | adapters, views | no protocol of their own | - |

They interact through the database (every handler), through the in-process
queue (`enqueue_run`, from the routes to the executor), through HTTP to the
hosts (executor, cancel, reaper, reconciliation), and through the event bus
(everyone publishes, streams subscribe).

What makes each correct: a run is launched at most once, its row names the host
that has it, its report is truthful, it ends, and its item becomes dispatchable
again; a rollout releases an item only after its predecessors, ends in one
final state, and its items, locks and status agree; one host drives it; a plan
never lets two builders at one file; an update is not lost; rows refer to rows
there are; a stream misses no event; an invite admits one user.

## How the modules hang together

- **RunLifecycle** implements the abstract **RunContract**
  (`RunLifecycle_proofs`, run life_owned); **Rollout** implements the abstract
  **RolloutContract** (`Rollout_proofs`, run roll_overlap).
- **LoopLaunch** EXTENDS **Routing** and composes what the two leave apart: a
  rollout, its loop and builds, the registry, the hosts, halt and cancel with
  the runs they stop. A run there is where it was sent, a rollout its status.
- **PlanRollout** EXTENDS **RolloutDag**: the request that plans, around the
  algorithms that derive the graph, and a manager that works through the result.
- **RolloutLog** EXTENDS **EventStream**: the requests that append to the log
  are what publishes events.
- **Accounts** EXTENDS **Board**: calls on the board by users who are being
  registered or deleted meanwhile.
- **MC...** modules hold the instances.

In every new module a run has `Mixes`: a behaviour chooses, in its initial
state, one small set of operations (or of inputs and bounds) that can meet, and
keeps to it. One TLC run thus checks a family of instances, each of them small,
where the product of all operations could not be enumerated. What two mixes
would do together is not checked; the mixes are chosen by the tables the
operations share.

Definitions named `Mutant...` are plausible bugs; each stands before the one it
would replace and nothing uses it. Replacing the definition by its mutant makes
TLC refute the property that PROJECT.json names.

## State of the plan

1. RunLifecycle with RunContract; Rollout with RolloutContract; their proofs: done.
2. RolloutDag and PlanRollout; Routing and LoopLaunch: done.
3. EventStream and RolloutLog; Board and Accounts: done.
4. Proofs about every safety property of RunLifecycle, Rollout (but ClosedIsDone),
   LoopLaunch, PlanRollout, Board, Accounts, EventStream and RolloutLog: done.
5. Open: larger mixes, and proofs about the operators that only runs check (the
   algorithms against their reference definitions).

## RunLifecycle

One module for the life of a run, because its actors share the row: the
request that creates it, the task that executes it, the requests that cancel
it, the reaper, the reconciliation at start-up, and the host.

*State.* `status`, `handle`, `age` are the row; `handle` stands for
`remote_run_id` and `dispatch_host_url`, which the code always writes together
when the run id is not empty. `age` is the time since `created_at` (pending) or
`started_at` (running): 0, 1 (past 600 s, both STALE_PENDING_RUN_SECONDS and
REAPER_GRACE_SECONDS) or 2 (past the run's timeout plus the reaper's slack).
`creator` and `stale` are the create_run request; `pc`, `picked`, `excluded`,
`result` are the task and its locals; `cpc` and `chandle` the cancel request
and the row it read; `rtodo`, `rlate`, `rverdict` the reaper's pass; `phase`,
`btodo`, `restarts` the process; `remote`, `rhost`, `launches`, `forgotten` the
host's side, and `criteria` whether the item has acceptance criteria. Two
variables are history that only properties read: `unread`, the runs whose
success passed the plan gate with the item unread, and `raced`, the runs that were
overtaken (another run of the item was inserted between their check and their
INSERT) or launched although their row had ended.

*Actions.* An action is the code between two awaits.

| code | actions |
|---|---|
| create_run | CreateCheck, CreateReap, CreateRefused, CreateInsert, CreateSetupFails |
| _create_manage_run | CreateManageInsert |
| routes and MCP after create_run | Enqueue, NeverEnqueued |
| _process_run, execute_run up to the POST | ProcessRun, LookupFails, EngineUnresolved, CheckBeforeRouting, RouteRefused, PickHost |
| the POST and its answers | PostFull (503), PostConflict (409), PostRefused, PostAccepted, PostReplyLost |
| after the POST | CheckAfterPost, UndoLaunch, RecordUndone, MarkRunning |
| polling, also after a restart | PollTerminal, WriteResult |
| cancel_run, cancel_run_and_forward | CancelRead, CancelWrite, CancelForward |
| run_reaper | ReaperSelect, ReaperLook, ReaperWrite |
| lifespan, reconcile_active_runs | Stop, Boot, ReconcileFail, ReconcileAdopt, ReconcileResume, BootDone |
| the host | RemoteFinish, RemoteForgets |

*Abstractions.* The queue is a state of the run's own task, since the worker
never waits for a run. The guarded UPDATE that reaps a stale row and the read
that follows are one action (another actor's step between them commutes).
Reachability of a host is a choice at each call. "cloning" is never written by
this code and is left out; "already satisfied" is folded into "succeeded".
A manage run whose rollout refuses to start is a run nobody enqueues. Item
status updates, comments and events are left out; the linkage with rollouts is in
Rollout and LoopLaunch.

*Sets and bounds.* `Cancels` is the set of runs that users may cancel and
`DbFaults` that of the runs whose task may die of an exception of its own database
call; `MaxRestarts` bounds the stops of the process. Nothing else is restricted:
dispatches of one item overlap as they like, and a queued run may wait longer than
the 600 s after which the next dispatch takes it for stale (the comment above
STALE_PENDING_RUN_SECONDS argues that it will not). `Gated` is the plan gate with
its three outcomes: the criteria are there, they are missing, or the item cannot
be read and the success stands. People who edit the criteria after the agent are
left out.

*Shutdown.* A crash loses every task. In an orderly shutdown the event loop
cancels the polling tasks, which forward a cancel to their hosts and try to
write 'cancelled'; as `close_db` runs before, that write normally fails, and
`Stop(fwd, rec)` allows any subset of both.

### Properties

Safety: HandleFollowsStatus, SingleLaunch, SuccessIsEarned, RunningIsOwned,
OneActiveUnlessRaced. Of steps: ReaperYields, UngatedIsExcused,
NeverLaunchedOnceEnded. Liveness:
RunningEnds, NoStrandedItem. Refinement: ImplementsContract.

RunContract keeps, per run, a report (absent, open, success, closed) and the
work (none, active, succeeded, ended): work starts at most once and only for a
dispatched run, a success is reported only of work that succeeded, and a
launched run does not stay open. `Contract` maps the rows and the host's state
onto it.

### Fairness

Weak fairness of the tasks, requests and reaper of each run (the event loop
runs ready coroutines), of their HTTP calls (all have timeouts), of the host's
own time limit, of time, and of start-up (a service manager restarts the
board). Nothing is assumed of users, of faults, or of which branch a call
takes. A run left pending without a task is *not* assumed to be dispatched
again, which is why RunningEnds speaks of running rows and NoStrandedItem of
what the next dispatch would find.

### Runs

| run | instance | shows |
|---|---|---|
| life_one | 1 plan run, 2 hosts, 2 restarts, cancels, faults | HandleFollowsStatus, SingleLaunch, SuccessIsEarned, ReaperYields, UngatedIsExcused, NeverLaunchedOnceEnded, RunningEnds |
| life_owned | 1 manage run, 2 hosts, 2 restarts, cancels | RunningIsOwned, ImplementsContract; with DbFaults both fail by design: a task that dies between the POST and the write of 'running' leaves a launched run pending |
| life_pair | 2 build runs of one item, one pinned, dispatched in any overlap; 1 run with faults, 1 restart | OneActiveUnlessRaced, NoStrandedItem |

One run suffices where the property speaks of one run, as runs meet only in
create_run's check of their item and in the reaper's pass; two suffice for the
check. Two hosts make the 503 retry, and two restarts make a restart during the
recovery of another, possible. life_pair has no cancels, which would make it too
large for TLC; the theorem OneActive covers them. Deadlock is not checked: with
every run ended and no restart left the board is idle.

### Departures

The model shows these disagreements with what the code says of itself; the
properties name them, and no run is kept for them alone.

- *A cancel can be lost to a launch.* The second status check of execute_run and
  the write of 'running' are two statements (dispatch_worker.py:1117, :1136), so a
  cancel in between is overwritten, against "local cancel wins"
  (services/dispatch_service.py:985). A cancelled run can also become a success when the
  forward did not reach the host, because the poller never looks at the row it
  overwrites.
- *A plan run without criteria can be a success*, in two ways: the reaper adopts the
  host's status without `_plan_success_gate`, and the gate of the poller and of the
  reconciliation lets the success stand when the item is gone or the read raises
  (dispatch_worker.py:552-556). UngatedIsExcused says that there is no third.
- *An item can have two active runs*, against services/dispatch_service.py:146.
  The check and the INSERT of create_run are two statements without a transaction,
  so two dispatches that overlap both insert; and a task that has passed its last
  look at the row launches a run that was cancelled, or reaped as stale, after
  which the item counted as free. OneActiveUnlessRaced says that nothing else does
  it. Without either of the two causes in `raced` TLC refutes it.

### Proofs

`RunLifecycle_proofs` proves, for every set of runs, items and hosts and every
value of the switches, from `RunAssumption` alone: TypeCorrect (Spec =>
[]TypeOK), Inductive (Spec => []IInv), from it HandleCorrect, LaunchedOnce and
SuccessCorrect, then ReaperGuard (the action property ReaperYields), GateKept
(UngatedIsExcused), OneActive (OneActiveUnlessRaced), EndedStaysEnded
(NeverLaunchedOnceEnded) and ContractKept (the safety half of ImplementsContract).
One theorem has a hypothesis, the one under which its run checks the property,
because without it the code does not keep the promise: RunsAreOwned
(RunningIsOwned) assumes DbFaults = {}. A task that dies on a failed statement of
its own leaves its run to the reaper.

None of these invariants is inductive. That a run is launched once depends
on who may still POST: `RunInv` says that a task that is routing has launched
nothing, that one past the POST holds the host that has the agent, that only
the INSERT leads to 'pending', that a row is not running or a success before
its own task made it so, that a request that cancels and a start-up that
reconciles hold rows that exist, and that what the poller and the reaper saw of
a finished agent is still so. `OwnedInv` adds for each running row the task, or
the entry of the start-up's list, that polls it or will; `RaceInv` adds, of a
dispatch that nobody overtook and that is about to insert, that each other active
run of its item is on its list of stale rows or is itself one that raced
(`CheckHolds`); `Calm` is what every other step does to that. Each
lemma treats one actor, with a step per action.

ContractKept goes through `Keeps(t)`, which says in this module's terms how a
step may move the row and the agent of run t; one lemma per actor shows that
every step does, and KeepsContract that such a step is one of the contract. The
clause that matters is the last: 'running' is written only over a row that is
not a success, of a run that some host has accepted.

TypeOK and IInv are proved and no longer part of a run; TLC checked both before the
proofs were written.

Only model-checked: liveness (RunningEnds, NoStrandedItem and the leads-to part
of ImplementsContract), which is outside the prover's reach.
## Rollout

One module for the life of one rollout. A lead plans it and starts it; a manager
(a program on a dispatch host, outside this code) asks `advance_rollout` what is
ready, dispatches builds, and records their outcomes with
`complete_item_in_rollout`; the lead halts, resumes or cancels it, and users
update the items by hand at any time. The manager is a caller like the others:
the safety properties assume nothing of what it asks, or in which order.

*State.* `rstatus` is the status of the row of `autonomous_rollouts`, `istatus` that
of its `rollout_items` ("absent" before the INSERT). `gtd` is the status of the
items themselves, reduced to open, done and cancelled, which is what the blockers,
the sweep and the auto-close tell apart; `lock` says that `locked_by_rollout_id`
names this rollout. `build` is the latest build run of the item ("failed" stands for
timeout too). The requests in flight are `dpc` (create_run, per item), `call`
(complete, reset and the update of an item, per caller, with the locals they carry
over awaits; `seen` is the status the item had when it was read, by which a repeat
is told from a first completion) and `lead` (plan, start, halt, cancel, resume),
with `target`, `relock` and `sweep` the locals of resume. `owed` is what a caller
knows: the outcome of a completion that failed. `deaths` counts the requests that
stopped half-way.

| code | actions |
|---|---|
| plan_rollout | PlanBegin, PlanFails, PlanItem, PlanDone |
| start_rollout | StartRead, StartWrite |
| create_run for a rollout build | DispatchCheck, DispatchInsert, DispatchLink, DispatchActive |
| the run it creates | BuildMoves (RunLifecycle in detail) |
| complete_item_in_rollout | CompleteRead, CompleteWrite, CompleteRelease, CompleteDone, AutoCheck, AutoClose, CompleteReload, CompleteUnblock, CompleteFinish, CompleteClose |
| _heal_repeat_completion | CompleteRead, CompleteHeal, then as above |
| update_item to done or cancelled | UserCloses, AutoCheck, AutoClose |
| reset_rollout_item | ResetRead, ResetWrite |
| halt_rollout, cancel_rollout | HaltRead, CancelRead, StopStatus, HaltItems, CancelItems, StopRuns, StopLocks |
| resume_rollout | ResumeRead, ResumeSnapshot, ResumeItem, ResumeLock, ResumeStatus, SweepSelect, SweepCall |
| an exception, or the process ending | CallDies, CheckFails, LeadDies, DispatchDies |

*Abstractions.* Reads that only guard a request are taken together, at the last
of them; the statuses and builds resume reads are one snapshot. Fetching the
active child runs and cancelling them is one step, since RunLifecycle has the
cancel of a run in detail, and a pending run counts as not handed to a host.
The writes of one loop happen in any order, where the code has the order of a
list. Events and comments are in RolloutLog, the manage run that resume
relaunches in LoopLaunch, planning in detail in PlanRollout; the heartbeat of the
manager is left out. A user reopens no item, except through the
'active' that create_run writes. Per item there is one create_run at a time, and
per rollout one request of each kind of plan, start, halt, cancel and resume.

*Switches.* `Ops` names the kinds of request a run has, so that each question is
asked of the smallest instance that can refute it. `Overlap` lets requests
overlap; without it each begins when no other is served, which is how a lead
and one manager that wait for their answers behave. `"early"` in `Ops` would
let completions overlap planning and starting; no run does so, because
neither a manager nor a lead knows what to complete before the rollout runs.
`MaxDeaths` bounds how many requests stop half-way. The constants `Edges` and
`Blocks` are the plan's edges and those among them that are also blockers: the
others come from overlapping files.

### Properties

- *OrderKept*: an item is ready, dispatched or completed only when everything
  before it is completed, halted or skipped.
- *StoppedIsQuiet*: once the requests are over, a rollout that is halted,
  cancelled or completed has no live item, whichever request came last.
- *ClosedIsDone*: a rollout is completed only when all its rows are, or all its
  items were closed by hand.
- *NoneWaitsInVain*: completions that overlap lose no release and no close.
- *HealRepairs*: a completion that returns leaves nothing undone, also when it
  repeats one that had stopped half-way.
- *OutcomeYieldsToStale*: a completed or skipped item loses that outcome only to a
  completion that had read it unfinished or a resume that had read it halted.
- *RolloutSettles*: a running rollout comes to its end.
- *ImplementsContract*: RolloutContract keeps a stage per item (waiting, open,
  closed), opens an item when everything before it is closed, and never goes
  back. `Stage` maps the statuses onto it.

### Fairness

`FairSpec` adds weak fairness of the requests in flight and of the builds (that
builds end is RunLifecycle's RunningEnds), and strong fairness of three things
the manager does in its rounds: it dispatches an item that advance keeps
offering, completes one that keeps being dispatched, and repeats a completion
that failed. Strong, because each is enabled only between other requests. It is
an assumption on the manager, whose code is not in this repository, and
RolloutSettles says what the board then guarantees.

### Runs

| run | instance | shows |
|---|---|---|
| roll_overlap | 2 ordered items, 1 caller; dispatch, halt, cancel, reset overlap | OrderKept, StoppedIsQuiet, ImplementsContract, OutcomeYieldsToStale |
| roll_sweep | 2 items before a third, 1 caller that overlaps the sweep and users | NoneWaitsInVain |
| roll_serial | 2 ordered items, every request, 1 stop, no overlap | ClosedIsDone, HealRepairs |
| roll_settles | 2 ordered items, dispatch and completion, 2 stops, no overlap | RolloutSettles |

Two items with an edge have every status a rollout distinguishes; a join is the
least graph on which two completions can meet, one by the caller and one by the
sweep. One caller with the sweep, the dispatches and the requests of the lead
lets any of their steps meet. Deadlock is not checked: a completed or
cancelled rollout stops.

ClosedIsDone and HealRepairs are checked without overlap because they fail with it:
ClosedIsDone where a resume, or a second caller with another outcome, writes over an
item that the close had counted as finished, HealRepairs where another request
undoes what was repaired. OutcomeYieldsToStale needs no such restriction, and names
the two ways in which an outcome is lost. StoppedIsQuiet is checked without stops,
because a halt that stops after its first statement leaves a halted rollout with
live items.

### Departures

- *Resume ignores the order.* After a halt every item is halted, resume counts
  halted predecessors as terminal (services/rollout_service.py:2120), so a
  predecessor and its successor become ready at once.
- *A cancelled rollout can become completed.* Repeating an outcome closes
  whatever is not 'completed' (:874).
- *Resume locks nothing* (:2119, docs/api-docs.md:491): it picks the items to lock from
  the statuses before the restore.
- Two overlapping completions with different outcomes are both accepted, and the
  later write stands; if the first closed the rollout, it stays completed with an
  item that is not.
- A dispatch that passed its checks before a cancel inserts its run after it, and
  the run goes on in the cancelled rollout (LoopLaunch has the cancel in detail).
- A dispatch overlapping the completion of its item sets the item back to active.
- Advance offers the successors of a halted item, where its docstring says
  completed or skipped; and the successor of a skipped item that is also its
  blocker, whose item is still open, which create_run refuses.

### Proofs

`Rollout_proofs` proves for all items, edges, callers and switches, from
RolloutAssumption: RolloutTypeCorrect (Spec => []TypeOK); and, when "resume" is
not among `Ops`, OrderInductive (Spec => []OrderInv), OrderCorrect (Spec =>
[]OrderKept) and ContractImplemented (Spec => ImplementsContract). The first
departure is why resume is excluded: with it OrderKept is false. TypeOK and OrderInv
are proved and no longer part of a run.

OrderKept alone is not inductive. A halted item can be completed by the
override, so its predecessors must be closed too (`InOrder`); a halt closes all
rows in one statement, but only those that are there, so a rollout that can be
halted has all of them (`Planted`); and a completion acts on what it read, so
what it read must still be so (`CallInOrder`). Statuses that are closed stay
closed (`Progress`, proved of every action), which is what makes the reads
stable; ContractImplemented is Progress seen through the refinement mapping.

`RolloutRequests_proofs` has what depends on how requests meet. StaleOverwrites
(OutcomeYieldsToStale) holds of every mix of requests, of every overlap, of resumes
and of requests that stop half-way; the others have the switches of their runs as
hypotheses, because the code does not keep the promises without them (see the
departures above).

- StaleOverwrites rests on one fact about requests in flight, UnfinishedKept: a
  completion that has still to write had read its item unfinished. So the one write
  of an outcome is decided before the item had one, every other UPDATE names the
  statuses it replaces, and what is left is the restore of a resume.
- For requests that do not overlap, ~Overlap (run roll_serial): SerialInductive, and
  from it HealCorrect (HealRepairs), for any number of deaths: what a repeat repairs
  is what an earlier, dead request left, not what runs beside it. SerialInv says who
  is at work (`Alone`), what the resume still has to restore (`Targets`), what a
  request has made true by each of its statements (`Prepared`: at the close, for
  example, the loaded statuses are those of the table) and who may still write to a
  closed rollout (`Closed`).
- StoppedQuiet (StoppedIsQuiet): requests overlap in any way, none dies, the lead
  plans and starts a rollout between completions, and nothing is resumed. A stop
  that has written its status has its items still to close (`Stopping`); a
  completion past its write closes only what has no live item (`ClosesQuiet`).
- NoneWaits (NoneWaitsInVain): the same without halts and cancels, with resume's
  sweep. For each item whose predecessors are closed there is a completion that
  has not yet loaded the statuses, or has loaded them and names the item
  (`Serves`); likewise for the close (`Closes`). The completion that loads last
  sees all the others, which is why two that overlap lose nothing. It assumes
  that there is an item, as plan_rollout refuses an empty list.

Only model-checked: RolloutSettles, which is liveness, and ClosedIsDone.

## LoopLaunch and Routing

Routing is `pick_dispatch_host`: from the rows of the registry, a pin, the
required labels, the hosts excluded after a 503 and what the hosts say of
themselves, the set of hosts it may return and the refusals it may raise.

*State.* `reg` and `ids` are `dispatch_hosts` (a row added again has a new id),
`rollout` its status and pin, `runs` the rows of `claude_runs` in order of
creation (a run is a launch, a relaunch or a build), `task` the executor's tasks
and `call` the requests with their locals. `live` says on which host a run is
being worked on, and `held` for which loop a host has a row of its own: these
two are the external hosts, which take one loop per rollout, answer 503 or 409,
and after a restart go on with the loops they hold a row for. `excused`,
`orphans` and `drainedAt` are history.

| code | actions |
|---|---|
| dispatch_rollout | LaunchRead, LaunchHosts, LaunchInsert, LaunchPin, StartRead, StartWrite |
| resume_rollout, resolve_loop_relaunch, relaunch_rollout_loop | ResumeRead, ResumeRuns, ResumeHosts, ResumeWrite, ResumeSweep, ResumeInsert |
| halt_rollout, cancel_rollout and their child runs | HaltRead, HaltWrite, HaltChildren, CancelRead, CancelWrite, CancelChildren |
| cancel_run_and_forward | StopRead, StopCheck, StopWrite, StopForward, StopEnd |
| dispatch_item | BuildPreflight, BuildRollout, BuildHosts, BuildInsert |
| execute_run | TaskStatus, TaskHosts, TaskPick, TaskPost, TaskRefused, TaskTwin, TaskFail, TaskConfirm, TaskRecall, TaskWrite, TaskWatch |
| the registry | HostAdd, HostDrain, HostUndrain, HostLabels, HostRemove, ReadHosts (the legacy host is written back at a read) |
| the process, the hosts, time | Restart, WorkEnds, LoopCrash, Readopt, Close |

*Properties* (run loop): LoopInv (one host drives the rollout, and the host the
board names for it is right or unknown), StopReachesChildren (after a cancel no
agent works on a build that no other request is stopping), DrainHolds (no run made
after a drain goes to the host), CancelledIsFinal, RunsAreRouted (liveness: every
run is sent, refused, failed or stopped, and "unmet" is said only when no drained
host would do).

*Bounds.* Two hosts, one label, three runs, two requests, one change of the
registry, one fault; ten mixes. A relaunch needs a second run, and a build
beside it a third; a second host is the least that makes two loops possible.

*Fairness.* Weak fairness of the steps of each request and task, which the event
loop resumes. Hosts, operators and further requests owe nothing.

*Departures.* Two launches that both read "pending" start two loops, as
services/dispatch_service.py:701-705 does not expect: LoopInv speaks of a rollout
launched once. A cancel whose snapshot has no remote id while the host takes the run
does not reach it; a running written over cancelled is not stopped either. A stop of
one build writes its row before it tells the host, and a cancel of the rollout
between the two passes that run over (BeingStopped), whose forward may still be
lost. A launch that start_rollout refuses leaves a pending manage run that blocks
every relaunch until a restart; a pin whose row vanished leaves its run pending. A
failed relaunch leaves the latest url empty, so that an unpinned rollout cannot be
relaunched (docs/api-docs.md:499-502). Removing the last host when legacy settings
exist brings that host back, undrained. The exceptions are named by `excused` and
`orphans`.

*Proofs.* `LoopLaunch_proofs` proves every safety property of run loop, from
LoopAssumption alone (the hosts are finitely many), for any number of hosts,
requests, runs, changes and faults, and for all operations together where TLC has
one mix at a time. The inductive invariant LoopIInv (LoopInductive) has a part for
each thing that is read at one await and relied on at a later one:

- CallInv and TaskInv: which places each request and task may be at, and what the
  run's row and the hosts say while it is there. No two requests hold the same
  new row; a run without a host is unsent.
- OwnerInv, with FreeInv, carries LoopInv (LoopCorrect). OneLoop and OwnerIsRight are
  not inductive: what makes a second loop impossible is what *will* be asked for.
  So there is one `home`, and every loop that was sent, every row a task may still
  write, every pin and every relaunch in progress is for that host; pins are ids
  of rows and rows come and go, so `own` says which host each id was ever given
  to. Until the one launch has been sent there is no home, and nothing else asks.
- StopInv carries StopReachesChildren (CancelReaches): a build is on the list of a
  cancel in progress, or has been written cancelled and its host told, or one of the
  excuses holds. This part showed that the property had an exception more than it
  named, the stop of a single run (BeingStopped above), which the mixes had not
  reached; mix Recalling now does.
- FinalInv carries CancelledIsFinal (CancelIsFinal), DrainInv DrainHolds (DrainsHold):
  a task that has read a host as undrained has a run older than the drain.
- UnmetInv is UnmetIsFinal (UnmetCorrect) with the reason kept until it is written.

The order in which a cancel stops its runs is that of their creation; `todo` is the
set of those left, and First the next.

## PlanRollout and RolloutDag

RolloutDag has the algorithms of `rollout_dag.py` as operators: an entry of
files_to_modify is the names it stands for (braces and prose expanded) and a
shape, file, directory or glob; overlap, blocker edges, overlap edges, their
merge, and Kahn's algorithm by rounds of positions. They are compared with
reference definitions: the files an item touches, and the existence of a ranking.

PlanRollout is the request: ReadItem, ReadBlockers and Judged are the legality
contract, then ReadAgain, LookAtConfig, InsertRollout, DeriveEdges, FailPlan,
InsertGraph, InsertRow, Promote. EditItem, EditBlockers, DeleteItem and Crash
come between any two of them. Start, Dispatch and Complete, one step each, are
the manager who works through the plan; NextReady, PlanView and Progress what it
and the frontend are shown. The interleavings inside those three are Rollout's.

*Properties* (run plan): BuildsAreSafe (two items being built share no file that
their entries name, and blockers come first), PlanInv (a rollout that can be
started has a workable plan and all its rows; refusals have the causes they
give, exactly those of the contract when nobody edits; a rollout stays half-made
only for a named cause), AccountsAgree (the ready column, what advance computes
and what the plan view shows are the same, and the progress is short of done
while running), PlansFinish (liveness).

*Bounds.* Shaping: two items of eight shapes of entries each, which is every
pair of shapes. Naming: one item, none, or one named twice. Ordering: three items
with all 64 sets of blockers, cycles included. Judging: every way to break each
rule. Editing: two edits of any kind. Dying: a crash and an edit.

*Fairness.* The request runs on; a manager that runs dispatches what it is told
is ready, and builds end.

*Departures.* A directory with a dot and no slash is taken for a file, so an
overlap is missed (NamesDottedDirectory). A blocker against the caller's order
together with a shared file is answered as a cycle. An item named twice makes a
self-overlap when it has files, and a refused second row when it has none, which
leaves "planning" for ever, as does an item deleted meanwhile. An item deleted
later, a blocker added later or a blocker that was skipped holds its successors
until a person acts (NeedsAPerson). Prose tokens without a slash or a dot are
dropped.

*Proofs* (PlanRollout_proofs): PlanCorrect, BuildsCorrect and ReadersAgree are
all three safety properties, for any items, orders of any length, any files and any
edits. The invariant PlanIInv has six parts. GraphInv is the one the rest leans on:
the edges kept in the plan are those of the blockers of one moment, although the
blockers go on changing, and the verdict of Kahn's algorithm on those edges is
known. RowsInv counts the rows by position, which is how an item named twice is
found out; ManagerInv has it that whatever is begun came after what the plan puts
before it, and that "ready" is stored exactly for what advance would name; JudgeInv
is the partial answer of the contract, which BrokenIsFound turns into the whole.

Of the algorithms it is proved that Kahn's takes every position of an order
without repetitions exactly when a ranking exists (TakenIsWorkable,
WorkableIsTaken), that edges along the order have one (ForwardIsWorkable), and that
entries which do not overlap name no common file (ApartTouchesApart). Each is
shown without induction, by the least round or the least rank at which it would
fail. A glob
touches what lies below its fixed path and not a file at that path, which overlaps
with nothing a glob matches: the last theorem is false otherwise, and Touched says so.

PlanAssumption asks that the items are finitely many, that the files are sequences
of the names, and that Nil is none of the other values.

## EventStream and RolloutLog

EventStream: `event`, `pub` and `stored` are the events, how far the publish of
each has come and the table; `stream` and `subs` the browsers' connections and
the bus's set of queues; `drained` the shutdown. `offered`, `gap`, `deaf` and
`doubled` are history. Emit, Stamp, Store, FanOutOwner, FanOutMembers and
PublishFails are a publish; Connect, Replay, YieldMissed, Subscribe, Deliver,
Stopped and Disconnect a connection; Drain and Restarted the end of the process.

RolloutLog adds the log of a rollout of one item and four requests,
update_rollout_state, halt, an answered question and complete, with the reads of
the log. An append is ReadSeq, then Insert, or RowIsRefused when another took
the number, after which the handler stops half-way.

*Properties* (run stream): DeliveryInv (a live stream has been sent, or is about
to be sent, every event after its "since", but for the gap between replay and
registration and what a full queue dropped; the queue is the end of what was put
into it; an event comes twice only when it was replayed before its fan-out),
LogInv (numbers without a gap, ends told, a note for each completion, the banner
is the last report), PagesStand (pages of the activity stay what they are while
rows are appended, and none is skipped), SignalledStreamsEnd and RowsArePublished
(liveness). stream_banner is the finding below.

*Bounds.* A queue of two (256 in the code), so that it overflows with the third
event; two browsers, three events, three requests, one failure or one stop;
seven mixes.

*Fairness.* The publishes, the streams and the requests run on. Browsers owe
nothing.

*Finding* (stream_banner). The backend publishes the type "rollout_event"
(services/rollout_service.py:675), the hook listens for "wave_event"
(frontend/src/hooks/useEventStream.ts:60); no component hears of a rollout, where
services/rollout_service.py:1912 promises that the banner refreshes in real time.

*Proofs.* `RolloutLog_proofs` proves, for any number of requests, NumberInv
(LogNumbered): the numbers of the rows are 1, 2, ... as many as there are rows,
and a number that a request has read and not yet used is at most the next one.
The second half is what makes the first inductive: an INSERT of an older number
is refused by UNIQUE (rollout_id, seq), and one that is not refused is the next.
From it follow LogContiguous (LogIsContiguous, a part of LogInv: a page of the
feed is the last rows, without a gap) and PagesCorrect (PagesStand). The rows of
a request are a sequence that is not empty while it runs; nothing else is assumed.

DeliveryCorrect (DeliveryInv) rests on DeliveryParts (DeliveryInductive), for any
number of users, browsers, events and requests. PubOK: a row is in the table when
its fan-out begins, and not before its insert. ConnInv, per connection: it has a
queue and has sent something only in the phases that give it one; what is due to it
(stored, visible, past its user's turn in the fan-out, and later than its "since") is
among what was sent, what is still to be sent from the replay, what was offered to the
queue, or the gap; the queue is the end of what was offered; and what is sent twice
is in `doubled`, the replayed events whose fan-out was still to come when the
connection registered. Time stamps are handed out by Stamp before
the row is stored, so that an event may be stored behind a later one: the invariant
orders nothing by time but the "since" itself.

LogCorrect (LogInv) rests on TellInv (LogInductive), which LogNumbered and
DeliveryInductive support. PlanOK lists, per kind of request and place in its
handler, the rows it has still to append; EndsOK, NotesOK and BannerOK then say of an
end, a note or a phase that was written that the log tells it, that a request under way
has it in its plan, or that the request is in `excuse`. ExcusesOK is what makes a
refusal harmless: a request that waits with a number already taken is excused since
the INSERT that took it. OneNote says that completions which do not overlap append one
note, since the item is completed before its note is there (NotesOK), and so the next
completion looks for it first.

*Departures.* What is published between the replay and the registration is lost
to that browser; what a full queue dropped is not replayed by a later "since",
against docs/architecture.md:275; an event with an earlier time stamp that is
stored later is not replayed; the browser's own reconnection repeats an old
"since". A full queue, or a registration after the drain, gets no signal. A halt,
close or report that lost its number, or died, is never told of afterwards.

## Board and Accounts

Board: `project`, `members`, `item`, `deps`, `child` (notes and comments), `row`
and `disk` (attachments and their files) are the tables; `call` the calls being
served. The actions of an operation share its name: AskAddBlocker,
AddReadItem, AddReadBlocker, AddExisting, AddWalk, AddInsert and so on for
create, update, claim, delete, share, unshare, post, upload and the rest, one for
each statement. Restart ends all calls and runs the start-up sweep of crossing
blockers. Of an item's columns those are kept that some call decides on.

Accounts adds users, invites, reset links, keys, and the requests of auth_routes
and admin_routes. Registration and the use of a link are the two requests with
a transaction; their writes show at the commit, and FOR UPDATE keeps the row
until then. (The SQLite pool of local mode has neither and is left out.) A call
of a deleted user is refused when it is new, and by the foreign keys when it
inserts (InsertRefused). Of the table of events only is kept what the accounts
depend on: `told`, the users its rows name, and `telling`, the calls that have
written and not yet published (Publishes says after which statement a call does, and
Publish is the INSERT, best effort and refused for a user who is gone).

*Properties* (run board): Coherent (rows refer to rows there are, whatever is
deleted meanwhile), FilesMatchRows (an attachment has row and file or neither,
or a call is still at it), RulesAreRaced (cycles of blockers, blockers across
projects and workspaces without a repository come only of calls that overlapped,
or of a later move), UndisturbedUpdatesStand (an update or a claim writes to a
row it would still accept unless another call wrote meanwhile), AccountsInv (an
invite admits one user, an address has one account, an administrator remains),
CredentialsKept (used invites stay, links set a password once, passwords change
for one who knew them), HalfDeletionsAreExcused (a deletion that stops half-way
does so for a named reason: a run or a rollout, the invite the user came by, or a row
that names the user and was written meanwhile, among them the event of any call).

*Bounds.* Three items are the least for a cycle that two calls close, two
projects for a crossing edge, two callers for any race and three calls for a
prior change to be raced; three users are two who register and one who revokes.
Twenty mixes, 385 183 distinct states. One restart. Calls publish in the mixes
that hold "publish", the two in which calls of a user are served while that user is
deleted; elsewhere nothing depends on the events. The five mixes in Ending (a
user deleted meanwhile, an administrator made, keys changed) begin with
whichever rights and keys there may be and ask for two calls only.

*Fairness.* None: only safety is asked. Deadlock is not checked, as a board
whose calls are used up is idle.

*Proofs.* `Board_proofs` proves of AccountsSpec, which is the board together with
the accounts, for any users, projects, items, callers and mixes:

- BoardInductive: BoardInv, the types of the rows and of the locals of every
  call, and Coherent. The locals are part of it because a statement writes what
  an earlier one read: that an INSERT refers to an item, or that a purge deletes
  edges, is known only of locals that have their type.
- BoardCoherent: Coherent.
- FilesKept: FilesMatchRows, from BoardInv and FilesOK, which adds what the calls
  on attachments rely on: the id of an upload is nobody else's until its row is
  there, an item that a deletion has found is there or gone for good, and a
  deletion about to delete a row has deleted its file. TLC checks this with two
  calls at a time, the theorem is for any number.

- RulesInductive, RulesKept and UpdatesStand: RulesAreRaced and
  UndisturbedUpdatesStand. RulesInv says of a call between its check and its
  write that what it read is still so, or that `late` has what was written
  over it since (`AddOK`, `UpdateOK`, `SettingOK`); every write of one call is seen
  by all others (RowWriteSeen). A cycle is a set of edges each of which another
  follows, so no induction over paths is needed: the edges of a new cycle that
  begin where the walk of add_blocker has been form a cycle that was there
  before, or one of them was written during the call.

`Accounts_proofs` proves of the same specification, from BoardAssumption and
AccountsAssumption, for any number of requests at the same time:

- AccountsInductive: AccountsKeep, which has for each kind of request what it relies
  on between the statement that checks and the one that writes. A registration past
  SELECT FOR UPDATE has the invite to itself (`RegisterOK`), a reset its link
  (`ResetOK`); a password that was verified and an invite that was found unused are
  so still, or were overtaken (`PasswordOK`, `RevokeOK`); who deletes is an
  administrator, and there unless deleted by another (`DeleterOK`); and what a
  deletion has counted or deleted is not there, but for rows written since
  (`SweepOK`, and `EventsOK` for the events). One lemma for each of the tables says
  how a request may move a row of it (AccountMoves, InviteMoves, LinkMoves,
  KeyMoves), and the steps of the board are related by what they insert for a user
  (BoardSweeps).
- AccountsCorrect (AccountsInv), CredentialsStay (CredentialsKept) and
  DeletionsExcused (HalfDeletionsAreExcused) follow.

TLC checks these with two requests at a time; every safety property of run
board is proved. The lemmas follow the operations, once for the locals, once for
the rows and once for the files.

*Departures.* Two claims that both read the item unassigned both succeed, where
services/item_service.py:562 says "Atomically claim", and two updates with the same expected version too; two add_blocker calls close a cycle.
revoke_invite may delete an invite that was used after it read it
(routes/admin_routes.py:129-134). delete_user deletes table by table, and its last
statement is refused for a user who came by an invite that is still there, has a
run or a rollout, or wrote a row meanwhile; an event that a call of this user
publishes after the events were deleted (:217) is enough. The account stays without
its keys, notes and comments (:213-221). Two administrators who delete each other leave
none. change_password verifies against the row that authentication read. The
expiry of a link is compared with a time taken before the lock was waited for.

## What is proved and what is only checked

Proved by TLAPS, for every value of the constants: every safety property of the
passing runs but ClosedIsDone, by the theorems described above. Some have a
hypothesis on a switch of the model: OrderKept, ImplementsContract (of Rollout) and
StoppedIsQuiet that nothing is resumed, StoppedIsQuiet and NoneWaitsInVain that no
request stops half-way, NoneWaitsInVain that nothing is halted or cancelled,
HealRepairs that requests do not overlap, RunningIsOwned that no statement of a task
fails. It is then the one under which the run checks the property, and the section
says what the code does without it. The other theorems assume only what the modules'
ASSUMEs say of the constants.

Model-checked on the instances described: ClosedIsDone; all liveness (RunningEnds,
SignalledStreamsEnd and the other properties under fairness), which the provers
cannot reason about; and the models' algorithms against their reference definitions
where no theorem is named above.

## Not modelled

- *MCP server and backends* (`mcp_server.py`, `mcp_backend.py`, `mcp_http.py`): they
  translate tool calls into service or HTTP calls and format the answers. Whether a
  created run is enqueued is the only protocol there, and RunLifecycle has it.
- *Command line client* (`cli.py`, `cli_commands/`) and the *frontend* views: they
  format requests and answers; the reconnecting event hook is in EventStream.
- *Migrations and SQL adaptation* (`database.py`, `sqlite_pool.py`, `db_types.py`):
  run before requests are served. Keys, cascades and uniqueness enter the models
  where a handler meets them.
- *Login and token expiry, the listings, free-text fields, key-value settings,
  local mode's single user*: reads, or writes no rule depends on.
- *The manager* of a rollout and the *dispatch hosts* are other programs; the
  models assume of them what each section says.
