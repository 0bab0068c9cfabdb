---------------------------- MODULE RunLifecycle ----------------------------
(***************************************************************************)
(* The life of a dispatch run: one row of claude_runs, the asyncio task    *)
(* that hands it to a dispatch host and polls it, the requests that create *)
(* and cancel it, the reaper, and the reconciliation after a restart.      *)
(*                                                                         *)
(* The board is one process and one event loop, so code runs atomically    *)
(* between two awaits; every action below is one such stretch, ending at   *)
(* the database statement or the HTTP call that the coroutine suspends on. *)
(* No handler opens a transaction, so rows may change at every await.      *)
(*                                                                         *)
(* The dispatch host is another program (agent-gtd-dispatch).  It is       *)
(* modelled as the board sees it: it accepts or refuses a run, drives the  *)
(* agent to an end, obeys or misses a cancel, may lose its records, and    *)
(* may be unreachable at any single call.                                  *)
(***************************************************************************)
EXTENDS Naturals, FiniteSets

CONSTANTS
  Run,                \* ids of claude_runs rows
  Item,               \* ids of items
  Host,               \* dispatch hosts
  NoHost,             \* no host recorded
  ItemOf,             \* [Run -> Item]: the item a run works on
  ModeOf,             \* [Run -> {"build", "plan", "manage"}]
  Pinned,             \* runs with a dispatch_host_id: no 503 retry
  MaxRestarts,        \* bound: restarts of the board process
  Cancels,            \* runs that operators may cancel
  DbFaults            \* runs whose task may die of its own database call

ASSUME RunAssumption ==
  /\ NoHost \notin Host
  /\ ItemOf \in [Run -> Item]
  /\ ModeOf \in [Run -> {"build", "plan", "manage"}]
  /\ Pinned \subseteq Run
  /\ MaxRestarts \in Nat
  /\ Cancels \subseteq Run
  /\ DbFaults \subseteq Run

VARIABLES
  status,   \* [Run -> Status], claude_runs.status
  handle,   \* [Run -> host], remote_run_id together with dispatch_host_url
  age,      \* [Run -> 0..2], time since created_at (pending) or started_at
  creator,  \* [Run -> CreatorPc], the create_run request of each run
  stale,    \* [Run -> SUBSET Run], rows that request still has to reap
  pc,       \* [Run -> WorkerPc], the _process_run or _resume_polling task
  picked,   \* [Run -> host], selected_host of that task
  excluded, \* [Run -> SUBSET Host], excluded_urls of that task
  result,   \* [Run -> RemoteEnd \cup {"none"}], the terminal poll it holds
  cpc,      \* [Run -> {"idle", "read", "forward"}], the cancel_run request
  chandle,  \* [Run -> host], the handle in the row that request read
  rtodo,    \* SUBSET Run, candidates left in the reaper's pass
  rlate,    \* SUBSET Run, those past their timeout when the pass started
  rverdict, \* [Run -> Outcome \cup {"none"}], what the reaper will write
  phase,    \* "up", "down" or "boot", the board process
  btodo,    \* SUBSET Run, rows reconcile_active_runs has yet to visit
  restarts, \* number of stops so far, bounded by MaxRestarts
  remote,   \* [Run -> RemoteState], the agent process on the host
  rhost,    \* [Run -> host], the host it runs on
  launches, \* [Run -> Nat], how many hosts accepted the run
  forgotten,\* [Run -> BOOLEAN], the host lost its record of the run
  criteria, \* [Run -> BOOLEAN], the run's item has acceptance criteria

  (* History: written by the actions, read by the properties alone. *)
  unread,   \* SUBSET Run, whose success passed the gate with the item unread
  raced     \* SUBSET Run, overtaken between check and INSERT, or launched ended

rowVars     == <<status, handle, age>>
creatorVars == <<creator, stale>>
workerVars  == <<pc, picked, excluded, result>>
cancelVars  == <<cpc, chandle>>
reaperVars  == <<rtodo, rlate, rverdict>>
procVars    == <<phase, btodo, restarts>>
remoteVars  == <<remote, rhost, launches, forgotten, criteria>>
historyVars == <<unread, raced>>
vars == <<rowVars, creatorVars, workerVars, cancelVars, reaperVars, procVars,
          remoteVars, historyVars>>

-----------------------------------------------------------------------------
Outcome   == {"success", "failed", "timeout", "cancelled"}
Active    == {"pending", "running"}  \* "cloning" is legacy: never written
Status    == {"absent"} \cup Active \cup Outcome
RemoteEnd == {"succeeded", "failed", "timed_out", "cancelled"}
CreatorPc == {"idle", "reap", "inserted", "done"}
Unlaunched == {"queued", "start", "route", "post"}  \* no host has the run yet
WorkerPc  == Unlaunched
             \cup {"none", "accepted", "undo", "record", "launch", "poll"}
SomeHost  == Host \cup {NoHost}

TypeOK ==
  /\ status \in [Run -> Status]
  /\ handle \in [Run -> SomeHost]
  /\ age \in [Run -> 0..2]
  /\ creator \in [Run -> CreatorPc]
  /\ stale \in [Run -> SUBSET Run]
  /\ pc \in [Run -> WorkerPc]
  /\ picked \in [Run -> SomeHost]
  /\ excluded \in [Run -> SUBSET SomeHost]
  /\ result \in [Run -> RemoteEnd \cup {"none"}]
  /\ cpc \in [Run -> {"idle", "read", "forward"}]
  /\ chandle \in [Run -> SomeHost]
  /\ rtodo \subseteq Run
  /\ rlate \subseteq Run
  /\ rverdict \in [Run -> Outcome \cup {"none"}]
  /\ phase \in {"up", "down", "boot"}
  /\ btodo \subseteq Run
  /\ restarts \in 0..MaxRestarts
  /\ remote \in [Run -> RemoteEnd \cup {"none", "active"}]
  /\ rhost \in [Run -> SomeHost]
  /\ launches \in [Run -> Nat]
  /\ forgotten \in [Run -> BOOLEAN]
  /\ criteria \in [Run -> BOOLEAN]
  /\ unread \subseteq Run
  /\ raced \subseteq Run

Init ==
  /\ status = [r \in Run |-> "absent"]
  /\ handle = [r \in Run |-> NoHost]
  /\ age = [r \in Run |-> 0]
  /\ creator = [r \in Run |-> "idle"]
  /\ stale = [r \in Run |-> {}]
  /\ pc = [r \in Run |-> "none"]
  /\ picked = [r \in Run |-> NoHost]
  /\ excluded = [r \in Run |-> {}]
  /\ result = [r \in Run |-> "none"]
  /\ cpc = [r \in Run |-> "idle"]
  /\ chandle = [r \in Run |-> NoHost]
  /\ rtodo = {}
  /\ rlate = {}
  /\ rverdict = [r \in Run |-> "none"]
  /\ phase = "up"
  /\ btodo = {}
  /\ restarts = 0
  /\ remote = [r \in Run |-> "none"]
  /\ rhost = [r \in Run |-> NoHost]
  /\ launches = [r \in Run |-> 0]
  /\ forgotten = [r \in Run |-> FALSE]
  /\ criteria = [r \in Run |-> FALSE]
  /\ unread = {}
  /\ raced = {}

-----------------------------------------------------------------------------
(* Helpers *)

\* Definitions named Mutant... are plausible bugs; each stands before the one
\* it would replace, nothing uses them, and the README says what they break.
MutantFromRemoteLenient(e)  == IF e = "failed" THEN "failed" ELSE "success"

\* LocalRunStatus.from_remote on the terminal statuses; already_satisfied is
\* folded into succeeded, as both become SUCCESS.
FromRemote(e) == CASE e = "succeeded" -> "success"
                   [] e = "failed"    -> "failed"
                   [] e = "timed_out" -> "timeout"
                   [] e = "cancelled" -> "cancelled"

MutantGated(r, s, readable) == s

\* _plan_success_gate: a plan run's success is downgraded unless its item has
\* acceptance criteria by now.  The item is read afresh; if it is gone, or the
\* read raises, the success stands.
Gated(r, s, readable) ==
  IF ModeOf[r] = "plan" /\ s = "success" /\ readable /\ ~criteria[r]
  THEN "failed" ELSE s

\* _is_stale_pending_run
IsStalePending(r) == status[r] = "pending" /\ handle[r] = NoHost /\ age[r] >= 1

MutantActiveRunsOf(i) ==
  {q \in Run : ItemOf[q] = i /\ ModeOf[q] # "manage" /\ status[q] = "running"}

\* The active rows of item i: manage runs have a NULL item_id, never selected.
ActiveRunsOf(i) ==
  {q \in Run : ItemOf[q] = i /\ ModeOf[q] # "manage" /\ status[q] \in Active}

\* GET /runs/{id} on host h: 404 unless h still has a record of the run.
HostKnows(r, h) == h # NoHost /\ rhost[r] = h /\ ~forgotten[r]

\* POST /runs/{id}/cancel on host h, when it takes effect.
CancelledOn(r, h) ==
  IF HostKnows(r, h) /\ remote[r] = "active"
  THEN [remote EXCEPT ![r] = "cancelled"] ELSE remote

\* _update_run(status=s): UPDATE ... WHERE id = r, whatever the row holds now.
WriteStatus(r, s) == status' = [status EXCEPT ![r] = s]

\* The outcome s passes the gate, which may fail to read the item, and is
\* written.
WriteGated(r, s) ==
  \E readable \in BOOLEAN :
    /\ readable \/ (ModeOf[r] = "plan" /\ s = "success")
    /\ WriteStatus(r, Gated(r, s, readable))
    /\ unread' = IF readable THEN unread ELSE unread \cup {r}

\* The task of run r moves on, or ends and drops its locals.
Goto(r, next) == pc' = [pc EXCEPT ![r] = next]
EndTask(r) ==
  /\ Goto(r, "none")
  /\ picked' = [picked EXCEPT ![r] = NoHost]
  /\ excluded' = [excluded EXCEPT ![r] = {}]
  /\ result' = [result EXCEPT ![r] = "none"]

-----------------------------------------------------------------------------
(* Creating a run: dispatch_service.create_run and the routes that enqueue *)

\* The SELECT of active rows.  A non-stale one refuses the dispatch.
CreateCheck(r) ==
  /\ phase = "up" /\ ModeOf[r] # "manage"
  /\ status[r] = "absent" /\ creator[r] = "idle"
  /\ \A q \in ActiveRunsOf(ItemOf[r]) : IsStalePending(q)
  /\ creator' = [creator EXCEPT ![r] = "reap"]
  /\ stale' = [stale EXCEPT ![r] = ActiveRunsOf(ItemOf[r])]
  /\ raced' = raced \ {r}
  /\ UNCHANGED <<rowVars, workerVars, cancelVars, reaperVars, procVars, remoteVars,
                 unread>>

\* Reap one stale row: an UPDATE guarded by status and remote_run_id, then a
\* re-read; unless the row reads 'failed' the dispatch is refused.  The two
\* statements are one action: whoever changes q between them leaves the same
\* row, and the same refusal, as by changing it just before the first.
CreateReap(r, q) ==
  /\ creator[r] = "reap" /\ q \in stale[r]
  /\ LET hit   == status[q] = "pending" /\ handle[q] = NoHost
         after == IF hit THEN "failed" ELSE status[q]
     IN /\ WriteStatus(q, after)
        /\ IF after = "failed"
           THEN /\ stale' = [stale EXCEPT ![r] = @ \ {q}]
                /\ UNCHANGED creator
           ELSE /\ stale' = [stale EXCEPT ![r] = {}]
                /\ creator' = [creator EXCEPT ![r] = "idle"]
  /\ UNCHANGED <<handle, age, workerVars, cancelVars, reaperVars, procVars,
                 remoteVars, historyVars>>

\* Unresolved blockers, a rollout that is not running, a draining pin: refused
\* after the reaping and before the row exists.
CreateRefused(r) ==
  /\ creator[r] = "reap" /\ stale[r] = {}
  /\ creator' = [creator EXCEPT ![r] = "idle"]
  /\ UNCHANGED <<rowVars, stale, workerVars, cancelVars, reaperVars, procVars,
                 remoteVars, historyVars>>

\* Dispatches of the same item that are past their check and have no row yet.
Overtakes(r) ==
  {q \in Run \ {r} : /\ creator[q] = "reap" /\ ItemOf[q] = ItemOf[r]
                     /\ ModeOf[r] # "manage"}

InsertPending(r) ==
  /\ WriteStatus(r, "pending")
  /\ age' = [age EXCEPT ![r] = 0]
  /\ creator' = [creator EXCEPT ![r] = "inserted"]
  /\ raced' = raced \cup Overtakes(r)
  /\ UNCHANGED <<handle, stale, workerVars, cancelVars, reaperVars, procVars,
                 remoteVars, unread>>

CreateInsert(r) ==
  creator[r] = "reap" /\ stale[r] = {} /\ InsertPending(r)

\* _create_manage_run: no item, hence no check for an active run.
CreateManageInsert(r) ==
  /\ phase = "up" /\ ModeOf[r] = "manage"
  /\ status[r] = "absent" /\ creator[r] = "idle"
  /\ InsertPending(r)

\* An exception after the INSERT marks the row failed, if still pending.
CreateSetupFails(r) ==
  /\ creator[r] = "inserted"
  /\ WriteStatus(r, IF status[r] = "pending" THEN "failed" ELSE status[r])
  /\ creator' = [creator EXCEPT ![r] = "done"]
  /\ UNCHANGED <<handle, age, stale, workerVars, cancelVars, reaperVars, procVars,
                 remoteVars, historyVars>>

\* enqueue_run by the route.  The queue is unbounded and dispatch_worker never
\* waits on a run, so being queued is a state of the run's own task.
Enqueue(r) ==
  /\ creator[r] = "inserted"
  /\ creator' = [creator EXCEPT ![r] = "done"]
  /\ Goto(r, "queued")
  /\ UNCHANGED <<rowVars, stale, picked, excluded, result, cancelVars, reaperVars,
                 procVars, remoteVars, historyVars>>

\* No one enqueues: the stdio MCP backend, or start_rollout refusing after the
\* manage run was inserted.
NeverEnqueued(r) ==
  /\ creator[r] = "inserted"
  /\ creator' = [creator EXCEPT ![r] = "done"]
  /\ UNCHANGED <<rowVars, stale, workerVars, cancelVars, reaperVars, procVars,
                 remoteVars, historyVars>>

-----------------------------------------------------------------------------
(* The task of a run: dispatch_worker._process_run and execute_run *)

\* UNCHANGED for a step that touches the row and the task only.
OthersFrame == UNCHANGED <<creatorVars, cancelVars, reaperVars, procVars, remoteVars>>
TaskFrame == OthersFrame /\ UNCHANGED historyVars

\* A step that ends the task with an unguarded _update_run(status=s).
EndWith(r, s) ==
  /\ WriteStatus(r, s)
  /\ EndTask(r)
  /\ UNCHANGED <<handle, age>>
  /\ TaskFrame

\* The row is read; only a pending run is executed.
ProcessRun(r) ==
  /\ pc[r] = "queued"
  /\ IF status[r] = "pending"
     THEN Goto(r, "start") /\ UNCHANGED <<picked, excluded, result>>
     ELSE EndTask(r)
  /\ UNCHANGED rowVars /\ TaskFrame

\* The item or project cannot be read, or (at "route") a pinned host is gone:
\* NotFoundError is only logged by _process_run and the row stays pending.
LookupFails(r) ==
  /\ pc[r] = "start" \/ (pc[r] = "route" /\ r \in Pinned)
  /\ EndTask(r)
  /\ UNCHANGED rowVars /\ TaskFrame

\* resolve_engine raises ValueError: _fail_run, before the status is re-read.
EngineUnresolved(r) == pc[r] = "start" /\ EndWith(r, "failed")

MutantCheckBeforeRouting(r) ==
  /\ pc[r] = "start"
  /\ Goto(r, "route") /\ UNCHANGED <<picked, excluded, result>>
  /\ UNCHANGED rowVars /\ TaskFrame

\* status_now: a run cancelled while it was queued is not launched.
CheckBeforeRouting(r) ==
  /\ pc[r] = "start"
  /\ IF status[r] = "pending"
     THEN Goto(r, "route") /\ UNCHANGED <<picked, excluded, result>>
     ELSE EndTask(r)
  /\ UNCHANGED rowVars /\ TaskFrame

\* No hosts configured, or pick_dispatch_host refuses: _fail_run.
RouteRefused(r) == pc[r] = "route" /\ EndWith(r, "failed")

\* pick_dispatch_host returns a host outside excluded_urls.
PickHost(r) ==
  /\ pc[r] = "route"
  /\ \E h \in Host \ excluded[r] : picked' = [picked EXCEPT ![r] = h]
  /\ Goto(r, "post")
  /\ UNCHANGED <<rowVars, excluded, result>> /\ TaskFrame

\* 503 on an auto-routed run: exclude the host and route again.
PostFull(r) ==
  /\ pc[r] = "post" /\ r \notin Pinned
  /\ excluded' = [excluded EXCEPT ![r] = @ \cup {picked[r]}]
  /\ Goto(r, "route")
  /\ UNCHANGED <<rowVars, picked, result>> /\ TaskFrame

\* 409 on a manage run: a loop already drives the rollout; nothing started.
PostConflict(r) ==
  pc[r] = "post" /\ ModeOf[r] = "manage" /\ EndWith(r, "cancelled")

\* Any other error before the host took the run: _fail_run.
PostRefused(r) == pc[r] = "post" /\ EndWith(r, "failed")

\* The host takes the run.  Its answer is still to come.
PostAccepted(r) ==
  /\ pc[r] = "post"
  /\ remote' = [remote EXCEPT ![r] = "active"]
  /\ rhost' = [rhost EXCEPT ![r] = picked[r]]
  /\ launches' = [launches EXCEPT ![r] = @ + 1]
  /\ Goto(r, "accepted")
  /\ UNCHANGED <<rowVars, picked, excluded, result, creatorVars, cancelVars,
                 reaperVars, procVars, forgotten, criteria, historyVars>>

MutantPostReplyLost(r) ==
  /\ pc[r] = "accepted"
  /\ excluded' = [excluded EXCEPT ![r] = @ \cup {picked[r]}]
  /\ Goto(r, "route")
  /\ UNCHANGED <<rowVars, picked, result>> /\ TaskFrame

\* The answer is lost (30s timeout, broken body): _fail_run, though the agent
\* is running; there is no retry on another host.
PostReplyLost(r) == pc[r] = "accepted" /\ EndWith(r, "failed")

\* The answer arrives and the status is read again.
CheckAfterPost(r) ==
  /\ pc[r] = "accepted"
  /\ Goto(r, IF status[r] = "cancelled" THEN "undo" ELSE "launch")
  /\ UNCHANGED <<rowVars, picked, excluded, result>> /\ TaskFrame

\* Cancelled during routing: stop it on the host (errors are only logged) ...
UndoLaunch(r) ==
  /\ pc[r] = "undo"
  /\ remote' \in {remote, CancelledOn(r, picked[r])}
  /\ Goto(r, "record")
  /\ UNCHANGED <<rowVars, picked, excluded, result, creatorVars, cancelVars,
                 reaperVars, procVars, rhost, launches, forgotten, criteria, historyVars>>

\* ... and record where it went, leaving the status alone.
RecordUndone(r) ==
  /\ pc[r] = "record"
  /\ handle' = [handle EXCEPT ![r] = picked[r]]
  /\ EndTask(r)
  /\ UNCHANGED <<status, age>> /\ TaskFrame

MutantMarkRunning(r) ==
  /\ pc[r] = "launch"
  /\ WriteStatus(r, "running")
  /\ age' = [age EXCEPT ![r] = 0]
  /\ Goto(r, "poll")
  /\ raced' = IF status[r] \in Active THEN raced ELSE raced \cup {r}
  /\ UNCHANGED <<handle, picked, excluded, result, unread>> /\ OthersFrame

\* _update_run(status="running", started_at, remote_run_id, dispatch_host_url)
MarkRunning(r) ==
  /\ pc[r] = "launch"
  /\ WriteStatus(r, "running")
  /\ handle' = [handle EXCEPT ![r] = picked[r]]
  /\ age' = [age EXCEPT ![r] = 0]
  /\ Goto(r, "poll")
  /\ raced' = IF status[r] \in Active THEN raced ELSE raced \cup {r}
  /\ UNCHANGED <<picked, excluded, result, unread>> /\ OthersFrame

\* One poll that finds a terminal status.  Any other poll is retried for ever
\* and changes nothing; the row's own status is never looked at.
PollTerminal(r) ==
  /\ pc[r] = "poll" /\ result[r] = "none"
  /\ HostKnows(r, picked[r]) /\ remote[r] \in RemoteEnd
  /\ result' = [result EXCEPT ![r] = remote[r]]
  /\ UNCHANGED <<rowVars, pc, picked, excluded>> /\ TaskFrame

\* The terminal status is mapped, gated and written, whatever the row holds.
WriteResult(r) ==
  /\ pc[r] = "poll" /\ result[r] # "none"
  /\ WriteGated(r, FromRemote(result[r]))
  /\ EndTask(r)
  /\ UNCHANGED <<handle, age, raced>> /\ OthersFrame

\* A database call of the task itself raises: the task ends, nothing written.
\* The poll loop makes none.
TaskDies(r) ==
  /\ r \in DbFaults /\ pc[r] # "none" /\ ~(pc[r] = "poll" /\ result[r] = "none")
  /\ EndTask(r)
  /\ UNCHANGED rowVars /\ TaskFrame

-----------------------------------------------------------------------------
(* Cancelling a run: dispatch_service.cancel_run, cancel_run_and_forward *)

CancelRead(r) ==
  /\ r \in Cancels /\ phase = "up" /\ cpc[r] = "idle" /\ status[r] \in Active
  /\ cpc' = [cpc EXCEPT ![r] = "read"]
  /\ chandle' = [chandle EXCEPT ![r] = handle[r]]
  /\ UNCHANGED <<rowVars, creatorVars, workerVars, reaperVars, procVars,
                 remoteVars, historyVars>>

\* Unguarded UPDATE; the forward goes to the handle that was READ, not to the
\* one the row holds by now.
CancelWrite(r) ==
  /\ cpc[r] = "read"
  /\ WriteStatus(r, "cancelled")
  /\ cpc' = [cpc EXCEPT ![r] = IF chandle[r] = NoHost THEN "idle" ELSE "forward"]
  /\ UNCHANGED <<handle, age, chandle, creatorVars, workerVars, reaperVars,
                 procVars, remoteVars, historyVars>>

\* Best effort: the host may be unreachable or no longer configured.
CancelForward(r) ==
  /\ cpc[r] = "forward"
  /\ remote' \in {remote, CancelledOn(r, chandle[r])}
  /\ cpc' = [cpc EXCEPT ![r] = "idle"]
  /\ UNCHANGED <<rowVars, chandle, creatorVars, workerVars, reaperVars, procVars,
                 rhost, launches, forgotten, criteria, historyVars>>

-----------------------------------------------------------------------------
(* The reaper: services/run_reaper.py.  Passes never overlap. *)

ReaperFrame ==
  UNCHANGED <<handle, age, creatorVars, workerVars, cancelVars, procVars,
              remoteVars, historyVars>>

MutantReaperSelect ==
  /\ phase = "up" /\ rtodo = {}
  /\ rtodo' = {r \in Run : status[r] = "running" /\ age[r] = 1}
  /\ rtodo' # {}
  /\ rlate' = {}
  /\ UNCHANGED <<status, rverdict>> /\ ReaperFrame

\* A pass selects the running rows past the grace window.
ReaperSelect ==
  /\ phase = "up" /\ rtodo = {}
  /\ rtodo' = {r \in Run : status[r] = "running" /\ age[r] >= 1}
  /\ rtodo' # {}
  /\ rlate' = {r \in rtodo' : age[r] = 2}
  /\ UNCHANGED <<status, rverdict>> /\ ReaperFrame

\* What one look at the run's host decides; "none" writes nothing.
ReaperDecision(r) ==
  CASE ~HostKnows(r, handle[r])  -> "failed"
    [] HostKnows(r, handle[r]) /\ remote[r] \in RemoteEnd -> FromRemote(remote[r])
    [] OTHER -> "none"

\* The host answers, or it cannot be reached or matched, which is fatal only
\* for a run past its timeout plus slack.
ReaperLook(r) ==
  /\ r \in rtodo /\ \A q \in Run : rverdict[q] = "none"
  /\ \E d \in (IF handle[r] # NoHost THEN {ReaperDecision(r)} ELSE {})
              \cup {IF r \in rlate THEN "timeout" ELSE "none"} :
       /\ rverdict' = [rverdict EXCEPT ![r] = d]
       /\ rtodo' = IF d = "none" THEN rtodo \ {r} ELSE rtodo
  /\ UNCHANGED <<status, rlate>> /\ ReaperFrame

MutantReaperWrite(r) ==
  /\ rverdict[r] # "none"
  /\ WriteStatus(r, rverdict[r])
  /\ rverdict' = [rverdict EXCEPT ![r] = "none"]
  /\ rtodo' = rtodo \ {r}
  /\ UNCHANGED rlate /\ ReaperFrame

\* _write_reaped: UPDATE ... AND status = 'running'
ReaperWrite(r) ==
  /\ rverdict[r] # "none"
  /\ WriteStatus(r, IF status[r] = "running" THEN rverdict[r] ELSE status[r])
  /\ rverdict' = [rverdict EXCEPT ![r] = "none"]
  /\ rtodo' = rtodo \ {r}
  /\ UNCHANGED rlate /\ ReaperFrame

-----------------------------------------------------------------------------
(* Stopping and starting the board: main.lifespan, reconcile_active_runs *)

\* The process stops and every task, request and queue entry is gone.  In a
\* shutdown the event loop cancels the tasks: one that is polling forwards a
\* cancel to its host (fwd: those that arrive) and tries to write 'cancelled'
\* (rec: those that succeed before the pool is closed).  A crash does neither.
Stop(fwd, rec) ==
  /\ phase # "down" /\ restarts < MaxRestarts
  /\ phase' = "down" /\ restarts' = restarts + 1 /\ btodo' = {}
  /\ remote' = [r \in Run |->
       IF r \in fwd /\ HostKnows(r, picked[r]) /\ remote[r] = "active"
       THEN "cancelled" ELSE remote[r]]
  /\ status' = [r \in Run |-> IF r \in rec THEN "cancelled" ELSE status[r]]
  /\ creator' = [r \in Run |->
       IF creator[r] \in {"inserted", "done"} THEN "done" ELSE "idle"]
  /\ stale' = [r \in Run |-> {}]
  /\ pc' = [r \in Run |-> "none"]
  /\ picked' = [r \in Run |-> NoHost]
  /\ excluded' = [r \in Run |-> {}]
  /\ result' = [r \in Run |-> "none"]
  /\ cpc' = [r \in Run |-> "idle"]
  /\ chandle' = [r \in Run |-> NoHost]
  /\ rtodo' = {} /\ rlate' = {}
  /\ rverdict' = [r \in Run |-> "none"]
  /\ UNCHANGED <<handle, age, rhost, launches, forgotten, criteria, historyVars>>

\* The tasks inside the poll loop, where CancelledError is handled.
Polling == {r \in Run : pc[r] = "poll" /\ result[r] = "none"}

\* lifespan start-up: the SELECT of the active rows.
Boot ==
  /\ phase = "down"
  /\ phase' = "boot"
  /\ btodo' = {r \in Run : status[r] \in Active}
  /\ UNCHANGED <<restarts, rowVars, creatorVars, workerVars, cancelVars,
                 reaperVars, remoteVars, historyVars>>

\* A row without a handle was never handed over; a host that is no longer
\* configured, or does not answer with a record of the run, fails it too.
ReconcileFail(r) ==
  /\ phase = "boot" /\ r \in btodo
  /\ WriteStatus(r, "failed")
  /\ btodo' = btodo \ {r}
  /\ UNCHANGED <<handle, age, phase, restarts, creatorVars, workerVars, cancelVars,
                 reaperVars, remoteVars, historyVars>>

\* The host reports an end: adopt it.
ReconcileAdopt(r) ==
  /\ phase = "boot" /\ r \in btodo
  /\ HostKnows(r, handle[r]) /\ remote[r] \in RemoteEnd
  /\ WriteGated(r, FromRemote(remote[r]))
  /\ btodo' = btodo \ {r}
  /\ UNCHANGED <<handle, age, phase, restarts, creatorVars, workerVars, cancelVars,
                 reaperVars, remoteVars, raced>>

MutantReconcileResume(r) ==
  /\ phase = "boot" /\ r \in btodo
  /\ HostKnows(r, handle[r]) /\ remote[r] = "active"
  /\ btodo' = btodo \ {r}
  /\ UNCHANGED <<rowVars, phase, restarts, creatorVars, workerVars, cancelVars,
                 reaperVars, remoteVars, historyVars>>

\* The agent is still at work: resume polling the recorded host.
ReconcileResume(r) ==
  /\ phase = "boot" /\ r \in btodo
  /\ HostKnows(r, handle[r]) /\ remote[r] = "active"
  /\ btodo' = btodo \ {r}
  /\ Goto(r, "poll")
  /\ picked' = [picked EXCEPT ![r] = handle[r]]
  /\ UNCHANGED <<rowVars, phase, restarts, excluded, result, creatorVars, cancelVars,
                 reaperVars, remoteVars, historyVars>>

\* Start-up is over: requests are served and the reaper loop begins.
BootDone ==
  /\ phase = "boot" /\ btodo = {}
  /\ phase' = "up"
  /\ UNCHANGED <<btodo, restarts, rowVars, creatorVars, workerVars, cancelVars,
                 reaperVars, remoteVars, historyVars>>

-----------------------------------------------------------------------------
(* The dispatch host and the clock *)

HostFrame == UNCHANGED <<rowVars, creatorVars, workerVars, cancelVars, reaperVars,
                         procVars, rhost, launches, historyVars>>

\* The agent ends; a plan agent may have written acceptance criteria or not.
\* People who edit the criteria later are left out.
RemoteFinish(r) ==
  /\ remote[r] = "active"
  /\ \E e \in {"succeeded", "failed", "timed_out"} :
       remote' = [remote EXCEPT ![r] = e]
  /\ \E wrote \in (IF ModeOf[r] = "plan" THEN BOOLEAN ELSE {FALSE}) :
       criteria' = [criteria EXCEPT ![r] = wrote]
  /\ UNCHANGED forgotten /\ HostFrame

\* The host loses its records (rebuilt, pruned); a live agent dies with it.
RemoteForgets(r) ==
  /\ remote[r] # "none" /\ ~forgotten[r]
  /\ forgotten' = [forgotten EXCEPT ![r] = TRUE]
  /\ remote' = [remote EXCEPT ![r] = IF @ = "active" THEN "failed" ELSE @]
  /\ UNCHANGED criteria /\ HostFrame

\* Time passes: age 1 is past 600s (STALE_PENDING_RUN_SECONDS and
\* REAPER_GRACE_SECONDS), age 2 past the run's timeout plus the reaper's slack.
Tick(r) ==
  /\ status[r] \in Active /\ age[r] < 2
  /\ age' = [age EXCEPT ![r] = @ + 1]
  /\ UNCHANGED <<status, handle, creatorVars, workerVars, cancelVars, reaperVars,
                 procVars, remoteVars, historyVars>>

-----------------------------------------------------------------------------
(* The specification *)

CreatorStep(r) ==
  \/ CreateRefused(r) \/ CreateInsert(r) \/ CreateSetupFails(r)
  \/ Enqueue(r) \/ NeverEnqueued(r)
  \/ \E q \in Run : CreateReap(r, q)

\* Everything the task of r does by itself, whatever its calls answer.
WorkerStep(r) ==
  \/ ProcessRun(r) \/ LookupFails(r) \/ EngineUnresolved(r) \/ CheckBeforeRouting(r)
  \/ RouteRefused(r) \/ PickHost(r)
  \/ PostFull(r) \/ PostConflict(r) \/ PostRefused(r) \/ PostAccepted(r)
  \/ PostReplyLost(r) \/ CheckAfterPost(r) \/ UndoLaunch(r) \/ RecordUndone(r)
  \/ MarkRunning(r) \/ PollTerminal(r) \/ WriteResult(r)

CancelStep(r) == CancelWrite(r) \/ CancelForward(r)
ReaperStep(r) == ReaperLook(r) \/ ReaperWrite(r)
BootStep ==
  \/ Boot \/ BootDone
  \/ \E r \in Run : ReconcileFail(r) \/ ReconcileAdopt(r) \/ ReconcileResume(r)

RunNext(r) ==
  \/ CreateCheck(r) \/ CreateManageInsert(r) \/ CreatorStep(r)
  \/ WorkerStep(r) \/ TaskDies(r)
  \/ CancelRead(r) \/ CancelStep(r)
  \/ ReaperStep(r)
  \/ RemoteFinish(r) \/ RemoteForgets(r) \/ Tick(r)

Next ==
  \/ \E r \in Run : RunNext(r)
  \/ ReaperSelect
  \/ BootStep
  \/ \E fwd, rec \in SUBSET Polling : Stop(fwd, rec)

\* Tasks, requests and the reaper loop keep running on the event loop, every
\* HTTP call has a timeout, a service manager restarts the board, an agent is
\* bounded by the host's own time limit, and time passes.
Fairness ==
  /\ \A r \in Run :
       /\ WF_vars(CreatorStep(r)) /\ WF_vars(WorkerStep(r)) /\ WF_vars(CancelStep(r))
       /\ WF_vars(ReaperStep(r)) /\ WF_vars(RemoteFinish(r)) /\ WF_vars(Tick(r))
  /\ WF_vars(ReaperSelect) /\ WF_vars(BootStep)

Spec == Init /\ [][Next]_vars /\ Fairness

-----------------------------------------------------------------------------
(* Safety *)

\* A running row names the host the agent really runs on, and a pending row
\* names none: the poller resumed after a restart, the reaper and a cancel all
\* trust remote_run_id and dispatch_host_url, and the stale-pending test trusts
\* that a pending row was never handed over.
HandleFollowsStatus ==
  \A r \in Run :
    /\ status[r] = "running" => handle[r] # NoHost
    /\ status[r] = "pending" => handle[r] = NoHost
    /\ handle[r] # NoHost => handle[r] = rhost[r]

\* No board run is ever accepted by two hosts, whatever the 503 retries, lost
\* answers, cancels, restarts and reaps: two agents would push to one branch.
SingleLaunch == \A r \in Run : launches[r] <= 1

\* A run is reported as a success only if its agent really succeeded, by
\* whichever of the poller, the reaper and the reconciliation wrote it.
SuccessIsEarned ==
  \A r \in Run : status[r] = "success" => remote[r] = "succeeded"

\* While the board is up every running run is polled by a live task, through
\* restarts too; otherwise only the reaper can end it.
RunningIsOwned ==
  phase = "up" =>
    \A r \in Run : status[r] = "running" => pc[r] = "poll"

\* create_run: "No other active run exists for this item".  Two board runs of
\* one item are both active only if one of them was overtaken, its check being
\* older than the other's row, or was launched although its row had ended
\* (cancelled, or reaped as stale, after its task last looked).
OneActiveUnlessRaced ==
  \A q, r \in Run :
    /\ q # r /\ ItemOf[q] = ItemOf[r]
    /\ "manage" \notin {ModeOf[q], ModeOf[r]}
    /\ status[q] \in Active /\ status[r] \in Active
    => q \in raced \/ r \in raced

\* What makes the three above inductive: a task that is routing has no agent
\* yet, one past the POST knows the agent's host, the only way into 'pending'
\* is the INSERT, and what was seen of a finished agent stays true.
RunInv(r) ==
  /\ creator[r] \in {"idle", "reap"} <=> status[r] = "absent"
  /\ creator[r] # "done" => pc[r] = "none" /\ launches[r] = 0
  /\ pc[r] \in Unlaunched => launches[r] = 0
  /\ launches[r] = 0 <=> remote[r] = "none"
  /\ launches[r] = 0 => handle[r] = NoHost
  /\ launches[r] <= 1
  /\ cpc[r] # "idle" \/ r \in btodo => status[r] # "absent"
  /\ pc[r] \in {"accepted", "undo", "record", "launch"} => launches[r] # 0
  /\ pc[r] \notin {"none", "poll"} => status[r] \notin {"running", "success"}
  /\ phase = "down" \/ r \in btodo => pc[r] = "none"
  /\ phase # "up" => creator[r] \in {"idle", "done"}
  /\ btodo # {} => phase = "boot"
  /\ pc[r] \in {"post", "accepted", "undo", "record", "launch"} => picked[r] # NoHost
  /\ pc[r] \in {"accepted", "undo", "record", "launch"} => picked[r] = rhost[r]
  /\ pc[r] \in {"undo", "record"} => status[r] # "pending"
  /\ status[r] = "running" => handle[r] # NoHost
  /\ status[r] = "pending" => handle[r] = NoHost
  /\ handle[r] # NoHost => handle[r] = rhost[r]
  /\ result[r] # "none" => result[r] = remote[r]
  /\ rverdict[r] = "success" => remote[r] = "succeeded"
  /\ status[r] = "success" => remote[r] = "succeeded"
IInv == TypeOK /\ \A r \in Run : RunInv(r)

(* Action and temporal safety *)

\* A run that reached a terminal state concurrently is never overwritten by
\* the reaper, although its decision is older than its write.
ReaperYields ==
  [][\A r \in Run :
       rverdict[r] # "none" /\ rverdict'[r] = "none" /\ phase' # "down"
       => status'[r] = status[r] \/ status[r] = "running"]_vars

\* A run that ended before its task came to route it is never launched, and
\* neither is one whose task is gone before it was.
Doomed(r) == /\ pc[r] \in {"none", "queued", "start"} /\ launches[r] = 0
             /\ status[r] \in Outcome
NeverLaunchedOnceEnded ==
  \A r \in Run : [](Doomed(r) => [](launches[r] = 0))

\* A plan run whose item has no acceptance criteria is reported as a success
\* only by the reaper, which adopts the outcome the host names, or by a poller
\* or a reconciliation that could not read the item.
UngatedIsExcused ==
  [][\A r \in Run :
       /\ ModeOf[r] = "plan" /\ ~criteria[r]
       /\ status[r] # "success" /\ status'[r] = "success"
       => r \in unread' \/ (rverdict[r] = "success" /\ rverdict'[r] = "none")]_vars

(* Liveness *)

\* A run at 'running' comes to an end although its poller may die, its host
\* may be unreachable, and the board may restart: what the reaper is for.
RunningEnds ==
  \A r \in Run : status[r] = "running" ~> status[r] \in Outcome

\* No item is stranded: over and over, every active run of the item is a stale
\* pending one, which the next dispatch reaps.
NoStrandedItem ==
  \A i \in Item : []<>(\A r \in ActiveRunsOf(i) : IsStalePending(r))

-----------------------------------------------------------------------------
(* The contract, and how this module's state shows it *)

Report(r) == CASE status[r] = "absent"  -> "absent"
               [] status[r] \in Active  -> "open"
               [] status[r] = "success" -> "success"
               [] OTHER                 -> "closed"
Work(r) == IF remote[r] \in {"none", "active", "succeeded"} THEN remote[r] ELSE "ended"

Contract == INSTANCE RunContract WITH
  report <- [r \in Run |-> Report(r)], work <- [r \in Run |-> Work(r)]

\* Every behaviour of the board is one of the contract: at most one launch,
\* truthful successes, and an end for every run that was launched.
ImplementsContract == Contract!Spec

=============================================================================
